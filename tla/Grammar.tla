------------------------------- MODULE Grammar -------------------------------
(* The language of docs/grammar.md, as sets: for a sequence of tokens and a  *)
(* rule, the codes of its derivations by that rule, none when there is none. *)
(* `c' is where the text stands: the kind of the class and of the function   *)
(* around it, which decide what "this", "super" and "return" may be; whether *)
(* it is in a local scope, and the names declared there so far.              *)
(* A reference for Parser, with the emissions of its productions; one        *)
(* superclass, as the compiler has it, where the document allows a list.     *)
EXTENDS Integers, SequencesExt

CONSTANT MaxArgs

Atom == {"true", "false", "nil", "number", "string"}
Rung == <<{"or"}, {"and"}, {"!=", "=="}, {">", ">=", "<", "<="}, {"-", "+"}, {"/", "*"}>>

Types(t) == [k \in DOMAIN t |-> t[k].type]
Before(t, k) == SubSeq(t, 1, k - 1)
After(t, k) == SubSeq(t, k + 1, Len(t))
Inside(t, from, to) == SubSeq(t, from + 1, to - 1)
Where(t, types) == {k \in DOMAIN t : t[k].type \in types}
Begins(t, types) == IsPrefix(types, Types(t))
Ends(t, types) == IsSuffix(types, Types(t))

(* What follows a fixed beginning, what a rule gives with code after it.     *)
Rest(t, types) == After(t, Len(types))
Then(codes, code) == {x \o code : x \in codes}
If(condition, codes) == IF condition THEN codes ELSE {}
Joined(left, code, right) == {l \o code \o r : l \in left, r \in right}

RECURSIVE Expression(_, _), Binary(_, _, _), Unary(_, _), Call(_, _), Primary(_, _),
          List(_, _), Declaration(_, _), Declarations(_, _), Statement(_, _, _),
          Methods(_, _)

(* assignment ::= ( call "." )? IDENTIFIER "=" assignment | logic_or         *)
Expression(t, c) ==
  UNION {Binary(t, c, 1),
         If(Begins(t, <<"identifier", "=">>),
            Then(Expression(After(t, 2), c), <<<<"SET">>>>)),
         UNION {If(Ends(Before(t, k), <<".", "identifier">>),
                   Then(Joined(Call(Before(t, k - 2), c), <<>>, Expression(After(t, k), c)),
                        <<<<"SET_PROPERTY">>>>)) : k \in Where(t, {"="}) \ 1 .. 3}}

(* logic_or down to factor.  The codes of "and" and "or" jump over all that  *)
(* is right of them; the others group to the left.                           *)
Binary(t, c, rung) ==
  IF rung > Len(Rung) THEN Unary(t, c)
  ELSE Binary(t, c, rung + 1) \union
       UNION {IF rung <= 2
              THEN Then(Joined(Binary(Before(t, k), c, rung + 1),
                               <<<<IF rung = 1 THEN "OR" ELSE "AND">>>>,
                               Binary(After(t, k), c, rung)), <<<<"END">>>>)
              ELSE Then(Joined(Binary(Before(t, k), c, rung), <<>>,
                               Binary(After(t, k), c, rung + 1)), <<<<t[k].type>>>>)
              : k \in Where(t, Rung[rung]) \ {1, Len(t)}}

Unary(t, c) ==
  UNION {Call(t, c),
         If(Begins(t, <<"-">>), Then(Unary(After(t, 1), c), <<<<"NEGATE">>>>)),
         If(Begins(t, <<"!">>), Then(Unary(After(t, 1), c), <<<<"NOT">>>>))}

(* arguments ::= expression ( "," expression )*, with the instruction that   *)
(* takes their number.                                                       *)
Arguments(t, c, instruction) ==
  IF t = <<>> THEN {<<<<instruction, 0>>>>}
  ELSE {Append(a.code, <<instruction, a.number>>) : a \in {b \in List(t, c) : b.number <= MaxArgs}}

List(t, c) ==
  {[code |-> x, number |-> 1] : x \in Expression(t, c)} \union
  UNION {{[code |-> a.code \o x, number |-> a.number + 1] :
            a \in List(Before(t, k), c), x \in Expression(After(t, k), c)} : k \in Where(t, {","})}

(* call ::= primary ( "(" arguments? ")" | "." IDENTIFIER )*.  A property    *)
(* that is called at once is an invocation.                                  *)
Call(t, c) ==
  Primary(t, c) \union
  If(Len(t) > 2 /\ Ends(t, <<".", "identifier">>),
     Then(Call(Before(t, Len(t) - 1), c), <<<<"GET_PROPERTY">>>>)) \union
  If(Ends(t, <<")">>),
     UNION {LET callee == Before(t, k)
                given  == Inside(t, k, Len(t))
            IN IF Types(callee) = <<"super", ".", "identifier">>
               THEN If(c.class = "subclass",
                       {<<<<"GET">>>> \o Front(x) \o <<<<"GET">>, Last(x)>> :
                          x \in Arguments(given, c, "SUPER_INVOKE")})
               ELSE IF Ends(callee, <<".", "identifier">>)
               THEN Joined(Call(Before(callee, Len(callee) - 1), c), <<>>,
                           Arguments(given, c, "INVOKE"))
               ELSE Joined(Call(callee, c), <<>>, Arguments(given, c, "CALL"))
            : k \in Where(t, {"("}) \ {1}})

Primary(t, c) ==
  UNION {If(Len(t) = 1 /\ Where(t, Atom) = {1}, {<<<<"CONSTANT">>>>}),
         If(Types(t) = <<"identifier">>, {<<<<"GET">>>>}),
         If(Types(t) = <<"this">> /\ c.class # "none", {<<<<"GET">>>>}),
         If(Types(t) = <<"super", ".", "identifier">> /\ c.class = "subclass",
            {<<<<"GET">>, <<"GET">>, <<"GET_SUPER">>>>}),
         If(Begins(t, <<"(">>) /\ Ends(t, <<")">>), Expression(Inside(t, 1, Len(t)), c))}

-----------------------------------------------------------------------------
ExpressionThen(t, c, code) == If(Ends(t, <<";">>), Then(Expression(Front(t), c), code))

(* What is declared in a local scope is not defined by an instruction.       *)
Defined(c) == IF c.local THEN <<>> ELSE <<<<"DEFINE">>>>
Scope(c, names) == [c EXCEPT !.local = TRUE, !.names = names]

Declares(t) == Len(t) > 1 /\ t[1].type \in {"var", "fun", "class"}
Known(t, c) == IF Declares(t) THEN [c EXCEPT !.names = @ \union {t[2].text}] ELSE c
Fresh(t, c) == c.local /\ Declares(t) => t[2].text \notin c.names

(* A variable is an identifier that is no property.                          *)
Mentions(t, name) ==
  \E k \in DOMAIN t : /\ t[k].type = "identifier" /\ t[k].text = name
                      /\ k > 1 => t[k - 1].type # "."

VarDeclaration(t, c) ==
  If(Begins(t, <<"var", "identifier">>),
     UNION {If(Types(t) = <<"var", "identifier", ";">>, {<<<<"CONSTANT">>>> \o Defined(c)}),
            If(/\ Begins(After(t, 2), <<"=">>)
               /\ c.local => ~ Mentions(After(t, 3), t[2].text),
               ExpressionThen(After(t, 3), c, Defined(c)))})

Braced(t, c) == If(Begins(t, <<"{">>) /\ Ends(t, <<"}">>), Declarations(Inside(t, 1, Len(t)), c))
Block(t, c) == Braced(t, Scope(c, {}))

Names(t) == {t[k].text : k \in Where(t, {"identifier"})}

Parameters(t) ==
  \/ t = <<>>
  \/ /\ Len(t) % 2 = 1 /\ Len(t) <= 2 * MaxArgs
     /\ \A k \in DOMAIN t : t[k].type = IF k % 2 = 1 THEN "identifier" ELSE ","
     /\ Cardinality(Names(t)) = (Len(t) + 1) \div 2       \* no name twice

(* function ::= IDENTIFIER "(" parameters? ")" block, without its name.      *)
Function(t, c, type) ==
  If(Begins(t, <<"(">>),
     UNION {LET parameters == Inside(t, 1, k)
                inner      == Scope([c EXCEPT !.type = type], Names(parameters))
            IN If(Parameters(parameters),
                  {<<<<"FUN">>>> \o x \o <<<<"CLOSURE", (k - 1) \div 2>>>> :
                     x \in Braced(After(t, k), inner)})
            : k \in Where(t, {")"})})

Methods(t, c) ==
  IF t = <<>> THEN {<<>>}
  ELSE If(Begins(t, <<"identifier">>),
          UNION {Joined(Function(Inside(t, 1, k + 1), c,
                                 IF t[1].text = <<"init">> THEN "initializer" ELSE "method"),
                        <<<<"METHOD">>>>, Methods(After(t, k), c))
                 : k \in Where(t, {"}"})})

ClassDeclaration(t, c) ==
  LET Body(s, kind) == If(Begins(s, <<"{">>) /\ Ends(s, <<"}">>),
                          Methods(Inside(s, 1, Len(s)), [c EXCEPT !.class = kind]))
      Plain   == <<"class", "identifier">>
      Derived == <<"class", "identifier", ":", "identifier">>
      Start   == <<<<"CLASS">>>> \o Defined(c)
  IN UNION {If(Begins(t, Plain),
               {Start \o <<<<"GET">>>> \o x \o <<<<"POP">>>> :
                  x \in Body(Rest(t, Plain), "class")}),
            If(Begins(t, Derived) /\ t[2].text # t[4].text,
               {Start \o <<<<"GET">>, <<"GET">>, <<"INHERIT">>, <<"GET">>>> \o x \o <<<<"POP">>>> :
                  x \in Body(Rest(t, Derived), "subclass")})}

Declaration(t, c) ==
  If(Fresh(t, c),
     UNION {If(Begins(t, <<"class">>), ClassDeclaration(t, c)),
            If(Begins(t, <<"fun", "identifier">>),
               Then(Function(After(t, 2), c, "function"), Defined(c))),
            VarDeclaration(t, c),
            Statement(t, c, FALSE)})

Declarations(t, c) ==
  IF t = <<>> THEN {<<>>}
  ELSE UNION {LET first == SubSeq(t, 1, k)
              IN Joined(Declaration(first, c), <<>>, Declarations(After(t, k), Known(first, c)))
              : k \in Where(t, {";", "}"})}

-----------------------------------------------------------------------------
ReturnStatement(t, c) ==
  If(c.type # "script",
     UNION {If(Types(t) = <<"return", ";">>, {<<<<"RETURN_NIL">>>>}),
            If(Begins(t, <<"return">>) /\ c.type # "initializer",
               ExpressionThen(After(t, 1), c, <<<<"RETURN">>>>))})

(* An "else" belongs to the nearest "if": before an "else" stands a          *)
(* statement that is `closed', that no "else" could go on with.              *)
IfStatement(t, c, closed) ==
  If(Begins(t, <<"if", "(">>),
     UNION {LET condition == Then(Expression(Inside(t, 2, k), c), <<<<"IF">>>>)
                Both(e) == Joined(Statement(Inside(t, k, e), c, TRUE), <<<<"ELSE">>>>,
                                  Statement(After(t, e), c, closed))
                branches == UNION {Both(e) : e \in {j \in Where(t, {"else"}) : j > k}} \union
                            If(~ closed, Statement(After(t, k), c, FALSE))
            IN Then(Joined(condition, <<>>, branches), <<<<"END">>>>)
            : k \in Where(t, {")"}) \ 1 .. 2})

WhileStatement(t, c, closed) ==
  If(Begins(t, <<"while", "(">>),
     UNION {Then(Joined(Expression(Inside(t, 2, k), c), <<<<"WHILE">>>>,
                        Statement(After(t, k), c, closed)), <<<<"END">>>>)
            : k \in Where(t, {")"}) \ 1 .. 2})

ForStatement(t, c, closed) ==
  LET Start(s) == UNION {If(Types(s) = <<";">>, {<<>>}), VarDeclaration(s, Scope(c, {})),
                         ExpressionThen(s, c, <<<<"POP">>>>)}
      Condition(s) == IF s = <<>> THEN {<<>>} ELSE Then(Expression(s, c), <<<<"WHILE">>>>)
      Increment(s) == IF s = <<>> THEN {<<>>}
                      ELSE {<<<<"STEP">>>> \o x \o <<<<"POP">>>> : x \in Expression(s, c)}
      Header(i, j, k) == Joined(Joined(Start(SubSeq(t, 3, i)), <<>>, Condition(Inside(t, i, j))),
                                <<>>, Increment(Inside(t, j, k)))
      Colons == Where(t, {";"})
  IN If(Begins(t, <<"for", "(">>),
        UNION {Then(Joined(Header(i, j, k), <<<<"BODY">>>>, Statement(After(t, k), c, closed)),
                    <<<<"END">>>>)
               : <<i, j, k>> \in {h \in Colons \X Colons \X Where(t, {")"}) :
                                   2 < h[1] /\ h[1] < h[2] /\ h[2] < h[3]}})

Statement(t, c, closed) ==
  UNION {ExpressionThen(t, c, <<<<"POP">>>>),
         If(Begins(t, <<"print">>), ExpressionThen(After(t, 1), c, <<<<"PRINT">>>>)),
         Block(t, c), ReturnStatement(t, c), IfStatement(t, c, closed),
         WhileStatement(t, c, closed), ForStatement(t, c, closed)}

(* Module ::= Decl* EOF                                                      *)
Module(t) ==
  Declarations(t, [class |-> "none", type |-> "script", local |-> FALSE, names |-> {}])
=============================================================================

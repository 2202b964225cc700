--------------------------- MODULE MCControlFlow ----------------------------
(* Programs of one or two statements: expressions of depth two, conditionals *)
(* and loops nested three deep, and some at the limits of the operands.  In  *)
(* the same run, but not in the same behaviours, code of all instructions    *)
(* is emitted and listed.                                                    *)
EXTENDS ControlFlow, Disassembler

T == [op |-> "lit", val |-> "true"]
F == [op |-> "lit", val |-> "false"]
N == [op |-> "lit", val |-> "nil"]
G == [op |-> "get", name |-> "g"]
H == [op |-> "get", name |-> "h"]
One == [op |-> "lit", val |-> "one"]

Not(e) == [op |-> "not", e |-> e]
Assign(e) == [op |-> "set", name |-> "g", e |-> e]
AssignH(e) == [op |-> "set", name |-> "h", e |-> e]
Atoms == {T, N, G, One}
Pairs(A, B) == [op : {"and", "or", "eq"}, a : A, b : B]
Effects == {Assign(Not(G)), AssignH(G)}
Plain == Atoms \union Effects \union Pairs(Atoms, Atoms)
Deep == Pairs(Effects \union {G}, Pairs({G}, {Assign(F)}))
          \union Pairs(Pairs({G}, {Assign(F)}), Effects \union {G})

Printing(e) == [op |-> "print", e |-> e]
Do(e) == [op |-> "expr", e |-> e]
Leaves == {Printing(G), Do(Assign(Not(G)))}
Conditions == {G, F, Assign(Not(G)), [op |-> "and", a |-> G, b |-> Assign(F)]}

Ifs(S) == [op : {"if"}, c : Conditions, then : S, else : S \union {none}]
Whiles(S) == [op : {"while"}, c : Conditions, body : S]
Fors(S) == [op : {"for"}, init : {none, Do(Assign(T))}, c : {none, G},
            inc : {none, Assign(Not(G))}, body : S]

Shallow == Ifs(Leaves) \union Whiles(Leaves) \union Fors(Leaves)
Outer(S) == [op : {"if"}, c : {G}, then : S, else : {none, Printing(G)}]
              \union [op : {"if"}, c : {Assign(Not(G))}, then : {Printing(G)}, else : S]
              \union Whiles(S) \union Fors(S)

(* Around the last constant: the name that is printed comes after n others.  *)
Uses(n) == FoldLeft(LAMBDA e, i : [op |-> "eq", a |-> e, b |-> H], G, [i \in 2 .. n |-> i])
AtLastConstant == {<<Do(Uses(n)), Printing(H)>> : n \in Base - 2 .. Base}

(* Around the longest jump: (true == ... == true) of so many bytes.          *)
RECURSIVE Equals(_)
Equals(n) == IF n = 1 THEN T
             ELSE [op |-> "eq", a |-> Equals(n \div 2), b |-> Equals(n - n \div 2)]
Sized(n) == IF n % 2 = 1 THEN Equals((n + 1) \div 2) ELSE Not(Equals(n \div 2))
Long == {Sized(n) : n \in UINT16_MAX - 20 .. UINT16_MAX + 1}
Jumping ==
  [op : {"if"}, c : {G}, then : {Do(e) : e \in Long}, else : {Printing(G)}]
    \union [op : {"while"}, c : {G}, body : {Do([op |-> "set", name |-> "g", e |-> e]) : e \in Long}]
    \union [op : {"if"}, c : {G}, then : {Printing(G)}, else : {Do(e) : e \in Long}]
    \union [op : {"for"}, init : {none}, c : {none, G}, inc : {Assign(e) : e \in Long},
            body : {Printing(G)}]
    \union {Printing(e) : e \in [op : {"and", "or"}, a : {G}, b : Long]}

MCPrograms ==
  AtLastConstant \union
  {<<Printing(e)>> : e \in Plain \union Deep}
    \union {<<s, Printing(G)>> : s \in Shallow \union Jumping}
    \union {<<s, Printing(G)>> : s \in Outer(Shallow) \union Outer(Outer(Shallow))}

VARIABLE part

codeVars == <<part, vars, emissionVars>>

CodeInit ==
  /\ EmissionInit
  /\ \/ part = "run" /\ Init
     \/ part = "list" /\ Start(<<>>, "nil")

CodeNext ==
  \/ part = "run" /\ Next /\ UNCHANGED <<part, emissionVars>>
  \/ part = "list" /\ EmissionNext /\ UNCHANGED <<part, vars>>

CodeSpec == CodeInit /\ [][CodeNext]_codeVars
=============================================================================

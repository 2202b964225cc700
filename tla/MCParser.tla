------------------------------ MODULE MCParser ------------------------------
EXTENDS Parser

(* Texts with a fixed beginning and end, every word of `words' between, up   *)
(* to `length' of them.                                                      *)
Text(before, words, length, after) ==
  [before |-> before, words |-> words, length |-> length, after |-> after]

Letters(characters) == {<<c>> : c \in characters}
Spaced(keywords) == {<<" ", k, " ">> : k \in keywords}

Function == <<"fun", " ", "a", "(">>
Class    == <<"class", " ", "a">>
Subclass == Class \o <<":", "b", "{", "init", "(", ")", "{">>
Condition(keyword) == <<keyword, "(", "a", ")">>

InScope == Letters({"a", ";", "{", "}"})
  \union {<<"var", " ", "a", ";">>, <<"var", " ", "a", "=">>, <<"b", ".">>,
          Function \o <<")", "{">>, Class \o <<"{", "}">>}

MCProfile == {
  \* characters and tokens
  Text(<<>>, Letters({"a", "print", "1", ".", "\"", "/", "\n", "@"}), 5, <<>>),
  \* precedence, association, assignment
  Text(<<>>, Letters({"a", "=", "-", "*", "."}), 6, <<";">>),
  Text(<<>>, Letters({"a", "(", ")", "==", "!"}) \union Spaced({"and", "or"}), 5, <<";">>),
  \* calls, arguments, parameters
  Text(<<"a", "(">>, Letters({"a", "(", ")", ",", "."}), 6, <<";">>),
  Text(Function, Letters({"a", "b", ",", ")"}), 6, <<"{", "var", " ", "a", ";", "}">>),
  \* statements one after the other, and errors between them
  Text(<<>>, Letters({"a", ";", "{", "}", "("}) \union Spaced({"print", "fun"}), 5, <<>>),
  Text(Condition("if"), Letters({"{", "}"}) \union Spaced({"else"}) \union
       {<<"a", ";">>, <<"var", " ", "a", ";">>, Condition("if"), Condition("while")}, 5, <<>>),
  Text(<<"for", "(">>, Letters({"a", ";", ")"}) \union {<<"var", " ", "a">>, <<"=", "1">>, <<"=", "a">>}, 6,
       <<"a", ";">>),
  \* names in scopes
  Text(<<"{">>, InScope, 4, <<"}">>),
  Text(<<"{", "var", " ", "a", ";", "{">>, InScope, 4, <<"}", "}">>),
  \* classes, methods and what may stand in them
  Text(Class, Letters({":", "a", "{", "}", ";"}) \union Spaced({"class"})
       \union {<<"b", "(", ")", "{", "}">>}, 5, <<"}">>),
  Text(Class \o <<"{">>, Letters({"a", "init", "(", ")", "{", "}", ","}), 5, <<"}">>),
  Text(Subclass, Letters({"this", ".", "a", ";"}) \union Spaced({"return"})
       \union {<<"super", ".">>, <<"(", ")">>}, 5, <<"}", "}">>),
  Text(Class \o <<"{", "init", "(", ")", "{">> \o Function \o <<")", "{">>,
       Letters({"1", "}", ";", "this", "super"}) \union Spaced({"return"}), 5, <<"}", "}">>)}
=============================================================================

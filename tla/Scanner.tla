------------------------------ MODULE Scanner ------------------------------
(* src/compiler/scanner.cc as operators on a source text: a sequence of      *)
(* characters, with NUL after its end.  A run of letters that matters as a   *)
(* whole, a keyword above all, is one character of Alpha: identifierType     *)
(* only tells the keywords from everything else.                             *)
EXTENDS Integers, SequencesExt

CONSTANTS Alpha, Keyword

ASSUME ScannerAssumption == Keyword \subseteq Alpha

NUL == "NUL"
Digit == {"1"}
Blank == {" ", "\n"}
Quote == "\""
Double == {"!", "=", "<", ">"}        \* the characters that may be followed by =
Single == {"(", ")", "{", "}", ";", ":", ",", ".", "-", "+", "/", "*"}

At(source, i) == IF i <= Len(source) THEN source[i] ELSE NUL

(* Where a loop that advances while the character is good stops.             *)
EndOf(source, i, Good(_)) ==
  Min({j \in i .. Len(source) + 1 : j > Len(source) \/ ~ Good(source[j])})

Newlines(source, i, j) == Cardinality({k \in i .. j - 1 : source[k] = "\n"})

(* A comment goes until the end of the line.                                 *)
skipWhitespace(source, from) ==
  LET skip[i \in from .. Len(source) + 1] ==
        IF At(source, i) \in Blank THEN skip[i + 1]
        ELSE IF At(source, i) = "/" /\ At(source, i + 1) = "/"
             THEN skip[EndOf(source, i, LAMBDA c : c # "\n")]
             ELSE i
  IN skip[from]

identifier(source, start) ==
  LET stop == EndOf(source, start + 1, LAMBDA c : c \in Alpha \union Digit)
      one  == stop = start + 1
  IN [type |-> IF one /\ source[start] \in Keyword THEN source[start] ELSE "identifier",
      stop |-> stop]

(* A dot belongs to the number only if a digit follows it.                   *)
number(source, start) ==
  LET IsDigit(c) == c \in Digit
      whole == EndOf(source, start + 1, IsDigit)
  IN [type |-> "number",
      stop |-> IF At(source, whole) = "." /\ At(source, whole + 1) \in Digit
               THEN EndOf(source, whole + 1, IsDigit) ELSE whole]

string(source, start) ==
  LET close == EndOf(source, start + 1, LAMBDA c : c # Quote)
  IN IF At(source, close) = NUL THEN [type |-> "error", stop |-> close]
                                ELSE [type |-> "string", stop |-> close + 1]

lexeme(source, start) ==
  LET c == At(source, start)
  IN CASE c = NUL      -> [type |-> "eof", stop |-> start]
       [] c \in Alpha  -> identifier(source, start)
       [] c \in Digit  -> number(source, start)
       [] c \in Single -> [type |-> c, stop |-> start + 1]
       [] c \in Double -> IF At(source, start + 1) = "="
                          THEN [type |-> c \o "=", stop |-> start + 2]
                          ELSE [type |-> c, stop |-> start + 1]
       [] c = Quote    -> string(source, start)
       [] OTHER        -> [type |-> "error", stop |-> start + 1]

scanToken_StringsOnOneLine(source, scanner) ==
  LET start == skipWhitespace(source, scanner.current)
      found == lexeme(source, start)
      line  == scanner.line + Newlines(source, scanner.current, start)
  IN [token   |-> [type |-> found.type, start |-> start, stop |-> found.stop, line |-> line],
      scanner |-> [current |-> found.stop, line |-> line]]

(* The next token and what the scanner is left with.  A string may span      *)
(* lines: its token is on the line where it ends.                            *)
scanToken(source, scanner) ==
  LET start == skipWhitespace(source, scanner.current)
      found == lexeme(source, start)
      line  == scanner.line + Newlines(source, scanner.current, found.stop)
  IN [token   |-> [type |-> found.type, start |-> start, stop |-> found.stop, line |-> line],
      scanner |-> [current |-> found.stop, line |-> line]]

initScanner == [current |-> 1, line |-> 1]

(* Every token of a source, eof last.                                        *)
Tokens(source) ==
  LET from[n \in 0 .. Len(source)] ==
        IF n = 0 THEN <<scanToken(source, initScanner)>>
        ELSE LET scanned == from[n - 1]
             IN IF Last(scanned).token.type = "eof" THEN scanned
                ELSE Append(scanned, scanToken(source, Last(scanned).scanner))
      all == from[Len(source)]
  IN [k \in DOMAIN all |-> all[k].token]
=============================================================================

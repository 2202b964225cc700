------------------------------- MODULE Intern -------------------------------
(* String interning, src/common/ysobject.cc: copyString and takeString over  *)
(* vm.strings.  The table keeps no string alive, any allocation may run the  *)
(* collector (atomic here: the Collect step of Heap), and a C local is not a *)
(* root.  The interpreter compares strings, and looks up names, by address.  *)
EXTENDS TableOps

CONSTANTS Chars,           \* the contents of strings
          HashString(_)    \* hashString

(* The keys are the addresses of strings.  A string has its characters, and  *)
(* the hash of them that its constructor was given.                          *)
ASSUME InternAssumption ==
  /\ \A c \in Chars : HashString(c) \in Nat
  /\ \A s \in Key : s.chars \in Chars /\ Hash(s) = HashString(s.chars)

VARIABLES heap,     \* the allocated strings
          roots,    \* the strings the program holds: stack, globals, constants
          strings,  \* vm.strings
          pc,       \* where copyString or takeString is
          chars,    \* its argument
          string    \* its C local: the result, or the string under construction

internVars == <<heap, roots, strings, pc, chars, string>>

InternInit ==
  /\ heap = {} /\ roots = {} /\ strings = initTable
  /\ pc = "idle" /\ chars = NULL /\ string = NULL

(* A probe of tableFindString stops at an equal string or an empty slot.     *)
FindStops(c) ==
  {d \in Slots(strings) :
     LET e == strings.entries[Probe(strings, HashString(c), d)]
     IN e = EmptyEntry \/ (e.key # NULL /\ e.key.chars = c)}

tableFindString(c) ==
  IF strings.count = 0 THEN NULL
  ELSE strings.entries[Probe(strings, HashString(c), Min(FindStops(c)))].key

(* What an allocation does: nothing, or a collection that keeps live.        *)
MayCollect(live) ==
  \/ UNCHANGED <<heap, strings>>
  \/ /\ heap' = heap \intersect live
     /\ strings' = tableRemoveWhite(strings, live)

copyString(c) ==
  /\ pc = "idle"
  /\ string' = tableFindString(c)
  /\ pc' = IF string' # NULL THEN "return" ELSE "chars"
  /\ chars' = c
  /\ UNCHANGED <<heap, roots, strings>>

(* ALLOCATE(char, length + 1), in copyString or, for takeString, before it   *)
(* in concatenate.                                                           *)
AllocateChars ==
  /\ pc = "chars"
  /\ MayCollect(roots)
  /\ pc' = "object"
  /\ UNCHANGED <<roots, chars, string>>

concatenate(c) ==
  /\ pc = "idle"
  /\ MayCollect(roots)
  /\ pc' = "take" /\ chars' = c
  /\ UNCHANGED <<roots, string>>

takeString_NoLookup ==
  /\ pc = "take"
  /\ pc' = "object"
  /\ UNCHANGED <<heap, roots, strings, chars, string>>

takeString ==
  /\ pc = "take"
  /\ string' = tableFindString(chars)
  /\ pc' = IF string' # NULL THEN "return" ELSE "object"
  /\ UNCHANGED <<heap, roots, strings, chars>>

(* allocateString: the object, then push, then tableSet.                     *)
allocateString ==
  /\ pc = "object"
  /\ \E live \in {heap, roots} :
       /\ strings' = IF live = heap THEN strings ELSE tableRemoveWhite(strings, live)
       /\ \E s \in Key \ (heap \intersect live) :
            /\ s.chars = chars
            /\ heap' = (heap \intersect live) \union {s}
            /\ string' = s
  /\ pc' = "intern"
  /\ UNCHANGED <<roots, chars>>

TableSet_WithoutPush ==
  /\ pc = "intern"
  /\ IF Overloaded(strings)
     THEN /\ heap' = heap \intersect roots
          /\ strings' = Placed(adjustCapacity(tableRemoveWhite(strings, roots),
                                              GrowCapacity(strings.capacity)),
                               string, NIL)
     ELSE strings' = tableSet(strings, string, NIL) /\ UNCHANGED heap
  /\ pc' = "return"
  /\ UNCHANGED <<roots, chars, string>>

(* The string is on the stack while the table grows.                         *)
TableSet ==
  /\ pc = "intern"
  /\ LET live == roots \union {string} IN
       \/ /\ strings' = tableSet(strings, string, NIL)
          /\ UNCHANGED heap
       \/ /\ Overloaded(strings)
          /\ heap' = heap \intersect live
          /\ strings' = Placed(adjustCapacity(tableRemoveWhite(strings, live),
                                              GrowCapacity(strings.capacity)),
                               string, NIL)
  /\ pc' = "return"
  /\ UNCHANGED <<roots, chars, string>>

(* The caller roots the result before it allocates again, or drops it.       *)
Return ==
  /\ pc = "return"
  /\ roots' \in {roots, roots \union {string}}
  /\ pc' = "idle" /\ chars' = NULL /\ string' = NULL
  /\ UNCHANGED <<heap, strings>>

Drop(s) ==
  /\ pc = "idle"
  /\ roots' = roots \ {s}
  /\ UNCHANGED <<heap, strings, pc, chars, string>>

InternNext ==
  \/ \E c \in Chars : copyString(c) \/ concatenate(c)
  \/ AllocateChars \/ takeString \/ allocateString \/ TableSet \/ Return
  \/ \E s \in roots : Drop(s)

InternSpec == InternInit /\ [][InternNext]_internVars

-----------------------------------------------------------------------------
(* Strings with equal characters are one object, whenever the program can    *)
(* see both: equality of strings is equality of addresses.                   *)
Visible == roots \union (IF pc = "return" THEN {string} ELSE {})

OneStringPerContent == \A s, t \in Visible : s.chars = t.chars => s = t

(* A string in use can be found again, whatever was collected around it, and *)
(* however the table grew: otherwise the next copy of it would be another.   *)
HeldStringsAreFound ==
  \A s \in roots : FindStops(s.chars) # {} /\ tableFindString(s.chars) = s

(* The weak table holds no freed string: a lookup compares characters of     *)
(* live strings only.                                                        *)
NoFreedKey == KeysOf(strings) \subseteq heap
=============================================================================

# A TLA+ verification of YScript

YScript is a small class-based scripting language.  Its source text is scanned
(`src/compiler/scanner.cc`), compiled in one pass to bytecode
(`src/compiler/parser.cc`), and executed by a stack machine
(`src/vm/interp/interp.cc`) whose objects live in a mark-sweep heap
(`src/common/memory.cc`, `ysobject.cc`, `hashtable.cc`).  The directory
`src/base` holds a utility library, of which the build compiles `*.cc` only; the
headers of its cache and its spin lock stand on their own.
Paths below are relative to the repository's root, without its leading `src/`
where that is plain.

1. [Inventory](#1-inventory)
2. [Modules](#2-modules-and-the-code-they-model)
3. [Runs](#3-runs-what-is-checked-and-with-which-bounds)
4. [Fairness](#4-fairness)
5. [Proofs](#5-proofs)
6. [Findings](#6-findings-and-observations)
7. [What is not modelled](#7-what-is-not-modelled)
8. [Plan](#8-plan)

## 1. Inventory

| Component | State it keeps | Operations | Interacts with |
|---|---|---|---|
| Hash tables, `src/common/hashtable.cc` | per table: capacity, count, array of entries (empty, tombstone, live) | get, set, delete, addAll, findString, removeWhite, mark, free | globals, `vm.strings`, class methods, instance fields; growing calls `reallocate` |
| Allocator and collector, `src/common/memory.cc` | `vm.objects`, mark bits, gray stack, `bytesAllocated`, `nextGC` | reallocate, markRoots, blackenObject, tableRemoveWhite, sweep | started inside any growing allocation of the compiler or the interpreter; reads the roots of both |
| Objects and interning, `src/common/ysobject.cc` | the object structs; `vm.strings` as weak set of strings | copyString, takeString, allocateString, new* | allocation points are collection points; C locals are not roots |
| Interpreter, `src/vm/interp/interp.cc` | value stack, call frames, open upvalue list, globals | one case per opcode, call, captureUpvalue, closeUpvalues, runtimeError, interpret | runs chunks the compiler wrote; REPL lines share globals |
| Compiler, `src/compiler/parser.cc` | stack of `Compiler` (locals, upvalues, scope depth), `ClassCompiler`, parser (previous, current, hadError, panicMode), chunk under construction | declarations, statements, expressions, scopes, jumps, error recovery | allocates constants and names (collection points); its functions are roots |
| Scanner, `src/compiler/scanner.cc` | start, current, line | scanToken | compiler |
| REPL and CLI, `tools/cli/ysrun.cc` | line buffer | repl, runFile | interpret |
| Chunks, `src/common/chunk.cc` | arrays of bytes, lines and constants | writeChunk, addConstant | written by the compiler, run by the interpreter, constants are reached by the collector |
| Disassembler, `src/disassembler/disassembler.cc` | none | lists a chunk, one instruction after the other | compiler and interpreter, when tracing |
| Values, version | none | formatting | all |
| LRU cache, `src/base/types/lru-cache.h` | list, map, current and maximal size | Put, Get, Erase, Contain, Clear, SetMaxSize | library users |
| Spin lock, `src/base/threads/spinlock.h` | one atomic flag | lock, try_lock, unlock | threads of library users |
| Streams, `src/base/stream` | offset and result of the last call; a buffer, or a file and the position in it | write, write at, move, clear; pack and unpack | not built (`*.cpp`); use the file system |
| LEB128, `src/base/codec` | none | integers to bytes and back, at an offset of a stream | streams; not built |
| Hash functions, `src/base/crypto` | none | - | not built |
| Logging and utilities, `src/base/{log,utils}` | output handles | logging | - |

What is hard in each, and what makes it correct (the properties' names are those
of the modules; `PROJECT.json` lists every hazard at its line):

- **Hash tables.**  Open addressing with tombstones: a long sequence of
  insertions and deletions must leave every probe an empty slot to end at
  (`ProbeTerminates`, with the count of used slots it rests on), never two slots of one key
  (`OneSlotPerKey`), and always the answers of a map (`ImplementsDictionary`).
- **Collector.**  A collection starts inside any growing allocation, between any
  two steps of the program: nothing in use is freed (`NoDangling`), all garbage
  is (`CollectionIsExact`), the weak string table loses its dead keys in time, the
  byte count that decides when to collect never drifts and stays below the threshold
  (`BytesAccounted`), tracing a cyclic heap ends (`CollectionEnds`).  And the C
  functions that allocate have locals the collector does not see: each object they
  go on to use must be kept by something it does see (`LocalsAreKept`).
- **Interning.**  Equality of strings is equality of pointers, so a content has
  one object at a time (`OneStringPerContent`), and what the program holds is what
  a lookup finds (`HeldStringsAreFound`), although the lookup, the allocation and
  the insertion are separated by collections (`NoFreedKey`).
- **Interpreter.**  Captured variables outlive their slots
  (`CapturedVariableStable`, from `OpenListSorted` and `NoDanglingUpvalue`); slot
  zero of a frame is what the callee expects there (`FramesKeepTheirCallee`); the
  two fused instructions do what the two they replace do (`InvokeIsGetThenCall`);
  copied methods are the nearest declaration's
  (`NearestDeclaration`).
- **Compiler.**  In one pass, without a syntax tree: names resolve lexically
  through any nesting of functions (`ReferencesAreLexical`), the list of locals is
  the stack (`LocalsMatchStack`), captured locals are closed when they go
  (`NoOpenSlotPopped`), jumps do what the statements mean, and a program is refused exactly
  if a constant or a jump is beyond its operand (`RunsAsMeant`), jumps land on instructions and
  keep the stack level (`AtInstruction`).
- **Disassembler.**  It finds exactly the instructions that were emitted, of which
  OP_CLOSURE has a length of its own each time, and shows jumps to where they go
  (`ListsInstructions`).
- **Front end.**  The precedence table, the flag for assignment targets and a
  parse function per rule against the published grammar, and the errors of names
  (`ParsesAsGrammar`);
  errors and recovery (`NoCascade`); tokens and lines (`TokensCoverText`).
- **LRU cache.**  A list, a map of iterators into it and a count in step
  (`IndexAgrees`), the right victim (`EvictsOldest`).
- **LEB128.**  The readers accept exactly the encodings of a number of the width,
  whatever bytes arrive (`LebReadsNumbers`), and what was written is read back
  (`LebRoundTrips`).
- **Streams.**  A buffer cut anywhere, or of foreign bytes, is unpacked to the value
  it holds or refused (`UnpackedAsPacked`).  A file that never failed holds what a memory stream
  would, though the stream seeks only when it thinks it must (`FileAgreesWithMemory`); numbers
  written, overwritten and moved are found where they should be (`EncodingsReadBack`).
- **Spin lock.**  Exclusion in every interleaving (`MutualExclusion`), and the
  memory orders that make what one holder wrote visible to the next
  (`HolderIsUpToDate`).

Concurrency exists only in the spin lock; in the language it is the collector
that interleaves, at allocations.  Nothing is persisted and there are no messages
or timeouts, so there is no crash recovery to model.

## 2. Modules and the code they model

Definitions keep the source's names.  A module `MC*` gives constants their values
for TLC.  An operator named `f_Phrase` next to `f` is a faulty `f`, the kind of slip
a change could make; it is used nowhere but to confirm that a property notices it.
(`MemoryStream_f` and `FileStream_f` in `Stream` are the two classes' methods `f`.)

| Module | Models | State and actions |
|---|---|---|
| `TableOps` | `hashtable.cc` | a table is a record (count, capacity, slots); `findEntry`, `tableSet`, `tableDelete`, `adjustCapacity`, `tableAddAll`, `tableRemoveWhite` are operators on it |
| `HashTable` | the same, as a state machine | two tables; one action per call, the last call and its answer in `call` |
| `Dictionary` | what a table promises | the two tables as finite maps; `HashTable` implements it, with a table's map read off by lookups |
| `Reachability` | the objects that can be followed to from a set | least closed set, not recursive, so that it can be proved about |
| `Heap` | what a collected heap promises | objects disappear only when nothing reachable refers to them; `Collector` implements it |
| `Collector` | `memory.cc`, `allocateObject` | heap graph, roots by kind, weak strings, marks, gray set, sweep cursor, sizes, `bytes`, `nextGC`; `Program` is what the mutator may do, `Reallocate` one call of reallocate in steps |
| `Intern` | `copyString`, `takeString`, `allocateString`, `concatenate` | the control point of the call in progress, `vm.strings` as a table of `TableOps`, the strings held, a collection possible at each allocation |
| `Interp` | `interp.cc` | stack, frames, open list, upvalues, closures, classes, instances, globals, lines; an action per opcode; `Machine` is the same state as a record, for the functions that opcodes share |
| `Compiler` | scopes, locals, upvalues, functions and classes of `parser.cc` | stack of compilers; an action per construct a text may continue with |
| `Rooting` | every handler of `interp.cc` and `parser.cc` that allocates, with the constructors of `ysobject.cc` | heap graph, stack, frames, open upvalues, a global, the chain of compilers; `at` is the allocation that comes next and `held` the C locals read after it; `collectGarbage` may come between |
| `Chunk` | `chunk.cc`, the emit functions of `parser.cc`, `disassembler.cc` | a chunk is a record of code and constants; an operator per function |
| `ControlFlow` | expressions, jumps, loops and globals of `parser.cc`, and their opcodes | compiles a program of statements to a chunk with byte offsets, then runs the code step by step beside its meaning |
| `Disassembler` | who emits what for `disassembler.cc` to list | a chunk that grows by any instruction; an action per shape, jumps patched later in any order |
| `Scanner` | `scanner.cc` | operators on a text |
| `Parser` | all parse functions of `parser.cc`, errors and recovery, those of names included | the parser is a record with its token, flags and declared locals, each parse function an operator on it; a text grows word by word and is compiled after each |
| `Grammar` | the reference for `Parser`: `docs/grammar.md`, with one superclass, and what names must obey | the set of codes of all derivations of a token sequence |
| `LRUCache` | `lru-cache.h` | list, map, `cur_size_`, `max_size_`; an action per method |
| `Leb128` | `leb128.cpp` | operators on numbers and byte sequences; groups and widths are constants |
| `DataStream` | `data-stream.h` | `pack` and `unpack` by type; the actions pack a value, cut its bytes, or let foreign bytes arrive |
| `Stream` | `stream.cpp`, `file-stream.cpp` | the same calls go to a MemoryStream and to a FileStream, whose file may fail to open, to seek, or in the middle of a write |
| `SpinLock` | `spinlock.h` | flag, program counters, and a version of the protected data that `clear` releases and `test_and_set` acquires |
| `Induction` | - | lemmas for the proofs: least numbers, induction over sets of numbers, the existence of folds |
| `CollectorProof`, `RootingProof`, `InterpProof`, `CompilerProof` | - | theorems and proofs about the module of the name |
| `ScopingProof` | - | more about `Compiler`, with the invariant of `CompilerProof` |
| `CommonProof`, `LibraryProof` | - | theorems and proofs about `HashTable`, `Intern` and `Disassembler`, and about `LRUCache`, `SpinLock` and `Stream` |

How the parts fit.  `Interp` takes from the compiler what the code takes from it:
which locals a closure may capture (`Operands`), that a captured slot is not
popped by OP_POP (`Uncaptured`), that a method closure is followed by OP_METHOD
(`MethodPending`), where class bodies and `super` may stand (`InClassBody`,
`SuperOf`).  `Compiler` discharges these with `NoOpenSlotPopped` and
`ReferencesAreLexical`.  `this`, slot 0 of a method, can be captured like a local; that the
compiler compiles no assignment to it is in the guard of `SetUpvalue`, for which an upvalue
remembers that its variable is `this`.  `Collector` lets the
program use only what its roots reach; that the C functions keep to this, although
they have locals, is what `Rooting` shows for the handlers and `Intern`, statement by
statement, for the constructors of strings.  `Rooting` treats tracing as done in
one step and exact, which `Collector` proves (`Exactness`), and takes from the compiler the same
facts as `Interp` (`Uncaptured`, `Operands`, and that `super` is a captured variable).  It follows
one line after the other, also past runtime errors, but ends at an error that drops an open upvalue: after
that one (finding 1) a later line may read a freed object from a slot of the stack that is no
root any more.
`Intern` and `HashTable` share `TableOps`, so the
table the strings are in is the table that is proved a map.  `Compiler`,
`ControlFlow` and `Parser` are three views of the one file `parser.cc`: names and
slots, offsets, and syntax; each abstracts the others' data.  `ControlFlow` and
`Disassembler` share `Chunk`, so the code that is listed is emitted by the same functions as the
code that is run.  `DataStream` and `Stream` use `Leb128` for the bytes of a number.

Abstractions worth knowing: an object's kind is only the set of objects
`blackenObject` marks from it; the gray stack and the list of objects are sets, so
every order is covered; in `Rooting` a table has one name, so that a second
assignment drops the first value; values are `nil`, natives and references, because nothing
that is checked depends on arithmetic; `clock` returns `nil`; `Compiler` stops at
the first error, whose consequences `Parser` follows instead; in `Parser` an
instruction carries what the syntax decides (its kind and argument count), of names
it has the errors they give and not the slots they stand for, and
letters of a text may be whole words, a number is made of the digit 1.

## 3. Runs: what is checked, and with which bounds

| Run | What it shows | Bounds, and why they are enough |
|---|---|---|
| `hashtable` | every sequence of calls on two tables | three keys that collide and wrap around, capacities 2 and 4 (for the code's 8, 16, ...): arrays get full of tombstones, reused and regrown, within a few calls |
| `collector` | every heap graph, every moment of a collection | two objects with arrays, two kinds of roots, sizes up to two; the proofs of section 5 cover every number of objects and forced collections |
| `intern` | a collection at any allocation: of strings (`Intern`), and in any handler (`Rooting`); a behaviour is of one of the two | four contents, two of one hash, two addresses each; the table grows while it is collected.  For the handlers two functions, two closures, a string, an instance, two frames, and either two classes and a bound method on a stack of three, or a class and an upvalue on a stack of four: enough for inheritance in the one and a superclass reached through a captured variable in the other.  Errors end a line, and the behaviour if an upvalue was open |
| `interp` | closures: capture, close, return, error; and closures that capture `this`, whose slot takes the method's result | three frames, two captures a closure, four slots, a native and a global; once there is a class (`Bounded`, a constraint of the run): two frames and one upvalue, that is a method in which a closure captures `this`, and its caller |
| `interp_repl` | finding 1 | two lines, one closure |
| `classes` | declarations, inheritance, overriding, properties, calls | two classes, one instance, two method closures, and one member name which is `init`: initializer, method and field that hides it at once |
| `compiler` | names through nestings | four levels of scopes and functions, two names, three locals and two upvalues so that both limits are met; names are symmetric |
| `control_flow` | statements, and, or, equality, constants, loops; and the listing of any code | all programs of statements nested three deep over a condition, with `Base` = 9 values of a byte (256 in the code): programs with 8, 9 and 10 constants, and jumps of each kind on both sides of the longest.  For the listing every sequence of three instructions of every kind, closures with up to two upvalues |
| `front_end` | texts, right and wrong | fourteen frames with up to six words inside, 280 thousand texts; two of the frames are about names, with two scopes to declare one in; between them every token, every prefix and infix rule, every statement, and two arguments as the limit of 255 |
| `library` | the cache, every sequence of calls; numbers and values packed, cut and unpacked; three calls to a stream | four keys, sizes 0 to 3; groups of 3 bits, widths of 8 and 10 (7, 32 and 64 in the code: neither width a multiple of the group), every number, and every byte sequence as long as the longest; containers of two elements, nested once; buffers of five bytes.  A behaviour is of one of the three parts |
| `lru_cleared` | finding 2 | sizes 1 and 2 |
| `spinlock` | every interleaving | three threads, four updates |

`CHECK_DEADLOCK FALSE` stands where the system really stops: a script that has
ended, a program that has run, a text that is complete, a value that is unpacked, a stream after its
last call, a heap that has no room within the bounds.  The `VIEW`s of `hashtable` and
`interp` hide the last call's answer and dead stack slots, which no later step reads.

`ParsesAsGrammar` deserves a word: for each text, `Grammar` computes the set of
codes of all its derivations by the rules of `docs/grammar.md`, except that a class has one
superclass at most, as the compiler (section 6), and as far as the text keeps the conditions that
no grammar states: `this`, `super` and `return` stand where they may, a class is not its own superclass,
no local is declared twice in a scope, and none is read in its own initializer.  The property says
that the set is empty when the compiler reported an error, and otherwise has one element, what
the compiler emitted.  It shows at once that the recursive-descent parser accepts
this language, no more and no less, that the grammar is unambiguous (an `else` goes
with the nearest `if`), and that precedence and association are what it says.  `Grammar`
states the conditions on names without a table of locals: a scope has the names its declarations
began with, and an initializer, which is an expression, does not mention the name.

`RunsAsMeant` states the limits of operands without the chunk either: `Fits` counts a
program's constants, and the bytes each of its jumps goes over, from the text alone; the
compiler reports an error if and only if one of them is too many.

## 4. Fairness

- `Collector`: weak fairness of `Reallocate`.  A call of reallocate is sequential code
  without waiting; it goes on until it returns.
- `SpinLock`: weak fairness of taking the lock by a spinning thread and of unlock by a
  holder: threads are scheduled, and a holder is code that leaves.  No fairness
  between waiters is assumed: `SomeoneGetsIn` says that *a* thread gets the lock;
  that a particular one does is false, as for every lock of this kind.
- No other module states liveness.

## 5. Proofs

All theorems hold for every value of the constants that satisfies the `ASSUME` of the
module, and those of `InterpProof` for `Lines = 1` as explained there.  Each proof is of
the same form: an inductive invariant `IInv`, one lemma per action that the action keeps
it, the theorem `Invariance`, and from it the properties.  TLC checked each `IInv` on the
runs' instances before it was proved.

| Theorem | States | Of |
|---|---|---|
| `CommonProof`: `ProbesEnd`, `KeysAreUnique`, `Implements` | `ProbeTerminates`, `OneSlotPerKey`, `ImplementsDictionary` | any keys, hash function, minimal capacity, number of tables |
| `CommonProof`: `StringsAreUnique`, `StringsAreFound`, `KeysAreLive` | `OneStringPerContent`, `HeldStringsAreFound`, `NoFreedKey` | any strings, any hash of their content |
| `CommonProof`: `Listing` | `ListsInstructions` | any code, any limits of a byte and of a chunk's constants |
| `CollectorProof`: `Safety`, `Tricolour`, `Exactness`, `Accounting`, `Refinement` | `NoDangling`, `NoBlackToWhite`, `CollectionIsExact`, `BytesAccounted`, `ImplementsHeap` | any objects, roots, sizes, thresholds, with and without forced collection |
| `RootingProof`: `NoLocalIsFreed` | `LocalsAreKept` | any finite set of objects, any number of frames and functions, up to an error that drops an open upvalue |
| `InterpProof`: `Types`, `OpenInOrder`, `NoneDangles`, `CalleesStay`, `MethodsAreNearest`, `InvokesAreShortcuts`, `OnlyAssignmentsChange` | `TypeOK`, `OpenListSorted`, `NoDanglingUpvalue`, `FramesKeepTheirCallee`, `NearestDeclaration`, `InvokeIsGetThenCall`, `CapturedVariableStable` | any names, members, natives and bounds, one script |
| `CompilerProof`: `Types`, `FrameIsTable`, `CapturedAreClosed` | `TypeOK`, `LocalsMatchStack`, `NoOpenSlotPopped` | any names, any limits on locals, upvalues and parameters, any nesting |
| `ScopingProof`: `LexicalScoping` | `ReferencesAreLexical` | the same |
| `LibraryProof`: `Agreement`, `Eviction` | `IndexAgrees`, `EvictsOldest` | any finite set of keys, any values and sizes |
| `LibraryProof`: `Exclusion`, `Publication` | `MutualExclusion`, `HolderIsUpToDate` | any set of threads |
| `LibraryProof`: `FileHasTheBytes` | `FileAgreesWithMemory` | any groups and widths, numbers, number of calls and of bytes |

**`CommonProof`.**  A table is `WellFormed`: the count is the number of used slots
(live entries and tombstones), one slot is free unless there are none, and a probe for the key of a
live entry passes no empty slot before it gets there (`Visits`).  The last is the part
that no property states and that everything rests on: it is why `tableDelete` may not
leave an empty slot, and why growing has to insert every key again.  `FindEntry` says
what a probe returns in a well-formed table, `Placing` and `Deleting` that the two ways to change a
slot keep it so, `Rehashing` that `adjustCapacity` gives a table of the same pairs, by
induction over the slots it has copied.  The refinement then reads a table's map off its live
entries and shows each call to be the one of `Dictionary` with its answer.

Interning rests on the same `WellFormed`, for a table whose hash is that of the characters:
`InternIInv` says of each point of `copyString` and `takeString` what is known of the
characters and the string in hand: after a search that failed, that no key has these characters
(`Lacks`), and this stays true through the collections at the allocations that follow,
which only remove keys.

Listed code: `EmissionIInv` says that code is `Parsed`, that is, each opcode is followed by
its operands (`Whole`), for OP_CLOSURE as many as its function says, and then by
an opcode or the end.  Instructions are only added behind the code (`Extends`), whose earlier ones are left as
they were, and patching changes operands only.  The listing then stops at every opcode,
by induction over its steps.  That a patched distance is shown as it was meant needs that two bytes
hold it, which is where the limit of 16 bits is used.  `DisassemblerAssumption` says that an operand fits in
a byte and that the instructions of one byte are none of the others.

**`CollectorProof`.**  `NoDangling` is not inductive: that
sweeping frees only garbage depends on marking having been complete, and that on
the mark bits having been clear.  `IInv` adds, to the types, `Solid` (the objects
that will stay hold every root and interned string and refer to nothing outside),
`NoBlackToWhite` (the tricolour invariant), `MarksCleared`, and `Bookkeeping` (only
reachable objects are marked; where control is says what the sets of the
collector are).  The argument needs one fact of graphs, that a closed set which
holds the roots holds the reachable objects (`ReachIsLeast`).  `Accounting` needs the sum of
the sizes over the heap to follow an object that comes, grows or goes.  A sum over a set
has no induction the prover can use, so bytes are counted instead: object o of size n owns the pairs
<<o, 1>> to <<o, n>>, and the sum is the number of these pairs (`SumIsCount`).

**`RootingProof`.**  `LocalsAreKept` says of the moment of a collection that what C
locals hold is reached.  `IInv` says it without a recursive closure: every set of objects that
has the roots, and whatever its members refer to, has what is held (`Kept`).  That is
what a handler's order of pushes, stores and pops establishes before it allocates, and
`Points` records, for each point of allocation, what the code before it made sure
of: how much is on the stack, and that the slots to be popped are not captured.  `Tracing` shows that the
collector's fixpoint, computed in as many rounds as there are objects, is the least such set.
That the invariant holds of `Rooting` says nothing about what follows an error that drops an open upvalue:
there the specification ends (at `"dropped"`), and the claim would be false (finding 1).

**`InterpProof`.**  The state is read as two records, a `Machine` that most
instructions change (stack, frames, open list, instances) and a heap they leave alone,
so that a lemma about a function of `interp.cc` that several opcodes share, such as
`call`, `callValue` or `invokeFromClass`, is proved once.  `IInv` has

- `FramesOK`: frames start at increasing slots below the top, and slot 0 of each holds its callee
  (`CalleeOK`).  That needs `OpenOK`: an open upvalue that points at such a slot has `this` as its variable,
  and nothing assigns that, so an assignment through an upvalue never changes a callee;
- `OpenOK`: the open list is in strictly descending order of slots in use and has every upvalue
  that points into the stack;
- what a variable may hold (`Values`) as against what is on the stack (`Contents`): a bare method closure is
  only ever a temporary, between OP_CLOSURE and OP_METHOD (`Pending`); elsewhere it comes
  bound to an instance of a class that has it.  This is what makes `InvokeIsGetThenCall`
  true;
- `Nearest`: a class has the nearest declaration of each name.  The classes
  above a class are `Above`, a least set in place of a recursion.

The theorems assume `Lines = 1`: one call of `interpret`, as for a file.  They are false for a
second line of a REPL: `resetStack` leaves open upvalues behind (finding 1), so that
`NoDanglingUpvalue` and what rests on it fail.

**`CompilerProof`.**  `Good` relates, for every function under compilation, the
compiler's tables to the constructs that are open in the text and to the frame that will run:

- its scope depth is the number of blocks, and classes with a superclass, that are open in it
  (and one for a function's own scope);
- its locals are ordered by depth (`Ordered`), but for a last one that
  waits for its initializer, so that `endScope` removes exactly the locals of the scope;
- its frame is as high as its locals, less the declarations whose value is awaited, and
  more by the classes under construction;
- the slots that are open when it runs are among its captured locals, so a slot that
  is popped was not captured;
- each entry of its upvalue table leads to a captured local of the function around it, or to an entry of
  that function's table.

`resolveUpvalue` is a fold over the functions between the owner and the one that
uses the name; `HandDownOK` and `ResolvedOK` say by induction over these that it
extends the tables, changes nothing else, and leaves the index of an entry that leads to
the local (`Leads`).

**`ScopingProof`.**  `LexicalScoping` is about two searches that know nothing of each other: the compiler
goes backwards through the locals of each function, from the innermost out, and `Meant` takes the last
binding of the name in the text.  A second invariant, `Lexical`, kept along with `Good`, says why
they agree:

- `env` lists exactly the variables of the tables, in the order of functions and slots (`Lists`);
  a variable is a local with a name that has its value, and a callee's slot only where it
  holds `this`.  So the last binding of a name in `env` is the local a backward search meets first;
- each open construct's mark divides `env` at the scope depth around it (`Marks`): what
  `endScope` takes from the table is what the text loses at the brace;
- `NamesOK`: which locals have a name, that a method's callee is called `this`, and that where a
  declaration awaits its value the last local is the one declared.

That a reference made earlier in a step is still right once a later one has extended the upvalue tables is
`Carries`: tables only grow at their ends.  `FollowedAll` shows by induction over the functions
that following the tables (`Chase`) ends at the local.  TLC checked `Lexical` on the instance of the run
`compiler` before it was proved.

**`LibraryProof`.**  The cache: the map names the items of the list one
by one (`Indexed`), which needs that neither keys nor identities occur twice, and the
count is at least the length, which is what makes the list non-empty when a `Put`
evicts.  The lemmas say what removing an item and putting one in front do to
`Indexed`; that there is an identity left for the new item is a counting argument
(`FreshIdIsFree`).  For `Eviction` the list is in the order of use (`ByUse`): each item was used since
those after it, which holds because every use moves an item to the front.  The stronger statement, that the count *is* the length, is false
(finding 2).

The spin lock: the flag is up exactly
while one thread is inside, and what was last released is complete.

The streams: as long as no call failed, the FileStream's own position is where the file is written
next, it has the offset of the memory stream, and the file has its bytes (`Level`).  `WriteLands` shows it
for both ways to write, with the seek and without; what the numbers are encoded to does not matter.

**`Induction`.**  The library's induction theorems take a predicate as
parameter, which the provers cannot instantiate.  The same theorems about a *set* of numbers
are first-order: `LeastNumber` (from the library's well-foundedness of `<`) and `UpTo`.
With them `FoldExists` shows that the function by which `FoldLeft` is defined exists,
which is what lets a proof unfold a fold step by step (`adjustCapacity`, `tableAddAll`,
`closeUpvalues`, `resolveUpvalue`, parameter lists).

Only model-checked:

- liveness, `CollectionEnds` and `SomeoneGetsIn`: temporal reasoning with fairness needs
  ENABLED, which the prover does not treat;
- the modules with RECURSIVE operators, about which no theorem is stated: `ControlFlow`,
  `DataStream`, `Parser`, `Grammar`, and with them `AtInstruction`, `RunsAsMeant`, `LebReadsNumbers`,
  `LebRoundTrips`, `UnpackedAsPacked`, `ParsesAsGrammar`, `NoCascade` and `TokensCoverText`;
- `EncodingsReadBack`: it compares, for every number, what the writers of `leb128.cpp` compute with what
  the readers do: sums of powers by recursion over the number, and the provers have no law of powers (not
  even 2^(n+1) = 2 * 2^n).

## 6. Findings and observations

1. `interp_repl`: `resetStack` (`vm/interp/interp.cc:38`) drops the open upvalues
   without closing them.  After a runtime error a closure kept in a global points
   into the stack, and reads and writes what the next REPL line puts there; or, before the line has put
   something there, an object that was collected in between.  `Rooting` and the theorems about
   `Interp` stop where this begins.
2. `lru_cleared`: `LRUCache::Clear` (`base/types/lru-cache.h:98`) leaves `cur_size_`; the
   next `Put` into a cache that was full evicts the pair it has just put.

Observations that no run depends on:

- `docs/grammar.md:25` allows a list of superclasses, `":" IDENTIFIER (, IDENTIFIER)*`; `classDeclaration`
  (`compiler/parser.cc:746`) takes one, and a second is a syntax error.  `Grammar` follows the compiler
  in this place, so that `ParsesAsGrammar` does not speak of such texts as the document does.
- `synchronize` clears `panicMode` before it scans on.  Characters that are no token in
  the text it skips are reported, and set `panicMode` again, so that errors of the
  next statement are silenced until it ends.  `NoCascade` states what is true.
- Each block that is not closed is reported again at the end of the text.
- The table `rules` (`compiler/parser.cc:607`) has no row for TOKEN_COLON; a missing
  row is zero, which is what the row would be.
- In `data-stream.h` the longest form of a VarInt, five bytes, shifts by more than the
  width of its operand (line 949 on), which is undefined; `UnpackedAsPacked` says what holds
  where it is not met.  An array of exactly `kMaxElementNum` elements is
  written and refused on reading, and the limits on containers are checked
  on reading only.
- `MemoryStream::Clear` (`base/stream/stream.cpp:152`) keeps the offset, so that the next
  write leaves zeros before it; `FileStream::MoveData` is not implemented and answers with an
  error; moving a FileStream (`file-stream.cpp:38`) resets the offset and result of its base
  but keeps the position.
- A table's tombstones count for growth, and `adjustCapacity` doubles even when few keys
  are live (`common/hashtable.cc:118`): no bound on the capacity follows from the number of keys.
- `push` checks no limit, while `STACK_MAX` counts 256 slots a frame; the depth of an
  expression is not bounded by the compiler.
- `tools/cli/ysrun.cc:32` reads lines of up to 1023 characters; a longer one is run in
  pieces.

## 7. What is not modelled

- Arithmetic, and the text of printing and of listings: they change nothing the properties
  are about.
- Reading files and lines (`tools/cli/ysrun.cc`): C library calls around `interpret`.
- The expressions by which each caller of `reallocate` computes the old size of its block: in `Collector`
  a block has one size, so what `BytesAccounted` says is that the sums are kept right.
- The globals of `Interp` are a function: that OP_SET_GLOBAL deletes the name that it has inserted
  (`vm/interp/interp.cc:364`) is part of the action, and a version without it would be another action.
  What inserting and deleting do to the table is `ImplementsDictionary`.
- The slot of the stack that a dropped upvalue points to, from the next line on (finding 1).
- `initVM`'s natives: each is pushed with its name before it is stored, like every value
  in `Rooting`.
- Formatted text, dumps, the log stream and `WriteToFile` of the streams.
- `base/crypto`: a hash of bytes, without state, whose results nothing in the
  repository states.
- `base/types/flat-array.h`, `string-ref.h`: wrappers of a buffer that no file includes, the first needing
  headers that are not in the repository.
- Logging, version, configuration, macros.

## 8. Plan

The order is by what the language depends on: tables and collector first (an error
there breaks every program), then interning, closures, names, control flow, classes,
syntax, and the library.  Modelled and checked is all of section 2; proved is what section 5
lists.  Next:

1. Model: a line that does not compile, between others, in `Interp`.

# A formal model of loxx

loxx is an implementation of the Lox language in C++: a scanner, a recursive
descent parser, a single-pass bytecode compiler, a stack-based virtual machine
and a tracing garbage collector, with a hash table of its own. This directory
holds TLA+ modules translated from that code, TLC configurations that check them
on small instances, and theorems that TLAPS proves for every instance.

Run everything from this directory:

    tlc -workers 2 -config MCLox.cfg MCLox       # a run: module and .cfg
    tlapm HashTableProofs.tla                    # the proofs of a component

`PROJECT.json` lists the runs, the source lines every definition stands for, a
faulty variant of the code for every property (the operators named `Bad...`), the
hazards of the code, and the disagreements found between the code and what its
comments and tests say of it.

## 1. Inventory of the system

Source text goes through the components in this order (`run` in `main.cpp`):

    Scanner -> Parser -> (had_error?) -> Compiler -> (had_error?) -> VirtualMachine
                                            |                           |
                                            +------> ObjectTracker <----+
                                                          |
                                              HashSet / HashTable (HashImpl)

There is one thread. What makes the program hard is not concurrency but state
shared across calls: the stack layout that the compiler predicts and the virtual
machine builds, upvalues that alias stack cells, a collector that runs inside an
allocation, and loops that modify the table they walk over.

| Component | State it keeps | Operations | What makes it correct |
|---|---|---|---|
| **ObjectTracker** (`ObjectTracker.cpp/hpp`) | `objects_`, the interned `strings_`, the registered `roots_`, a colour per object | `add_object`, `add_string`, `collect_garbage`, `grey_roots` | never frees a reachable object; frees the others; ends; no object owned twice; equal live strings are one object |
| **HashTable, HashSet, HashImpl** | `data_`, `num_used_slots_`, `max_used_slots_`, `mask_` | `operator[]`, `at`, `get`, `erase`, `insert`, `find`, `rehash`, `remove` | behaves as a finite map; an empty slot always remains, or the searches do not end; probe runs have no gap |
| **VirtualMachine** (with `Stack`, `StackFrame`, `Object`, `Value`) | `stack_`, `call_stack_`, `open_upvalues_`, `globals_`, `ip_`, `code_object_` | an opcode per instruction (36 of 37: `Push` is neither emitted nor executed), `call_object`, `capture_upvalue`, `close_upvalues` | runs a compiled program as the source means; frames and open upvalues stay in order; callers' cells are not disturbed |
| **Compiler, FunctionScope** | the chain of `func_`, `locals_`, `upvalues_`, `scope_depth_`, `class_type_`, the bytecode | a visitor per node, `resolve_local`, `resolve_upvalue`, `end_scope`, `patch_jump`, `add_loop` | names resolve to the cell or upvalue of the right variable; the stack has one height at each instruction; jumps land on instructions |
| **Line numbers** (`update_line_num_table`, `get_current_line`) | `line_num_table`, `last_line_num_`, `last_instr_num_` | append rows, look up an `ip` | a runtime error names the line of the instruction that failed |
| **Syntax trees** (`Expr.hpp`, `Stmt.hpp`) | none | visitors | - |
| **Parser** | `current_`, the token list | a function per rule, `synchronise` | ends on every input; recovers at statement boundaries; rejects what the grammar rejects |
| **Scanner** | `start_`, `current_`, `line_` | `scan_token` | longest match, right lines, ends |
| **Driver, REPL** (`main.cpp`) | one static `VirtualMachine`, `had_error` | `run_file`, `run_prompt`, `run` | nothing runs after an error of the compiler; one input does not disturb the next |
| **Optional, Variant, Generic** | raw storage and a tag | construct, assign, destroy | out of scope: their values are trivially copied |
| **Logging, AstPrinter, args** | - | formatting, command line | out of scope |

How they interact:

- The **compiler and the virtual machine** share no state but the bytecode, and a
  convention: the i-th entry of `locals_` is cell `slot + i` of the running frame.
  Nothing checks the convention at run time; `Stack` has no bounds check either.
- The **virtual machine calls the tracker** whenever it makes an object;
  a collection may run inside that call, from the roots the machine registered
  (stack, globals, open upvalues) and nothing else.
- The **compiler calls the tracker** too, for string constants and functions, and
  keeps the results in the constant tables of code objects, which are no roots.
- **Open upvalues** point into the array of the stack; `close_upvalues` moves the
  value to the upvalue when the cell goes.
- The machine's **globals**, the methods of classes and the fields of instances
  are `HashTable`s, the interned strings a `HashSet`; both are on `HashImpl`.
- The **scanner, the parser and the compiler** report errors by calls of `error`, which
  set `had_error`; each goes on after an error, and `run` stops between them. The
  parser leaves null pointers where a declaration failed, and the compiler does not
  look for them.

The behaviours that are hard to test, each at its line, are the `hazards` of
`PROJECT.json`; the properties below are aimed at them.

## 2. Modules

| Module | Models | Runs |
|---|---|---|
| `ObjectTracker` | the collector and the interning of strings, with the mutator around them | `tracker`, `tracker_heap`, `tracker_held` |
| `ObjectTrackerProofs` | theorems about `ObjectTracker` | (TLAPS) |
| `Dictionary` | what a hash table promises: a finite map | (refined by `HashTable`) |
| `HashTable` | `HashImpl`, `HashTable`, `HashSet`, loop by loop | `hash_table` |
| `HashTableProofs` | theorems about `HashTable`, the refinement of `Dictionary` among them | (TLAPS) |
| `Values` | values, truth, arithmetic | (used below) |
| `LoxSyntax`, `Trees` | the nodes of syntax trees; which there are and what their fields hold | (used below) |
| `AnySequence`, `SequenceLemmas` | sequences of anything, and what the proofs need to know of sequences | (TLAPS) |
| `Bytecode` | what the compiler promises of its code and the machine takes on trust | (used below) |
| `Compiler` | `Compiler` and `FunctionScope`, as a machine that visits one tree a step | in `Lox` |
| `VirtualMachine` | the interpreter, one action per instruction, and its invariants | in `Lox` |
| `CompilerProofs` | theorems about `Compiler` | (TLAPS) |
| `VirtualMachineProofs` | theorems about `VirtualMachine` | (TLAPS) |
| `Interpreter` | composes the two, as `run` of `main.cpp` does: compile, then execute | in `Lox` |
| `InterpreterProofs` | theorems about the two together | (TLAPS) |
| `Semantics` | the meaning of a program: an evaluator of trees with named variables | in `Lox` |
| `Rules` | which programs must be rejected: the static rules, stated on trees | in `Lox` |
| `Lox` | extends `Interpreter` by the comparison with the rules and the meaning | `lox`, `lox_loops`, `lox_or` |
| `LoxPrograms` | the families of programs the runs take | - |
| `Repl` | the prompt: one input after the other on one virtual machine | `repl` |
| `LineTable` | the encoder and the decoder of line numbers | `line_table`, `line_table_calls` |
| `LineTableProofs` | theorems about `LineTable` | (TLAPS) |
| `Scanner` | the scanner, one call of `scan_token` a step | in `Scanning` |
| `Scanning` | the scanner on every text, and the grammar of tokens it is compared with | `scanner` |
| `Parser` | the parser, over the types of tokens | in `Parsing` |
| `ParserProofs` | theorems about `Parser` | (TLAPS) |
| `Grammar` | the context-free grammar of Lox | in `Parsing` |
| `Parsing` | composes the two: parse, then derive the same tokens from the grammar | `parser` |
| `MC...` | constants for TLC | - |

### ObjectTracker

The variables are the members of `ObjectTracker` (`objects`, `colour`, `strings`),
the local vector of `collect_garbage` (`kept`), the objects the rest of the
program holds (`roots`, `held`, `refs`, `text`), and where the single thread
is (`pc`, `slot`, `pending`). `objects_` and the local vector own their elements,
so a slot whose `unique_ptr` was moved out holds `Null`.

`NewObject`, `AddStringNew` and `AddStringFound` are the calls of `make_object`
and `add_string`; each makes the check of the trigger in `AddObject`. When the
trigger is crossed, the call goes on as `BeginPass`, `SkipSlot`, `MoveSlot`,
`EndPass` and `Sweep`: one iteration of the loops of `collect_garbage` per step.
The mutator does nothing meanwhile, as in the code.
`Load`, `Drop` and `Store` stand for what instructions do with pointers between two
allocations. `held` has the objects that the program holds and the collector does
not know of: those in the constant tables of code objects, and those in variables of
C++ (the closure under construction in `execute_create_closure`, the class popped
by `GetSuperFunc`, the callee of a call through a field). `Hold`, `Release` and
`PushHeld` move pointers between the roots and `held`, an allocation may put its
result there, and a held object may be stored into.

An element of `Obj` is an *address*. A freed address can be handed out again, and
`strings_` keeps the pointers of freed strings, whose memory keeps its old text
until it is overwritten: that is what `Candidates` models.

The trigger is a number of objects in the model; the code's counts objects too.

### HashTable and Dictionary

`data` is a function on `0 .. capacity - 1`. `find_pos` and `find_new_pos` are
defined by what their loops find (the first slot along the probe sequence), and
`Room` is the invariant that makes those loops end. The loop of `rehash` over
`old_data` (`RehashSlot`) and that of `remove` over the rest of a probe run
(`Shift`) are modelled iteration by iteration, since the second calls `operator[]`,
which may start the first.
`Dictionary` is the abstract map; the refinement mapping `Contents` collects what
is in the slots, in the part of `old_data` not yet put back, and in the element
`operator[]` is holding, so that every inner step is a stutter.

### Compiler, VirtualMachine, Interpreter, Semantics, Lox

`Compiler` keeps `func_` and its chain of `enclosing_` scopes in `cs.scopes`. The
call stack of the visitors is the list `todo`: the trees still to visit and, in
between, what a visitor does after the visit of a subtree (`EndBlock`,
`CompileMethod`, `AddJump`, ...). A jump holds the index of the instruction it
leads to and an instruction holds its constant, in place of byte distances and
indices of constants. The limits those have are modelled all the same: `Emit` counts
the constants of a code object (`NoRoom`), `PatchJump` and `AddLoop` measure the
distance in bytes of the code (`Distance`), `Slot` casts the position of a local to a
byte, `Upvalues` the number of upvalues, and `AddUpvalue` knows when its counter of
one byte never ends the loop (`cs.looping`). `VisitCall` has the check for more
arguments than a byte counts, although the parser rejects more than eight. `ByteSize`,
`MaxConstants` and `MaxJump` scale them down.

`VirtualMachine` has the members of the class as variables. The stack is the
array `cells` with the height `top`, so that a popped value stays in its cell as
in `Stack.hpp`, and an upvalue that is left open too long reads what is pushed
there next. `open` is the list `open_upvalues_`, whose order is what
`capture_upvalue` and `close_upvalues` rely on. A runtime error is the status
"error". The module also states what the machine takes on trust and nothing checks
at run time (`CodeFits`, `OperandsPresent`, `StackFits`), and, as operators of a
program, the objects and so on, the parts of its inductive invariant `IInv`.

`Bytecode` says which code fits the machine (`ProgramFits`); it is what the theorem
about the compiler concludes and what `CodeFits` says of the program that runs.
`Trees` says of a set `T` of trees that it has the subtrees of its members and that
their fields hold what the compiler looks for (`AreTrees`). `MCLox` assumes it of the
programs of the runs (`SourcesAreTrees`), which TLC evaluates. `Interpreter` is the
sequence of `run`: `CompileStep`, then `ExecuteOutput` if there was no error, then
`MachineStep`.

`Semantics` is no translation: it is the reference that the translation is checked
against, an evaluator with locations and named scopes that has no slots, upvalues
or jumps. It follows the programs of `src/tests`, with three choices of loxx stated
at its head.

`Rules` is a reference too: the static rules of the language (`return` outside of
functions, `this` and `super` outside of classes, a local in its own initialiser, two
locals of one name) as statements about trees, each from a test of the repository.

`Lox` puts the references next to the interpreter. Its state graph has one path per
program of `Sources`: the compiler and the machine are deterministic, and what TLC
varies is the program. `LoxPrograms` builds the programs as families, each the
product of the parts that interact (which variable each closure captures, what
happens between capture and use, whether a scope ends by its brace, a `return` or
the next round of a loop; each rule just kept and just broken, in every kind of
function and class).

`Repl` is `run_prompt`: `run` again and again, with a new compiler and the same
virtual machine, whose members stay as the last input left them.

### Scanner and Scanning

A text is a sequence of characters. `ScanString`, `ScanComment` and the others are
one call of `scan_token` each; the loops inside it are `While`, the position they
stop at. `Scanning` reads the same text as a sequence of longest pieces (`Pieces`),
by the definition of each kind of token and not by looking at one character after
the other.

### Parser, Grammar and Parsing

The call stack of the functions is the list `todo`: a rule is replaced by the tasks
it consists of (`Want`, a `consume`; `IfMatch`, a `match`; `Make`, a node of the values
held so far). A thrown `ParseError` cuts the list at the `Caught` of the nearest
`declaration`, as the exception unwinds to its `catch`. The six functions of binary
operators are the levels of one table. The types of the tokens are chosen when the
parser first looks at them, so that what cannot matter does not multiply the states.
`nodes` are the trees, with the tokens and the trees they own. `Fields` and `Takes` are
the constructors of `Expr.hpp` and `Stmt.hpp`.

`Grammar` is a reference: the sentences of Lox as a context-free grammar, without
precedence. When the parser has returned, `Parsing` derives the tokens it has seen,
all derivations at once, up to the first token that no derivation has there. `Words`
reads the tokens of a tree in the order of the source: the increment of a `for` is the
only part whose place in the tree, behind the body, is not that of the source.

### LineTable

The rows of `line_num_table` with the widths of their integers: `Int8`, `UInt8`,
and `Quotient`, the division of an `int` by an `unsigned int` with its conversion
modulo 2^32 (a negative difference becomes a large number, and the low byte of the
quotient is kept). A sum of lines below 0 stands for the unsigned number that is
printed, modulo 2^32. Two history variables state the property: `reports`, for each
instruction that can fail, the positions `ip_` can have then and the line to report, and
`exact`, whether every difference of lines so far has fitted a signed byte.

## 3. Runs

Checked runs, all complete within about two minutes:

| Run | Properties | What it shows |
|---|---|---|
| `tracker` | `TypeOK IInv SingleOwner MarkedFromRoots Interned NeverFreesReachable` | the marking loop, with strings, held objects and reused addresses: nothing reachable is freed, nothing is owned twice, live strings stay unique; `IInv` is the inductive invariant of the proofs |
| `tracker_heap` | `NoDangling SweepExact CollectionEnds` | without held objects and strings, with two references an object: a collection keeps exactly the reachable objects and the new one, no pointer dangles, and the loop of passes ends, on cyclic references too |
| `hash_table` | `Room OneSlotPerKey RunsUnbroken IInv Implements CallsEnd` | the table implements `Dictionary` and every call ends, although `num_used_slots_` drifts upwards: `remove` counts the elements it moves again; `IInv` is the inductive invariant of the proofs, the types included |
| `lox` | `TypeOK Correct RejectsExactly CodeFits FramesLinked OperandsPresent OpenUpvaluesOrdered OpenUpvaluesLive HeightsAgree IInv CallersUntouched` | closures, loops, classes, fields, errors, recursion to the limit of frames; 512 programs, every function of three statements out of eight that capture, shadow, overwrite and leave variables; subclasses declared among the locals of a block or a function, whose `super` has a cell of its own; programs at the limits of locals, constants and jumps; each static rule kept and broken in twelve places |
| `lox_loops` | `Ends` | compiled nested loops end |
| `line_table` | `TypeOK LinesRight` | for instructions other than calls, the line found is the line of the token as long as every difference of lines has fitted a signed byte, and from there on the same modulo 256, as long as the difference of the instruction itself is below 256 |
| `scanner` | `ErrorsExact TokensExact Ends` | the tokens and the errors of every text are those of the longest pieces, with their lines, and the scanner ends, also when a string is not closed |
| `parser` | `TypeOK TreesFormed ErrorsCaught AcceptsGrammar RightShape NothingLost LimitReported Ends` | the parser accepts the sentences of the grammar and no others and reports the first error at its token; trees have the parts their constructors take, the right precedence, and, after a text without error, every token once and in order, so that no statement is lost and no clause of a `for` is lost or comes in another place (the increment last in the body); nothing is thrown that no declaration catches; it returns, whatever it has to recover from |

`Correct` compares the output and the outcome with those of `Semantics` at every
step. `OperandsPresent` and `HeightsAgree` state the convention between the
compiler and the machine: an instruction finds its operands in its own frame,
and whichever way control takes to an instruction the stack has the same height.
`CodeFits` states the rest of the convention: jumps stay in the code of their
function, which ends with a return, and a closure names upvalues of the function it is
created in only. That is proved of the compiler's code (section 4);
`OperandsPresent` remains a premise of the theorems about the machine, which TLC
checks here of the code that the compiler makes. `OpenUpvaluesLive` says that an
upvalue is closed before its cell goes, which the compiler has to see to as well.
`HeightsAgree` uses the history variable `seen`, the height when an instruction
ran first. `CallersUntouched` is an action property: a step changes no cell below
its frame, except through an upvalue. `RejectsExactly` compares the errors of the
compiler with `Rules`, with the number of different literals, and with the distances
of the jumps in the code it made: nothing is rejected for another reason.

`TreesFormed` says of every node that its parts are what its constructor takes: a token,
an expression, a statement, a function. Nothing checks that at run time: `assignment`
and `class_declaration` cast pointers to the type they take them to have, and the
compiler follows every pointer but those to parts that the grammar makes optional. A
null pointer among statements is allowed only when a syntax error has been reported,
and `run` does not compile then. `ErrorsCaught` says that whenever `consume` or `primary`
runs, which may throw, a `declaration` is on the call stack to catch it.

Runs that show a disagreement (`expect: violation`); each counterexample was also
run with a build of the program, which behaves as the model does:

| Run | What the code does |
|---|---|
| `tracker_held` | a string literal in a constant table is freed by a collection while the code that loads it runs, and so is a closure while `execute_create_closure` allocates its upvalues: a loop that creates 200000 closures crashes |
| `lox_or` | `or` leaves its falsy left operand on the stack; `{ var a = false or 1; print a; }` prints `false` |
| `line_table_calls` | the row of a call is added before its operands; a failing call is reported for the line of the code that follows it |
| `repl` | `Return` at the end of an input pops the empty stack, so that each input leaves the height one lower than it found it: 2^64 - 1 after the first (-1 in the model), 2^64 - 2 after the second. Values are pushed there, outside of the array, while the slots of the frame still begin at the bottom of the array. Of the inputs `print 1;`, `var a = 2;`, `print a;`, `{var b = 3; print b;}` the last one pushes 3 three cells below the bottom and reads `b` in slot 0, where the 1 of the first input was left: it prints 1. A runtime error after them ends the program. After a runtime error the frames, the stack and the open upvalues stay too |

The programs of the passing runs of `Lox` therefore avoid an `or` with a falsy
left operand followed by a local. Three more places where the code is wrong, each
tried with a build of the program:

- The local for `super` is never defined and keeps depth 0, so the `end_scope` that
  follows emits no `Pop` and leaves it among the locals (`Compiler.cpp:53`, `82`).
  Where control passes the class once, the cell and the local agree until the function
  ends, and the family `Subclasses` shows that the code is right there, also with locals
  in front of the class, behind it, and captured. Elsewhere it is not: after a subclass in
  a loop, or in a branch that is not taken, later locals are read in wrong cells; the
  locals in front of a subclass in a block stay in scope after the block, so that they
  hide globals and a later block cannot declare their names; and `super` in a method,
  after a subclass nested in that method, is rejected. The model does all of that too;
  the programs contain none of it.
- A difference of 128 lines or more (129 backwards) is truncated before it is bounded
  (`FunctionScope.cpp:264`): an error on line 130, with the last row for line 1, is
  reported for line 4294967170. The run `line_table` has such differences, and `LinesRight` says how far
  the line is wrong from there on: by a multiple of 256, which a later difference does
  not mend. From 256 on there are several rows, and the lookup can stop in front of the
  last of them, so that nothing is said of such an instruction itself.
- The 257th local of a function is compiled as the first (`FunctionScope.cpp:65`), and a
  function with 256 upvalues counts none (`Object.hpp:99`), so that the machine executes
  the operands of its `CreateClosure`. `Slot` and `Upvalues` say so, and the programs
  end at the limits: as many locals as a byte has values, and one upvalue fewer.

### Bounds, and why they are enough

- **Tracker.** Three addresses, trigger 1, one or two references an object. A
  collection starts with `Trigger + 1` tracked objects and a new one, so three
  addresses give a reachable and an unreachable object or a chain of two, in both
  orders in `objects_` (forwards and backwards references need one and two passes),
  and cycles. Addresses are interchangeable, and `SYMMETRY` is used in `tracker`,
  which has no liveness property. The proofs cover every number of objects.
- **Hash table.** Four keys of which three share the last home position of a table of
  four (so that runs wrap around), capacity from 4 up to 16: two growths, one of
  which can start inside `remove`. The code starts with a larger table of the same
  shape (a power of two, a limit below the size). `MaxCapacity` is a guard on
  `Assign` and `Erase`; without it the drift of the count lets the capacity grow for
  ever.
- **Lox.** `MaxFrames` = 5 in place of 64, so that the recursion of the family
  `Recursion` reaches the limit. `MaxStack` = 28 cells, which no program of the
  runs fills. `ByteSize` and `MaxConstants` are 24 in place of 256 and `MaxJump` is 100
  in place of 65535; the families `ManyLocals`, `ManyLiterals` and `LongJumps` have
  programs at each limit and one beyond it. Numbers are integers, and the value that
  `clock` returns is 0.
- **Line table.** Four instructions, line differences -200, -128, -3, 0, 1, 127, 130, 300
  (each side of a signed byte, and one beyond a byte), lines up to 450, gaps of up to 180
  bytes without a line. The rows of one instruction hold the difference from the one
  before, and the decoder sums rows, so four instructions show every order of a
  difference that is exact, one that is cut off and one that takes several rows. Code with
  256 bytes or more between two updates is outside the bounds.
- **Scanner.** Texts of up to five characters over ten: two letters that form the one
  keyword, a digit, the dot, the quote, the slash, `=`, a blank, a line break and a
  character Lox does not have. The code tells no more classes apart, save the single
  characters, which have one action. Five characters hold a number with a fraction
  and something behind it, a comment or a string across a line break, and each of the
  two after an error.
- **Parser.** Each input gives a set of types for each position: eight to sixteen
  positions around one construct (assignments, binary operators, nested conditionals
  and loops, `for`, classes, functions), with the tokens that belong there and some
  that do not, the end of the text included; five positions of any of seven tokens
  for the recovery; two positions of any token at all; and seven to nine
  parameters and arguments.
- **Prompt.** Three inputs, of which two are given one after the other.

`CHECK_DEADLOCK FALSE` stands in the runs of `Lox` and `Repl` (a program and a session
end), of the scanner and the parser (they return), of the tracker
(when every address is in use and pinned) and of the line table (a bounded number of
instructions).

### Fairness

Each fairness condition says that a loop inside one call goes on; the program has
one thread and none of the calls waits. `WF(Collect)` is the loop of
`collect_garbage`, `WF(Step)` the loops of `rehash` and `remove`, and
`WF(LoxNext)` the compiler and the loop of `execute`, `WF(Next)` in `Scanning` the loop
of `scan_tokens`, and `WF(Parsing)` the functions of the parser. Nothing is assumed of the
mutator or of the callers of the table: they may stop at any time.

## 4. Proofs

Every theorem holds for all values of the constants that the assumption of its module
admits (`ObjectTrackerAssumption`, `HashTableAssumption`, `LineTableAssumption`,
`CompilerAssumption`, `VirtualMachineAssumption`), which TLC evaluates in the runs. Further premises are
named below, each with what stands for it.

### The collector

`ObjectTrackerProofs`, for every set of addresses and texts, every trigger and every
bound on references:

| Theorem | States |
|---|---|
| `TrackerInvariant` | `Spec => []IInv`, the inductive invariant |
| `TrackerTyped` | `Spec => []TypeOK` |
| `OwnersAreUnique` | `Spec => []SingleOwner` |
| `MarkingCorrect` | `Spec => []MarkedFromRoots` |
| `InterningCorrect` | `Spec => []Interned` |
| `ReachableObjectsSurvive` | `Spec => NeverFreesReachable` |
| `CollectionIsExact` | `Spec => SweepExact` |
| `PointersStayValid` | with no held objects and no strings, `Spec => []NoDangling` |

The premises of the last theorem are `MaxHeld = 0` and `Text = {}`: the run
`tracker_held` shows that the former cannot be dropped.

The argument: `IInv` strengthens the marking invariant (no object that waits in
`objects_` is white and referenced by a root or by an object already moved) by what
it needs to be inductive: the types; single ownership, so that moving an object out
of its slot takes it out of `objects_`; that nothing has been moved while the
mutator runs; that nothing black waits, so that "not grey" means white; and that
each live string is in `strings_`, so that a search that finds nothing proves there
is no equal string. `Reachable` is defined as the intersection of the sets that hold
the roots and are closed under references, so the lemmas need no induction over
paths. `MarkingComplete` is the heart of the exactness: when no grey object waits,
what was moved holds the roots and is closed, so it contains `Reachable`, and the
invariant says it is contained in it. `ReachableObjectsSurvive` and
`CollectionIsExact` follow for the step `Sweep`, and for the other steps from the
frame lemmas (`AddObjectStep`, `MoveSlotStep`, `LoopStep`, `MutatorFrame`).
`PointersStayValid` adds that what the new object refers to survives the collection
that runs inside its own allocation, because the caller holds it in the roots.

### The hash table

`HashTableProofs`, for every set of keys and values, every hash function into the
natural numbers, every initial size and limit with 0 < limit < size:

| Theorem | States |
|---|---|
| `TableInvariant` | `Spec => []IInv`, the inductive invariant |
| `TableTyped` | `Spec => []TypeOK` |
| `TableHasRoom` | `Spec => []Room`: a slot is empty, so `find_new_pos` and `get` end |
| `KeysStoredOnce` | `Spec => []OneSlotPerKey` |
| `RunsStayUnbroken` | `Spec => []RunsUnbroken` |
| `TableImplementsMap` | `Spec => Implements`: the table implements `Dictionary` |

`Room`, `OneSlotPerKey` and `RunsUnbroken` are not inductive: they speak of the moments
between two calls, or of `data` alone. `IInv` adds

- what the locals of `rehash` mean while its loop runs (`RehashLocals`), and that the
  elements still to come fit under the new limit (`RehashFits`);
- that keys are distinct over the table, the part of `old_data` that waits and the
  element `operator[]` carries, all taken together (`KeysDistinct`);
- that inside of `remove` the elements cut off from their home are among those that
  the loop has still to move (`RunsMended`).

The lemmas on probe sequences say where `find_new_pos` stops (`FindNewPosFacts`) and
that filling or emptying a slot keeps the runs it is not part of. A set of distances has a
least member by the well-foundedness of `<`, so that no induction over loops is
needed. For the refinement the map is a function of a *set* of elements (`Stored`),
and each action is shown to change that set by one element (`Assign`, the end of
`remove`) or not at all (`RehashSlot`, `Shift`, also where `remove` starts a `rehash`).

### Line numbers

`LineTableProofs`, for every number of instructions and lines:

| Theorem | States |
|---|---|
| `LinesAreRight` | if `LineSteps` is a subset of -255 .. 255, `Spec /\ []GapFits => []LinesRight` |

`GapFits` says that no more than 253 bytes of code lie since the last row (the next
instruction brings two at most), so that the bytes since then fit the byte of a row. With
the other premise a difference of lines takes two rows at most, of which the first has all
the bytes and lines, save what the cast cuts off, and the second is empty. The
invariant `LinesInv` says that the sum of bytes is the member `last_instr_num_`, that
the sum of lines is `last_line_num_` modulo 256, and equal to it while `exact` holds, and
that each position of an instruction lies in a row whose sum of lines is its line in the
same sense (`Located`). The sums that the decoder forms are a recursive function on the
naturals; that it has the expected values, and that a sum of a table is not changed by
rows appended to it, is shown by taking the least index at which this fails. That a row
consists of bytes (`TypeOK`) follows from the casts alone and is only model-checked.

### The virtual machine

`VirtualMachineProofs`, for every set of programs that fit the machine
(`\A p \in Programs : ProgramFits(p)`), every limit of frames and every size of the stack:

| Theorem | States |
|---|---|
| `MachineInvariant` | `Machine(Programs) /\ []HeightsFit => []IInv`, the inductive invariant |
| `MachineIsTyped` | ... `=> []TypeOK` |
| `OpenUpvaluesInOrder` | ... `=> []OpenUpvaluesOrdered` |
| `CallsReturnToCalls` | ... `=> []FramesLinked` |
| `CallersAreUntouched` | ... `=> CallersUntouched` |

Two things the machine takes on trust, since no instruction checks them. `ProgramFits`
says that jumps stay in their code and that what code refers to exists; the theorem about
the compiler establishes it. `HeightsFit` is `OperandsPresent /\ StackFits`: operands are
on the stack and above slot 0, those of `CreateMethod` and `GetSuperFunc` have the types
the code assumes, and the stack has room. It stays a premise, for the code has
programs that break it (see below, and `Stack.hpp` has no check of its bounds). Without
it one could state no theorem: the program would read and write outside of its array.
TLC checks `OperandsPresent` for the compiled programs of `lox`, and `StackFits` is
part of `TypeOK` there. `Machine` begins at `Init` and executes one program, as
`run_file` does. The run `repl` shows that a second `execute` on the same machine does
not find the clean stack that the first one did, so the theorems do not extend to the
prompt.

`IInv` is needed as a whole: the order of the list of open upvalues depends on upvalues
that are reached through closures being upvalues, and these on closures being made with
as many upvalues as their function has, which depends on the frame that runs being one of a
closure of `fn`. Its parts:

- `HeapOK`: every object has the fields of its type and refers to objects that exist
  and have the type that the code takes them to have (methods of a class are closures,
  the class of an instance is a class, a superclass is older than its subclasses);
- `CellsOK`, `GlobalsOK`: values that are objects exist;
- `OpenOK`: the list of open upvalues is in order and complete;
- `FramesOK`, `LinkOK`, `ChainOK`: the frames lie above one another, and each
  returns behind a call in the code of the one below it.

Objects are never removed and never change their type (`Keeps`), which carries most
parts over a step. Two operators are recursive functions, and that they are defined on all
their domain, and what they compute, is shown by a least counterexample: `Method`, the
search along superclasses, which ends because a superclass is older, and `Captured`, the
loop of `execute_create_closure`, of which `CapturedOK` is the loop invariant.
`CallersUntouched` follows step by step from where an instruction writes: the place of
an operand, the cell above the top, a local, or the cell of the callee, none of which
is below slot 0 of the frame.

### The compiler

`CompilerProofs`, for all limits, and programs of any length and depth:

| Theorem | States |
|---|---|
| `CodeIsRight` | for trees `T` with `AreTrees(T)` and statements of `T`: a compiler that begins with them and satisfies `[]FewUpvalues` satisfies `[](CompilerDone => ProgramFits(Output))` |

The theorem speaks of all trees without an induction over them: a set `T` that
contains the subtrees of its members and in which each node is well formed, of which
the trees of any program are an example. What the compiler has still to do is a list
of tasks, so that no step goes deeper than one node.

The invariant `Sound(T)` is the state of the scopes and functions (`StateOK`: what is
referred to exists, and functions that are finished fit) and a *plan*: the open jumps and
loop heads (`marks`) and the depth of functions before each remaining task, such that
each task leads from one to the next (`TaskOK`) and the last to the end, where no jump is
open and only the top-level function is left. A visitor replaces its node by tasks that
lead to where the node would have led, which for a node is where it began: so jumps are
patched in the function that they are in, before it ends. `JumpOK` says that a jump leads
into its code, to the place behind its last instruction, or is among the open ones; the
`Return` with which every function ends is what fills that place.

`FewUpvalues` says that no function has as many upvalues as a byte has values.
It is needed: `num_upvalues` (`Object.hpp:99`) would be 0 then, and the machine would read
the operands of `CreateClosure` as instructions. The programs of the run `lox` satisfy
it: those with the most upvalues end one below the limit.

### The interpreter

`InterpreterProofs` puts the two together (`RunSpec`), so that the machine's
trust in the code is discharged by the compiler. For programs of trees of any `T` with
`AreTrees(T)` (which is `Given(T)`):

| Theorem | States |
|---|---|
| `InterpreterRunsFittingCode` | `RunSpec /\ []FewUpvalues => []CodeFits` |
| `InterpreterInvariant` | `RunSpec /\ []FewUpvalues /\ []HeightsFit => []IInv` |
| `InterpreterIsSafe` | ... `=> [](TypeOK /\ OpenUpvaluesOrdered /\ FramesLinked)` |
| `InterpreterKeepsCallers` | ... `=> CallersUntouched` |

The run `lox` checks the same properties in `Lox`, which adds only the comparison to
`RunNext`.

### The parser

`ParserProofs`, for all inputs of any length:

| Theorem | States |
|---|---|
| `ParserTypes` | `ParserSpec => []TypeOK` |
| `ParserFormsTrees` | `ParserSpec => []TreesFormed` |
| `ParserCatchesErrors` | `ParserSpec => []ErrorsCaught` |

None has a premise. The invariant says that there is a plan `p` with `Sound(p)`:
for each remaining task the *sorts* (a token, an expression, a function, an
optional statement, ...) of the values that are held before it and after it.

- `Well`: what has been made so far is well formed, each node from older ones.
- `Holds`: the values held now have the sorts with which the plan begins.
- `Plan`: each task leads from its sorts to the next ones (`Works`); the last leaves
  statements only. A rule of the grammar adds what it returns on top, whatever lies below it,
  and a function of the parser is right when the tasks it consists of lead to the same.
- The `catch` of a declaration finds what was held when the declaration began
  (`Agree`), so that cutting off what lies above it, as the exception does with the
  local variables it unwinds, leaves the plan of the rest valid; and every task that may
  throw has a `catch` behind it. This part is what nested declarations and recovery need.

A value keeps its sort for good, since tokens, nodes and errors are only added
(`StillHas`). What `TreesFormed` says of the parser's trees is what `AreTrees` asks of
those given to the compiler, in the form in which each module represents them.

### What stays with TLC

- `CollectionEnds`, `CallsEnd` and the three `Ends`: liveness under fairness.
- `Correct`, `RejectsExactly`, `ErrorsExact`, `TokensExact`, `AcceptsGrammar`, `RightShape`,
  `NothingLost`, `LimitReported`: they compare the code with references that are
  recursive over syntax trees, texts or derivations.
- `OperandsPresent`: it is false of the code in general. The falsy left operand
  of an `or`, and the scope opened for `super`, shift the locals that follow, so that the
  machine can find another number of values than the compiler counts (section 3).
- `OpenUpvaluesLive` and `HeightsAgree`, which rest on the same count of locals.
- `StackFits` and `FewUpvalues`: premises that the code does not ensure for every program.

## 5. What is not modelled, and why

- **Optional, Variant, Generic**: the program keeps numbers, truth values and pointers
  in them, for which construction and destruction do nothing. The modules represent
  them by tags and records.
- **The collector together with the virtual machine**: `VirtualMachine` has unlimited
  memory, and `ObjectTracker` a mutator that does anything a program could do with
  its pointers, in the roots and outside them. A joint model would show the same
  freed objects with particular instructions.
- **The height of the value stack** (`Stack.hpp:68`): the code has no check of it, and
  a program that fills 16384 cells is out of the model checker's reach.
- **Numbers too large for a double** in the scanner, hash order, floating point and the
  formatting of numbers: no property is about them.
- **Reading files and options, exit codes, tracing, bytecode listings and the printer of
  syntax trees**: I/O and formatting; `get_current_line` of `logging.cpp` is in
  `LineTable`.
- **Native functions** other than `clock`: there are none.

## 6. Plan

Done, in this order: the tracker and its proofs, the hash table and its refinement,
the compiler and the virtual machine with the meaning of programs, the line table, the
parser, the prompt, the limits of indices and jumps, the programs that must be
rejected, the scanner, the pointers outside the roots, and the proofs of the tracker,
the hash table, the line table, the virtual machine, the compiler, the interpreter made of
the two, and the parser.

Next, to prove:

1. `Scanner`: the tokens lie in the text, in order and without overlap.
2. `Compiler` without `or` and superclasses: the heights of the stack that it counts on are
   those the machine finds (`OperandsPresent`), which would take that premise away for the
   programs that keep clear of the two disagreements.

# get-ziggy in TLA+

The repository holds a compiler for a subset of Rust. A Python front end
(ANTLR) turns a source file into a JSON tree, a compiler written in Zig type
checks and borrow checks the tree and emits bytecode, and a virtual machine for
that bytecode is being written next to it. These modules model the program from
its source, model-check small instances with TLC, and prove the results that
matter most for every instance with TLAPS.

## The system

| part | source | state | operations |
|---|---|---|---|
| driver | `main.zig` | the temporary JSON path, the child process, the tree read | start the parser, wait, open and read the file, compile, delete the file |
| ANTLR parser | `parser/RustParser.py`, `RustLexer.py` | the tokens read, the rule methods under way | one method per grammar rule, `expression(_p)`, error repair |
| parser process | `parser/gen_parse_tree.py` | the source read, the tree, the output file | `parse_file`, `trim_tree`/`trim_expr`, dump |
| tree types | `vm/types.zig` | none (data) | JSON decoding, operator and type tables |
| type environment | `vm/type_environment.zig` | a stack of frames, name to `SymbolInfo` with its borrows | `pushFrame`, `popFrame`, `addBinding`, `lookup`, `incrementImmutableBorrow`, `setMutableBorrow` |
| type and borrow checker | `vm/type_checker.zig` | the environment and the recursion itself | one `check...` function per node kind |
| bytecode compiler | `vm/compiler.zig` | the instruction list, jumps to patch | one `compile...` function per construct |
| virtual machine | `vm/virtual_machine.zig` | PC, operand stack, a bump-allocated heap | `run`, `eval_instruction`, `heapAllocate` |

The driver starts the parser as a process; the two share nothing but a file
named after the source, an exit code and a pipe. The parser process runs the
generated parser on the source, cuts its parse tree down to a JSON tree and
writes that; the compiler decodes it into a tagged union. `compileProgram` calls the
checker on the whole tree, then compiles it. The checker owns the environment
and passes symbols about by value, so that a copy and the binding it came from
share the buffer of a borrow list. Nothing starts the virtual machine outside
its own test.

The program is sequential except for the driver and its parser, and for two
drivers at work on one source. What is hard in it:

- **Copies that are used late.** `lookup` returns a copy. `checkReassign` and
  `checkApp` decide on one, then check a subtree that may change the
  environment, then use the copy again. The two borrow functions free a copy
  whose buffer the binding still uses.
- **Reused lifetimes.** The lifetime of a scope is its frame's index, so
  sibling blocks share one. Everything depends on `popFrame` releasing a
  scope's borrows before the index is used again, and no others.
- **Error paths.** Any check may fail at any depth; `defer` has to leave one
  frame for every block or function that is still under way.
- **Two sets of tests for one rule.** The checker and the environment both test
  for borrow conflicts, and answer with different errors.
- **Addresses known later.** A jump is emitted with address 0 and patched after
  the recursion has emitted any amount of code.
- **Conventions about the operand stack.** Each construct relies on what every
  other leaves on a stack that exists only when the program runs, and on what
  the machine's instructions do to it, written down in another file.
- **Trees found by position.** The translation knows a rule's children by their
  number and place only, has one layout for a rule with several, and takes
  precedence from the tree's shape. Two programs in two languages have to agree
  on every tag, spelling and null.
- **Repairs.** A syntax error is printed and repaired, and the repaired tree is
  translated like any other.
- **A heap that outlives the run.** Nothing is freed, a failed allocation is
  answered with a number that may be a node's address, and a jump lands one past
  its target.
- **Files and processes.** A shared temporary path, exits that skip `defer`, an
  exit code that says success when no tree was written, a pipe nobody reads,
  signals.

## Modules

| module | models |
|---|---|
| `Types` | type names, parameters, signatures, error set |
| `TypeEnvironment` | the environment with one operation per function, and a specification of its legal use |
| `TypeEnvironment_proofs` | its theorems |
| `TypeChecker` | the checker, extending the environment |
| `MCTypeChecker` | parameter lists for its instances |
| `TypeChecker_proofs` | its theorems |
| `Compiler` | `compile` and the bytecode it emits |
| `Compiler_proofs` | its theorems |
| `CompilerNesting_proofs` | those about how functions and scopes nest in the code |
| `CompilerHeights_proofs` | those about the height of the operand stack in the code |
| `Driver` | driver and parser processes, files, signals, edits |
| `MCDriver` | the programs of its instances |
| `Driver_proofs` | its theorems |
| `GrammarNotation` | how a rule method of the generated parser is written down |
| `RustItems`, `RustExpressions`, `RustTypes` | the 196 rule methods |
| `RustGrammar` | the table of them |
| `RustLexer` | the words of a source and their token types |
| `RustParser` | the parser at work: rule methods under way, `expression`'s precedence loop, repairs |
| `RustParser_proofs` | its theorems |
| `GenParseTree` | the translation to the JSON tree |
| `JsonAst` | what the compiler decodes |
| `FrontEnd` | the parser process: parse, translate, write |
| `SourceReader` | what the front end promises: an abstract specification |
| `MCFrontEnd` | the sources of its instance, and what a rule method still costs |
| `VirtualMachine` | heap, operand stack, `run` and the implemented instructions |
| `MCVirtualMachine` | its programs |
| `VirtualMachine_proofs` | its theorems |

### TypeEnvironment

`frames` is the list of scopes, outermost first, each a function from names to
a symbol or `None`. A symbol keeps the fields that are read of a binding:
`type_name`, `is_mut`, `func_sig`, `declaration_lifetime` and the two borrow
fields. (`is_reference` is never kept: `checkAssign` makes a fresh symbol.) An
operation that can fail has an operator for its error, in the order of the
code's tests, and an action for its success. The borrow actions contain the
caller's `defer target_info.deinit()`, because that frees the binding's buffer:
`buffer` says whether there is one and whether it has been freed, and once it
has, the entries read as they were or as filler (`Poison`), which covers release
and debug builds. The borrow list is a set: the code asks for emptiness, and
removes every copy of a lifetime. A list that outgrows its first buffer is left
out; it takes eight live entries.

`EnvSpec` is the environment's contract: any order of its operations, with the
symbols the checker creates. It is the abstract specification that the checker
implements.

### TypeChecker

The checker recurses over a tree. The model keeps the recursion as a `stack` of
activations, each with the call it waits for (`site`) and the locals read after
that call, and chooses the tree node by node as `check` reaches it: `Expected`
says which node kinds the parser puts in a place. One run of TLC therefore
checks every program up to the bound. `mode` says whether a check is being
called, has returned, or is raising an error; `Unwind` runs one activation's
`defer` per step. A node kind has an action for the first part of its check
function and one for what follows each call it makes.

`Abort` covers the uses of freed memory: a debug build may stop the process
there, a release build goes on. After the checker has returned, `deinit` pops
the frames, or `Exit` ends the process as `main.zig` does on an error.

Of operators, only what the checker distinguishes is kept (integer-only or
not). Annotations are type names the program mentions, never `Undefined`.

### Compiler

As in `TypeChecker`, the recursion is a stack of activations and the tree is
chosen node by node. An instruction is its opcode and its number: jump target,
function start or arity. Names, literals and operators do not matter to the
properties, so nothing says who owns their strings; an `EnterScope` stands for a
non-empty list of locals. A block decides before its body whether it has
locals, so the choice is made first and the body's sequence then has a
declaration or has none (`declares`).

The module compiles more trees than the checker lets through: ill-typed ones
and the kinds the checker answers with `UnimplementedAstNode` (`Unchecked`),
which `compile` translates all the same. What holds of all of them holds of the
accepted ones. `compile` fails on `break`, `continue` and an assignment to
something that is not a variable, and the code it has so far is dropped.

The height of the operand stack is computed from the finished code (`Height`),
with the effect of each instruction taken from the meanings noted in
`virtual_machine.zig:576-668`: `Assign` keeps the value it stores, which is what
the `Pop` between statements relies on, although the comment at compiler.zig:247
says a declaration leaves none. The code never calls `main`: a program defines
its functions and ends.

A `Reset` returns to the caller, and a `Call` leaves one value; so a `Reset` has to
find one value of its own function's. It does not where a return stands in the
midst of an expression: `1 + return 2` and `f(1, return 2)` leave the operands they
have evaluated below the value they return. Whether `Reset` drops them is for the
machine, where it is empty. `plain`, a history variable, says that the program so
far has none of these (`Abandons`), no logical operator and no cast, and
`NodesLeaveOneValue` is about such programs.

### Driver

`Runs` are runs of the driver on one source file. Each has a place in `main`
(`pc`) and a parser (`child`). The file system is POSIX: `temp` is the inode
that the temporary path names, `disk` the contents of each inode; a process
keeps the inode it opened when the name is removed, and opening for writing
truncates. A file is the sequence of the programs its chunks were written for,
so that a mixture of two trees is visible. A signal may end either process and
the user may edit or remove the source at any time. `readToEndAlloc` includes
the JSON decoding: a whole tree decodes if its program is `Decodable` (one with an
empty block or an unknown type is not), one with chunks missing does not, one
with chunks of two trees may do either. A tree decoded by chance may compile or
not. A parser whose driver was killed has nobody to read its errors: writing one
raises an exception, which `parse_file` catches. The limit of 10 MB on the file is
left out. `alone` is a history variable for a property.

### Front end

`RustItems`, `RustExpressions` and `RustTypes` have a definition for each rule
method of `RustParser.py`, of the same name: the calls the method makes, in
their order. `expression(_p)` is a list of primaries and one of suffixes, each
with the level that its `precpred` test compares with `_p`.

`RustParser` runs them; its specification on its own is `ParserSpec`. A rule
method under way is a frame with the children of its context and what is left of
its production, and a call stays at the head of the caller's production until it
returns; `EnterRule`, `Choose`, `Iterate`, `LeaveLoop`, `Match`, `Extend` and
`ExitRule` are what the methods do with the ANTLR runtime. A context carries the
places of its first and last token (`start`, `stop`), as the runtime's contexts
do. The source is not fixed beforehand: each token that the parser matches
chooses a word, so one run covers every source of a *profile* (a set of words, a
number of words, the rules kept out). `Affordable` keeps a choice only if some
source within the number can still be finished: `CostOf`, a constant, says how
many words a rule method still needs. `MCCostOf` of `MCFrontEnd` is the least
number that can follow; the theorems hold of any other.
`adaptivePredict` is the choice of an alternative that the rest of the source
allows; where two read the same words it takes the first, and so does the model
for the alternatives in `Shadowed`, for operators (`barred`: an operator goes to
the innermost open expression that may take it), and elsewhere the model takes
either. Two of the runtime's repairs are modelled where the token at hand
settles them: a missing `;` or `}` that is conjured up, and a block given up at
the end of the source.

`GenParseTree` is `trim_tree` and all it calls, branch by branch; an exception
of any kind is `Raised`. A JSON node keeps its tag, its operator, the tokens
whose text it holds and its children. `JsonAst` says which of those are a
`JsonAstNode`. `FrontEnd` composes them as `parse_file` and `__main__` do: its
`Parse` is a step of `ParserNext`, and its other steps leave `parserVars` alone,
so that what is proved of `ParserSpec` holds of the parser within it. That
composition is plain to see but not a theorem, as `FrontEnd` reaches recursive
operators.
`SourceReader` is what the rest of the program may rely on: words are read one
after the other, and what is handed over, once or never, are names and literals
of the source in their order. `ReaderSpec` is the refinement: `text` is the
source read so far, `outcome` the phase, `names` the places of the tokens in the
JSON tree.

Some constructs are passed over without a word (`PassesOver`): generic
parameters and arguments, `where`, function qualifiers, all but the first child
of a method call or an index, a labelled `break` with a value, `|` and `@` in
patterns. `let ref x` is taken for `let mut x`, and `let (|x)` declares a
variable `|`. An assignment associates to the left, `a = b = c` being
`(a = b) = c`. The compiler refuses an empty block that is not a function's
body, since it is written as `""`. A type it does not list is refused, also one
that the translation makes up: `1_000` is the literal `1` of type `000`, and
`1.5f64` has none. A mutable borrow is written with the operator `&`, which the
Zig side decodes as the operator of a shared borrow.

### VirtualMachine

The file does not compile as it stands and is read as it is meant:
`numberNodeStr` is declared to return nothing and its caller uses the text it
prints. What `eval_instruction` leaves empty does nothing here (`Skip`),
`apply_binop` answers 0, `is_False` true, and `Pop` and the operators look at
the top operand without removing it. `std.debug.assert`, an index out of bounds
and a byte that is no `Tag` stop the process (`panic`), as in Debug and
ReleaseSafe builds.

A byte of `HEAP` is what it is part of, its content and its place in it, so that
a node written over by another, even in part, differs from what it was. Numbers
have the widths of the code: a signed literal is sign-extended to the word and
narrowed when it is printed, one that does not parse is 0x4545 (`Filler`), and
an `f64` is never stored (`Garbage`). `initCanonicalValues` and `run` may be
called at any time and in any order, as nothing says otherwise: the heap stays
from one run to the next. An operand that cannot be pushed for lack of memory
ends the run with an error, after the node it was to hold was made. `made` is a
history variable: what each node was made to hold.

`HeapOperandsAreNodes` says what can be said of operands here. One that lies in the
heap is the address of a node, with two exceptions: 0 while the heap is empty, as
the answer of `apply_binop` or as undefined memory, and 0x4545 once a failed
allocation has been answered with it. An operand past the heap (an unset canonical
address, undefined memory filled with 0xaa) points at nothing, and the instances'
values of `Garbage` and `NoConstant` are assumed to be such, or 0
(`GarbageAssumption`).

## Runs

| run | instance | shows |
|---|---|---|
| `checker_all` | every node kind, four types, 5 nodes | balanced scopes through every error path, every check ends |
| `checker_borrows` | blocks, declarations, borrows, assignments, functions and calls, 8 nodes | an assignment's target keeps its binding, type and mutability, and gets no borrower around the assignment; a call's signature stays the one in scope; borrow exclusion, lifetimes, when borrows end; the checker implements `EnvSpec` |
| `compiler` | every node kind, calls of up to two arguments, 5 nodes | jumps land, functions are entered by calls only, scopes and the operand stack balance on every path, and a `Reset` finds one value |
| `front_end` | 35 profiles of 8 to 18 words | the source is read to its end, and the contexts under construction and the tree cover it without gap or overlap; operators bind as their levels say; the JSON tree says what the source says, or nothing is written; the compiler can decode it; the front end implements `SourceReader` |
| `machine` | every program of two instructions, and longer ones with loops; heap of 19 bytes, words of 2 | nodes are never written over and read back; operands in the heap are nodes, with two exceptions; `PC` leaves a program only past its `Done` |
| `driver` | two runs, five kinds of source | no file is left by runs that return; a run on its own compiles its own source; every run ends, unless the pipe fills |

Six runs show a comment or a test contradicted (`findings` in
`PROJECT.json`):

| run | says | the code |
|---|---|---|
| `ended_scopes` | `popFrame` removes every borrow of the ended scope (type_environment.zig:100) | a second borrow writes through a freed list, whose filler is never removed |
| `compound_of_borrowed` | compound assignment follows the logic of reassignment (type_checker.zig:362) | it never looks at the borrows |
| `conflict_errors` | a borrow that conflicts with another fails with `BorrowConflictImmutable` or `BorrowConflictMutable` (compiler_test.zig:519, :551, :581) | the checker refuses it first, with `InvalidOperation` or `ReadOfMutablyBorrowed` |
| `jof` | a logical operator leaves one value (compiler.zig:479), and so does a conditional (:297) | the first needs a `Jof` that keeps the condition, the second one that pops it |
| `temp_file_left` | the temporary file is deleted on leaving `main` (main.zig:38) | not after a compile error |
| `stale_tree` | the exit code tells whether the script succeeded (main.zig:66) | a failed translation exits with 0, and an old file is compiled |

That no program of any size gets one of the errors those three tests expect is
the theorem `ErrorsRaised`. A fourth test, compiler_test.zig:487, expects
`ShortLivedBorrow` of `r = &x` where `x` is declared in an inner block; its
comment marks it as known not to work, and the checker accepts the program. Nor
does `checkReassign` notice that the value borrows the target itself (`x = &x`),
which nothing in the repository forbids or allows.

Bounds. `MaxNodes` counts the nodes chosen freely; after it only literals and
empty blocks complete the tree. Five nodes reach every construct with an operand
of every other kind and an error two scopes deep. The borrow run takes eight: a
declaration, a block, two borrows in it and a third after it, with the sequences
that hold them; an assignment whose value is a block that borrows the target; or
a function, a call and an argument block that declares the function's name
again. One name is enough: the borrow rules never relate two variables, and
parameters and functions can shadow each other with one. `conflict_errors` takes
six nodes, for the program of compiler_test.zig:519. `compiler` has room for a
construct inside another and a third beside it, such as a loop in a branch of a
conditional in a function; its properties are about neighbours, and all of them
are also proved. `NodesLeaveOneValue` is about programs without logical
operators, casts and returns amid operands: the first are the finding `jof`, a
cast is compiled to a binary operator with one operand, marked as a TODO, and
the last leave more (see *Compiler*). `jof` takes seven nodes, for a conditional
whose condition is a logical operator. The driver's programs are one each of:
compiles, is rejected, cannot be decoded (a block in it is empty), cannot be
translated, prints more errors than the pipe holds; two runs are enough for one
to follow, overlap or survive the other.

The profiles of `front_end` let a few constructs meet at a time. A function
around one expression takes nine words; `levels` has the three more for two
operators of any two levels and a prefix operator, `operators` five for three
operators and parentheses, `statements` a repair after two statements, and the
remaining ones as many as the longest rule they are about. Together they enter
every rule method and every alternative of `expression`. `machine` has a heap
that holds the canonical values and three numbers, or four numbers and three of
the canonical values, so that it fills within a run and in the middle of
`initCanonicalValues`;
`Half32` and `Half64` are 16 and 32, with literals at both ends of the types and
one past the end.

Fairness. `checker_all` assumes that a sequential program takes its next step.
The bound on nodes stands for a finite tree. `driver` assumes that the
operating system goes on scheduling both processes of each run (`Step`); it
assumes nothing of the user, of signals or of when a run starts. The front end
has no liveness property: every rule method reads a word or returns, and the
bound on the words would be what ends the parse.

Deadlock is checked in every run. The end of a checker's or a compiler's run is
an explicit `Terminating` step, that of the parser process `Exited`, a machine
that was stopped `Stopped`; in the driver's runs editing is always possible.

## Proofs

Every theorem is for all values of the constants that meet the named
assumptions: any names, types, parameter lists, any bound on the nodes, any
set of node kinds, any arity, any number of runs, any heap and word.

**TypeEnvironment_proofs.** `EnvTypeCorrect`, `LifetimesAreFrames`,
`BorrowersOpen`, `BorrowsExclude` and the action property `BorrowsLast`. The
inductive invariant is the conjunction of the four state properties: exclusion
alone is not inductive, since its proof needs that a bound name is found in a
frame of the stack with a well-formed symbol, and that the ending lifetime is a
number of an open scope. The key lemmas say where `lookup` finds a name, and
what each update leaves alone.

**TypeChecker_proofs.** `CheckerTypeCorrect` and `ScopesFollowTheRecursion`, by
one step per action; the strengthening is that the count of activations that own
a frame changes with the frames, whose lemmas are about pushing and popping an
activation. `CheckerImplementsEnvironment` shows `Spec => EnvSpec`: each action
of the checker maps to one operation of the environment or leaves it alone.
Through it the environment's theorems hold of the checker
(`CheckerBorrowsExclude`, `CheckerBorrowsLast`). `ErrorsRaised` says that no
conflict error of the environment is ever raised (`RaisedErrors`, defined next
to it): every error a step raises is one of the checker's own, because its tests
for a borrow are at least as strict as those of the environment, and
`LifetimeIsFrame` makes the lifetime test of a borrow unable to fail, which
leaves the test of a call's argument.

The second half of the module proves `TargetBindingsAreKept` and
`SignaturesStayValid`: what `checkReassign` and `checkApp` read of a binding
before they check other expressions still holds of it afterwards. A declaration
is a statement, and the sequence it belongs to is the body of a block or a
function, so that a frame pushed after the copy was made lies between the two
(`Shape`). Hence each step leaves the frames up to the copy's scope as they
were, as far as the copy matters (`Undisturbed`): names stay bound to what they
were, and a borrow that is added belongs to the copy's own scope or to one
opened since. The invariant says that of every waiting activation with a copy,
and the steps are put into classes by what they do to the frames and to the
stack (`Calm`, `Moved`).

**Compiler_proofs.** `CompilerTypeCorrect` and `JumpsAlwaysLand`. That a
finished program has no unpatched jump says nothing about the code on the way
there, so the invariant (`Frame`) says who will patch what: a jump is owned by
one waiting activation, or it lands, forward within the code so far or back to
the test of a loop whose `Jof` nobody will patch again; and a loop's `Jof`
comes after the loop's start. Lemmas first show what adding and patching an
instruction do to that, on code alone (`SoundAppend` to `SoundDrop`), then what
calling, continuing and finishing do to the owners (`FramePush`, `FramePop`),
and the steps combine the two.

**CompilerNesting_proofs.** `FunctionsStayClosed` and `ScopesStayBalanced`, on
top of `Compiler_proofs`' invariant. Both properties are about the finished
program; on the way there jumps are unpatched and functions and blocks open. The
invariant (`Nested`) therefore says two things of the code so far and of the
stack: where the jumps that nobody is going to patch (`Final`) and the addresses
that waiting activations have yet to connect (`Positions`: a jump to patch, a
loop to jump back to) lie relative to every complete function (`Closed`) and to
every open one (`Open`), and that the scopes entered and not left before such an
address are those of the blocks the activation is nested in (`Levels`). The
idea that carries the induction is that of `Now`: what a step may connect with
each other, the end of the code and the positions of the activations it
replaces, lies in the same functions and the same scopes (`NestKept`,
`LevelsKept`). Every step is then either of that kind (`Builds`) or opens or
closes one function or one scope (`OpenNested`, `CloseNested`, `EnterNested`,
`LeaveNested`).

**CompilerHeights_proofs.** `NodesAlwaysLeaveOneValue`, which proves
`NodesLeaveOneValue`. The property speaks of heights that a recursive function
computes over the finished code; on the way there the code has no such function
yet. The invariant (`Heights`) says that there is an assignment of heights to
the addresses which every instruction and every jump that nobody is going to
patch respects (`Flow`), a `Reset` by having height 1, and that each waiting
activation knows the height at which its node began: the values it already has
are above that, the jump it owns carries that height to wherever it is patched
to, the start of its loop has it, and a return's value is computed from height 0
(`Awaits`), since no activation between the return and its function holds an
operand unless the program is one that the property leaves out (`NothingHeld`).
A function's body begins at height 0, whatever the height around it, and the
Goto over it carries the latter. Lemmas on code alone say what adding and
patching an instruction do to `Flow` (`FlowPush`, `FlowPatch`, `FlowTurn`); each
step then calls, continues or finishes an activation at the height that its site
implies. `Flow` has a clause about instructions after which the code does not go
on (`Reached`): the height after a `Goto` must be that of a jump that lands
there or of a function that starts there. That is what makes the heights unique:
in a finished program the assignment and the function that `Height` computes
agree, because there is no least address at which they differ (`LeastNatural`,
`ComputesOnce`).

**Driver_proofs.** `DriverTypeCorrect`, and `OnlyTheDeadLeaveTheFile` for
`ReturnsLeaveNoFile`. The property is not inductive: the invariant adds that,
while the name refers to a file, some run has gone past its start and has not
ended normally, because a file is created by a parser whose driver waits for it
or is dead, and each driver that ends has removed the name.
`AloneRunsCompileTheirSource` proves `AloneCompilesItsSource`, for any number of
chunks, runs and programs. Its invariant `SoloInv` follows the tree of a run that
is live and still alone from the parser to the compiler: no other run is live;
until the parser has opened its output the name refers to nothing; then it refers
to the parser's own inode, which holds exactly the `written[p]` chunks written so
far; once the parser has exited with 0 there is no file or a whole one, and what
main reads is whole. `OverwriteHolds` is the lemma that a chunk written after the
last one extends the tree by one.

**VirtualMachine_proofs.** `TypesHold`, `NodesAlwaysReadBack`,
`HeapOperandsAlwaysAreNodes` and `OvershootsOnlyAtDone`, for every heap size, word
size, set of literals and set of well-formed programs. That nodes keep their
bytes is not inductive: the invariant adds that every node lies whole below
`heap_ptr`, that a byte which says that a number starts does start one that was
made, that the canonical addresses are nodes or were never set, and that a heap which
has given out anything has given out 0. The lemmas
say what writing a node at `heap_ptr` leaves alone, and that a number which fits
its type survives the word (`literalValToNum`, `numberNodeStr`), also when a
negated number is stored again.

**RustParser_proofs.** `TypeCorrect`, `CoverageHolds` and `Precedence` say of
`ParserSpec` what `TypeOK`, `ContextsCoverTheSource` and `PrecedenceHolds` say,
for sources of every length, every set of words and every `CostOf`.
`TreesAreDerivations` and `EveryWordIsInTheTree` say of the tree returned, and of
every tree below it, what needs whole trees: it is a derivation of the grammar, and
no word is missing from it. The only
assumption is that the bounds of a profile are numbers (`BoundsAssumption`).
They rest on facts about the 196 productions, proved rule by rule and with no
enumeration of sources: `Productions` (every call a rule method makes is to a
rule of the grammar, at a level it has), what the alternatives of
`expression(_p)` begin with, and the level of each operator
(`AllStart`, `AllSuffixes`). A production is a term over a few combinators, so
that the lemmas about those do most of the work. Each of the four invariants
needs those before it:

- `TypingInv`: frames hold productions, and every frame but the innermost waits
  with the call that made the one above it. Without the latter, nothing is known
  of what a caller does once a call returns.
- `CoverInv`: the children of a frame lie side by side from its first token to
  the start of the frame above it, or, in the innermost, to the last word read.
  The property has that already; it becomes inductive with what is known of the
  outermost frame: it is `crate`, and what is left of its production ends by
  matching the end of the source. The steps that matter are `Extend`, where a
  context becomes the child of a new one of the same rule, and the repairs, where
  a child has no word or a context ends early.
- `BindInv`: `PrecedenceHolds` is about finished contexts, so the invariant says
  of each expression under way what it has and what it is to do. An operator is
  taken only if its level is at least the frame's own and what stands before it
  is no looser; the call after an operator of level k is `expression(k + 1)`,
  whose operators are all tighter; the call after a prefix operator is at a level
  above all infix operators, with nothing but suffixes behind it. What the frame
  has cannot say which operators may still follow: that is `barred`, and
  `BarredOK` says that none of them is tighter than the operator the expression
  already has. Without it, `a + b` could become the left operand of a `*`. TLC
  checked this invariant on small profiles before it was proved.
- `TreeInv`: there is a set of trees, closed under children, that holds every
  child of every frame and the tree once it is returned, and each tree of the set
  is derived by its rule, covers its words, binds its operators and holds a leaf
  for each place between its ends. A tree can be of any depth and no recursive
  operator may be used, hence a closed set (`Hereditary`) where one would write
  "all nodes of the tree".
  - *Derived* means that a production of the rule, in the left-recursive grammar
    as it is written (`ProductionsOf`), can be followed step by step from its
    beginning to its end while it reads the children, each one a word or a tree
    that the step accepts. That an expression's loop and its unrolled contexts
    build what left recursion describes is the step `Extend`, where what has been
    followed so far becomes the first child of a new context. The invariant says
    the same of a context under way, up to what is left to do. With
    no syntax error the derivation is exact. A repair makes two things possible
    and no other: a `;` or a `}` that is missing, and a block that ends behind its
    opening brace.
  - That a tree *holds* a word goes up the tree by `PlacesShared`: children that
    lie side by side share out the places of their parent, which is shown by
    taking the least place that would be left over, without induction over trees.

Only model-checked:

- the liveness properties `Terminates` and `RunsEnd`, since liveness under
  fairness is outside what the prover does;
- `TreesHoldEveryWord`, `TreesSayWhatSourcesSay`, `WrittenTreesDecode` and the
  refinement `ReaderSpec`, since the translation and the properties about whole
  trees are recursive operators, which the prover cannot use. Most of
  `TreesHoldEveryWord` needs no recursion: that each context is covered by its
  children is `CoverageHolds`, and that each word is a leaf of the tree, at its
  own place, is `EveryWordIsInTheTree`. That a tree has no more conjured tokens
  than there were repairs is a count over the tree and stays with TLC.

## Not modelled

- **The lexer's characters.** How text becomes tokens is generated automata and
  a few predicates (`RustLexerBase.py`); a source is a sequence of words.
- **`adaptivePredict`** beyond choosing an alternative that can succeed, and the
  repairs that delete tokens or resynchronise in the middle of a block. What
  the parser returns after them is a tree with error nodes at places that
  depend on the runtime's follow sets.
- **`RustParserListener.py`.** No listener is attached to the parser, so its
  methods never run. `transformGrammar.py` edits the grammar by hand, once.
- **The machine's unfinished half**: environments, frames, closures, pairs and
  strings. `heapSetChild` is empty and no instruction makes such a node.
- **Ownership and lack of memory** in the compiler and the checker: who frees a
  copied string, and what is leaked when an append fails. The machine's operand
  stack is the exception.
- **`jsonStringify`**, which only tests call, and `std.json` itself.
- `vm/experiments.zig` and `vm/experiment`, which nothing imports,
  `parser_runner.zig`, the same driver with fixed paths, the tests, example
  programs, scripts and CI.

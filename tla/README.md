# A verification development of copta

copta is the front half of a compiler and the interpreter of its intermediate
code: `samples/parse.cc` reads a file, tokenizes and parses it, prints the tree,
analyses its types, generates intermediate code, removes redundant instructions
and runs the result. This directory holds TLA+ models of those parts, the TLC
runs that check them on small instances, and proofs, checked by TLAPS, of what
holds of the models for every instance. Everything here is translated from the
code, not from its comments; where the two differ, the difference is a run that
fails on purpose (section 6).

The whole program is one thread. What makes it hard is not concurrency but
*state that outlives its scope*: one value table for all calls, one set of
registers copied to and from the C++ stack, one scope for all functions, user
lists edited with `remove_if` alone, definitions chained through freed scopes,
type objects compared by address before they are complete, characters put back
into a stream that remembers one line. Nearly every property below relates a
piece of such state to the moment it was written.

Contents: 1 inventory, 2 modules and code, 3 runs, 4 bounds and fairness,
5 proofs, 6 divergences, 7 what is not modelled, 8 plan.


## 1. Inventory

| component | code | state it keeps | operations |
|---|---|---|---|
| Tokenizer | `src/jast/tokenizer.cc`, `scanner.h`, `tokens.inc` | offset, row, column and length of the last line; characters put back; the current token | peek, next (with or without "a slash divides here") |
| Parser | `src/jast/parser.cc`, `parser-builder.h` | what is left of the text, the flag of a `for` header, the registry of types | one `Parse...` per construct; `ParseProgram` loops over statements |
| Type system | `types/type-system.cc`, `types/type.h` | named types, unresolved wrappers, tables that intern composite types | get (named, array, pointer, function, struct), alias, register |
| AST dumper | `samples/dump-ast.cc`, `types/type.cc` | indentation only | one `Visit` per node |
| Type analysis | `semantics/type-analysis.cc`, `type-detector.cc` | symbol table, stack of functions, errors | `Visit` for statements, `TypeOf` for expressions |
| Symbol table | `semantics/symbol-table.cc` | head of a chain per name, list of definitions per depth, depth | two lookups, put, open and close a scope, destroy |
| Code generator | `ir/code-generator.cc`, `ir-builder.h` | blocks so far, insertion point, symbol table, `address_` | one `Gen...` per node |
| Intermediate representation | `ir/value.h`, `instruction.h`, `basic-block.h`, `function.h`, `module.h` | instructions, operands, user lists | add and remove instructions, operands, users |
| Redundant code eliminator | `ir/redundant-code-elimination.h` | an iterator over blocks that it edits | one pass |
| Interpreter | `ir/interp.cc`, `interp-native-functions.cc` | `valueMap_`, block and iterator, `args_`, `isReturn_`, `retResult_` | one `Execute` per instruction, `Loop`, native calls |
| Handles | `handle.h` | a reference count in every object, a pointer in every handle | make, copy, convert, assign, clear, destroy |
| Syntax tree, builder and matcher | `expression.h`, `statement.h`, `ast-builder.cc`, `astfactory.cc`, `ast-match.cc` | none that anything reads | a `New...` per class; `match` of two trees |

How they interact. The parser pulls tokens one at a time and tells the tokenizer
whether a slash may divide. It hands type expressions to the process-wide type
registry while it reads. Its tree is visited by the dumper, the analysis and the
generator, in this order; the analysis and the generator each have a symbol table
of their own, and only the analysis opens scopes in it. The eliminator edits the
module that the generator made through the same user lists that
`AddOperand` filled. The interpreter runs the module's `init` function; a call
copies its registers into a C++ frame, runs `Loop` on the callee and copies them
back. Errors of the analysis are printed and do not stop the compilation.

What makes each part correct, and where it can go wrong unseen by a test:

- *Tokenizer*: whatever is read ahead and put back, no character is lost, doubled
  or reordered; the position is that of the text; tokens are the longest; every
  call returns. Up to three characters are put back, over line ends; an attempt
  at a regular expression is undone as a whole.
- *Parser*: every operator takes the operands that its level gives it; nothing of
  an accepted text is ignored; a null tree stands only where the code expects it.
- *Type system*: comparing `Type*` is comparing types; what a name denotes is
  decided once, whatever the order of uses and definitions.
- *Symbol table*: it behaves as a stack of scopes, and never follows or keeps a
  pointer to a definition that a closed scope has freed.
- *Type analysis*: scopes are balanced around whatever a body contains; the
  analysis stops (null type, failed assertion, empty stack) for no other reason
  than something missing in the program.
- *Generator and interpreter*: the output of a program is what the program means,
  although all calls share values, results and registers.
- *Eliminator*: nothing that is still read is removed, although user lists never
  shrink; the loop ends although it edits what it iterates over.
- *Handles*: in the middle of any call, with destructors running inside destructors,
  an object counts the handles that refer to it, so that none is deleted early
  and none is forgotten.
- *Matcher*: it takes two trees for the same exactly if they are, in all that it compares.

`PROJECT.json` lists these hazards one by one, each at its line.


## 2. Modules and the code they model

Line by line the correspondence is in the `map` of `PROJECT.json`. In short:

**`Handles`** (`handle.h`). A handle is a place: a local, the temporary of an
expression, or a member of an object. `count` is `reference_count_`, `held` is
`ptr_`; `New`, `Convert`, `Assign` and `Empty` are the calls, and `stack` has what is
left of the one that runs: `clear()` before and behind its `delete`, `operator=`
behind its `clear()`, a destructor with the members it has still to clear.
`Faults` is the use of a handle or object that has been freed. **`ObjectGraph`** is
what a program may rely on: objects and references in which every call takes effect
at once. `Handles` implements it, which makes explicit what a user of `Ref` has to
know: what an assignment to itself does, and when the source of an assignment is gone.

**`SymbolTable`** (`semantics/symbol-table.cc`). `defs` is the heap: addresses of
live `SymbolDefinition` objects to their members; `new` picks a free address,
`delete` takes it out of the domain, so a dangling pointer is an address outside
it. `table`, `entries` and `currentDepth` are the members of the class. Each
public method is an action (`PutSymbol` is two: the refusal and the insertion), and the
destructor is `Destroy` followed by a `DestroyScope` per open scope. Abstracted:
the order inside one `entries_` list (a set), the pair of type and value a
definition carries (one value).

**`ScopeStack`** is what that class promises: a sequence of sets of bindings, and
answers to questions. `SymbolTable` implements it under the mapping that reads
the scope of a depth off the list of that depth.

**`TypeSystem`** (`types/type-system.cc`, `UnresolvedType` in `type.h`). `types`
is the heap of `Type` objects, `interned` the static maps of the `get...Type`
functions, `named` the registry. Actions are what the parser makes of a type
expression or a `type` statement. The size of an array is not part of the key
under which it is interned, as in the code.

**`Tokenizer`** (`tokenizer.cc`, `scanner.h`). One action per turn of each loop;
`mode` is the loop, `stream` the character stream with offset, row, column, the
length of the last line and the characters put back (`back`). Characters are
grouped into the classes the automaton tells apart: two digits stand for ten, six
letters for the alphabet (those with a meaning in numbers and flags among them). What a word or symbol *is* is
a table lookup and left out: the kind of a token is what scanned it. `GivesUpClass` and
`GivesUpLines` are no actions of their own but name steps of `AbandonRegex`. `ClassEnds` says of a text
alone where a class may end that no slash closes in its line: without one, the code gives up no class.

**`AST`** has one constructor per class of node (`expression.h`, `statement.h`);
parser, analysis, generator and matcher all speak of trees in its terms.
**`ASTMatch`** is `FastASTMatcher`: `match...` by `match...`, in the order of its
comparisons, with an answer of its own for what it reads beyond a list or through
a null pointer.

**`Parser`** (`parser.cc`). A parser state has the rest of the tokens, the flag of
the `for` header and the types that names have been resolved to. Each `Parse...`
method is an operator from a state to a state and a tree; `Parse` dispatches, so
that the recursion goes through one operator. What a method throws becomes a
token (`"SyntaxError"`, `"TypeError"`, and `"crash"` for a null pointer that is
followed) that nothing accepts or advances past: as in the code, no handler
stands between a throw and `ParseProgram`. Regular expressions enter at
`Tokenized`: where no division is expected, a slash takes everything up to the
next one. Module **`Rendering`** writes trees down from the operator table of the
language and shares nothing with the parser.

**`TypeAnalysis`** and **`DumpAST`**. `Visit...` and `TypeOf...` as operators on
an analysis state (scopes, functions, errors, whether it has crashed); scopes are
maps, which `SymbolTable` is shown to implement. `DumpAST` says of a tree whether printing it
comes to an end: a null tree is followed, and the type of a struct that points to itself is
printed without end.

**`FrontEnd`** composes the three as `samples/parse.cc` does: `Statement`,
`Throws`, `EndOfProgram` are the loop of `ParseProgram`, `Dump` and `DumpFails` the
printer, `Analyse` and `Analysed` the visitor of the program's block.

**`IR`** describes programs (the header lists the fields), what the parts may
assume of one (`WellFormed`: instructions have the operands that their constructors take, the
objects of an `alloc` refer to each other, jumps stay in their function; `WellLinked`), and what
elimination computes (`Eliminated`). **`CodeGen`** turns trees into programs, `Gen...` by `Gen...`.
`address_` is an argument, for `AddressEnv` sets and restores it in a scope; its
initial value is indeterminate in the code, so every tree is compiled with both.

**`DeadCode`** (`redundant-code-elimination.h`, `value.h`). One action per turn of
the loops: `Enter` a block, `Keep` or `Remove` an instruction, `Leave`.
`WithoutUser` is `std::remove_if` without `erase`: the list keeps its length, and
what was at its tail stays there.

**`Interp`** (`interp.cc`). One action per instruction; `Invoke` and `Return` are
the two halves of `Execute(InvokeInstruction)`, and `frames` is the stack of what
it saved on the C++ stack. `Fault` gives the first thing that goes wrong in an
instruction: an `assert` (status `failed`) or behaviour without meaning in C++, such
as a null `Ref` or a division by zero (`undefined`). `isReturn_` is not initialised,
so `Init` takes both values. Objects are positions of `heap`, shared as `Ref<Object>` shares
them. The variable `history` is auxiliary: it records which activation wrote what.
At its end the module names forms of programs (`ReturnsLast`, `ComputesFirst`, ...) under which
sharing does no harm; `MCInterp` checks that the programs with a meaning are of these forms.

**`Kinds`** adds what a program needs in order to run without a fault. The intermediate code
has no types: the interpreter asserts the type of an operand when it executes an instruction
(`assert(obj->Type == kPointer ...)` and the like, `interp.cc:109`; `Fault` in `Interp`). `WellTyped` says when a *typing*,
a kind for every value, parameter, result and object of an `alloc`, gives each instruction the
operands that it asserts. It holds or fails for the code of a program alone, as the other
forms do. `MCKinds` finds a typing for each program that `MCInterp` runs.

**`Meaning`** evaluates a tree as the language is commonly understood (values are
passed, variables belong to a call, `return` ends it) without use of any part of the
compiler. **`Sources`** holds the families of programs, **`Pipeline`** compiles
them, with both values of `address_`, with and without elimination. `Accepted` asks
`TypeAnalysis` about a tree first; the driver prints the answer and goes on.


## 3. Runs

| run | question | answer |
|---|---|---|
| `SymbolTable` | Does the linked table behave as a stack of scopes, with no dangling pointer, and does the destructor free everything at every depth? | yes: four invariants, refinement of `ScopeStack`, `TeardownFrees` |
| `TypeSystem` | Is comparing addresses comparing types, and does a name keep what it denotes? | yes |
| `TypeSystemInstances` | Has every type a single instance, as the header says? | **no**, see 6 |
| `MCInterp` | Do programs within the language's means print what they mean and halt, with and without elimination, for either value of what is uninitialised? Do programs that the analysis accepts run without fault? | yes |
| `MCInterpIll` | What still holds of programs that recurse, go on after `return`, share structs, misuse types, or call what does not exist? | `isReturn_` stays each call's own; variables keep their storage apart. Beside it (`TypingsAreMet`): each program of `MCInterp` has a typing |
| `MCInterpParams` | Are parameters still the call's own after a native call? | **no** |
| `MCDeadCode` | Does elimination remove exactly what nothing reads, and end? | yes |
| `MCFrontEnd` | Is what was written what is read; is anything ignored; when do dump and analysis stop; does the matcher tell programs apart? | yes; nothing; only at what is missing, or after an error; yes, asked both ways |
| `MCFrontEndFor` | Is the example in the parser's own comments read? | **no** |
| `MCTokenizer` | Longest tokens, nothing lost, true positions, every call returns? | yes, for texts whose line comments end |
| `MCTokenizerOpen` | ... and with a line comment at the end of the text? | **no** |
| `MCHandles` | Do objects count their handles in every step, is each call the one of `ObjectGraph`, and does it return? | yes |

What the less obvious properties say:

- `ChainsAreTrue` (SymbolTable): the chains of definitions lead outwards through live
  definitions and back, after any order of hiding, closing and opening again.
- `NoFault` (MCInterp): no assertion of the interpreter fails, no null reference is
  followed and nothing is divided by zero, for programs with a meaning and for all
  those of a family (175 of 2043: assignments, updates, conditions, loops and calls
  over numbers, strings and structs) that the analysis accepts. The family is the
  claim: section 6 says what the analysis does not look at. What a program needs
  for this, whatever its source, is proved (section 5, `Kinds`).
- `OperandsAreCurrent` (MCInterp): an instruction reads a value only if the latest
  active call of the function that the value belongs to has computed it. This is
  what makes one `valueMap_` for all calls work, and what recursion breaks: the
  recursive programs are in `MCInterpIll`, where it is not claimed.
- `ResultIsOwn`: the flag of a call that is set comes with a result that this call
  gave. `ret` does not stop the execution, and there is one `retResult_`.
- `ReturnFlagIsOwn`: holds of every program, well-behaved or not, and is proved.
- `OutputIsMeaning`: a halted run has printed what `Meaning` says. Elimination is
  covered by running the same trees with and without it.
- `LiveUsersAreListed`: a list that was shuffled by `remove_if` still names every
  reader that is left; that alone makes "the list is empty" a safe test. The
  price is in `RemovesTheUnread`: only what *no* instruction ever read is removed,
  for lists never shrink. One level of dead code goes, never a chain.
- `KnowsWhatIsDeclared`: between two statements the analysis knows exactly the
  names that the statements before declared where they stand, and is in the scope
  of the program, also after a body that recorded errors.
- `StopsOnlyAtGaps`, both ways: the analysis stops only at a statement that lacks
  something or after a recorded error, and never gets past one that lacks something. "Lacks" is
  spelled out in `Gap`; the most common case is an `if` without `else`. The dump, in
  turn, ends exactly if no tree in it is null and no type is a struct that leads back to itself.
- `ParsesBack`: with one exception, which the property states: of two divisions behind a
  `++` or `--`, the first slash starts a regular expression, and the text is refused.
- `MatcherTellsApart`: for each program, those it is compared with are all the edited ones, the
  text before and itself. "The same" is computed apart from the matcher, by
  `Blurred`, which takes out of a tree what the matcher does not look at.
- `NothingIgnored`: an accepted text, written down again from its tree, is the
  text, up to parentheses, semicolons, the kind of assignment, the keyword
  behind `extern`, and keywords used as member names.
- `UnreadIsTheRest`: what is put back and what the stream still has are the rest of the
  text, except for the one bracket too many that each abandoned class leaves (section 6):
  only a bracket at which a class of the text ends may come again (`ClassesAgain`).
- `CountIsHandles` (MCHandles): in every step of every call, destructors in destructors
  included. `ImplementsGraph`: between calls there is nothing but the graph.
- `PeekIsStable`: looking at a token twice does not skip it. `peek` takes offset 0
  for "nothing read yet", and the end of the text is put back without having been
  counted: texts of at most three characters can get there, and they do (the
  property leaves them out and says so).

Each property is also run against a mutation of a modelled definition, the way
the code could plausibly be wrong (operators whose comment says `mutant`), and
fails there.


## 4. Bounds and fairness

- `SymbolTable`: two names, two values, three addresses, `MaxScopes = 4` calls of
  `OpenScope`. Three live definitions are the longest chain with a middle; two
  names separate chains; with four scopes a depth is closed and opened again with
  a stale list. Addresses are reused, so a stale pointer would be seen.
- `MCHandles`: three objects, with two, one and no handle as members, and two locals: chains, circles of
  one and two, shared objects, and an assignment whose source is two deletions away. 88,086 states.
- `TypeSystem`: two user names beside the three built in, structs of at most one
  member, `MaxTypes = 6` (8 for the violation): enough for a name used before it
  is defined, an alias of an alias, a pointer to either, and a redefinition.
- `MCInterp...`: `MaxObjects = 200` bounds the heap and with it endless recursion;
  the well-behaved programs stay far below it (or `Halts` would fail). The
  families combine sums, products and comparisons of variables and constants,
  quotients, remainders and shifts by constants of what may be negative,
  conditions in and around conditions, loops of 0 to 3 turns with loops in them,
  and calls in arguments, conditions and loops, three deep.
  `MCInterp` has 58,718 states.
- `MCDeadCode`: every combination of unread expressions at the top, in a
  function and in a branch, next to statements that read the same variables.
- `MCFrontEnd`: 4397 texts, 33,250 states. Every ordered pair of fourteen operators, of each level at least one, in both nestings,
  prefix and postfix operators around them, every statement inside every other
  two deep, the programs of `Sources`; 36 texts that define two structs,
  one of them a possible second name of the other, and use both; and nine programs in which each token is
  left out, doubled and replaced by each of twelve others.
- `MCTokenizer`: all texts up to length 4 to 6 over small alphabets, one for each
  part of the automaton, and a few longer ones. Six characters cover an operator of four with what is around it and
  everything that can be put back (three). 39,108 states.

Fairness. `WF_vars(Next)` for the interpreter and the eliminator,
`WF_vars(DestroyScope)` for the destructor: one thread runs these loops, they
wait for nothing and call nothing that could hold them up. In `Tokenizer` only `Step`, the turns of a
call that is in progress, is fair: a caller need not call again.
`Handles` has `WF_vars(Step)`, for a call that has been made goes on.
The symbol table and the type system have no fairness for their callers. Runs
set `CHECK_DEADLOCK FALSE` because programs, passes and texts end (a run
of `Handles` ends where freed memory was used), and because
the bounds stop the callers of the two tables.


## 5. Proofs

**`SymbolTableProofs`**, for any sets of names, values and addresses and any bound.
Assumption: `NilIsNoObject` (`nullptr` is neither an object nor a value). The
inductive invariant is `Inv`: types, one list per definition (`ScopesOwnDefinitions`), one
definition per scope and name, `next_` leads to the definition that is hidden,
`last_` is its inverse, `table_` has the innermost. None of the six is inductive alone: closing a scope
repairs `table_` by following `next_` and `last_`, which is right only if these
lead into enclosing scopes, and that a definition is deleted with its scope and
not before needs the lists. From it follow the properties of the run, and
`SymbolTableImplementsScopeStack`: initial states map to initial states, every
step to a step or a stutter of `ScopeStack`.

**`DeadCodeProofs`**, for any programs that are well linked (`ProgramsOK`, what
`AddInstruction` and `AddOperand` establish). The heart is `OtherUsersStay`:
`remove_if` without `erase` moves every other user forward and loses none. With
it, `LiveUsersAreListed` survives a removal, hence an instruction with an empty
list has no reader, hence `NothingDangles`. `IdsDiffer` is needed so that the
instruction that is removed is the only one with its value.

`ExactlyTheUnreadGo` says what is left. A list that is shuffled keeps its length, so it is
empty exactly if nothing of the *original* program reads the value (`ListsTellReaders`; for
this the lists must hold readers only, which is part of `WellLinked`). `PInv` then says where
the loop is in terms of the original block: in front of it are the instructions that stay
(`LeftAt`), and the iterator, a place in the shrunken list, is one behind as many of them as
have been met (`Among`). What is left of a block is defined by places and not by a recursive
filter (`Picked`), so that `PickedWithout` can say what taking out one element does.
`LoopsGetOn` is the safety half of `Ends`: each step leaves less to do.

**`InterpProofs`**, for any programs that are well formed (`ProgramsOK`: jumps stay in their
function, functions that are not extern have an entry block), any native names and
bound. The invariant says that every iterator, current and saved, is in its block or
behind it, that activations are numbered in the order of their calls, and that
flags are own. `ReturnFlagBelongsToCall` says that `isReturn_` and its saved
copies tell, each of its own call, whether it has executed a `ret`, whatever else the
program does: among it recursion, `ret` in mid-block and type errors.

The other things that calls share are their own only in programs of a certain form, and
the theorems say of which:

| theorem | the form | why it is needed | what the invariant adds |
|---|---|---|---|
| `ParametersBelongToCall` | no function that reads its parameters calls an extern one | section 6, `args_` | `ArgumentsKept`: also of every call that waits |
| `ResultsBelongToCall` | no call between a `ret` and the end of its function | `ret` does not stop the execution, and a call there sets `retResult_` | `ResultKept`: a call that has returned is among blocks that call nothing |
| `OperandsBelongToCalls` | no recursion; a value is computed on every way to where it is read | one value per instruction for all calls | `CallersOK`: levels rise along the stack; `ValuesKept`: each call, waiting ones too, has written what is known where it stands |

The forms are conditions on the code of a program alone, and not empty: `MCInterp` has
TLC compute levels, known values and the blocks behind a `ret` for each program with a
meaning and check that it is of all three forms (`FormsAreMet`).

**`InterpDataProofs`**, from the same assumption. `DataInvariant` is about the heap: what an
object, a value, an argument or a result refers to is an object (`InterpTypes`); an
`alloc` gave an object with storage of its own, and no other instruction changes the
pointer of a variable, for a store goes to what the pointer refers to
(`VariablesStayApart`). Neither is inductive without the other: that two
variables keep different storage needs that the objects of an `alloc` are new, hence all
references in range, and that loads and calls, which hand out objects, write no value of
an `alloc`.

The second half is about faults. `OnlyDivisionsFault`: a program of `TypedForm` fails no
assertion and uses nothing undefined, unless it divides by zero or shifts too far;
`TypedProgramsDoNotFault`: if it divides and shifts by sound constants alone, `NoFault` holds.
Each part of the form is there because the interpreter makes it necessary:

| the form | why it is needed | what the invariant adds |
|---|---|---|
| `WellTyped` | operands are asserted when they are used, and by nobody before | `KindsOK`: the heap has kinds (`Fits`), and values, the arguments of every call that waits and the result to hand back are of those of the typing |
| the same, for an extern function | it leaves `args_` as it was called (section 6), so what it is given must be of the kinds of its caller's parameters | (the same) |
| `ComputesFirst` | a value that is missing from `valueMap_` is a null reference | `ValuesThere`: what is known where a call stands is in `valueMap_` |
| `ReturnsSurely` | a function that does not return hands back a null reference | `ReturnedSurely`: a call behind a `ret` on all ways has set its flag; `NotBehindJump`: control leaves a block over its last instruction; `CalleesOK`: what returns is what was called |
| `ReturnsLast` | a call behind a `ret` overwrites the result | `ResultKept`, as above |

Kinds are not given to objects by the program but follow the run: each step that makes
objects extends them (`Extends`, `KindsWithLayout`, `KindsWithConstants`), and no step
changes one. A store keeps them, although it overwrites an object that others share, because
`CopyTo` leaves type and pointer alone, and a struct is stored only over a struct of its kind.
The forms are not empty: TLC infers typings for all 2064 programs of `MCInterp`,
128 of which divide or shift, and checks that they are of `TypedForm` and divide by sound constants (`TypingsAreMet`); among them are those
that type analysis accepted, over numbers, strings and structs. That the *compiler* gives every accepted tree
a typing is not proved, for it recurses over trees.

**`TypeSystemProofs`**, for any user names and bounds (`ConstantsOK`: the built-in names are no
user names, fields are numbers). The invariant `Sound` has three parts. *Objects*: an object
points at nothing but objects, and only a wrapper leads elsewhere, to an object that is no wrapper. *Tables*: each
entry is an object of its shape, each composite object has an entry, hence two objects
of one shape are one entry. *Names*: each leads to an object. The second half is monotonicity (`Keeps`, `KeepsNames`): no operation
changes an object or a name but to give a wrapper its target, once. From them follow
`OneObjectPerShape`, `PlaceholderIsConcrete` and the action property
`DenotationIsFinal`. Every operation of the parser is a composition of a few registry
operations, and the proof has one lemma for each of those.

**`HandlesProofs`**, for any finite sets of objects and locals and any number of members
(`SlotsOK`, `NullOK`, `PlacesApart`, `SizesOK`). `CountIsHandles` is
far from inductive. `Inv` adds what the stack of a running call must look like: a
destructor works on a live object that nobody counts any more and has cleared the
members behind the current one (`DestroysOwn`, `MembersCleared`); no object is
destroyed twice (`Apart`); below a destructor is the `clear()` that waits for it
(`ForgetsWait`), below that at most the assignment (`TakesWait`); the temporary owns what
it was made with (`TempOwned`). The count is a cardinality, so each step that
empties or fills a handle cites one of a few lemmas on adding or removing one element.

**`HandlesRefinement`**, from the same assumptions: `HandlesImplementGraph`. The graph deletes at
once the least fixed point `Goes`: the objects that only the target p and members of what
goes refer to. The code gets there by reference counts and destructors that call each other, in an order that
depends on all of them. `CallInv` adds to `Inv`, of a call at work: which call it is
(`Keeps`, `Bases`), that each running destructor was called for a member of the object
below it (`Nested`), and that what has gone so far is part of the fixed point, with the
handles outside of it as before (`Partly`). The two halves:

- *No more goes*: an object that loses its last handle, which is p or a member of an object that goes, has
  no handle outside the fixed point, so it belongs to it (`LastGoes`). What a
  temporary keeps is not deleted, for that is a handle as well.
- *No less*: when no destructor runs, what is left counts at least one handle
  (`Positive`), which was there before; so the objects that have gone are closed in the
  sense of the fixed point and include it (`PartlyIsWholly`).

p itself never goes, for its object is in reach without it (`NamedStays`). So the only misuse
is the source of an assignment that has gone, and `ObjectGraph` has that step as `Assign`.

**`TokenizerProofs`**, for any set of texts whose characters are not the mark of their end
(`TextsOK`). All six safety properties of the run are theorems, for texts of any length. What they
depend on is that a regular expression with a class is given up: there the code puts back
one bracket more than it read (section 6), and position and rest of the text are no longer
those of any place. `NothingIsLost` holds of the runs that never do so, written
`[][~GivesUpClass]_vars`; `PositionsAreTrue` and `TokenizerTypes` of those that also give up none with a line end in it
(`GivesUpLines`): the stream remembers the length of one line, and putting back more loses
the column, which then gets below 0. `OnlyClassesAreGivenUp` says which texts these runs have:
all in which no class is left open (`ClassEnds = {}`) and, for the second condition, no
line end follows a backslash. So `OnlySpaceIsSkipped` and `TokensAreLongest` speak of all runs on such texts
and, on any text (a division in front of an index looks like an open class), of the runs that give up none;
`PeekingIsStable` speaks of all runs. The proof is in layers, each an invariant on top of the one before:

- `CoreInv`: what is put back are the characters in front of the place up to which the text
  has been read (`Good`), the character being looked at is the last one read, and
  the buffer of a regular expression without a class is the text behind its slash. From
  it `NothingIsLost`.
- `ClassInv`: in a regular expression nothing that could end it is behind its slash or, if it
  has a class, behind the bracket that ended the last one. So a text in which one with a class is given up has an
  element of `ClassEnds`, although the buffer is no longer the text.
- `PosInv`: the row is the number of line ends so far, the column the distance from the last one or, directly in front of
  a line end, anything; the last line's length is right where it can be asked for.
- `CountInv`, which needs no other: in every run the offset counts the characters read until
  the end of the text has been read, even those put back twice.
- `AheadInv`, `SeekInv`: how far the offset can lag behind then (by one or two, and for
  how long). It is the hardest: `putback` of the end of the text subtracts what was never added,
  and whether that is made up for depends on how much was read ahead.
- `CoverInv`: what has been skipped is space and whole comments (`Covered`), and the open comment
  has not been closed before.
- `LongInv`: what a loop has consumed is a prefix of a token of its kind. An unescaped
  delimiter ends a string, and "escaped" is the parity of a run of backslashes, so
  the loop's step of two is shown to follow it (`EscapedNext`); for symbols, three characters
  read ahead decide about those of four (`LongestSymbol`).

Model-checked only: liveness (`TeardownFrees`, `Ends`, `Halts`,
`EveryCallReturns`, `CallsReturn`); `OutputIsMeaning` (which is about compiled trees) and everything about `Parser`, `TypeAnalysis`, `ASTMatch`, `CodeGen` and
`Meaning`, which recurse over trees; rest and position of the text behind a class that was given up.


## 6. Where code and text differ

Runs that fail on purpose, each with its entry under `findings`:

- *Single instance of a type* (`TypeSystemInstances`): a pointer to a name built
  before the name is defined and one built over its target are two objects.
- *Parameters after a native call* (`MCInterpParams`): the native path of
  `Execute(Invoke)` returns without restoring `args_`.
- *The example of `for`* (`MCFrontEndFor`): an assignment is no update, for the
  update is read by `ParseBinaryExpression`.
- *Line comment at the end of the text* (`MCTokenizerOpen`): read for ever.

Met while modelling, modelled as the code has it, and stated here for want of a
line in code, comment or test that a run could hold against them:

- `>=` and `<=` are compiled to the opcodes of `>` and `<`; a postfix operator gives
  the updated value; `&&`, `||` and `===` generate nothing; `x[...]` is always out
  of bounds; compound assignments are parsed as plain ones.
- The generator never opens a scope: a second function reads the first one's parameter or
  variable of the same name.
- A handle assigned to itself is emptied, and its object is deleted if it was the last.
  An assignment whose source is a member of what its `clear()` deletes, as in
  `list = list->next`, reads freed memory (`handle.h:74-81`). Objects in a circle stay.
- The analysis accepts programs that fail. The left side of an assignment within an
  assignment is never checked (`p.u = p = 2`); the names in the condition of a `for`,
  arguments, initial values and indices are not looked at; a store to a
  parameter, or to a member of one, follows a null reference; so does an
  update of what is no place.
- The matcher takes a list of declarations for any longer one that starts with it and,
  asked the other way, reads behind the end; of two calls with empty argument lists, equal or not, it
  follows a null handle; it does not compare types, `extern`, or which kind of member expression it has.
- Arguments are passed by reference; assigning a struct shares its members;
  `CopyTo` does not copy a pointer; an early `return` does not end the call;
  recursion overwrites the caller's values.
- A bare variable as condition depends on `address_`, which nothing initialises
  before (`code-generator.cc:482`); the assertion at `interp.cc:252` then fails
  or holds by chance.
- A second name for a struct with the same members is never registered
  (the comment at `type-system.h:40` speaks of "all the named types"); two functions of one name: the symbol table
  keeps the first, the module the second.
- An empty argument list is a null handle; `return;` leaves its semicolon for the
  next statement; the token behind `extern` is skipped whatever it is; an `if`
  without `else` crashes the analysis, a `for (let i in y)` fails an assertion in it; a
  `return` outside a function reads the back of an empty vector. Call
  arguments, indices and initialisers are never analysed.
- A block comment that the last two characters close is followed by an ERROR token; `0o17` is the number 0 and a word;
  the view of a one-digit number has one character too many; `>>>=` carries the
  position of its end; the column in front of a line end may be wrong after two
  line ends were put back; an attempt at a regular expression with a class puts
  back one bracket more than it read for each class, after which columns are too small, below 0
  in the end, and offset 0 can be met again, where `peek` reads on; an escaped line end in an
  attempt loses the column when it is put back (the texts leave it out).
- Behind a postfix operator the tokenizer is not told that a slash divides.
- A struct that points to itself is dumped without end.


## 7. Not modelled

- *Handles*: comparison and access change nothing. That `cast` takes its argument by
  value is left out: the copy is gone before it could matter. Access through a null handle is
  modelled where it happens, in parser, analysis, dump and interpreter.
- *AST builder and factory*: every `New...` forwards its arguments to the constructor
  that `AST` has; the list of nodes and the counter they keep are read by nothing.
  `LazyASTMatcher` is a stub.
- *`ScopeManager` of the parser*: passed along, never used. *Source, context, statistics, string builder*: input, output, counters.
- *Code that nothing builds or calls*: `symtab-generator.cc`, `samples/codegen.cc`,
  `codegen/codegen.cc`, `list.h`; `ParseArrayLiteral`, `ParseObjectLiteral`,
  `ParseObjectMethod`.
- Texts: messages, positions in errors, the wording of dumps, names of
  temporaries and labels. Debug info. Widths of integers: the programs compute with small numbers only.
- In `TypeSystem`, the name arguments of `getIntegerType` and its like, which no
  caller passes.


## 8. Plan

Done:

1. The data structures everything rests on: `ScopeStack`, `SymbolTable`,
   `TypeSystem`; refinement and inductive invariant of the symbol table.
2. The back end: `IR`, `CodeGen`, `DeadCode`, `Interp`, composed in `Pipeline` and
   held against `Meaning`; inductive invariants of the eliminator and interpreter.
3. The front end: `Tokenizer`; `Parser`, `DumpAST`, `TypeAnalysis`, composed in
   `FrontEnd` and held against `Rendering`.
4. `Handles` and `ObjectGraph`, with the proof that objects count their handles.
5. Soundness of analysis: accepted programs run without fault.
6. Structs that point to themselves, second names, divisions behind postfix operators,
   abandoned classes of regular expressions; the matcher.
7. The inductive invariant of the type system.
8. The data of the interpreter: references, variables, and what calls share, with the
   forms of programs for which that is sound.
9. The tokenizer for texts of any length.
10. That `Handles` implements `ObjectGraph`, for any objects and programs.
11. What elimination leaves of a program, for any program that is well linked.
12. That typed programs run without a fault, for any program that has a typing.

Left: what section 5 lists as model-checked only. Rest and position of the text behind a
class that was given up would need an invariant on how many brackets have been put back twice.

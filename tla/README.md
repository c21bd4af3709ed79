# A TLA+ model of Adelaide

Adelaide is the Solidity compiler with SECBIT's static checks added.  This
directory holds TLA+ modules that model the parts of it where state, order and
failure matter, the TLC configurations that check them on small instances, and
proofs checked by TLAPS.  `PROJECT.json` is the index: components, runs,
mutants, findings, hazards, theorems, and for every definition the lines of the
source it translates.

## 1. The system

The program is sequential.  What makes it hard is not threads but objects that
live longer than one compilation, exceptions that leave a pass half-way,
visitors whose flags outlive the node they were set for, fixed points of
rewriting, and sizes that are fixed before they are known.

| Part | State | Operations | Talks to |
|---|---|---|---|
| `ErrorReporter` | list of diagnostics, two counters | `warning`, `secbitWarning`, `error`, `fatalError`, `clear` | every pass writes, `CompilerStack` and `StandardCompiler` read |
| `CompilerStack` | `m_stackState`, sources with text and AST, settings, source order, scopes, contracts with code and caches | setters, `reset`, `addSource`, `parse`, `analyze`, `parseAndAnalyze`, `compile`, `sourceMapping` | calls the parser and all passes, the file-reading callback, the code generator |
| `StandardCompiler` | one `CompilerStack` reused for all requests | `compile(Json)` | drives `CompilerStack`; callback for urls |
| `SECBITChecker` | about twenty flags and sets, the table of ERC20 contracts | `visit`/`endVisit` of a dozen node types, report at the end of a source | walks the ASTs in source order, reports to `ErrorReporter` |
| `Assembly` and its optimisers | items, sub-assemblies, tags, data | `append`, `optimise`, `assemble` | fed by the code generator; passes share the item list; outer and inner assembly share tags |
| front end (parser, syntax checker, resolver, type checker, control flow and static analyses) | trees, scopes, annotations, control flow graphs, findings | one pass each over the sources | called by `parse` and `analyze`; each pass reads the annotations of those before it |
| code generator (types, conversions, arrays, places, ABI) | item list, stack height, free memory pointer | `convertType`, `abiEncode`, `copyArrayToStorage`, `resizeDynamicArray`, loads and stores ... | reads the types of the front end, writes assembly items |
| SMT checker, inline assembly, Yul optimiser, LLL, command line, utilities | see `PROJECT.json` | | not modelled |

What is hard in each, and what makes it correct:

* **Reporter.**  Limits that replace errors by a notice, counters that survive
  `clear`.  A `FatalError` must leave evidence; the list must stay bounded.
* **Import order.**  Cycles, self-imports, repeated imports.  Each reachable
  source once, after what it imports unless that leads back to it.
* **Stack.**  Calls in any order, failure in any pass, callbacks that fail, a
  second program after a first.  Only clean programs are accepted, every
  refusal is explained, nothing points into what is gone, code matches the
  settings and the analysis it was made under, requests are answered.
* **Standard interface.**  The same stack for every request, settings that
  `addSource` resets, three notations for "this contract is wanted".  An answer
  is about its request only, has what was asked for, and is never silently
  empty.
* **SECBIT checks.**  What is said about a function must follow from that
  function; a flag called "inside X" must be true exactly inside X.
* **Optimiser and assembler.**  Rules that meet each other's output, tags
  renamed on two sides of an assembly boundary, widths fixed from an estimate.
  The meaning of the code is kept, the loops end, the bytes are the items.
* **Front end.**  A tree that must be the text, names that are visible or not yet
  visible, imports that copy what another unit has so far, orders of bases,
  graphs of functions with those of modifiers spliced in, promises that span
  calls.  What each pass says about a program must be what the program means.
* **Code generator.**  Stack heights kept by hand, values that share a storage
  slot, layouts that change with the length, dirty bits.  The code leaves the
  right values in the right places and touches nothing else.

## 2. The modules

    ErrorReporter ----------- ErrorReporterProofs
       |  ImportOrder -------- ImportOrderProofs
       |  |                                |
    CompilerStack ----------- CompilerStackProofs      (EXTENDS ErrorReporter,
       |                                   |            INSTANCE ImportOrder)
    StandardCompiler -------- StandardCompilerProofs   (EXTENDS CompilerStack)

    SECBITChecker ----------- SECBITCheckerProofs
    SECBITContracts --------- SECBITContractsProofs

    Syntax -- Parser ------------------------------.
        |---- SyntaxChecker                        |
        `---- Names -- Annotations              Meaning
                           |-- ContractChecks      |
                           |-- StaticAnalyzer      |
               ControlFlow                         |
                           `------- FrontEnd ------'

    Types -- StackCode -- CompilerUtils -- ArrayUtils -- LValue -- GeneratedCode

    AsmItems -- SimplificationRules -- KnownState -- CSE
        |                                  `-- ConstantOptimiser -- EVM
        |------------------------------------- AssemblyOptimiser (EXTENDS CSE, EVM)
        `-- Assemble -------- AssembleProofs

An `MC` module instantiates each of them for TLC; its definitions are inputs
only.

**ErrorReporter.**  The reporter is a record (`list`, `errors`, `warnings`,
`fatal`), and every operation is an operator on that record, so that a pass that
reports several things composes them.  `fatal` stands for a `FatalError` on its
way up.  All error types are one.

**ImportOrder.**  The recursion of `resolveImports` as a stack of frames (source,
next import).  One action each for taking a root, following an import (which
does nothing if the source has been seen) and leaving a source.

**CompilerStack.**  A client makes any call at any time.  `parse`, `analyze` and
`compile` are broken into steps: one source parsed, one import looked up, one
source in one pass, one contract's code.  A source text is a record saying what
passes will find in it: imports, whether it declares a contract ("concrete"
means fully implemented with a public constructor), what it creates, and
the worst thing each pass reports.  `CreationIsWrong` and `CreationIsCyclic` are
computed from the structure, because they depend on the order of checking.
Which passes abort, which return `true` in spite of an error and which look at
the whole list is taken from each pass (`PassSucceeds`, `Aborting`, `Runs`).

**StandardCompiler.**  `compileInternal` in the order of its statements; each
call on the stack is one step conjoined with the stack's action.  A url list is
the list of what the callback answers.  The model is that of the build the
repository makes, with `SECBIT` defined (`CMakeLists.txt`).

**SECBITChecker / SECBITContracts.**  The first is the visitor: the environment
chooses the next node to enter or leave (well nested, bounded depth), the
actions are the handlers, and history variables record what the program really
contains, to judge the reports.  The second is the table of ERC20 contracts
across sources and inheritance.  A base is there a contract, with the last word of
the path by which it is written (`namePath().back()`): the checker looks up, tests
and marks that word, which an import alias makes any name, so the word may be that
of the base, of another contract or of none, and the properties are judged by the
contracts.

**AsmItems, SimplificationRules, KnownState, CSE, ConstantOptimiser (with the gas
meters), AssemblyOptimiser, EVM.**  Items and the tables about
instructions; the peephole rules with their order and the test that decides
whether the result is kept; all rules of `RuleList.h` with their matching; the
equivalence classes and the symbolic state of `KnownState` (stack, storage and
memory contents, hashes, sequence numbers); the code generated from it with its
queue, its stack layout and the check that throws the result away; gas per item
and along all paths; the three encodings of a constant and the choice among
them.  `AssemblyOptimiser` is the nested loops of `optimiseInternal` over an
outer and an inner assembly with all these passes as its steps.  `EVM` is the
reference: an interpreter of the machine with small words, external to the
repository, that runs a program and says what it leaves behind.

**Assemble.**  `assemble()`: widths from the estimate, layout, back-patching of
tags, data, sub-assemblies and sizes, with a byte of a small base so that
boundaries are within reach.

**Syntax, Parser, SyntaxChecker.**  A program is a sequence of tokens per unit; a
node of the tree is a record with the fields of its class, `Children` and
`Accept` are the order of `AST_accept.h`, and a node is known by its unit and its
path.  Every `parse...` function is an operator from a position to a node and a
position, or a failure; the lookahead that decides between declaration and
expression is modelled token by token.  The scanner is left out.

**Names.**  `DeclarationContainer`, `DeclarationRegistrationHelper`,
`NameAndTypeResolver` and `ReferencesResolver` on one record: scopes with visible
and invisible declarations, the current scope, the annotations, what was
reported.  Both scoping rules, activation of variables, all forms of import, C3
linearisation, inherited members, data locations.

**Annotations, ContractChecks.**  What the type checker leaves in the tree for
the passes behind it, and everything it demands of contracts and declarations:
duplicates, overriding, what is left unimplemented, arguments of base
constructors, interfaces, libraries, fallback functions, external types; and
what the code generator does with it (virtual and super lookup, the functions
called from outside).  Statements and expressions are taken to be well typed.

**ControlFlow, StaticAnalyzer.**  The graph of every function and
modifier with break, continue, return, revert and short circuits, the insertion
of modifiers, the walk for unassigned storage pointers; unused variables and
deprecated constructs, cyclic constants; the view-pure checker's mutability of every
expression.
What a block of inline assembly refers to and does is a constant.

**FrontEnd** composes these in the order of `CompilerStack::parse` and `analyze`:
one action per pass (one per contract for the resolution of names), a stage that
says what comes next, and the early ends.  `Meaning` is the
reference it is checked against, written from the language and not from the
code: the text of a tree and the precedence of operators; what a name means,
which orders of bases are admissible, which paths a body has, which effects.

**Types, StackCode, CompilerUtils, ArrayUtils, LValue.**  `Types` is the type
system: categories, conversions, common types, operators, sizes on the stack, in
memory, storage and call data.  A piece of generated code is a tree of
instructions, labels, branches and loops; `StackCode` has its operators, the
stack heights `CompilerContext` computes for it, and a machine that runs it.  The
other three are the functions of the classes of the same names, each an operator
that returns code.  A call of another generator function is a node (`Routine`)
that `GeneratedCode` links in, so that the operators need not be recursive.

**GeneratedCode.**  The layout of values on the stack, in memory, in
storage and in call data as the documentation describes it; and the run: for a
task (a conversion, an encoding, a copy, a resize, a store, a deletion) and a
start state the code is executed and what it leaves is compared with the layout
of the value it should leave.

## 3. The runs

One run per component.  Where the questions about a component need different
inputs (many kinds of defects in few calls, many calls on one source), the
component has a constant with several *kinds* of clients, programs or builds
(`Sessions`, `Programs`, `Builds`) and a variable, chosen in `Init` and never
changed, that says which kind is at hand; all properties are checked for all of
them.  Every property of a passing run has a mutant (`PROJECT.json`): a plausible
slip in the code under which TLC finds the property violated.

| Run | Checks | Instance |
|---|---|---|
| `import_order` | `TypeOK`, `NoDuplicates`, `ImportsFirst`, `CoversReachable`, `Terminates` | all graphs on 3 sources with up to 2 imports each, all sets of roots |
| `compiler_stack` | `TypeOK`, `StorageIsBounded`, `AcceptedProgramsAreClean`, `ParsedProgramsAreComplete`, `NothingDangles`, `FailuresAreExplained`, `CompileDelivers` | *defects*: a text for every error every pass can report, 2 sources, 3 calls; *creation*: import and creation cycles on 3 sources, 2 calls; *reuse*: 7 calls in any order on one source, 2 EVM versions; *limit*: 6 calls on a source with an error, beyond the limit. Error limit 1, warning limit 2 |
| `standard_compiler` | `BytecodeIsDelivered`, `AnswersAreRepeatable`, `FailuresAreAnswered`, `RequestsAreAnswered` | any 3 of 21 requests in a row |
| `secbit_checker` | `PlaceFlagsAreSound`, `RevertersAreJustified`, `FunctionReportsAreRight`, `PullIsJustified` | *reports*: two functions or modifiers in a row; *places*: nesting to depth 7; *reverts*: three definitions, calls, modifiers and SafeMath |
| `secbit_contracts` | `GapsAreReported`, `OwnPropertiesAreSeen`, `BasesAreSilent` | 3 contracts over 2 sources, any inheritance, every base written under any of the names |
| `optimiser` | `SemanticsPreserved`, `EntriesPreserved`, `GasIsBounded`, `OptimisationEnds` | words of four bytes of two bits; *arithmetic*: all straight-line programs of up to 4 items; *expressions*, *storage*, *memory*: of up to 5 or 6 items of operations with constants and copies, hashes included; *jumps*: of up to 5 items with jumps and 2 tags, deduplicated; *nested*: a sub-assembly of up to 5 items whose tags the outer one pushes; *constants*: every constant |
| `generated_code` | `HeightsAgree`, `CodeIsContained`, `ResultsAreRight` | words of four bytes of three bits, 160 bytes of memory; every conversion between small types, stores, loads, deletions, copies, changes of length across slots and layouts, calls encoded and decoded, each from several start states |
| `front_end` | `ParsedAsWritten`, `Linearised`, `NamesResolved`, `ReturnsAssigned`, `PromisesKept`, `CallsReachBodies`, `UnusedFound`, `ConstantsGrounded`, `NoInternalErrors` | *texts*: statements typed word by word, up to 5 to 12 words of six alphabets; *scopes*: two of 12 statements with declarations and uses of one name in nested blocks, both scoping rules; *inheritance*: five contracts with up to two bases; *imports*: three units, every form, cycles; *flow*: two statements, or a branch or loop with two in it, and modifiers; *mutability*: a function, its modifier and its callee; *constants*: three; *overrides*: three contracts, eight declarations of a function each; *constructors*: who gives which arguments; *declarations*: any two in a contract |
| `assemble` | `CodeIsRight` | up to 4 items of all kinds of references, a sub-assembly of up to 3, sizes across a byte boundary |

Three runs show a disagreement between the code and what the repository says of it
(quotations under "findings"):

| Run | What happens |
|---|---|
| `short_addr` | a check of `msg.data.length` in a modifier that is not applied silences the report for the next function |
| `tag_positions` | deduplication leaves the outer assembly with a reference to a removed tag |
| `array_tails` | an array that gets shorter inside a slot keeps its old elements there |

**Where the passing properties stop.**  Some properties have an exception because
the code has one:

* `FailuresAreExplained`, `AnswersAreRepeatable`: `ErrorReporter::clear` keeps
  the counters, so a reused stack can use up the limit; from then on errors are
  not recorded and `parse` fails its own assertion.  A second `analyze` after a
  failed one meets the scopes of the first.  A contract created within an import
  cycle may turn out to be abstract only after its creator has been checked.
* `BytecodeIsDelivered`: a contract selected by name in any file
  (`"*": {"C": ...}`) is not compiled, because the requested name becomes `:C`.
  `reset` keeps the requested names, which only matters to other clients of the
  stack; `sourceMapping` caches what it returned for earlier code.
* `FailuresAreAnswered`: ordinary errors are not part of an answer in a SECBIT
  build and end in "No error reported, but compilation failed."; in SECBIT mode
  an answer has warnings only.
* `PlaceFlagsAreSound` says "only inside", not "whenever inside": leaving a
  nested `if` or `.length` clears the flag for the rest of the outer one.
  `PullIsJustified` has no converse either: a `require(x.send())` right after
  another one is not examined.
* `BasesAreSilent` speaks of heirs visited before the report: a base in an
  imported source is reported before its heir is.  `OwnPropertiesAreSeen`: only
  bases that are ERC20 contracts themselves pass their properties on, to any
  distance through such bases.  All three properties of the table need unique
  names: it is keyed by the bare name, so of two contracts of one name the second
  replaces the first.
* The same three and import aliases: the checker takes the last word of the written
  path for the name of the base (`SECBITChecker.cpp:124,189,190`), although the
  syntax tree has the contract it refers to.  With `import {ERC20A as X} from "a"`
  and `contract C is X` the base is not found: what `C` inherits from it is reported
  missing, and `ERC20A` is reported itself.  If another contract is called `X`, its
  members count for `C`, which can silence a gap, and it is taken for a base.  So
  `OwnPropertiesAreSeen` and `BasesAreSilent` speak of bases written under their own
  names (`KnownBases`), and `GapsAreReported` leaves out a contract with an ancestor
  that writes a base under another name (`KeepsNames`) and one whose name is written
  for a base (`IsWrittenAsBase`); minting has no exception.  Without any one of the
  three TLC finds the property violated, so each is what the code does.
* `StorageIsBounded`: the notice of too many errors can be in the list more than
  once.  `checkForExcessiveErrors` stores it and throws, the parser and the passes
  catch the `FatalError` and go on, and the next error stores it again; what holds
  is that it is stored at most once for each error beyond the limit.
* `EntriesPreserved` is checked without deduplication (see `tag_positions`).
* `SemanticsPreserved`: `applyKeccak256` knows a hash by the words it is of and not
  by its length (`KnownState.cpp:362`), so the programs hash whole words only.
  `GasIsBounded`: `PathGasMeter::queue` may drop the path that turns out dearer
  after a join; no program of these lengths has one.
* `ResultsAreRight`: packed tails (see `array_tails`); copies of arrays of signed
  elements between storage places of different width and of empty byte arrays;
  the zero value of a struct with mappings only; an explicit conversion of a
  signed integer to a wider unsigned one leaves bits above its width, as does
  the exponent of a power; `SAR` is a signed division, which rounds otherwise.
* `ParsedAsWritten`: parentheses around a single declaration and the braces of
  an empty list of named arguments leave no trace in the tree.  The code and the
  documentation disagree on `x ? x : x = x`: `docs/miscellaneous.rst:306-308` ranks
  the conditional (14) before the assignment (15), as `docs/grammar.txt:104-105`
  does, which makes it `(x ? x : x) = x`; `parseExpression` (`Parser.cpp:1302-1319`)
  reads `x ? x : (x = x)`.  `Meaning` has the documented levels (`Level`, `Grouped`)
  and this one departure by name (`BranchAssigns`, `AssignsToConditional`); without
  it TLC finds `ParsedAsWritten` violated by exactly that text.
* `NamesResolved`: units that import each other see only what the other had when
  it was imported, although `docs/layout-of-source-files.rst` says all symbols;
  nothing is said of a program with a name declared twice.
* `ReturnsAssigned` is exact without modifiers.  `applyModifierFlowToFunctionFlow`
  maps the placeholder nodes of a modifier before it visits them, so their own
  edges are not copied and the exit of the function can be cut off: such a
  function is never reported.
* `PromisesKept` counts as effects values in storage read or written, what is read of
  the chain, events, `push`, the calls of an address (`send`, `transfer`, `call` ...),
  `blockhash` and what the constant says of inline assembly; not contracts created,
  logs or `selfdestruct`.  A pure function can read storage through a copy of a storage
  pointer, and a modifier that overrides another is not looked at for the
  functions of the base; neither is in the programs.
* `CallsReachBodies`: a public function that stands for an external one of an
  interface is compared with it in neither mutability nor return types
  (`TypeChecker.cpp:434` returns early); `super.f()` type-checks when the next
  `f` has no body (`Types.cpp:1789`) and then fails in the code generator.
* `NoInternalErrors`: under the rules of 0.5.0 a name declared twice in a block
  fails the assertion of `activateVariable`; a constructor with an overloaded
  function for a modifier fails that of `dereference` in
  `checkContractBaseConstructorArguments`.
* `CodeIsRight`: offsets of data and sizes are not checked against the bytes
  reserved for them (`SizesFit`); a tag that does not fit is an assertion.

**Bounds and why they are enough.**  The reporter's limits are 1 or 2 instead of
256: only comparisons with the limit matter.  Three sources are enough for a
cycle with something hanging off it.  Seven calls are add, set, compile and ask
twice over on one stack; three requests are the least for "the same answer
before and after another".  Five items cover the longest pattern (four items)
with a neighbour.  Words of four bytes of two or three bits keep apart what the
code keeps apart: bits, bytes, addresses and words, zero, one, overflow, sign and
masks.  In the front end two bases per contract and five contracts are the least
for an order that fails late; two statements in a loop are enough for every way
to leave it after an assignment; three units are enough for an import of an
import and for a cycle.  Assembly bytes have a base of 4 so that three or four references
cross the boundary that 256 bytes of code cross.  All bounds are constants,
given in the configurations and `MC` modules.

**Deadlock** checking is off where a bound on calls or items lets the model stop.

**Fairness.**  Only weak fairness of the steps of a request or a search in
progress (`StdFairSpec`, and `FairSpec` of `ImportOrder`): the thread that made
the call executes it.  No fairness is assumed of clients.  That the optimiser
ends is checked without fairness, by a measure: every change brings the code
closer to an end (`Closer`), and the counters that decide about another round
grow only with a change.

## 4. The proofs

TLAPS checks these for every value of the constants.  Seven components have a module
of proofs each, with an inductive invariant, a conjunction of named parts; the theorem
called `...Invariant` says that it holds always, and the properties follow from it.

`ErrorReporterProofs`, for any limits (`LimitsAssumption`: both positive).
`ReporterInvariant`: what is stored has been counted and is within the limit, the
notice of too many errors is stored only for errors beyond the limit, and the
exception never travels with an empty list.  The bounds alone are not inductive:
they need the counters and that nothing is reported while `fatal`.  From it
follow `FatalHasEvidence` and `ListIsBounded`.  `CountAppend` is the lemma about
`push_back` that all cases rest on.

`ImportOrderProofs`, for any set of sources, any import graph and any roots.
`SearchInvariant` is the inductive invariant: frames on the stack are distinct
and seen but not yet in the order; the order and the stack together are what has
been seen; the imports a frame has passed are seen; what is in the order has its
imports seen, and those not before it lead to a frame that was on the stack.
None of the properties survives a step without it: that the order has no
duplicates needs that a source on the stack is not in it, and that it is
topological needs what the stack remembers about the path.  From it follow
`SearchTypes`, `OrderHasNoDuplicates`, `OrderIsTopological` and
`OrderCoversReachable`.

`CompilerStackProofs`, for any sources and texts, any limits and any number of
calls in any order (`StackAssumption`: `NameOrder` lists every name once, a text
reports what its passes can report and creates only what it imports).
`StackInvariant` has one part for each phase of a call.

* `ParseInv`: unless an error is in the list, a source that is no longer queued has
  the AST of its text and each of its imports is there, fetched or still to be
  looked up.  `CompleteInv` is what is left of it after `parse`.
* `OrderInv`: while `resolveImports` runs, the search satisfies the invariant of
  `ImportOrderProofs`.  The steps of the stack are steps of `ImportOrder` on the
  ASTs (`ResolveImportsRefines`), so its theorems are used, not proved again:
  the sources analysed are closed under imports (`AnalysedInv`).
* `PassInv`: which source each pass has been through, what it found and what it has
  entered in `m_contracts`.  This is why a program that is accepted is clean
  although `analyze` goes on after errors, registration and name resolution return
  `true` in spite of some, and an error beyond the limit is not in the list: as long as
  `noErrors`, what has been found so far is no error, or one that a later pass
  (post-type check at the latest) will see in the list.
* `CodegenInv`: each frame of `compileContract` has compiled what it has gone on
  from, and the creations along the stack form no cycle; so the recursion ends, and
  the last frame finds the code of all it creates, but for a contract that turned out
  to be abstract after its creator was checked.
* `PhaseInv`, `NothingDangles`, `AcceptedInv`, `FailuresAreExplained`: what holds
  between calls, which is all a later call can rely on after an earlier one was
  aborted.

From it follow `StackTypes`, `StackListIsBounded`, `NoDanglingPointers`,
`ParsingIsComplete`, `EveryFailureIsExplained`, `AcceptedMeansClean`, the action
property `CompileDeliversCode`, and `ResolveImportsImplements`: the ordering part of
`analyze` starts in an initial state of `ImportOrder` and takes only its steps, and
the order it hands to the passes is the one `ImportOrder` promises.  That the
recursion meets no cycle of creations rests on the contract of the cycle that is type-checked last, which sees
all of it (`LastChecked`).  The two inductions over numbers, what `InNameOrder`
computes and that maximum, are done with a set as parameter (`SetInduction`,
`NatMin`), which the provers can instantiate where a predicate they cannot.

`StandardCompilerProofs`, for any requests (`RequestAssumption`: their fields have
their types) and any number of them on one stack.  `ServiceInvariant` is the
invariant of the stack, which every step of a request keeps because it is a call of
the stack, and what ties the stack to the request: `SettingsInv` says which
settings have been handed over in which phase (those that `addSource` would reset
are not among them), `Fresh` that nothing in `m_contracts` is left of an earlier
request, `RunInv` that a successful `compile` has made what this request wants.
From it follow `RequestedBytecodeIsDelivered`, `NoSilentFailure` and
`ServiceKeepsPromises` (the promises of the stack, under requests).

That a reused stack gives the same answer to the same request (`SameAnswerAgain`)
compares two states at any distance, so no invariant of the stack alone implies it.
The module therefore defines the answer as a function of the request that reads no
variable, `AnswerTo(input)`, an abstract compiler: which requests are refused; the
complaints about urls, collected in the order of the entries (`ComplaintsOf`); the order
`resolveImports` finds (`OrderOf`); what each pass finds in each source (`Found`) and
where `analyze` stops (`Stops`); which contracts get code, as a least closed set
(`Needed`), and which of these create one without code (`LacksCode`).
`AnswersAreDetermined` says that every answer is this one, as long as the limit of
errors is not used up and the request supplies what its sources import (an import the
callback fetches is not part of the request).  The invariant, `Progress`, says for each
phase how far the stack has come towards it:

* `ReadInv`, `ReadyInv`, `SettledInv`: the entries read so far have been accepted or
  complained about, in their order, and `m_sources` has nothing else; a setting that
  would be refused is still to be read.
* `ParsePart`, `OrderPart`: no error is in the list unless a text has one (the converse
  is `ParseInv` of the stack); the search is some number of steps of `SearchStep` from
  its start, and as a step is a function the order it ends with is `OrderOf`
  (`OrderFound`).
* `PassPart`: after any part of any pass no error is in the list unless the texts have one
  (the converse is `PassInv`), nothing that was passed by stops `analyze`, and there is
  one SECBIT warning for each of `SECBITFound` that has been reached, so their number
  depends neither on the order of the work nor on the reporter's earlier life.
* `CodegenPart`, `EndPart`: only needed contracts are compiled; at the end all of them
  are, with the settings of the request, or there is one that creates a contract without
  code and `compile` was ended by the assertion in `compiledContract`.

That is why `reset` matters: each of these parts starts from what it leaves, and the one
thing it does not clear, the reporter's counters, is the exception in the property.

`SECBITCheckerProofs`, for programs of any size and nesting.  `CheckerInvariant`:
the shape of the path of open nodes (`Shape`); the comparison depth is the number of
open comparisons and the place flags are set only inside (`PlaceInv`); inside a
function the flags that stand for its contents are exactly what it contains so far
(`FactsInv`), which needs that the function before it cleared them; `hasRevert` has a
reason in the callable at hand (`RevertInv`).  From it follow `PlaceFlags`,
`Reverters` and the action properties `FunctionReports` and `PullReports`.

`SECBITContractsProofs`, for any number of contracts and sources and any inheritance
(`ContractsAssumption`).  `ContractsInvariant`: bases are declared before
(`BasesInv`), only declared names have an entry (`UndeclaredInv`), and, as long as
declared names are unique, the ERC20 contracts have one, marked as a base if an ERC20
contract derives from it under its own name and only if its name is written for a
base (`ListedInv`), that has what the entries of the bases it recognises have and
nothing but inherited members, unless an ancestor writes a base under another name
(`EntriesInv`).  How bases are written is not restricted.  The properties speak of
ancestors at any distance; these are defined as a least closed set, so that
"everything an ancestor has, the contract has" follows by exhibiting a closed set
(`LineageFacts`) and no induction is needed.  From it follow `GapReports`,
`OwnPropertyReports` and `BaseReports`.

`AssembleProofs`, for programs of any length, data and auxiliary data of any size and
bytes of any number of bits (`AssembleAssumption`: the alphabet holds only items that
can be assembled; `ByteAssumption`: a byte has at least one bit).  The invariant,
`LayoutInv`, is small, because assembling is one step: both assemblies consist of valid
items (`AssembliesAreValid`), a tag is defined once (`TagsAreUnique`), what the outer
one refers to exists (`ReferencesExist`), and an object is what `AssembleWith` makes of
complete assemblies (`ObjectIsAssembled`).  That the code is then right
(`InvMakesCodeRight`) is the argument one would give on paper.

* Numbers: `BytesOf` is the least width that holds a number (`BytesOfFacts`), the search
  of `bytesRequired` for a sufficient tag size ends, since the size grows by at most one
  byte per item where the limit grows by powers (`CodeBytesFacts`, `PowersOutgrow`),
  and the digits that `toBigEndian` writes are the number that is read if it fits the
  width (`ReadWhatWasWritten`).
* Layout: items start at the partial sums of their sizes (`StartsFacts`), the bytes of
  each have the size that was counted for it, whatever value it pushes (`EncodeFacts`),
  so each is in the code where it was placed (`BodyOfFacts`), and the EVM, which finds the
  n-th instruction only by skipping the ones before it, reads it there (`ReadInOrder`).
* References: a tag that passes the assertions has a position that fits its reference
  (`TagsResolve`) and is the address of the one JUMPDEST made for it (`TagAddress`);
  the sub-assembly and the data are where references to them point (`LaidOut`).  That
  *their* references fit is not true of every program: the estimate counts them with the
  width of a tag, and they may take more.  `CodeIsRight` speaks of the case in which the
  size of the code fits (`SizesFit`), and in it nothing is cut off (`ReadBack`).

The definitions the theorem is about are recursive functions.  What they compute is
proved by showing that a function one can write down satisfies the equation, and that
two functions that do agree on a set of numbers that contains 0 and is closed under
successor (`RecursiveSequence`, `SetInduction`): the same way around theorems with an
operator as parameter as above.  One data item, one sub-assembly and tags 0 and 1
(`UsedTags`) are what the model has.

What the proofs found: the bound on the notice in the reporter's list was stated as
"at most once", which TLC had not refuted because no session reached the limit
often enough; the attempt to carry the reporter's invariant over to the stack, where
`FatalError` is caught, failed on it.  `StorageIsBounded` says now what holds, the
session *limit* was added to reach the case, and `ErrorReporter` has the action
`Catch`.

Only model-checked:

* liveness (`Terminates`, `RequestsAreAnswered`), which is beyond the prover, and
  `OptimisationEnds`, whose measure is a recursive definition;
* everything about the optimiser, the interpreter, the generated code and the front
  end (`SemanticsPreserved`, `EntriesPreserved`, `GasIsBounded`, `HeightsAgree`,
  `CodeIsContained`, `ResultsAreRight`, the properties of `front_end`): their
  definitions are recursive operators or use bitwise operators, which the prover
  does not accept, and what they say is an induction over programs.

## 5. What is not modelled

`PROJECT.json` lists every part with its reason.  In the modelled parts: the
remappings and the metadata settings of the stack, the contents of ABI,
documentation and metadata, source locations and wording of messages, library
addresses in the assembler, the tuple declarations of the SECBIT checker, the
scanner, the type checks of statements and expressions, doc strings and version
pragmas, the inside of inline assembly, the translation of statements and
expressions and the second ABI encoder (`ABIFunctions`).

## 6. Plan

In this order:

1. Theorems: that `AnswerTo` also holds of requests whose imports are fetched, as a
   function of what the callback returns; the reporter's limit as a part of the answer.
2. `ContractCompiler`: statements, modifiers, function entry and exit on top of
   `StackCode`, and the queue of functions of `CompilerContext`; then
   `ExpressionCompiler` and `ABIFunctions`.
3. The type checks of statements and expressions, with the rules of `Types`.
4. Scopes and stack heights of inline assembly; the Yul optimiser's passes on
   small programs; `SSA`: branches, loops and path conditions of the SMT checker.
5. Scanner lookahead, SemVer, remappings, LLL environments.

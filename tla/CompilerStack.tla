---------------------------- MODULE CompilerStack ----------------------------
(***************************************************************************)
(* dev::solidity::CompilerStack (libsolidity/interface/CompilerStack.cpp): *)
(* the object every front end drives.  A client calls its methods in any   *)
(* order and number; parse, analyze and compile are broken up into the     *)
(* steps between which an exception can leave the object half changed or   *)
(* the file-reading callback runs.                                         *)
(*                                                                         *)
(* Abstraction.  A source text is a record that says what the passes will  *)
(* find in it: its import directives, whether it declares a contract (one  *)
(* at most, named by its source), the contracts it creates with `new`, and *)
(* the worst thing each pass reports about it.                             *)
(***************************************************************************)
EXTENDS ErrorReporter

CONSTANTS
  Names,        \* source unit names
  NameOrder,    \* all of them, in the order of the keys of m_sources
  Texts,        \* source texts
  EVMVersions,  \* the first is the default
  DefaultEVM,
  Prerelease,   \* the build's VersionString has a prerelease part
  Sessions,     \* bounds on what a client of each kind does: see SessionType
  None          \* an absent value

(***************************************************************************)
(* The passes of analyze() in the order they run, "cfg" and "flow" being   *)
(* the construction of the control flow graph and its analyzer.            *)
(***************************************************************************)
Passes == <<"syntax", "docString", "register", "performImports", "resolve",
            "typeCheck", "postTypeCheck", "cfg", "flow", "static", "viewPure",
            "secbit", "smt">>
PassNames == {Passes[i] : i \in DOMAIN Passes}

(***************************************************************************)
(* The worst thing a pass can report about a source.  "quiet" is an error  *)
(* in spite of which the pass returns true; "fatal" throws FatalError.     *)
(***************************************************************************)
SeveritiesOf(p) ==
  CASE p = "parse"         -> {"nothing", "warning", "error", "fatal"}
    [] p = "register"      -> {"nothing", "warning", "quiet", "fatal"}
    [] p = "resolve"       -> {"nothing", "warning", "quiet", "error", "fatal"}
    [] p = "typeCheck"     -> {"nothing", "warning", "error", "fatal"}
    [] p \in {"docString", "performImports", "postTypeCheck"} -> {"nothing", "error"}
    [] p \in {"syntax", "static", "viewPure"} -> {"nothing", "warning", "error"}
    [] p = "cfg"           -> {"nothing"}
    [] p = "flow"          -> {"nothing", "warning"}
    [] p \in {"secbit", "smt"} -> {"nothing", "warning", "secbit"}

ErrorSeverities == {"quiet", "error", "fatal"}

TextType ==
  [imports : Seq(Names), contract : {"none", "abstract", "concrete"},
   creates : SUBSET Names, reports : [PassNames \cup {"parse"} -> STRING]]

\* The names, texts and EVM versions a client uses and the number of calls it makes.
SessionType ==
  [names : SUBSET Names, texts : SUBSET Texts, versions : SUBSET EVMVersions, maxCalls : Nat]

SourceType ==
  [text : Texts, isLibrary : BOOLEAN, ast : Texts \cup {None}]

CodeType == [evmVersion : EVMVersions, optimize : BOOLEAN]

ContractType ==
  [ast : Texts, evmVersion : EVMVersions \cup {None}, code : CodeType \cup {None},
   linked : BOOLEAN, sourceMapping : CodeType \cup {None}]

ASSUME StackAssumption ==
  /\ NameOrder \in Seq(Names)
  /\ \A n \in Names : \E i \in DOMAIN NameOrder : NameOrder[i] = n
  /\ \A i, j \in DOMAIN NameOrder : i # j => NameOrder[i] # NameOrder[j]
  /\ Texts \subseteq TextType
  /\ \A t \in Texts : \A p \in PassNames \cup {"parse"} : t.reports[p] \in SeveritiesOf(p)
  /\ \A t \in Texts : \A c \in t.creates : \E i \in DOMAIN t.imports : t.imports[i] = c
  /\ \A t \in Texts : t.contract = "none" => t.creates = {}
  /\ DefaultEVM \in EVMVersions
  /\ Prerelease \in BOOLEAN
  /\ \A k \in DOMAIN Sessions : Sessions[k] \in SessionType
  /\ None \notin Texts /\ None \notin EVMVersions
  /\ None \notin SourceType /\ None \notin CodeType /\ None \notin ContractType

\* CompilerStack::State
Empty                 == 0
SourcesSet            == 1
ParsingSuccessful     == 2
AnalysisSuccessful    == 3
CompilationSuccessful == 4

VARIABLES
  session,      \* the kind of client at hand
  stackState,   \* m_stackState
  sources,      \* m_sources: name -> text (scanner), isLibrary, ast
  settings,     \* m_evmVersion, m_optimize, m_libraries, m_requestedContractNames
  sourceOrder,  \* m_sourceOrder
  scopes,       \* the sources whose AST has scopes in m_scopes
  contracts,    \* m_contracts, by the name of the declaring source
  call,         \* the call in progress
  search,       \* the search of resolveImports, while it runs
  result,       \* how the last call ended
  calls         \* number of calls made

vars == <<session, reporter, stackState, sources, settings, sourceOrder, scopes,
          contracts, call, search, result, calls>>

(***************************************************************************)
(* How a call ends: it returns nothing ("void"), a value, true or false;   *)
(* "refused" is the false returned at once because of the state (by        *)
(* compile(): "compileRefused").  Or it throws: CompilerError, FatalError, *)
(* or the InternalCompilerError of one of four assertions.  "crash" stands *)
(* for the undefined behaviour of a dangling pointer.                      *)
(***************************************************************************)
Results ==
  {"none", "running", "void", "value", "added", "replaced", "true", "false", "refused",
   "compileRefused", "CompilerError", "FatalError", "crash",
   "assertEVMVersion", "assertParserError", "assertNewScope", "assertCompiledContract"}

-----------------------------------------------------------------------------
Present   == {n \in Names : sources[n] # None}
Ast(n)    == sources[n].ast
HasAst(n) == sources[n] # None /\ sources[n].ast # None

\* The names in S, in the order of m_sources.
InNameOrder(S) ==
  LET upTo[i \in 0 .. Len(NameOrder)] ==
        IF i = 0 THEN <<>>
        ELSE IF NameOrder[i] \in S THEN Append(upTo[i - 1], NameOrder[i]) ELSE upTo[i - 1]
  IN upTo[Len(NameOrder)]

\* The import graph of the parsed sources, for resolveImports.
AstImports == [n \in Names |-> IF HasAst(n) THEN Ast(n).imports ELSE <<>>]
Roots      == InNameOrder({n \in Names : sources[n] # None /\ ~sources[n].isLibrary})

Order == INSTANCE ImportOrder
           WITH Sources <- Names, Imports <- Seq(Names), Entries <- Seq(Names),
                imports <- AstImports, entries <- Roots, dfs <- search

\* How a client asks for a contract: by its name or as "file:C"; ":C" is that of no contract.
RequestNames == Names \cup (({""} \cup Names) \X Names)

\* libraries: addresses have been given for the libraries the contracts use.
DefaultSettings ==
  [evmVersion |-> DefaultEVM, optimize |-> FALSE, libraries |-> FALSE, requested |-> {}]

Idle == [phase |-> "idle"]

NoContracts == [n \in Names |-> None]

Init ==
  /\ session \in DOMAIN Sessions
  /\ ReporterInit
  /\ stackState = Empty
  /\ sources = [n \in Names |-> None]
  /\ settings = DefaultSettings
  /\ sourceOrder = <<>>
  /\ scopes = {}
  /\ contracts = NoContracts
  /\ call = Idle
  /\ search = Order!StartSearch(<<>>)
  /\ result = "none"
  /\ calls = 0

\* A client makes a call; after a crash there is nobody left to make one.
Calling ==
  call.phase = "idle" /\ result # "crash" /\ calls < Sessions[session].maxCalls /\ calls' = calls + 1

Return(r) == call' = Idle /\ result' = r

-----------------------------------------------------------------------------
\* Mutant: the version can be changed at any time.
SetEVMVersionAnytime(v) ==
  /\ Calling
  /\ settings' = [settings EXCEPT !.evmVersion = v]
  /\ result' = "void"
  /\ UNCHANGED <<session, reporter, stackState, sources, sourceOrder, scopes, contracts,
                 call, search>>

(***************************************************************************)
(* Settings, sources and reset: each a call that returns at once.          *)
(***************************************************************************)
SetEVMVersion(v) ==
  /\ Calling
  /\ IF stackState < ParsingSuccessful
       THEN settings' = [settings EXCEPT !.evmVersion = v] /\ result' = "void"
       ELSE UNCHANGED settings /\ result' = "assertEVMVersion"
  /\ UNCHANGED <<session, reporter, stackState, sources, sourceOrder, scopes, contracts,
                 call, search>>

SetOptimiserSettings(o) ==
  /\ Calling
  /\ settings' = [settings EXCEPT !.optimize = o]
  /\ result' = "void"
  /\ UNCHANGED <<session, reporter, stackState, sources, sourceOrder, scopes, contracts,
                 call, search>>

SetLibraries(l) ==
  /\ Calling
  /\ settings' = [settings EXCEPT !.libraries = l]
  /\ result' = "void"
  /\ UNCHANGED <<session, reporter, stackState, sources, sourceOrder, scopes, contracts,
                 call, search>>

SetRequestedContractNames(S) ==
  /\ Calling
  /\ settings' = [settings EXCEPT !.requested = S]
  /\ result' = "void"
  /\ UNCHANGED <<session, reporter, stackState, sources, sourceOrder, scopes, contracts,
                 call, search>>

(***************************************************************************)
(* What reset() does besides the sources and the state.  The loop over     *)
(* m_sources resets copies of the sources, so their ASTs survive.          *)
(***************************************************************************)
ResetSettings(s) ==
  [s EXCEPT !.evmVersion = DefaultEVM, !.optimize = FALSE, !.libraries = FALSE]

\* Mutant: the scopes survive a reset.
ResetRestKeepingScopes ==
  /\ settings' = ResetSettings(settings)
  /\ UNCHANGED scopes
  /\ sourceOrder' = <<>>
  /\ contracts' = NoContracts
  /\ reporter' = Clear(reporter)

ResetRest ==
  /\ settings' = ResetSettings(settings)
  /\ scopes' = {}
  /\ sourceOrder' = <<>>
  /\ contracts' = NoContracts
  /\ reporter' = Clear(reporter)

Reset(keepSources) ==
  /\ Calling
  /\ IF keepSources
       THEN stackState' = SourcesSet /\ UNCHANGED sources
       ELSE stackState' = Empty /\ sources' = [n \in Names |-> None]
  /\ ResetRest
  /\ result' = "void"
  /\ UNCHANGED <<session, call, search>>

\* m_sources[_name]: an entry that existed keeps its AST.
AddSource(n, text, isLibrary) ==
  /\ Calling
  /\ sources' = [sources EXCEPT ![n] =
                   [text |-> text, isLibrary |-> isLibrary,
                    ast |-> IF sources[n] = None THEN None ELSE sources[n].ast]]
  /\ stackState' = SourcesSet
  /\ ResetRest
  /\ result' = IF sources[n] = None THEN "added" ELSE "replaced"
  /\ UNCHANGED <<session, call, search>>

-----------------------------------------------------------------------------
(***************************************************************************)
(* The calls that run for several steps.  goal is the method called.       *)
(***************************************************************************)
ClearForParse(r, secbit) ==
  IF Prerelease /\ ~secbit THEN ReportWarning(Clear(r)) ELSE Clear(r)

StartParse(goal, secbit, noSMT) ==
  IF stackState # SourcesSet
    THEN /\ Return(IF goal = "compile" THEN "compileRefused" ELSE "refused")
         /\ UNCHANGED reporter
    ELSE /\ reporter' = ClearForParse(reporter, secbit)
         /\ call' = [phase |-> "parse", goal |-> goal, secbit |-> secbit, noSMT |-> noSMT,
                     work |-> InNameOrder(Present),
                     imports |-> <<>>, fetched |-> [n \in Names |-> None]]
         /\ result' = "running"

StartAnalyze(goal, secbit, noSMT) ==
  /\ call' = [phase |-> "order", goal |-> goal, secbit |-> secbit, noSMT |-> noSMT]
  /\ search' = Order!StartSearch(Roots)
  /\ result' = "running"

\* The part of compile() after the analysis; SECBIT mode has no backend.
StartBackend(secbit, state) ==
  IF secbit
    THEN stackState' = CompilationSuccessful /\ Return("true")
    ELSE /\ call' = [phase |-> "codegen", work |-> sourceOrder, compiled |-> {}, stack |-> <<>>]
         /\ result' = "running"
         /\ stackState' = state

Parse(secbit) ==
  /\ Calling
  /\ StartParse("parse", secbit, TRUE)
  /\ UNCHANGED <<session, stackState, sources, settings, sourceOrder, scopes, contracts,
                 search>>

Analyze(secbit, noSMT) ==
  /\ Calling
  /\ IF stackState # ParsingSuccessful
       THEN Return("refused") /\ UNCHANGED search
       ELSE StartAnalyze("analyze", secbit, noSMT)
  /\ UNCHANGED <<session, reporter, stackState, sources, settings, sourceOrder, scopes,
                 contracts>>

ParseAndAnalyze(secbit, noSMT) ==
  /\ Calling
  /\ StartParse("analyze", secbit, noSMT)
  /\ UNCHANGED <<session, stackState, sources, settings, sourceOrder, scopes, contracts,
                 search>>

Compile(secbit, noSMT) ==
  /\ Calling
  /\ IF stackState < AnalysisSuccessful
       THEN StartParse("compile", secbit, noSMT) /\ UNCHANGED stackState
       ELSE StartBackend(secbit, stackState) /\ UNCHANGED reporter
  /\ UNCHANGED <<session, sources, settings, sourceOrder, scopes, contracts, search>>

-----------------------------------------------------------------------------
(***************************************************************************)
(* parse()                                                                 *)
(***************************************************************************)
\* What a pass that finds something of this severity does to the reporter.
Report(r, severity) ==
  CASE severity = "nothing" -> r
    [] severity = "warning" -> ReportWarning(r)
    [] severity = "secbit"  -> ReportSECBITWarning(r)
    [] severity \in {"quiet", "error"} -> ReportError(r)
    [] severity = "fatal"   -> ReportFatalError(r)

\* A FatalError that has been caught.
Caught(r) == [r EXCEPT !.fatal = FALSE]

(***************************************************************************)
(* One source of sourcesToParse.  Parser::parse catches FatalError and     *)
(* returns null; parse() then asserts that an error is in the list.        *)
(***************************************************************************)
ParseSource ==
  /\ call.phase = "parse" /\ call.work # <<>>
  /\ LET n == Head(call.work)
         text == sources[n].text
         r == Report(reporter, text.reports["parse"]) IN
     /\ reporter' = Caught(r)
     /\ sources' = [sources EXCEPT ![n].ast = IF r.fatal THEN None ELSE text]
     /\ IF r.fatal /\ ContainsOnlyWarnings(r.list)
          THEN Return("assertParserError")
          ELSE /\ call' = [call EXCEPT
                              !.phase = IF r.fatal THEN "parse" ELSE "load",
                              !.work = Tail(@),
                              !.imports = IF r.fatal THEN <<>> ELSE text.imports]
               /\ UNCHANGED result
  /\ UNCHANGED <<session, stackState, settings, sourceOrder, scopes, contracts, search,
                 calls>>

Loading == call.phase = "load" /\ call.imports # <<>>

\* loadMissingSources: the import is known already.
SkipImport ==
  /\ Loading
  /\ sources[Head(call.imports)] # None \/ call.fetched[Head(call.imports)] # None
  /\ call' = [call EXCEPT !.imports = Tail(@)]
  /\ UNCHANGED <<session, reporter, stackState, sources, settings, sourceOrder, scopes,
                 contracts, search, result, calls>>

\* The callback m_readFile supplies a text.
FetchImport(text) ==
  /\ Loading
  /\ sources[Head(call.imports)] = None /\ call.fetched[Head(call.imports)] = None
  /\ call' = [call EXCEPT !.imports = Tail(@), !.fetched[Head(call.imports)] = text]
  /\ UNCHANGED <<session, reporter, stackState, sources, settings, sourceOrder, scopes,
                 contracts, search, result, calls>>

\* There is no callback or it fails.  Nothing catches the FatalError of a full list.
MissImport ==
  /\ Loading
  /\ sources[Head(call.imports)] = None /\ call.fetched[Head(call.imports)] = None
  /\ LET r == ReportError(reporter) IN
     /\ reporter' = Caught(r)
     /\ IF r.fatal
          THEN Return("FatalError")
          ELSE call' = [call EXCEPT !.imports = Tail(@)] /\ UNCHANGED result
  /\ UNCHANGED <<session, stackState, sources, settings, sourceOrder, scopes, contracts,
                 search, calls>>

\* Mutant: fetched sources are added but not queued for parsing.
AddFetchedUnqueued ==
  /\ call.phase = "load" /\ call.imports = <<>>
  /\ sources' = [n \in Names |->
                   IF call.fetched[n] = None THEN sources[n]
                   ELSE [text |-> call.fetched[n], isLibrary |-> FALSE, ast |-> None]]
  /\ call' = [call EXCEPT !.phase = "parse", !.fetched = [n \in Names |-> None]]
  /\ UNCHANGED <<session, reporter, stackState, settings, sourceOrder, scopes,
                 contracts, search, result, calls>>

\* All imports of the source done: the fetched sources are added and queued.
AddFetched ==
  /\ call.phase = "load" /\ call.imports = <<>>
  /\ LET new == InNameOrder({n \in Names : call.fetched[n] # None}) IN
     /\ sources' = [n \in Names |->
                      IF call.fetched[n] = None THEN sources[n]
                      ELSE [text |-> call.fetched[n], isLibrary |-> FALSE, ast |-> None]]
     /\ call' = [call EXCEPT !.phase = "parse", !.work = @ \o new,
                             !.fetched = [n \in Names |-> None]]
  /\ UNCHANGED <<session, reporter, stackState, settings, sourceOrder, scopes,
                 contracts, search, result, calls>>

EndParse ==
  /\ call.phase = "parse" /\ call.work = <<>>
  /\ IF ~ContainsOnlyWarnings(reporter.list)
       THEN Return("false") /\ UNCHANGED <<stackState, search>>
       ELSE /\ stackState' = ParsingSuccessful
            /\ IF call.goal = "parse"
                 THEN Return("true") /\ UNCHANGED search
                 ELSE StartAnalyze(call.goal, call.secbit, call.noSMT)
  /\ UNCHANGED <<session, reporter, sources, settings, sourceOrder, scopes, contracts,
                 calls>>

-----------------------------------------------------------------------------
(***************************************************************************)
(* analyze()                                                               *)
(***************************************************************************)
ResolveImports ==
  /\ call.phase = "order" /\ ~Order!Finished(search)
  /\ \/ search.path = <<>> /\ search' = Order!NextRoot(search)
     \/ /\ search.path # <<>>
        /\ search' = LET f == Order!Top(search) IN
                     IF f.next <= Len(AstImports[f.source])
                       THEN Order!Follow(search, AstImports) ELSE Order!Leave(search)
  /\ UNCHANGED <<session, reporter, stackState, sources, settings, sourceOrder, scopes,
                 contracts, call, result, calls>>

EndResolveImports ==
  /\ call.phase = "order" /\ Order!Finished(search)
  /\ sourceOrder' = search.order
  /\ search' = Order!StartSearch(<<>>)
  /\ call' = [phase |-> "pass", goal |-> call.goal, secbit |-> call.secbit,
              noSMT |-> call.noSMT, pass |-> 1, work |-> search.order, noErrors |-> TRUE]
  /\ UNCHANGED <<session, reporter, stackState, sources, settings, scopes, contracts,
                 result, calls>>

\* Which passes run at all, given what has been found before them.
Runs(p, noErrors, secbit, noSMT) ==
  CASE p \in {"postTypeCheck", "cfg", "flow", "static", "viewPure"} -> noErrors
    [] p = "secbit" -> secbit
    [] p = "smt"    -> (noErrors \/ secbit) /\ ~noSMT
    [] OTHER        -> TRUE

\* These two passes loop over the contracts of a source.
PerContract == {"resolve", "typeCheck"}

\* The creation graph over the contracts type-checked up to and including n.
CheckedUpTo(n) ==
  {sourceOrder[i] : i \in {j \in DOMAIN sourceOrder :
     \E k \in j .. Len(sourceOrder) : sourceOrder[k] = n}}

\* Mutant: only a contract that creates itself is found.
CreationIsSelf(n) == n \in Ast(n).creates

\* contractDependenciesAreCyclic: a walk along creations from n that never ends.
CreationIsCyclic(n) ==
  \E C \in SUBSET CheckedUpTo(n) : n \in C /\ \A c \in C : Ast(c).creates \cap C # {}

(***************************************************************************)
(* TypeChecker::endVisit(NewExpression).  unimplementedFunctions is filled *)
(* in when the abstract contract itself is checked: before that, creating  *)
(* it is not an error.                                                     *)
(***************************************************************************)
CreationIsWrong(n) ==
  \/ \E c \in Ast(n).creates : Ast(c).contract = "abstract" /\ c \in CheckedUpTo(n)
  \/ CreationIsCyclic(n)

\* The name in a `new` expression must be that of a contract (ReferencesResolver).
CreatesNoContract(n) == \E c \in Ast(n).creates : Ast(c).contract = "none"

Finding(p, n) ==
  CASE Ast(n).reports[p] = "fatal" -> "fatal"
    [] p = "resolve" /\ CreatesNoContract(n) -> "error"
    [] p = "typeCheck" /\ CreationIsWrong(n) -> "error"
    [] OTHER -> Ast(n).reports[p]

\* Mutant: every pass answers for its own findings only.
PassSucceedsAlone(p, finding, list) == finding \notin {"error", "fatal"}

\* Mutant: warnings of the syntax checker count as failure.
PassSucceedsStrictly(p, finding, list) ==
  IF p = "syntax" THEN finding = "nothing"
  ELSE finding \notin {"error", "fatal"}

\* What the pass returns for the source.
PassSucceeds(p, finding, list) ==
  CASE p \in {"syntax", "typeCheck", "postTypeCheck", "cfg", "flow", "static"} ->
         ContainsOnlyWarnings(list)
    [] p \in {"docString", "performImports", "resolve", "viewPure"} -> finding # "error"
    [] OTHER -> TRUE

\* A false from these ends analyze() at once.
Aborting == {"register", "performImports", "resolve"}

(***************************************************************************)
(* One source in one pass.  The FatalError of a pass is caught in          *)
(* registerDeclarations, in resolveNamesAndTypes or at the end of          *)
(* analyze(), and the result is false in any case.  Registering a source   *)
(* that has scopes already reads the declarations of a GlobalContext that  *)
(* is gone and then fails the assertion "Unable to add new scope.".        *)
(***************************************************************************)
AnalyzeSource ==
  /\ call.phase = "pass" /\ call.work # <<>>
  /\ LET p == Passes[call.pass]
         n == Head(call.work)
         skip == p \in PerContract /\ Ast(n).contract = "none"
         r == IF skip THEN reporter ELSE Report(reporter, Finding(p, n))
         ok == skip \/ PassSucceeds(p, Finding(p, n), r.list)
         twice == p = "register" /\ n \in scopes IN
     /\ reporter' = IF twice THEN reporter ELSE Caught(r)
     /\ scopes' = IF p = "register" THEN scopes \cup {n} ELSE scopes
     /\ contracts' =
          CASE p = "resolve" /\ ~skip /\ ok /\ ~r.fatal /\ contracts[n] = None ->
                 [contracts EXCEPT ![n] =
                    [ast |-> Ast(n), evmVersion |-> None, code |-> None, linked |-> FALSE,
                     sourceMapping |-> None]]
            [] p = "typeCheck" /\ ~skip ->
                 [contracts EXCEPT ![n].evmVersion = settings.evmVersion]
            [] OTHER -> contracts
     /\ CASE twice -> \E bad \in {"assertNewScope", "crash"} : Return(bad)
          [] ~twice /\ (r.fatal \/ (~ok /\ p \in Aborting)) -> Return("false")
          [] OTHER -> /\ call' = [call EXCEPT !.work = Tail(@), !.noErrors = @ /\ ok]
                      /\ UNCHANGED result
  /\ UNCHANGED <<session, stackState, sources, settings, sourceOrder, search, calls>>

NextPass ==
  /\ call.phase = "pass" /\ call.work = <<>> /\ call.pass < Len(Passes)
  /\ LET p == Passes[call.pass + 1] IN
     call' = [call EXCEPT !.pass = @ + 1,
                !.work = IF Runs(p, call.noErrors, call.secbit, call.noSMT)
                           THEN sourceOrder ELSE <<>>]
  /\ UNCHANGED <<session, reporter, stackState, sources, settings, sourceOrder, scopes,
                 contracts, search, result, calls>>

EndAnalyze ==
  /\ call.phase = "pass" /\ call.work = <<>> /\ call.pass = Len(Passes)
  /\ IF ~call.noErrors
       THEN Return("false") /\ UNCHANGED stackState
       ELSE IF call.goal = "analyze"
         THEN stackState' = AnalysisSuccessful /\ Return("true")
         ELSE StartBackend(call.secbit, AnalysisSuccessful)
  /\ UNCHANGED <<session, reporter, sources, settings, sourceOrder, scopes, contracts,
                 search, calls>>

-----------------------------------------------------------------------------
(***************************************************************************)
(* The backend of compile()                                                *)
(***************************************************************************)
IsRequested(n) == settings.requested = {} \/ n \in settings.requested

\* Mutant: a contract that has code is not compiled again.
NeedsCodeOnce(n) ==
  Ast(n).contract = "concrete" /\ n \notin call.compiled /\ contracts[n].code = None

\* compileContract does something for n only if it is implemented and not yet done.
NeedsCode(n) == Ast(n).contract = "concrete" /\ n \notin call.compiled

\* A call of compileContract: a frame with the dependencies still to compile.
CallCompileContract(stack, n) ==
  IF NeedsCode(n) THEN Append(stack, [name |-> n, left |-> Ast(n).creates]) ELSE stack

Innermost == call.stack[Len(call.stack)]

\* The loop of the innermost call goes on to the dependency d.
GoOnTo(stack, d) == [stack EXCEPT ![Len(stack)].left = @ \ {d}]

\* The loop of compile() over the contracts of the ordered sources.
TakeContract ==
  /\ call.phase = "codegen" /\ call.stack = <<>> /\ call.work # <<>>
  /\ LET n == Head(call.work) IN
     call' = [call EXCEPT !.work = Tail(@),
                !.stack = IF Ast(n).contract # "none" /\ IsRequested(n)
                            THEN CallCompileContract(@, n) ELSE @]
  /\ UNCHANGED <<session, reporter, stackState, sources, settings, sourceOrder, scopes,
                 contracts, search, result, calls>>

CompileDependency(d) ==
  /\ call.phase = "codegen" /\ call.stack # <<>> /\ d \in Innermost.left
  /\ call' = [call EXCEPT !.stack =
                CallCompileContract(GoOnTo(call.stack, d), d)]
  /\ UNCHANGED <<session, reporter, stackState, sources, settings, sourceOrder, scopes,
                 contracts, search, result, calls>>

(***************************************************************************)
(* Code for the innermost contract: it needs the assemblies of the         *)
(* contracts it creates (CompilerContext::compiledContract asserts that).  *)
(***************************************************************************)
GenerateCode ==
  /\ call.phase = "codegen" /\ call.stack # <<>> /\ Innermost.left = {}
  /\ LET n == Innermost.name IN
     IF ~(Ast(n).creates \subseteq call.compiled)
       THEN Return("assertCompiledContract") /\ UNCHANGED contracts
       ELSE /\ contracts' = [contracts EXCEPT
                   ![n].code = [evmVersion |-> settings.evmVersion, optimize |-> settings.optimize],
                   ![n].linked = FALSE]
            /\ call' = [call EXCEPT !.compiled = @ \cup {n},
                                    !.stack = SubSeq(@, 1, Len(@) - 1)]
            /\ UNCHANGED result
  /\ UNCHANGED <<session, reporter, stackState, sources, settings, sourceOrder, scopes,
                 search, calls>>

\* link() fills in the library addresses; what is filled in already stays.
Link(cs) ==
  [n \in Names |-> IF cs[n] = None \/ cs[n].code = None THEN cs[n]
                   ELSE [cs[n] EXCEPT !.linked = @ \/ settings.libraries]]

EndCompile ==
  /\ call.phase = "codegen" /\ call.stack = <<>> /\ call.work = <<>>
  /\ contracts' = Link(contracts)
  /\ stackState' = CompilationSuccessful
  /\ Return("true")
  /\ UNCHANGED <<session, reporter, sources, settings, sourceOrder, scopes, search,
                 calls>>

\* sourceMapping(): computed once from the assembly, then cached.
SourceMapping(n) ==
  /\ Calling
  /\ IF contracts[n] = None
       THEN result' = "CompilerError" /\ UNCHANGED contracts
       ELSE /\ contracts' = IF contracts[n].sourceMapping = None
                              THEN [contracts EXCEPT ![n].sourceMapping = contracts[n].code]
                              ELSE contracts
            /\ result' = "value"
  /\ UNCHANGED <<session, reporter, stackState, sources, settings, sourceOrder, scopes,
                 call, search>>

-----------------------------------------------------------------------------
ClientCall ==
  \/ \E v \in Sessions[session].versions : SetEVMVersion(v)
  \/ \E o \in BOOLEAN : SetOptimiserSettings(o) \/ SetLibraries(o)
  \/ \E S \in SUBSET Sessions[session].names : SetRequestedContractNames(S)
  \/ \E keep \in BOOLEAN : Reset(keep)
  \/ \E n \in Sessions[session].names, t \in Sessions[session].texts, lib \in BOOLEAN : AddSource(n, t, lib)
  \/ \E secbit \in BOOLEAN : Parse(secbit)
  \/ \E secbit, noSMT \in BOOLEAN :
       Analyze(secbit, noSMT) \/ ParseAndAnalyze(secbit, noSMT) \/ Compile(secbit, noSMT)
  \/ \E n \in Sessions[session].names : SourceMapping(n)

\* The steps of the call in progress.
Work ==
  \/ ParseSource \/ SkipImport \/ (\E t \in Sessions[session].texts : FetchImport(t)) \/ MissImport
  \/ AddFetched \/ EndParse
  \/ ResolveImports \/ EndResolveImports
  \/ AnalyzeSource \/ NextPass \/ EndAnalyze
  \/ TakeContract \/ (\E d \in Names : CompileDependency(d)) \/ GenerateCode \/ EndCompile

Next == ClientCall \/ Work

Spec == Init /\ [][Next]_vars

-----------------------------------------------------------------------------
(***************************************************************************)
(* Properties                                                              *)
(***************************************************************************)
ParseCall ==
  [phase : {"parse", "load"}, goal : {"parse", "analyze", "compile"}, secbit : BOOLEAN,
   noSMT : BOOLEAN, work : Seq(Names), imports : Seq(Names), fetched : [Names -> Texts \cup {None}]]
OrderCall ==
  [phase : {"order"}, goal : {"analyze", "compile"}, secbit : BOOLEAN, noSMT : BOOLEAN]
PassCall ==
  [phase : {"pass"}, goal : {"analyze", "compile"}, secbit : BOOLEAN, noSMT : BOOLEAN,
   pass : DOMAIN Passes, work : Seq(Names), noErrors : BOOLEAN]
FrameType == [name : Names, left : SUBSET Names]
CodegenCall ==
  [phase : {"codegen"}, work : Seq(Names), compiled : SUBSET Names, stack : Seq(FrameType)]

CallType == {Idle} \cup ParseCall \cup OrderCall \cup PassCall \cup CodegenCall

\* compileContract is in the middle of no contract twice: its recursion along
\* creations ends.
RecursionEnds ==
  call.phase = "codegen" =>
    \A i, j \in DOMAIN call.stack : call.stack[i].name = call.stack[j].name => i = j

\* The members of CompilerStack and the frames of its calls have their types,
\* and the frames of compileContract, one for each contract at most.
TypeOK ==
  /\ reporter \in ReporterType
  /\ ~reporter.fatal
  /\ stackState \in Empty .. CompilationSuccessful
  /\ sources \in [Names -> SourceType \cup {None}]
  /\ settings \in [evmVersion : EVMVersions, optimize : BOOLEAN, libraries : BOOLEAN,
                  requested : SUBSET RequestNames]
  /\ sourceOrder \in Seq(Names)
  /\ scopes \in SUBSET Names
  /\ contracts \in [Names -> ContractType \cup {None}]
  /\ call \in CallType
  /\ RecursionEnds
  /\ search \in Order!SearchType
  /\ result \in Results
  /\ calls \in 0 .. Sessions[session].maxCalls

\* The sources the last analysis looked at.
Analysed == {sourceOrder[i] : i \in DOMAIN sourceOrder}

(***************************************************************************)
(* analyze() accepts a program only if no pass has anything against it:    *)
(* no error is lost between a pass that reports it and still returns true, *)
(* the passes skipped after an error, FatalErrors caught half-way, errors  *)
(* the full list no longer records, and what earlier calls left behind.    *)
(***************************************************************************)
AcceptedProgramsAreClean ==
  stackState >= AnalysisSuccessful =>
    /\ ContainsOnlyWarnings(reporter.list)
    /\ \A n \in Analysed :
         /\ \A p \in (PassNames \cup {"parse"})
                  \ (IF Ast(n).contract = "none" THEN PerContract ELSE {}) :
              Ast(n).reports[p] \notin ErrorSeverities
         /\ ~CreationIsCyclic(n)

(***************************************************************************)
(* m_scopes, m_sourceOrder and m_contracts point into the ASTs: none of    *)
(* them outlives the ASTs it was made for, whatever the client adds,       *)
(* resets, parses again or gives up on half-way.                           *)
(***************************************************************************)
NothingDangles ==
  /\ stackState <= SourcesSet =>
       scopes = {} /\ sourceOrder = <<>> /\ contracts = NoContracts
  /\ \A n \in scopes \cup Analysed : HasAst(n)
  /\ \A n \in Names : contracts[n] # None => HasAst(n) /\ contracts[n].ast = Ast(n)

(***************************************************************************)
(* After parse() has succeeded every source has the AST of its own current *)
(* text, and everything it imports is there: what resolveImports asserts.  *)
(***************************************************************************)
ParsedProgramsAreComplete ==
  stackState >= ParsingSuccessful =>
    \A n \in Present :
      /\ Ast(n) = sources[n].text
      /\ \A i \in DOMAIN Ast(n).imports : Ast(n).imports[i] \in Present

(***************************************************************************)
(* When compile() returns true from the backend, each requested contract   *)
(* that is implemented has code for the current settings, linked if there  *)
(* are addresses to link, and so has each contract such code creates; the  *)
(* EVM version it was checked against is the one of its code.              *)
(***************************************************************************)
CompileDelivers ==
  [][ call.phase = "codegen" /\ result' = "true" =>
        \A n \in Analysed :
          Ast(n).contract = "concrete" /\ IsRequested(n) =>
            \A c \in {n} \cup Ast(n).creates :
              /\ contracts'[c].code = [evmVersion |-> settings.evmVersion,
                                       optimize |-> settings.optimize]
              /\ contracts'[c].evmVersion = settings.evmVersion
              /\ contracts'[c].linked = settings.libraries ]_vars

(***************************************************************************)
(* How a call can fail.  parse() and analyze() return false only with an   *)
(* error in the list, unless the list's limit has been used up; the        *)
(* assertion in parse() and the FatalError that leaves parse() also need   *)
(* the limit to be used up; a created contract lacks code only if it is    *)
(* abstract and was type-checked after its creator.                        *)
(***************************************************************************)
LimitUsedUp == reporter.errors > c_maxErrorsAllowed

FailuresAreExplained ==
  /\ result = "false" => ~ContainsOnlyWarnings(reporter.list) \/ LimitUsedUp
  /\ result \in {"assertParserError", "FatalError"} => LimitUsedUp
  /\ result = "assertCompiledContract" =>
       \E n \in Analysed : \E c \in Ast(n).creates :
         Ast(c).contract = "abstract" /\ c \notin CheckedUpTo(n)
  /\ result \in {"assertNewScope", "crash"} => stackState = ParsingSuccessful /\ scopes # {}
=============================================================================

-------------------------- MODULE StandardCompiler --------------------------
(***************************************************************************)
(* dev::solidity::StandardCompiler (libsolidity/interface/                 *)
(* StandardCompiler.cpp) as this repository builds it, with SECBIT         *)
(* defined: one CompilerStack that serves JSON requests one after another. *)
(* Each call compileInternal makes on the stack is a step, taken together  *)
(* with the action of CompilerStack it calls.                              *)
(*                                                                         *)
(* A request is a record:                                                  *)
(*   wellFormed  it is an object for Solidity with a non-empty "sources"   *)
(*   entries     "sources": name -> [content, urls, hash], absent fields   *)
(*               being None; urls is what m_readFile answers for each url, *)
(*               hash the text whose hash is given; None for no entry      *)
(*   evmVersion, libraries     "unset", "invalid" or what is given         *)
(*   optimize, secbit, noSMT   settings                                    *)
(*   tagsWanted  the tags of the SECBIT warnings pass the tag filter       *)
(*   selection   "outputSelection" as triples file, contract, artifact     *)
(* The contract of a source has the name of the source.                    *)
(***************************************************************************)
EXTENDS CompilerStack, FiniteSetsExt

CONSTANTS
  Requests,     \* the requests clients make
  HasReadFile,  \* a file-reading callback was supplied
  MaxRequests   \* bound on the number of requests

EntryType ==
  [content : Texts \cup {None}, urls : Seq(Texts \cup {None}) \cup {None},
   hash : Texts \cup {None}]

InputType ==
  [wellFormed : BOOLEAN, entries : [Names -> EntryType \cup {None}],
   evmVersion : EVMVersions \cup {"unset", "invalid"},
   libraries : {"unset", "invalid", "given"}, optimize : BOOLEAN, secbit : BOOLEAN,
   noSMT : BOOLEAN, tagsWanted : BOOLEAN,
   selection : SUBSET ((Names \cup {"*"}) \X (Names \cup {"*", ""}) \X STRING)]

ASSUME RequestAssumption ==
  /\ Requests \subseteq InputType
  /\ HasReadFile \in BOOLEAN
  /\ MaxRequests \in Nat
  /\ None \notin EntryType

VARIABLES
  request,  \* the request in progress: phase, input, sources left, errors so far
  answers   \* the requests served, in order, each with its answer

stackVars == vars
stdVars   == <<vars, request, answers>>

NoRequest == [phase |-> "none"]

StdInit == Init /\ request = NoRequest /\ answers = <<>>

-----------------------------------------------------------------------------
Message(type, isWarning) == [type |-> type, isWarning |-> isWarning]

Reply(errors, files, asts, outputs) ==
  [errors |-> errors, files |-> files, asts |-> asts, contracts |-> outputs]

\* formatFatalError: one error and nothing else.
FatalReply(type) == Reply(<<Message(type, FALSE)>>, {}, {}, NoContracts)

Finish(input, reply) ==
  /\ answers' = Append(answers, [input |-> input, reply |-> reply])
  /\ request' = NoRequest

Enter(phase) == request' = [request EXCEPT !.phase = phase]

\* Mutant: the stack still holds what the previous request left in it.
ReceiveUnreset(input) ==
  /\ request = NoRequest /\ Len(answers) < MaxRequests
  /\ IF input.wellFormed
       THEN /\ request' = [phase |-> "sources", input |-> input, errors |-> <<>>,
                           left |-> InNameOrder({n \in Names : input.entries[n] # None})]
            /\ UNCHANGED answers
       ELSE Finish(input, FatalReply("JSONError"))
  /\ UNCHANGED stackVars

\* reset(false), then the checks of the request's outer form.
Receive(input) ==
  /\ request = NoRequest /\ Len(answers) < MaxRequests
  /\ Reset(FALSE)
  /\ IF input.wellFormed
       THEN /\ request' = [phase |-> "sources", input |-> input, errors |-> <<>>,
                           left |-> InNameOrder({n \in Names : input.entries[n] # None})]
            /\ UNCHANGED answers
       ELSE Finish(input, FatalReply("JSONError"))

Refuse == Finish(request.input, FatalReply("JSONError")) /\ UNCHANGED stackVars

-----------------------------------------------------------------------------
(***************************************************************************)
(* The sources of the request.  The text of an entry is its content or     *)
(* what the first url answers that is read and has the given hash.         *)
(***************************************************************************)
Offers(entry) == IF entry.content # None THEN <<entry.content>> ELSE entry.urls

hashMatchesContent(hash, text) == hash = None \/ hash = text

Acceptable(entry) ==
  {i \in DOMAIN Offers(entry) :
     Offers(entry)[i] # None /\ hashMatchesContent(entry.hash, Offers(entry)[i])}

AcceptedText(entry) == Offers(entry)[Min(Acceptable(entry))]

\* The offers looked at before one is taken.
Rejected(entry) ==
  LET offers == Offers(entry) IN
  SubSeq(offers, 1, IF Acceptable(entry) = {} THEN Len(offers) ELSE Min(Acceptable(entry)) - 1)

\* Hash mismatches are errors; failed urls are warnings if another one was taken.
Complaints(entry) ==
  LET mismatches == SelectSeq(Rejected(entry), LAMBDA t : t # None)
      failures   == SelectSeq(Rejected(entry), LAMBDA t : t = None)
  IN  [i \in DOMAIN mismatches |-> Message("IOError", FALSE)]
      \o [i \in DOMAIN failures |-> Message("IOError", Acceptable(entry) # {})]

ReadEntry ==
  /\ request.phase = "sources" /\ request.left # <<>>
  /\ LET n == Head(request.left)
         entry == request.input.entries[n]
     IN  IF entry.content = None /\ (entry.urls = None \/ ~HasReadFile)
           THEN Refuse
           ELSE /\ IF Acceptable(entry) = {}
                     THEN UNCHANGED stackVars
                     ELSE AddSource(n, AcceptedText(entry), FALSE)
                /\ request' = [request EXCEPT !.left = Tail(@),
                                              !.errors = @ \o Complaints(entry)]
                /\ UNCHANGED answers

-----------------------------------------------------------------------------
(***************************************************************************)
(* The settings, in the order they are handed to the stack.                *)
(***************************************************************************)
ApplyEVMVersion ==
  /\ request.phase = "sources" /\ request.left = <<>>
  /\ CASE request.input.evmVersion = "invalid" -> Refuse
       [] request.input.evmVersion = "unset" ->
            Enter("optimizer") /\ UNCHANGED <<stackVars, answers>>
       [] OTHER ->
            SetEVMVersion(request.input.evmVersion) /\ Enter("optimizer") /\ UNCHANGED answers

ApplyOptimizer ==
  /\ request.phase = "optimizer"
  /\ SetOptimiserSettings(request.input.optimize)
  /\ Enter("libraries")
  /\ UNCHANGED answers

ApplyLibraries ==
  /\ request.phase = "libraries"
  /\ IF request.input.libraries = "invalid"
       THEN Refuse
       ELSE /\ SetLibraries(request.input.libraries = "given")
            /\ Enter("selection")
            /\ UNCHANGED answers

\* The name a selected contract gets: that of the contract, if there is one there.
QualifiedName(file, contract) ==
  IF file = contract THEN contract ELSE <<IF file = "*" THEN "" ELSE file, contract>>

\* Mutant: the shortcut for everything counts only with a file.
requestedContractNamesNarrow(selection) ==
  IF \E s \in selection : s[2] \in {"*", ""} /\ s[1] = "*" THEN {}
  ELSE {QualifiedName(s[1], s[2]) : s \in selection}

requestedContractNames(selection) ==
  IF \E s \in selection : s[2] \in {"*", ""} THEN {}
  ELSE {QualifiedName(s[1], s[2]) : s \in selection}

ApplySelection ==
  /\ request.phase = "selection"
  /\ SetRequestedContractNames(requestedContractNames(request.input.selection))
  /\ Enter("compile")
  /\ UNCHANGED answers

RunCompile ==
  /\ request.phase = "compile"
  /\ Compile(request.input.secbit, request.input.noSMT)
  /\ Enter("running")
  /\ UNCHANGED answers

\* A step of compile(); without a callback no import can be fetched.
CompileStep ==
  /\ request.phase = "running"
  /\ Work
  /\ Loading => HasReadFile \/ SkipImport \/ MissImport
  /\ UNCHANGED <<request, answers>>

-----------------------------------------------------------------------------
(***************************************************************************)
(* The answer                                                              *)
(***************************************************************************)
isArtifactRequested(selection, file, contract, artifact) ==
  \E f \in {file, "*"}, x \in {artifact, "*"} :
    \E n \in {contract} \cup (IF contract = "" THEN {} ELSE {"*"}) : <<f, n, x>> \in selection

\* What compile() throws, as an entry of the list of errors.
Thrown ==
  CASE result = "FatalError" -> <<Message("FatalError", FALSE)>>
    [] result \in {"assertParserError", "assertCompiledContract", "assertNewScope"} ->
         <<Message("InternalCompilerError", FALSE)>>
    [] OTHER -> <<>>

\* formatSECBITWarnings: the only thing a SECBIT answer has.
SECBITReply(wanted) ==
  LET n == IF wanted THEN Count(reporter.list, {"SECBITWarning"}) ELSE 0
  IN  Reply([i \in 1 .. n |-> Message("SECBITWarning", TRUE)], {}, {}, NoContracts)

WantsBytecode(n) == isArtifactRequested(request.input.selection, n, n, "bytecode")

\* sourceMapping() is called, and cached, for the contracts whose bytecode is asked for.
MappedContracts ==
  [n \in Names |->
     IF contracts[n] # None /\ WantsBytecode(n) /\ contracts[n].sourceMapping = None
       THEN [contracts[n] EXCEPT !.sourceMapping = contracts[n].code]
       ELSE contracts[n]]

EVMObject(n) ==
  [code |-> contracts[n].code, linked |-> contracts[n].linked,
   sourceMapping |-> MappedContracts[n].sourceMapping]

Output(n) ==
  IF contracts[n] = None THEN None
  ELSE [abi |-> isArtifactRequested(request.input.selection, n, n, "abi"),
        bytecode |-> IF WantsBytecode(n) THEN {EVMObject(n)} ELSE {}]

FullReply(errors) ==
  LET files == IF stackState >= AnalysisSuccessful THEN Present ELSE {} IN
  Reply(errors, files,
        {n \in files : isArtifactRequested(request.input.selection, n, "", "ast")},
        IF stackState = CompilationSuccessful THEN [n \in Names |-> Output(n)]
        ELSE NoContracts)

(***************************************************************************)
(* SECBIT mode answers with its warnings unless compile() threw.           *)
(* Otherwise the list is that of the sources' errors and the exception:    *)
(* the errors of the stack are not part of it in a SECBIT build.           *)
(***************************************************************************)
\* Mutant: an exception leaves compileInternal.
CompiledQuietly == request.phase = "running" /\ call.phase = "idle" /\ Thrown = <<>>

Compiled == request.phase = "running" /\ call.phase = "idle"

OnlySECBIT == request.input.secbit /\ Thrown = <<>>

Errors == request.errors \o Thrown

\* Mutant: only a stack without sources is inconsistent.
InconsistentIfEmpty == stackState = Empty /\ Errors = <<>>

Inconsistent == stackState # CompilationSuccessful /\ Errors = <<>>

AnswerSECBIT ==
  /\ Compiled /\ OnlySECBIT
  /\ Finish(request.input, SECBITReply(request.input.tagsWanted))
  /\ UNCHANGED stackVars

AnswerInconsistent ==
  /\ Compiled /\ ~OnlySECBIT /\ Inconsistent
  /\ Finish(request.input, FatalReply("InternalCompilerError"))
  /\ UNCHANGED stackVars

AnswerFull ==
  /\ Compiled /\ ~OnlySECBIT /\ ~Inconsistent
  /\ Finish(request.input, FullReply(Errors))
  /\ contracts' = IF stackState = CompilationSuccessful THEN MappedContracts ELSE contracts
  /\ UNCHANGED <<session, reporter, stackState, sources, settings, sourceOrder, scopes, call,
                 search, result, calls>>

Serve ==
  \/ ReadEntry \/ ApplyEVMVersion \/ ApplyOptimizer \/ ApplyLibraries \/ ApplySelection
  \/ RunCompile \/ CompileStep
  \/ AnswerSECBIT \/ AnswerInconsistent \/ AnswerFull

StdNext == (\E r \in Requests : Receive(r)) \/ Serve

StdSpec == StdInit /\ [][StdNext]_stdVars

\* compile(Json) runs in the caller's thread to its end.
StdFairSpec == StdSpec /\ WF_stdVars(Serve)

-----------------------------------------------------------------------------
(***************************************************************************)
(* Properties                                                              *)
(***************************************************************************)
Latest == answers[Len(answers)]
Answered == request = NoRequest /\ answers # <<>>

EVMOf(input) == IF input.evmVersion = "unset" THEN DefaultEVM ELSE input.evmVersion

(***************************************************************************)
(* The bytecode asked for by file or with the full wildcard is delivered,  *)
(* made for the settings of this very request, linked as it asks for and   *)
(* with the source mapping of that code, although the same stack has       *)
(* served other requests and addSource resets the settings.                *)
(***************************************************************************)
Named(selection, n) ==
  \E s \in selection : s[1] = n \/ s[2] \in {"*", ""}

BytecodeIsDelivered ==
  Answered => \A n \in Names :
    /\ Latest.reply.contracts[n] # None
    /\ Ast(n).contract = "concrete"
    /\ Named({s \in Latest.input.selection : s[2] \in {n, "*"}}, n)
    => \A object \in Latest.reply.contracts[n].bytecode :
         /\ object.code = [evmVersion |-> EVMOf(Latest.input), optimize |-> Latest.input.optimize]
         /\ object.linked = (Latest.input.libraries = "given")
         /\ object.sourceMapping = object.code

(***************************************************************************)
(* The same request gets the same answer however many requests have been   *)
(* served in between, if it supplies what its sources import (the callback *)
(* may answer differently the next time), as long as the counter of        *)
(* errors, which no reset clears, has not used up the limit.               *)
(***************************************************************************)
Accepted(input) ==
  {n \in Names : LET e == input.entries[n] IN
                 e # None /\ (e.content # None \/ e.urls # None) /\ Acceptable(e) # {}}

SuppliesImports(input) ==
  \A n \in Accepted(input) :
    LET text == AcceptedText(input.entries[n]) IN
    \A i \in DOMAIN text.imports : text.imports[i] \in Accepted(input)

AnswersAreRepeatable ==
  Answered /\ ~LimitUsedUp /\ SuppliesImports(Latest.input) =>
    \A i \in DOMAIN answers : answers[i].input = Latest.input => answers[i].reply = Latest.reply

(***************************************************************************)
(* A request that is refused or does not compile is never answered with an *)
(* empty list of errors, outside SECBIT mode.                              *)
(***************************************************************************)
FailuresAreAnswered ==
  Answered /\ ~Latest.input.secbit /\ stackState # CompilationSuccessful =>
    Latest.reply.errors # <<>>

\* Every request is answered.
RequestsAreAnswered == request # NoRequest ~> request = NoRequest
=============================================================================

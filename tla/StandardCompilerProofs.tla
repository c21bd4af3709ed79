----------------------- MODULE StandardCompilerProofs -----------------------
(***************************************************************************)
(* What StandardCompiler promises holds for any number of requests of any  *)
(* shape, in any order, and whatever its one CompilerStack has been        *)
(* through: the invariant of CompilerStackProofs also holds here, and      *)
(* every answer is the one AnswerTo gives to its request alone.            *)
(***************************************************************************)
EXTENDS StandardCompiler, CompilerStackProofs

-----------------------------------------------------------------------------
(***************************************************************************)
(* The inductive invariant.                                                *)
(***************************************************************************)
RequestPhases == {"sources", "optimizer", "libraries", "selection", "compile", "running"}

OpenRequest(r) ==
  /\ r = [phase |-> r.phase, input |-> r.input, errors |-> r.errors, left |-> r.left]
  /\ r.phase \in RequestPhases
  /\ r.input \in Requests
  /\ r.left \in Seq(Names)
  /\ \A n \in Elements(r.left) : r.input.entries[n] # None

RequestInv == request = NoRequest \/ OpenRequest(request)

AnswersInv == answers \in Seq(Elements(answers))

\* Until compile() is called the stack has nothing but sources.
QuietInv ==
  /\ request.phase # "running" => call.phase = "idle"
  /\ request.phase \in RequestPhases \ {"running"} => stackState \in Empty .. SourcesSet

\* Each setting, once handed over, is that of the request: what addSource
\* resets has not been handed over yet.
SettingsInv ==
  /\ request.phase = "sources" => settings.evmVersion = DefaultEVM
  /\ request.phase \in RequestPhases \ {"sources"} =>
       settings.evmVersion = EVMOf(request.input)
  /\ request.phase \in RequestPhases \ {"sources", "optimizer"} =>
       settings.optimize = request.input.optimize
  /\ request.phase \in {"selection", "compile", "running"} =>
       settings.libraries = (request.input.libraries = "given")
  /\ request.phase \in {"compile", "running"} =>
       settings.requested = requestedContractNames(request.input.selection)

\* What the backend has made of the requested contracts.
Delivered ==
  \A n \in Analysed : Ast(n).contract = "concrete" /\ IsRequested(n) =>
    contracts[n].code = CurrentCode /\ contracts[n].linked = settings.libraries

\* Nothing in m_contracts is left over from an earlier request.
Fresh ==
  /\ call.phase \in {"parse", "load", "order"} => contracts = NoContracts
  /\ \A n \in Names : contracts[n] # None => n \in Analysed /\ contracts[n].sourceMapping = None

\* compile() for this request.
RunInv ==
  request.phase = "running" =>
    /\ call.phase \in {"parse", "load", "order", "pass"} =>
         call.goal = "compile" /\ call.secbit = request.input.secbit
    /\ call.phase = "codegen" => ~request.input.secbit
    /\ call.phase # "idle" => stackState # CompilationSuccessful
    /\ Fresh
    /\ call.phase = "idle" /\ stackState = CompilationSuccessful =>
         result = "true" /\ (request.input.secbit \/ Delivered)

StdInv ==
  /\ IInv /\ RequestInv /\ AnswersInv /\ QuietInv /\ SettingsInv /\ RunInv
  /\ BytecodeIsDelivered /\ FailuresAreAnswered

-----------------------------------------------------------------------------
(***************************************************************************)
(* Requests and answers.                                                   *)
(***************************************************************************)
LEMMA InputFacts ==
  ASSUME NEW input \in Requests
  PROVE  /\ input \in InputType
         /\ input.entries \in [Names -> EntryType \cup {None}]
         /\ input.evmVersion \in EVMVersions \cup {"unset", "invalid"}
         /\ input.optimize \in BOOLEAN /\ input.secbit \in BOOLEAN /\ input.noSMT \in BOOLEAN
         /\ input.selection \in
              SUBSET ((Names \cup {"*"}) \X (Names \cup {"*", ""}) \X STRING)
  BY RequestAssumption DEF InputType

LEMMA RequestFacts ==
  ASSUME RequestInv
  PROVE  /\ NoRequest.phase = "none"
         /\ request = NoRequest <=> request.phase = "none"
         /\ request # NoRequest <=> request.phase \in RequestPhases
         /\ request # NoRequest => OpenRequest(request) /\ request.input \in Requests
<1>1. NoRequest.phase = "none"
  BY DEF NoRequest
<1>2. request # NoRequest => request.phase \in RequestPhases
  BY DEF RequestInv, OpenRequest
<1>3. "none" \notin RequestPhases
  BY DEF RequestPhases
<1> QED
  BY <1>1, <1>2, <1>3 DEF RequestInv, OpenRequest

\* What holds of an answer holds of it until the next request is received.
LEMMA NotAnswered ==
  ASSUME request' # NoRequest
  PROVE  BytecodeIsDelivered' /\ FailuresAreAnswered'
  BY DEF BytecodeIsDelivered, FailuresAreAnswered, Answered

LEMMA EnterFacts ==
  ASSUME RequestInv, NEW phase \in RequestPhases, Enter(phase),
         request.phase \in RequestPhases
  PROVE  /\ RequestInv' /\ request' # NoRequest /\ request'.phase = phase
         /\ request'.input = request.input
<1>1. OpenRequest(request)
  BY RequestFacts
<1> DEFINE r == [phase |-> phase, input |-> request.input, errors |-> request.errors,
                 left |-> request.left]
<1>2. request = [phase |-> request.phase, input |-> request.input, errors |-> request.errors,
                 left |-> request.left]
  BY <1>1 DEF OpenRequest
<1>3. request' = r
  BY <1>2 DEF Enter
<1>4. OpenRequest(r)
  BY <1>1 DEF OpenRequest
<1>5. r # NoRequest
  BY DEF NoRequest, RequestPhases
<1> QED
  BY <1>3, <1>4, <1>5 DEF RequestInv

LEMMA FinishFacts ==
  ASSUME AnswersInv, NEW input, NEW reply, Finish(input, reply)
  PROVE  /\ RequestInv' /\ AnswersInv' /\ SettingsInv' /\ RunInv'
         /\ request'.phase = "none" /\ request'.phase \notin RequestPhases
         /\ Latest'.input = input /\ Latest'.reply = reply
<1> DEFINE a == [input |-> input, reply |-> reply]
<1>1. answers' = Append(answers, a) /\ request' = NoRequest
  BY DEF Finish
<1> DEFINE S == Elements(answers) \cup {a}
<1>2. answers \in Seq(Elements(answers))
  BY DEF AnswersInv
<1>3. answers \in Seq(S) /\ a \in S
  BY <1>2
<1> HIDE DEF S
<1>4. answers' \in Seq(S) /\ Elements(answers') = Elements(answers) \cup {a}
  BY <1>1, <1>3, ElementsFacts
<1>5. AnswersInv'
  BY <1>4 DEF AnswersInv, S
<1>6. Latest' = a
  BY <1>1, <1>3 DEF Latest
<1>7. request'.phase = "none" /\ RequestInv'
  BY <1>1 DEF NoRequest, RequestInv
<1>8. request'.phase \notin RequestPhases
  BY <1>7 DEF RequestPhases
<1>9. SettingsInv' /\ RunInv'
  BY <1>7, <1>8 DEF SettingsInv, RunInv, RequestPhases
<1> QED
  BY <1>5, <1>6, <1>7, <1>8, <1>9

\* A fatal reply has no contracts and its error.
LEMMA FatalFacts ==
  ASSUME AnswersInv, NEW input, NEW type, Finish(input, FatalReply(type)),
         call'.phase = "idle"
  PROVE  /\ RequestInv' /\ AnswersInv' /\ QuietInv' /\ SettingsInv' /\ RunInv'
         /\ BytecodeIsDelivered' /\ FailuresAreAnswered'
<1>1. /\ RequestInv' /\ AnswersInv' /\ SettingsInv' /\ RunInv'
      /\ request'.phase = "none" /\ request'.phase \notin RequestPhases
      /\ Latest'.reply = FatalReply(type)
  BY FinishFacts
<1>2. /\ FatalReply(type).contracts = NoContracts /\ FatalReply(type).errors # <<>>
  BY DEF FatalReply, Reply
<1>3. \A n \in Names : Latest'.reply.contracts[n] = None
  BY <1>1, <1>2 DEF NoContracts
<1>4. BytecodeIsDelivered'
  BY <1>3 DEF BytecodeIsDelivered
<1>5. FailuresAreAnswered'
  BY <1>1, <1>2 DEF FailuresAreAnswered
<1>6. QuietInv'
  BY <1>1 DEF QuietInv
<1> QED
  BY <1>1, <1>4, <1>5, <1>6

-----------------------------------------------------------------------------
(***************************************************************************)
(* Receiving a request and reading its sources.                            *)
(***************************************************************************)
LEMMA ReceiveStdInv ==
  ASSUME StdInv, NEW input \in Requests, Receive(input)
  PROVE  StdInv'
<1> USE DEF StdInv
<1>1. /\ Reset(FALSE) /\ FALSE \in BOOLEAN
      /\ request = NoRequest /\ UNCHANGED call /\ settings' = ResetSettings(settings)
      /\ stackState' = Empty
  BY DEF Receive, Reset, ResetRest
<1>2. IInv'
  BY <1>1, ResetIInv
<1>3. call'.phase = "idle"
  BY <1>1, RequestFacts DEF QuietInv
<1>4. CASE input.wellFormed
  <2> DEFINE S == {n \in Names : input.entries[n] # None}
             r == [phase |-> "sources", input |-> input, errors |-> <<>>, left |-> InNameOrder(S)]
  <2>1. request' = r /\ UNCHANGED answers
    BY <1>4 DEF Receive
  <2>2. InNameOrder(S) \in Seq(Names) /\ Elements(InNameOrder(S)) = S
    BY InNameOrderFacts
  <2>3. OpenRequest(r)
    BY <2>2 DEF OpenRequest, RequestPhases
  <2>4. r # NoRequest /\ r.phase = "sources"
    BY DEF NoRequest
  <2> HIDE DEF r
  <2>5. RequestInv' /\ AnswersInv'
    BY <2>1, <2>3 DEF RequestInv, AnswersInv
  <2>6. QuietInv'
    BY <1>1, <1>3, <2>1, <2>4 DEF QuietInv, Empty, SourcesSet
  <2>7. settings'.evmVersion = DefaultEVM
    BY <1>1 DEF ResetSettings, IInv, TypeInv
  <2>8. SettingsInv' /\ RunInv'
    BY <2>1, <2>4, <2>7 DEF SettingsInv, RunInv, RequestPhases
  <2> QED
    BY <1>2, <2>1, <2>4, <2>5, <2>6, <2>8, NotAnswered
<1>5. CASE ~input.wellFormed
  <2>1. Finish(input, FatalReply("JSONError"))
    BY <1>5 DEF Receive
  <2> QED
    BY <1>2, <1>3, <2>1, FatalFacts
<1> QED
  BY <1>4, <1>5

LEMMA RefuseStdInv ==
  ASSUME StdInv, request.phase # "running", Refuse
  PROVE  StdInv'
<1> USE DEF StdInv
<1>1. Finish(request.input, FatalReply("JSONError")) /\ UNCHANGED vars
  BY DEF Refuse, stackVars
<1>2. IInv'
  BY <1>1, StutterIInv
<1>3. call'.phase = "idle"
  BY <1>1 DEF QuietInv, vars
<1> QED
  BY <1>1, <1>2, <1>3, FatalFacts

\* The text taken from an entry is one of the texts it offers.
LEMMA AcceptedTextFacts ==
  ASSUME NEW entry \in EntryType, entry.content # None \/ entry.urls # None,
         Acceptable(entry) # {}
  PROVE  AcceptedText(entry) \in Texts
<1>1. /\ entry.content \in Texts \cup {None} /\ entry.urls \in Seq(Texts \cup {None}) \cup {None}
  BY DEF EntryType
<1>2. Offers(entry) \in Seq(Texts \cup {None})
  <2>1. CASE entry.content # None
    <3>1. Offers(entry) = <<entry.content>>
      BY <2>1 DEF Offers
    <3> QED
      BY <1>1, <3>1
  <2>2. CASE entry.content = None
    <3>1. Offers(entry) = entry.urls
      BY <2>2 DEF Offers
    <3> QED
      BY <1>1, <2>2, <3>1
  <2> QED
    BY <2>1, <2>2
<1>3. Acceptable(entry) \in SUBSET Nat /\ Acceptable(entry) \subseteq DOMAIN Offers(entry)
  BY <1>2 DEF Acceptable
<1>4. Min(Acceptable(entry)) \in Acceptable(entry)
  BY <1>3, NatMin DEF Min
<1>5. \A i \in Acceptable(entry) : Offers(entry)[i] # None /\ i \in DOMAIN Offers(entry)
  BY DEF Acceptable
<1> QED
  BY <1>2, <1>4, <1>5 DEF AcceptedText

LEMMA EntryRead ==
  ASSUME NEW p, NEW i, NEW a, NEW b, NEW l, NEW e
  PROVE  [[phase |-> p, input |-> i, errors |-> a, left |-> b] EXCEPT !.left = l, !.errors = e]
           = [phase |-> p, input |-> i, errors |-> e, left |-> l]
<1>1. [[phase |-> p, input |-> i, errors |-> a, left |-> b] EXCEPT !.left = l]
        = [phase |-> p, input |-> i, errors |-> a, left |-> l]
  OBVIOUS
<1>2. [[phase |-> p, input |-> i, errors |-> a, left |-> l] EXCEPT !.errors = e]
        = [phase |-> p, input |-> i, errors |-> e, left |-> l]
  OBVIOUS
<1>3. [[phase |-> p, input |-> i, errors |-> a, left |-> b] EXCEPT !.left = l, !.errors = e]
        = [[[phase |-> p, input |-> i, errors |-> a, left |-> b] EXCEPT !.left = l]
             EXCEPT !.errors = e]
  BY Zenon
<1> QED
  BY <1>1, <1>2, <1>3

LEMMA ReadEntryStdInv ==
  ASSUME StdInv, ReadEntry
  PROVE  StdInv'
<1> USE DEF StdInv
<1> DEFINE n == Head(request.left)
           entry == request.input.entries[n]
<1>1. request.phase = "sources" /\ request.left # <<>> /\ request.phase # "running"
      /\ request.phase \in RequestPhases /\ OpenRequest(request)
  BY RequestFacts DEF ReadEntry, RequestPhases
<1>2. /\ n \in Names /\ entry # None /\ Tail(request.left) \in Seq(Names)
      /\ Elements(Tail(request.left)) \subseteq Elements(request.left)
  BY <1>1, ElementsFacts DEF OpenRequest
<1>3. entry \in EntryType
  BY <1>1, <1>2, InputFacts DEF OpenRequest
<1>4. CASE entry.content = None /\ (entry.urls = None \/ ~HasReadFile)
  BY <1>1, <1>4, RefuseStdInv DEF ReadEntry
<1>5. CASE ~(entry.content = None /\ (entry.urls = None \/ ~HasReadFile))
  <2> DEFINE errs == request.errors \o Complaints(entry)
             rest == Tail(request.left)
             r == [phase |-> "sources", input |-> request.input, errors |-> errs,
                   left |-> rest]
  <2>1. /\ IF Acceptable(entry) = {} THEN UNCHANGED stackVars
           ELSE AddSource(n, AcceptedText(entry), FALSE)
        /\ request' = [request EXCEPT !.left = Tail(@), !.errors = @ \o Complaints(entry)]
        /\ UNCHANGED answers
    BY <1>5 DEF ReadEntry
  <2>2. request = [phase |-> request.phase, input |-> request.input,
                   errors |-> request.errors, left |-> request.left]
    BY <1>1 DEF OpenRequest
  <2>3. request' = r
    <3>1. request' = [request EXCEPT !.left = rest, !.errors = errs]
      BY <2>1
    <3> HIDE DEF rest, errs
    <3> QED
      BY <1>1, <2>2, <3>1, EntryRead
  <2> HIDE DEF errs
  <2>4. OpenRequest(r)
    BY <1>1, <1>2 DEF OpenRequest
  <2>5. r # NoRequest /\ r.phase = "sources"
    BY DEF NoRequest
  <2>6. RequestInv' /\ AnswersInv'
    BY <2>1, <2>3, <2>4 DEF RequestInv, AnswersInv
  <2>7. call.phase = "idle" /\ stackState \in Empty .. SourcesSet
    BY <1>1 DEF QuietInv
  <2>8. settings.evmVersion = DefaultEVM
    BY <1>1 DEF SettingsInv
  <2>9. /\ IInv' /\ UNCHANGED call /\ stackState' \in Empty .. SourcesSet
        /\ settings'.evmVersion = DefaultEVM
    <3>1. CASE Acceptable(entry) = {}
      BY <2>1, <2>7, <2>8, <3>1, StutterIInv DEF stackVars, vars
    <3>2. CASE Acceptable(entry) # {}
      <4>1. AddSource(n, AcceptedText(entry), FALSE) /\ AcceptedText(entry) \in Texts
        BY <1>3, <1>5, <2>1, <3>2, AcceptedTextFacts
      <4>2. IInv'
        BY <1>2, <4>1, AddSourceIInv
      <4>3. UNCHANGED call /\ stackState' = SourcesSet /\ settings' = ResetSettings(settings)
        BY <4>1 DEF AddSource, ResetRest
      <4> QED
        BY <4>2, <4>3 DEF ResetSettings, IInv, TypeInv, Empty, SourcesSet
    <3> QED
      BY <3>1, <3>2
  <2> HIDE DEF r
  <2>10. QuietInv' /\ SettingsInv' /\ RunInv'
    BY <2>3, <2>5, <2>7, <2>9 DEF QuietInv, SettingsInv, RunInv, RequestPhases
  <2> QED
    BY <2>3, <2>5, <2>6, <2>9, <2>10, NotAnswered
<1> QED
  BY <1>4, <1>5

-----------------------------------------------------------------------------
(***************************************************************************)
(* The settings.                                                           *)
(***************************************************************************)
\* A step that hands over a setting.
LEMMA HandOver ==
  ASSUME StdInv, IInv', UNCHANGED <<stackState, call, answers>>,
         NEW phase \in RequestPhases \ {"running"}, Enter(phase),
         request.phase \in RequestPhases \ {"running"}, SettingsInv'
  PROVE  StdInv'
<1> USE DEF StdInv
<1>1. /\ RequestInv' /\ request' # NoRequest /\ request'.phase = phase
  BY EnterFacts
<1>2. AnswersInv' /\ QuietInv' /\ RunInv'
  BY <1>1 DEF AnswersInv, QuietInv, RunInv
<1> QED
  BY <1>1, <1>2, NotAnswered

LEMMA ApplyEVMVersionStdInv ==
  ASSUME StdInv, ApplyEVMVersion
  PROVE  StdInv'
<1> USE DEF StdInv
<1>1. /\ request.phase = "sources" /\ request.phase # "running"
      /\ request.phase \in RequestPhases \ {"running"} /\ request.input \in Requests
      /\ "optimizer" \in RequestPhases \ {"running"}
  BY RequestFacts DEF ApplyEVMVersion, RequestPhases
<1>2. settings.evmVersion = DefaultEVM /\ stackState \in Empty .. SourcesSet
  BY <1>1 DEF SettingsInv, QuietInv
<1>3. CASE request.input.evmVersion = "invalid"
  BY <1>1, <1>3, RefuseStdInv DEF ApplyEVMVersion
<1>4. CASE request.input.evmVersion = "unset"
  <2>1. Enter("optimizer") /\ UNCHANGED <<vars, answers>>
    BY <1>4 DEF ApplyEVMVersion, stackVars
  <2>2. request'.phase = "optimizer" /\ request'.input = request.input
    BY <1>1, <2>1, EnterFacts
  <2>3. SettingsInv'
    BY <1>2, <1>4, <2>1, <2>2 DEF SettingsInv, EVMOf, vars, RequestPhases
  <2>4. IInv'
    BY <2>1, StutterIInv
  <2> QED
    BY <1>1, <2>1, <2>3, <2>4, HandOver DEF vars
<1>5. CASE request.input.evmVersion \notin {"invalid", "unset"}
  <2>1. /\ SetEVMVersion(request.input.evmVersion) /\ Enter("optimizer") /\ UNCHANGED answers
        /\ request.input.evmVersion \in EVMVersions
    BY <1>1, <1>5, InputFacts DEF ApplyEVMVersion
  <2>2. request'.phase = "optimizer" /\ request'.input = request.input
    BY <1>1, <2>1, EnterFacts
  <2>3. stackState < ParsingSuccessful
    BY <1>2 DEF Empty, SourcesSet, ParsingSuccessful
  <2>4. settings' = [settings EXCEPT !.evmVersion = request.input.evmVersion]
    BY <2>1, <2>3 DEF SetEVMVersion
  <2>5. settings'.evmVersion = request.input.evmVersion
    BY <2>4 DEF IInv, TypeInv
  <2>6. SettingsInv'
    BY <1>5, <2>2, <2>5 DEF SettingsInv, EVMOf, RequestPhases
  <2>7. IInv'
    BY <2>1, SetEVMVersionIInv
  <2> QED
    BY <1>1, <2>1, <2>6, <2>7, HandOver DEF SetEVMVersion
<1> QED
  BY <1>3, <1>4, <1>5

LEMMA ApplyOptimizerStdInv ==
  ASSUME StdInv, ApplyOptimizer
  PROVE  StdInv'
<1> USE DEF StdInv
<1>1. /\ request.phase = "optimizer"
      /\ request.phase \in RequestPhases \ {"running"} /\ request.input \in Requests
      /\ "libraries" \in RequestPhases \ {"running"}
  BY RequestFacts DEF ApplyOptimizer, RequestPhases
<1>2. /\ SetOptimiserSettings(request.input.optimize) /\ Enter("libraries") /\ UNCHANGED answers
      /\ request.input.optimize \in BOOLEAN
  BY <1>1, InputFacts DEF ApplyOptimizer
<1>3. request'.phase = "libraries" /\ request'.input = request.input
  BY <1>1, <1>2, EnterFacts
<1>4. settings.evmVersion = EVMOf(request.input)
  BY <1>1 DEF SettingsInv, RequestPhases
<1>5. settings'.evmVersion = settings.evmVersion /\ settings'.optimize = request.input.optimize
  BY <1>2 DEF SetOptimiserSettings, IInv, TypeInv
<1>6. SettingsInv'
  BY <1>3, <1>4, <1>5 DEF SettingsInv, RequestPhases, EVMOf
<1>7. IInv'
  BY <1>2, SetOptimiserSettingsIInv
<1> QED
  BY <1>1, <1>2, <1>6, <1>7, HandOver DEF SetOptimiserSettings

LEMMA ApplyLibrariesStdInv ==
  ASSUME StdInv, ApplyLibraries
  PROVE  StdInv'
<1> USE DEF StdInv
<1>1. /\ request.phase = "libraries" /\ request.phase # "running"
      /\ request.phase \in RequestPhases \ {"running"}
      /\ "selection" \in RequestPhases \ {"running"}
  BY DEF ApplyLibraries, RequestPhases
<1>2. CASE request.input.libraries = "invalid"
  BY <1>1, <1>2, RefuseStdInv DEF ApplyLibraries
<1>3. CASE request.input.libraries # "invalid"
  <2> DEFINE given == request.input.libraries = "given"
  <2>1. SetLibraries(given) /\ Enter("selection") /\ UNCHANGED answers /\ given \in BOOLEAN
    BY <1>3 DEF ApplyLibraries
  <2>2. request'.phase = "selection" /\ request'.input = request.input
    BY <1>1, <2>1, EnterFacts
  <2>3. settings.evmVersion = EVMOf(request.input) /\ settings.optimize = request.input.optimize
    BY <1>1 DEF SettingsInv, RequestPhases
  <2>4. /\ settings'.evmVersion = settings.evmVersion /\ settings'.optimize = settings.optimize
        /\ settings'.libraries = given
    BY <2>1 DEF SetLibraries, IInv, TypeInv
  <2>5. SettingsInv'
    BY <2>2, <2>3, <2>4 DEF SettingsInv, RequestPhases, EVMOf
  <2>6. IInv'
    BY <2>1, SetLibrariesIInv
  <2> QED
    BY <1>1, <2>1, <2>5, <2>6, HandOver DEF SetLibraries
<1> QED
  BY <1>2, <1>3

LEMMA RequestedFacts ==
  ASSUME NEW input \in Requests
  PROVE  requestedContractNames(input.selection) \in SUBSET RequestNames
<1> DEFINE sel == input.selection
<1>1. CASE \E s \in sel : s[2] \in {"*", ""}
  BY <1>1 DEF requestedContractNames
<1>2. CASE ~\E s \in sel : s[2] \in {"*", ""}
  <2>1. requestedContractNames(sel) = {QualifiedName(s[1], s[2]) : s \in sel}
    BY <1>2 DEF requestedContractNames
  <2>2. ASSUME NEW s \in sel PROVE QualifiedName(s[1], s[2]) \in RequestNames
    <3>1. s \in (Names \cup {"*"}) \X (Names \cup {"*", ""}) \X STRING
      BY InputFacts
    <3>2. s[1] \in Names \cup {"*"} /\ s[2] \in Names
      BY <1>2, <3>1
    <3>3. (IF s[1] = "*" THEN "" ELSE s[1]) \in {""} \cup Names
      BY <3>2
    <3> QED
      BY <3>2, <3>3 DEF QualifiedName, RequestNames
  <2> QED
    BY <2>1, <2>2
<1> QED
  BY <1>1, <1>2

LEMMA ApplySelectionStdInv ==
  ASSUME StdInv, ApplySelection
  PROVE  StdInv'
<1> USE DEF StdInv
<1> DEFINE names == requestedContractNames(request.input.selection)
<1>1. /\ request.phase = "selection"
      /\ request.phase \in RequestPhases \ {"running"} /\ request.input \in Requests
      /\ "compile" \in RequestPhases \ {"running"}
  BY RequestFacts DEF ApplySelection, RequestPhases
<1>2. /\ SetRequestedContractNames(names) /\ Enter("compile") /\ UNCHANGED answers
      /\ names \in SUBSET RequestNames
  BY <1>1, RequestedFacts DEF ApplySelection
<1>3. request'.phase = "compile" /\ request'.input = request.input
  BY <1>1, <1>2, EnterFacts
<1>4. /\ settings.evmVersion = EVMOf(request.input) /\ settings.optimize = request.input.optimize
      /\ settings.libraries = (request.input.libraries = "given")
  BY <1>1 DEF SettingsInv, RequestPhases
<1> HIDE DEF names
<1>5. /\ settings'.evmVersion = settings.evmVersion /\ settings'.optimize = settings.optimize
      /\ settings'.libraries = settings.libraries /\ settings'.requested = names
  BY <1>2 DEF SetRequestedContractNames, IInv, TypeInv
<1>6. SettingsInv'
  BY <1>3, <1>4, <1>5 DEF SettingsInv, RequestPhases, EVMOf, names
<1>7. IInv'
  BY <1>2, SetRequestedContractNamesIInv
<1> QED
  BY <1>1, <1>2, <1>6, <1>7, HandOver DEF SetRequestedContractNames
-----------------------------------------------------------------------------
(***************************************************************************)
(* compile().                                                              *)
(***************************************************************************)
\* compile() starts on a stack that has sources and no contracts.
LEMMA RunCompileStdInv ==
  ASSUME StdInv, RunCompile
  PROVE  StdInv'
<1> USE DEF StdInv
<1> DEFINE secbit == request.input.secbit
           noSMT == request.input.noSMT
<1>1. /\ request.phase = "compile" /\ request.phase \in RequestPhases \ {"running"}
      /\ request.input \in Requests /\ "running" \in RequestPhases
  BY RequestFacts DEF RunCompile, RequestPhases
<1>2. /\ Compile(secbit, noSMT) /\ Enter("running") /\ UNCHANGED answers
      /\ secbit \in BOOLEAN /\ noSMT \in BOOLEAN
  BY <1>1, InputFacts DEF RunCompile
<1>3. /\ RequestInv' /\ request' # NoRequest /\ request'.phase = "running"
      /\ request'.input = request.input
  BY <1>1, <1>2, EnterFacts
<1>4. IInv'
  BY <1>2, CompileIInv
<1>5. stackState \in Empty .. SourcesSet
  BY <1>1 DEF QuietInv
<1>6. stackState < AnalysisSuccessful /\ stackState <= SourcesSet
      /\ stackState # CompilationSuccessful
  BY <1>5 DEF Empty, SourcesSet, AnalysisSuccessful, CompilationSuccessful
<1>7. /\ StartParse("compile", secbit, noSMT)
      /\ UNCHANGED <<stackState, settings, sourceOrder, contracts>>
  BY <1>2, <1>6 DEF Compile
<1>8. contracts' = NoContracts
  BY <1>6, <1>7 DEF IInv, NothingDangles
<1>9. Fresh'
  BY <1>8 DEF Fresh, NoContracts
<1>10. \/ call' = Idle
       \/ call'.phase = "parse" /\ call'.goal = "compile" /\ call'.secbit = secbit
  BY <1>7 DEF StartParse, Return
<1>11. RunInv'
  BY <1>3, <1>6, <1>7, <1>9, <1>10 DEF RunInv, Idle
<1>12. AnswersInv' /\ QuietInv'
  BY <1>2, <1>3 DEF AnswersInv, QuietInv
<1>13. SettingsInv'
  BY <1>1, <1>3, <1>7 DEF SettingsInv, RequestPhases, EVMOf
<1> QED
  BY <1>3, <1>4, <1>11, <1>12, <1>13, NotAnswered

\* A step that ends compile() without success or goes on in the same part of it.
LEMMA SamePart ==
  ASSUME RunInv, request.phase = "running", call.phase # "idle",
         UNCHANGED <<request, stackState, sourceOrder>>,
         Fresh',
         \/ call' = Idle
         \/ /\ call.phase \in {"parse", "load", "order", "pass"}
            /\ call'.phase \in {"parse", "load", "order", "pass"}
            /\ call'.goal = call.goal /\ call'.secbit = call.secbit
         \/ call.phase = "codegen" /\ call'.phase = "codegen"
  PROVE  RunInv'
<1>1. CASE call' = Idle
  BY <1>1 DEF RunInv, Idle
<1>2. CASE /\ call.phase \in {"parse", "load", "order", "pass"}
           /\ call'.phase \in {"parse", "load", "order", "pass"}
           /\ call'.goal = call.goal /\ call'.secbit = call.secbit
  BY <1>2 DEF RunInv
<1>3. CASE call.phase = "codegen" /\ call'.phase = "codegen"
  BY <1>3 DEF RunInv
<1> QED
  BY <1>1, <1>2, <1>3

LEMMA ParseStepRuns ==
  ASSUME IInv, RunInv, request.phase = "running", UNCHANGED request,
         \/ ParseSource \/ SkipImport \/ (\E t \in Texts : FetchImport(t)) \/ MissImport
         \/ AddFetched
  PROVE  RunInv'
<1>1. /\ call.phase \in {"parse", "load"} /\ call.phase # "idle"
      /\ UNCHANGED <<stackState, sourceOrder, contracts>>
  BY DEF ParseSource, SkipImport, FetchImport, MissImport, AddFetched, Loading
<1>2. call \in ParseCall
  BY <1>1, CallFacts DEF IInv
<1>3. contracts = NoContracts
  BY <1>1 DEF RunInv, Fresh
<1>4. Fresh'
  BY <1>1, <1>3 DEF Fresh, NoContracts
<1>5. \/ call' = Idle
      \/ /\ call'.phase \in {"parse", "load"}
         /\ call'.goal = call.goal /\ call'.secbit = call.secbit
  <2>1. CASE ParseSource
    BY <1>2, <2>1 DEF ParseSource, Return, ParseCall
  <2>2. CASE SkipImport \/ MissImport
    BY <1>2, <2>2 DEF SkipImport, MissImport, Return, ParseCall, Loading
  <2>3. CASE \E t \in Texts : FetchImport(t)
    BY <1>2, <2>3 DEF FetchImport, ParseCall, Loading
  <2>4. CASE AddFetched
    BY <1>2, <2>4 DEF AddFetched, ParseCall
  <2> QED
    BY <2>1, <2>2, <2>3, <2>4
<1> QED
  BY <1>1, <1>4, <1>5, SamePart

LEMMA EndParseRuns ==
  ASSUME IInv, RunInv, request.phase = "running", UNCHANGED request, EndParse
  PROVE  RunInv'
<1>1. /\ call.phase = "parse" /\ UNCHANGED <<sourceOrder, contracts>>
      /\ call.goal = "compile" /\ call.secbit = request.input.secbit
      /\ contracts = NoContracts
  BY DEF EndParse, RunInv, Fresh
<1>2. Fresh'
  BY <1>1 DEF Fresh, NoContracts
<1>3. CASE ~ContainsOnlyWarnings(reporter.list)
  <2>1. call' = Idle /\ UNCHANGED stackState
    BY <1>3 DEF EndParse, Return
  <2> QED
    BY <1>1, <1>2, <2>1, SamePart
<1>4. CASE ContainsOnlyWarnings(reporter.list)
  <2>1. stackState' = ParsingSuccessful /\ StartAnalyze(call.goal, call.secbit, call.noSMT)
    BY <1>1, <1>4 DEF EndParse
  <2>2. call'.phase = "order" /\ call'.goal = call.goal /\ call'.secbit = call.secbit
    BY <2>1 DEF StartAnalyze
  <2>3. stackState' # CompilationSuccessful
    BY <2>1 DEF ParsingSuccessful, CompilationSuccessful
  <2> QED
    BY <1>1, <1>2, <2>2, <2>3 DEF RunInv
<1> QED
  BY <1>3, <1>4

LEMMA OrderStepRuns ==
  ASSUME IInv, RunInv, request.phase = "running", UNCHANGED request,
         ResolveImports \/ EndResolveImports
  PROVE  RunInv'
<1>1. /\ call.phase = "order" /\ UNCHANGED <<stackState, contracts>>
      /\ call.goal = "compile" /\ call.secbit = request.input.secbit
      /\ contracts = NoContracts /\ stackState # CompilationSuccessful
  BY DEF ResolveImports, EndResolveImports, RunInv, Fresh
<1>2. Fresh'
  BY <1>1 DEF Fresh, NoContracts
<1>3. /\ call'.phase \in {"order", "pass"}
      /\ call'.goal = call.goal /\ call'.secbit = call.secbit
  BY <1>1 DEF ResolveImports, EndResolveImports
<1> QED
  BY <1>1, <1>2, <1>3 DEF RunInv

\* The passes make new entries of m_contracts, for what they analyse.
LEMMA AnalyzeSourceRuns ==
  ASSUME IInv, RunInv, request.phase = "running", UNCHANGED request, AnalyzeSource
  PROVE  RunInv'
<1> DEFINE p == Passes[call.pass]
           n == Head(call.work)
           skip == p \in PerContract /\ Ast(n).contract = "none"
           r == IF skip THEN reporter ELSE Report(reporter, Finding(p, n))
           ok == skip \/ PassSucceeds(p, Finding(p, n), r.list)
           made == ok /\ ~r.fatal
<1>1. /\ call.phase = "pass" /\ call.phase # "idle" /\ call.work # <<>>
      /\ UNCHANGED <<stackState, sourceOrder>>
  BY DEF AnalyzeSource
<1>2. /\ call \in PassCall /\ call.work \in Seq(Names)
      /\ Elements(call.work) \subseteq Analysed
  BY <1>1, PassPhaseFacts
<1>3. n \in Analysed /\ n \in Names
  BY <1>1, <1>2, ElementsFacts, AnalysedFacts DEF IInv
<1>4. contracts' =
        CASE p = "resolve" /\ ~skip /\ made /\ contracts[n] = None ->
               [contracts EXCEPT ![n] =
                  [ast |-> Ast(n), evmVersion |-> None, code |-> None, linked |-> FALSE,
                   sourceMapping |-> None]]
          [] p = "typeCheck" /\ ~skip ->
               [contracts EXCEPT ![n].evmVersion = settings.evmVersion]
          [] OTHER -> contracts
  BY DEF AnalyzeSource
<1>5. \A m \in Names : contracts[m] # None => m \in Analysed /\ contracts[m].sourceMapping = None
  BY DEF RunInv, Fresh
<1>6. /\ \A m \in Names : m # n => contracts'[m] = contracts[m]
      /\ contracts'[n] = None \/ contracts'[n].sourceMapping = None
  <2>1. /\ p = Passes[call.pass]
        /\ skip => p \in PerContract /\ Ast(n).contract = "none"
        /\ p = "typeCheck" /\ Ast(n).contract = "none" => skip
    BY DEF PerContract
  <2> HIDE DEF p, n, skip, made
  <2>2. p = "resolve" /\ ~skip /\ made /\ contracts[n] = None =>
          contracts' = [contracts EXCEPT ![n] =
                          [ast |-> Ast(n), evmVersion |-> None, code |-> None,
                           linked |-> FALSE, sourceMapping |-> None]]
    BY <1>4
  <2>3. p = "typeCheck" /\ ~skip =>
          contracts' = [contracts EXCEPT ![n].evmVersion = settings.evmVersion]
    BY <1>4
  <2>4. /\ ~(p = "resolve" /\ ~skip /\ made /\ contracts[n] = None)
        /\ ~(p = "typeCheck" /\ ~skip)
        => contracts' = contracts
    BY <1>4
  <2>5. contracts[n] = None \/ contracts[n].sourceMapping = None
    BY <1>3, <1>5
  <2> QED
    BY <1>1, <1>3, <2>1, <2>2, <2>3, <2>4, <2>5, PassContractFacts
<1>7. \/ call' = Idle
      \/ call'.phase = "pass" /\ call'.goal = call.goal /\ call'.secbit = call.secbit
  <2>1. call' = Idle \/ call' = [call EXCEPT !.work = Tail(@), !.noErrors = @ /\ ok]
    BY DEF AnalyzeSource, Return
  <2> HIDE DEF ok
  <2> QED
    BY <1>2, <2>1 DEF PassCall
<1> HIDE DEF n
<1>8. Fresh'
  <2>1. call'.phase \notin {"parse", "load", "order"}
    BY <1>7 DEF Idle
  <2>2. Analysed' = Analysed
    BY <1>1 DEF Analysed
  <2> QED
    BY <1>3, <1>5, <1>6, <2>1, <2>2 DEF Fresh
<1> QED
  BY <1>1, <1>7, <1>8, SamePart

LEMMA NextPassRuns ==
  ASSUME IInv, RunInv, request.phase = "running", UNCHANGED request, NextPass
  PROVE  RunInv'
<1>1. call.phase = "pass" /\ call.phase # "idle" /\ UNCHANGED <<stackState, sourceOrder, contracts>>
  BY DEF NextPass
<1>2. call \in PassCall
  BY <1>1, PassPhaseFacts
<1>3. call'.phase = "pass" /\ call'.goal = call.goal /\ call'.secbit = call.secbit
  BY <1>2 DEF NextPass, PassCall
<1>4. Fresh'
  BY <1>1, <1>3 DEF RunInv, Fresh, Analysed
<1> QED
  BY <1>1, <1>3, <1>4, SamePart

\* Without the backend, in SECBIT mode, the end of the analysis is the end of compile().
LEMMA EndAnalyzeRuns ==
  ASSUME IInv, RunInv, request.phase = "running", UNCHANGED request, EndAnalyze
  PROVE  RunInv'
<1>1. /\ call.phase = "pass" /\ call.phase # "idle" /\ UNCHANGED <<sourceOrder, contracts>>
      /\ call.goal = "compile" /\ call.secbit = request.input.secbit
  BY DEF EndAnalyze, RunInv
<1>2. \A m \in Names : contracts[m] # None => m \in Analysed /\ contracts[m].sourceMapping = None
  BY DEF RunInv, Fresh
<1>3. call'.phase \notin {"parse", "load", "order"} => Fresh'
  BY <1>1, <1>2 DEF Fresh, Analysed
<1>4. CASE ~call.noErrors
  <2>1. call' = Idle /\ UNCHANGED stackState
    BY <1>4 DEF EndAnalyze, Return
  <2>2. Fresh'
    BY <1>3, <2>1 DEF Idle
  <2> QED
    BY <1>1, <2>1, <2>2, SamePart
<1>5. CASE call.noErrors
  <2>1. StartBackend(call.secbit, AnalysisSuccessful)
    BY <1>1, <1>5 DEF EndAnalyze
  <2>2. CASE call.secbit
    <3>1. call' = Idle /\ call'.phase = "idle" /\ result' = "true"
      BY <2>1, <2>2 DEF StartBackend, Return, Idle
    <3> QED
      BY <1>1, <1>3, <2>2, <3>1 DEF RunInv
  <2>3. CASE ~call.secbit
    <3>1. call'.phase = "codegen" /\ stackState' = AnalysisSuccessful
      BY <2>1, <2>3 DEF StartBackend
    <3>2. stackState' # CompilationSuccessful
      BY <3>1 DEF AnalysisSuccessful, CompilationSuccessful
    <3> QED
      BY <1>1, <1>3, <2>3, <3>1, <3>2 DEF RunInv
  <2> QED
    BY <2>2, <2>3
<1> QED
  BY <1>4, <1>5

LEMMA TakeRuns ==
  ASSUME IInv, RunInv, request.phase = "running", UNCHANGED request,
         TakeContract \/ \E d \in Names : CompileDependency(d)
  PROVE  RunInv'
<1>1. /\ call.phase = "codegen" /\ call.phase # "idle"
      /\ UNCHANGED <<stackState, sourceOrder, contracts>>
  BY DEF TakeContract, CompileDependency
<1>2. call \in CodegenCall
  BY <1>1, CodegenFacts
<1>3. call'.phase = "codegen"
  BY <1>2 DEF TakeContract, CompileDependency, CodegenCall
<1>4. Fresh'
  BY <1>1, <1>3 DEF RunInv, Fresh, Analysed
<1> QED
  BY <1>1, <1>3, <1>4, SamePart

LEMMA GenerateCodeRuns ==
  ASSUME IInv, RunInv, request.phase = "running", UNCHANGED request, GenerateCode
  PROVE  RunInv'
<1> DEFINE k == Len(call.stack)
           n == call.stack[k].name
<1>1. /\ call.phase = "codegen" /\ call.phase # "idle" /\ call.stack # <<>>
      /\ Innermost.name = n /\ UNCHANGED <<stackState, sourceOrder>>
  BY DEF GenerateCode, Innermost
<1>2. call \in CodegenCall /\ call.stack \in Seq(FrameType) /\ k \in DOMAIN call.stack
  BY <1>1, CodegenFacts
<1>3. n \in Analysed /\ Ast(n).contract = "concrete"
  BY <1>1, <1>2 DEF IInv, CodegenInv, FrameInv
<1>4. n \in Names /\ contracts[n] # None /\ contracts[n] \in ContractType
  BY <1>1, <1>3, CodegenFacts
<1>5. \/ call' = Idle /\ UNCHANGED contracts
      \/ /\ contracts' = [contracts EXCEPT ![n].code = CurrentCode, ![n].linked = FALSE]
         /\ call' = [call EXCEPT !.compiled = @ \cup {n}, !.stack = SubSeq(@, 1, Len(@) - 1)]
  BY <1>1 DEF GenerateCode, CurrentCode, Return
<1>6. call' = Idle \/ call'.phase = "codegen"
  BY <1>2, <1>5 DEF CodegenCall
<1>7. /\ \A m \in Names : m # n => contracts'[m] = contracts[m]
      /\ contracts'[n].sourceMapping = contracts[n].sourceMapping
  <2> HIDE DEF n
  <2>1. contracts \in [Names -> ContractType \cup {None}]
    BY DEF IInv, TypeInv
  <2> QED
    BY <1>4, <1>5, <2>1 DEF ContractType
<1> HIDE DEF n
<1>8. Fresh'
  <2>1. call'.phase \notin {"parse", "load", "order"}
    BY <1>6 DEF Idle
  <2>2. \A m \in Names : contracts[m] # None => m \in Analysed /\ contracts[m].sourceMapping = None
    BY DEF RunInv, Fresh
  <2>3. Analysed' = Analysed
    BY <1>1 DEF Analysed
  <2> QED
    BY <1>3, <1>4, <1>7, <2>1, <2>2, <2>3 DEF Fresh
<1> QED
  BY <1>1, <1>6, <1>8, SamePart
LEMMA EndCompileRuns ==
  ASSUME IInv, RunInv, request.phase = "running", UNCHANGED request, EndCompile
  PROVE  RunInv'
<1>1. /\ call'.phase = "idle" /\ result' = "true" /\ contracts' = Link(contracts)
      /\ UNCHANGED <<sources, settings, sourceOrder>>
  BY DEF EndCompile, Return, Idle
<1>2. Analysed' = Analysed /\ \A n : Ast(n)' = Ast(n)
  BY <1>1, SameSources, SameFindings
<1>3. Delivered'
  <2>1. \A n \in Analysed : Ast(n).contract = "concrete" /\ IsRequested(n) =>
          contracts'[n].code = CurrentCode /\ contracts'[n].linked = settings.libraries
    BY BackendDelivers
  <2>2. CurrentCode' = CurrentCode /\ \A n : IsRequested(n)' <=> IsRequested(n)
    BY <1>1 DEF CurrentCode, IsRequested
  <2> QED
    BY <1>1, <1>2, <2>1, <2>2 DEF Delivered
<1>4. Fresh'
  <2>1. \A n \in Names : contracts[n] # None => n \in Analysed /\ contracts[n].sourceMapping = None
    BY DEF RunInv, Fresh
  <2>2. TypeInv
    BY DEF IInv
  <2> QED
    BY <1>1, <1>2, <2>1, <2>2, LinkFacts DEF Fresh
<1> QED
  BY <1>1, <1>3, <1>4 DEF RunInv

\* The steps of compile() leave the settings alone.
LEMMA WorkKeepsSettings ==
  ASSUME Work
  PROVE  UNCHANGED settings
<1>1. CASE \/ ParseSource \/ SkipImport \/ (\E t \in Sessions[session].texts : FetchImport(t))
           \/ MissImport \/ AddFetched \/ EndParse \/ ResolveImports \/ EndResolveImports
  BY <1>1 DEF ParseSource, SkipImport, FetchImport, MissImport, AddFetched, EndParse,
              ResolveImports, EndResolveImports
<1>2. CASE AnalyzeSource \/ NextPass \/ EndAnalyze
  BY <1>2 DEF AnalyzeSource, NextPass, EndAnalyze
<1>3. CASE TakeContract \/ (\E d \in Names : CompileDependency(d)) \/ GenerateCode \/ EndCompile
  BY <1>3 DEF TakeContract, CompileDependency, GenerateCode, EndCompile
<1> QED
  BY <1>1, <1>2, <1>3 DEF Work

LEMMA CompileStepStdInv ==
  ASSUME StdInv, CompileStep
  PROVE  StdInv'
<1> USE DEF StdInv
<1>1. request.phase = "running" /\ Work /\ UNCHANGED <<request, answers>>
  BY DEF CompileStep
<1>2. IInv'
  BY <1>1, WorkIInv
<1>3. request # NoRequest /\ request' # NoRequest
  BY <1>1, RequestFacts
<1>4. RequestInv' /\ AnswersInv' /\ QuietInv'
  BY <1>1 DEF RequestInv, AnswersInv, QuietInv
<1>5. SettingsInv'
  BY <1>1, WorkKeepsSettings DEF SettingsInv
<1>6. RunInv'
  <2>1. CASE \/ ParseSource \/ SkipImport \/ (\E t \in Sessions[session].texts : FetchImport(t))
             \/ MissImport \/ AddFetched
    <3>1. Sessions[session].texts \subseteq Texts
      BY SessionFacts DEF IInv
    <3> QED
      BY <1>1, <2>1, <3>1, ParseStepRuns
  <2>2. CASE EndParse
    BY <1>1, <2>2, EndParseRuns
  <2>3. CASE ResolveImports \/ EndResolveImports
    BY <1>1, <2>3, OrderStepRuns
  <2>4. CASE AnalyzeSource
    BY <1>1, <2>4, AnalyzeSourceRuns
  <2>5. CASE NextPass \/ EndAnalyze
    BY <1>1, <2>5, NextPassRuns, EndAnalyzeRuns
  <2>6. CASE TakeContract \/ (\E d \in Names : CompileDependency(d))
    BY <1>1, <2>6, TakeRuns
  <2>7. CASE GenerateCode
    BY <1>1, <2>7, GenerateCodeRuns
  <2>8. CASE EndCompile
    BY <1>1, <2>8, EndCompileRuns
  <2> QED
    BY <1>1, <2>1, <2>2, <2>3, <2>4, <2>5, <2>6, <2>7, <2>8 DEF Work
<1> QED
  BY <1>2, <1>3, <1>4, <1>5, <1>6, NotAnswered

-----------------------------------------------------------------------------
(***************************************************************************)
(* The answers.                                                            *)
(***************************************************************************)
LEMMA AnswerSECBITStdInv ==
  ASSUME StdInv, AnswerSECBIT
  PROVE  StdInv'
<1> USE DEF StdInv
<1> DEFINE reply == SECBITReply(request.input.tagsWanted)
<1>1. /\ Finish(request.input, reply) /\ UNCHANGED vars
      /\ call.phase = "idle" /\ request.input.secbit
  BY DEF AnswerSECBIT, Compiled, OnlySECBIT, stackVars
<1>2. IInv' /\ call'.phase = "idle"
  BY <1>1, StutterIInv DEF vars
<1>3. reply.contracts = NoContracts
  BY DEF SECBITReply, Reply
<1> HIDE DEF reply
<1>4. /\ RequestInv' /\ AnswersInv' /\ SettingsInv' /\ RunInv'
      /\ request'.phase = "none" /\ request'.phase \notin RequestPhases
      /\ Latest'.input = request.input /\ Latest'.reply = reply
  BY <1>1, FinishFacts
<1>5. \A n \in Names : Latest'.reply.contracts[n] = None
  BY <1>3, <1>4 DEF NoContracts
<1>6. BytecodeIsDelivered'
  BY <1>5 DEF BytecodeIsDelivered
<1>7. FailuresAreAnswered'
  BY <1>1, <1>4 DEF FailuresAreAnswered
<1>8. QuietInv'
  BY <1>2, <1>4 DEF QuietInv
<1> QED
  BY <1>2, <1>4, <1>6, <1>7, <1>8

LEMMA AnswerInconsistentStdInv ==
  ASSUME StdInv, AnswerInconsistent
  PROVE  StdInv'
<1> USE DEF StdInv
<1>1. /\ Finish(request.input, FatalReply("InternalCompilerError")) /\ UNCHANGED vars
      /\ call.phase = "idle"
  BY DEF AnswerInconsistent, Compiled, stackVars
<1>2. IInv' /\ call'.phase = "idle"
  BY <1>1, StutterIInv DEF vars
<1> QED
  BY <1>1, <1>2, FatalFacts

\* Caching source mappings changes nothing else of a contract.
LEMMA MappedFacts ==
  ASSUME TypeInv
  PROVE  /\ MappedContracts \in [Names -> ContractType \cup {None}]
         /\ \A n \in Names : MappedContracts[n] = None <=> contracts[n] = None
         /\ \A n \in Names : contracts[n] # None =>
              /\ MappedContracts[n].ast = contracts[n].ast
              /\ MappedContracts[n].evmVersion = contracts[n].evmVersion
              /\ WantsBytecode(n) /\ contracts[n].sourceMapping = None =>
                   MappedContracts[n].sourceMapping = contracts[n].code
<1> DEFINE new(n) == [contracts[n] EXCEPT !.sourceMapping = contracts[n].code]
<1>1. contracts \in [Names -> ContractType \cup {None}]
  BY DEF TypeInv
<1>2. ASSUME NEW n \in Names, contracts[n] # None
      PROVE  /\ contracts[n] \in ContractType /\ new(n) \in ContractType /\ new(n) # None
             /\ new(n).ast = contracts[n].ast /\ new(n).evmVersion = contracts[n].evmVersion
             /\ new(n).sourceMapping = contracts[n].code
  <2>1. contracts[n] \in ContractType
    BY <1>1, <1>2
  <2>2. new(n) \in ContractType
    BY <2>1 DEF ContractType
  <2> QED
    BY <2>1, <2>2, StackAssumption DEF ContractType
<1>3. MappedContracts =
        [n \in Names |->
           IF contracts[n] # None /\ WantsBytecode(n) /\ contracts[n].sourceMapping = None
             THEN new(n) ELSE contracts[n]]
  BY DEF MappedContracts
<1> HIDE DEF new
<1> QED
  BY <1>1, <1>2, <1>3

LEMMA MappedIInv ==
  ASSUME IInv, call.phase = "idle", stackState = CompilationSuccessful,
         contracts' = MappedContracts,
         UNCHANGED <<session, reporter, stackState, sources, settings, sourceOrder, scopes,
                     call, search, result, calls>>
  PROVE  IInv'
<1> USE DEF IInv
<1>1. /\ contracts' \in [Names -> ContractType \cup {None}]
      /\ \A n \in Names : contracts'[n] = None <=> contracts[n] = None
      /\ \A n \in Names : contracts[n] # None =>
           /\ contracts'[n].ast = contracts[n].ast
           /\ contracts'[n].evmVersion = contracts[n].evmVersion
  BY MappedFacts
<1>2. TypeInv' /\ PhaseInv' /\ ReportInv'
  BY <1>1 DEF TypeInv, PhaseInv, ReportInv
<1>3. NothingDangles'
  BY <1>1, SameSources, SameFindings DEF NothingDangles, SourcesSet, CompilationSuccessful
<1>4. CompleteInv' /\ AnalysedInv'
  BY SameSources, SameFindings DEF CompleteInv, AnalysedInv
<1>5. AcceptedInv'
  BY <1>1, AnalysedFacts, SameSources, SameFindings DEF AcceptedInv
<1>6. FailuresAreExplained'
  BY SameSources, SameFindings DEF FailuresAreExplained, LimitUsedUp
<1> QED
  BY <1>2, <1>3, <1>4, <1>5, <1>6, NoCall

\* What the selection asks for by file or for all files is requested.
LEMMA NamedIsRequested ==
  ASSUME NEW selection, NEW n, settings.requested = requestedContractNames(selection),
         Named({s \in selection : s[2] \in {n, "*"}}, n)
  PROVE  IsRequested(n)
<1>1. PICK s \in selection : s[2] \in {n, "*"} /\ (s[1] = n \/ s[2] \in {"*", ""})
  BY DEF Named
<1>2. CASE \E t \in selection : t[2] \in {"*", ""}
  BY <1>2 DEF requestedContractNames, IsRequested
<1>3. CASE ~\E t \in selection : t[2] \in {"*", ""}
  <2>1. s[2] = n /\ s[1] = n
    BY <1>1, <1>3
  <2>2. QualifiedName(s[1], s[2]) = n
    BY <2>1 DEF QualifiedName
  <2>3. requestedContractNames(selection) = {QualifiedName(t[1], t[2]) : t \in selection}
    BY <1>3 DEF requestedContractNames
  <2> QED
    BY <2>2, <2>3 DEF IsRequested
<1> QED
  BY <1>2, <1>3

LEMMA AnswerFullStdInv ==
  ASSUME StdInv, AnswerFull
  PROVE  StdInv'
<1> USE DEF StdInv
<1> DEFINE reply == FullReply(Errors)
           selection == request.input.selection
<1>1. /\ request.phase = "running" /\ call.phase = "idle"
      /\ Finish(request.input, reply) /\ ~OnlySECBIT /\ ~Inconsistent
      /\ contracts' = IF stackState = CompilationSuccessful THEN MappedContracts ELSE contracts
      /\ UNCHANGED <<session, reporter, stackState, sources, settings, sourceOrder, scopes, call,
                     search, result, calls>>
  BY DEF AnswerFull, Compiled
<1>2. IInv'
  <2>1. CASE stackState = CompilationSuccessful
    BY <1>1, <2>1, MappedIInv
  <2>2. CASE stackState # CompilationSuccessful
    BY <1>1, <2>2, StutterIInv DEF vars
  <2> QED
    BY <2>1, <2>2
<1>3. /\ reply.errors = Errors
      /\ reply.contracts = IF stackState = CompilationSuccessful
                             THEN [n \in Names |-> Output(n)] ELSE NoContracts
  BY DEF FullReply, Reply
<1> HIDE DEF reply
<1>4. /\ RequestInv' /\ AnswersInv' /\ SettingsInv' /\ RunInv'
      /\ request'.phase = "none" /\ request'.phase \notin RequestPhases
      /\ Latest'.input = request.input /\ Latest'.reply = reply
  BY <1>1, FinishFacts
<1>5. FailuresAreAnswered'
  BY <1>1, <1>3, <1>4 DEF FailuresAreAnswered, Inconsistent
<1>6. QuietInv'
  BY <1>1, <1>4 DEF QuietInv
<1>7. BytecodeIsDelivered'
  <2> SUFFICES ASSUME NEW n \in Names, reply.contracts[n] # None,
                      Ast(n).contract = "concrete",
                      Named({s \in selection : s[2] \in {n, "*"}}, n),
                      NEW object \in reply.contracts[n].bytecode
               PROVE  /\ object.code = [evmVersion |-> EVMOf(request.input),
                                        optimize |-> request.input.optimize]
                      /\ object.linked = (request.input.libraries = "given")
                      /\ object.sourceMapping = object.code
    <3>1. \A n \in Names : Ast(n)' = Ast(n)
      BY <1>1, SameSources
    <3> QED
      BY <1>4, <3>1 DEF BytecodeIsDelivered
  <2>1. stackState = CompilationSuccessful /\ reply.contracts[n] = Output(n)
    BY <1>3 DEF NoContracts
  <2>2. contracts[n] # None
    BY <2>1 DEF Output
  <2>3. WantsBytecode(n) /\ object = EVMObject(n)
    BY <2>1, <2>2 DEF Output
  <2>4. result = "true" /\ (request.input.secbit \/ Delivered) /\ Fresh
    BY <1>1, <2>1 DEF RunInv
  <2>5. Thrown = <<>>
    BY <2>4 DEF Thrown
  <2>6. Delivered
    BY <1>1, <2>4, <2>5 DEF OnlySECBIT
  <2>7. n \in Analysed /\ contracts[n].sourceMapping = None
    BY <2>2, <2>4 DEF Fresh
  <2>8. /\ settings.evmVersion = EVMOf(request.input)
        /\ settings.optimize = request.input.optimize
        /\ settings.libraries = (request.input.libraries = "given")
        /\ settings.requested = requestedContractNames(selection)
    BY <1>1 DEF SettingsInv, RequestPhases
  <2>9. IsRequested(n)
    BY <2>8, NamedIsRequested
  <2>10. contracts[n].code = CurrentCode /\ contracts[n].linked = settings.libraries
    BY <2>6, <2>7, <2>9 DEF Delivered
  <2>11. MappedContracts[n].sourceMapping = contracts[n].code
    BY <2>2, <2>3, <2>7, MappedFacts DEF IInv
  <2>12. /\ object.code = contracts[n].code /\ object.linked = contracts[n].linked
         /\ object.sourceMapping = MappedContracts[n].sourceMapping
    BY <2>3 DEF EVMObject
  <2> QED
    BY <2>8, <2>10, <2>11, <2>12 DEF CurrentCode
<1> QED
  BY <1>2, <1>4, <1>5, <1>6, <1>7

-----------------------------------------------------------------------------
(***************************************************************************)
(* All steps, and the theorems.                                            *)
(***************************************************************************)
LEMMA StdInitInv ==
  ASSUME StdInit
  PROVE  StdInv
<1>1. Init /\ request = NoRequest /\ answers = <<>>
  BY DEF StdInit
<1>2. IInv
  BY <1>1, InitInv
<1>3. request.phase = "none" /\ call.phase = "idle"
  BY <1>1 DEF NoRequest, Init, Idle
<1>4. RequestInv /\ QuietInv /\ SettingsInv /\ RunInv
  BY <1>1, <1>3 DEF RequestInv, QuietInv, SettingsInv, RunInv, RequestPhases
<1>5. AnswersInv
  BY <1>1 DEF AnswersInv
<1>6. BytecodeIsDelivered /\ FailuresAreAnswered
  BY <1>1 DEF BytecodeIsDelivered, FailuresAreAnswered, Answered
<1> QED
  BY <1>2, <1>4, <1>5, <1>6 DEF StdInv

LEMMA StdStutter ==
  ASSUME StdInv, UNCHANGED stdVars
  PROVE  StdInv'
<1> USE DEF StdInv
<1>1. UNCHANGED vars /\ UNCHANGED <<request, answers>>
  BY DEF stdVars
<1>2. IInv'
  BY <1>1, StutterIInv
<1>3. UNCHANGED <<stackState, sources, settings, sourceOrder, contracts, call, result>>
  BY <1>1 DEF vars
<1>4. RequestInv' /\ AnswersInv' /\ QuietInv' /\ SettingsInv'
  BY <1>1, <1>3 DEF RequestInv, AnswersInv, QuietInv, SettingsInv
<1>5. RunInv'
  BY <1>1, <1>3, SameSources, SameFindings
     DEF RunInv, Fresh, Delivered, IsRequested, CurrentCode
<1>6. BytecodeIsDelivered' /\ FailuresAreAnswered'
  BY <1>1, <1>3, SameSources DEF BytecodeIsDelivered, FailuresAreAnswered, Answered, Latest
<1> QED
  BY <1>2, <1>4, <1>5, <1>6

\* The invariant of CompilerStack and what ties the stack to the request it
\* is serving hold at every point of every request.
THEOREM ServiceInvariant == StdSpec => []StdInv
<1>1. StdInit => StdInv
  BY StdInitInv
<1>2. StdInv /\ [StdNext]_stdVars => StdInv'
  <2> SUFFICES ASSUME StdInv, [StdNext]_stdVars PROVE StdInv'
    OBVIOUS
  <2>1. CASE \E r \in Requests : Receive(r)
    BY <2>1, ReceiveStdInv
  <2>2. CASE ReadEntry \/ ApplyEVMVersion \/ ApplyOptimizer \/ ApplyLibraries \/ ApplySelection
    BY <2>2, ReadEntryStdInv, ApplyEVMVersionStdInv, ApplyOptimizerStdInv,
       ApplyLibrariesStdInv, ApplySelectionStdInv
  <2>3. CASE RunCompile \/ CompileStep
    BY <2>3, RunCompileStdInv, CompileStepStdInv
  <2>4. CASE AnswerSECBIT \/ AnswerInconsistent \/ AnswerFull
    BY <2>4, AnswerSECBITStdInv, AnswerInconsistentStdInv, AnswerFullStdInv
  <2>5. CASE UNCHANGED stdVars
    BY <2>5, StdStutter
  <2> QED
    BY <2>1, <2>2, <2>3, <2>4, <2>5 DEF StdNext, Serve
<1> QED
  BY <1>1, <1>2, PTL DEF StdSpec

\* The bytecode a request asks for is made for the settings of that request,
\* linked as it asks for and has its own source mapping, although addSource
\* resets the settings and the stack has served other requests.
THEOREM RequestedBytecodeIsDelivered == StdSpec => []BytecodeIsDelivered
<1>1. StdInv => BytecodeIsDelivered
  BY DEF StdInv
<1> QED
  BY <1>1, ServiceInvariant, PTL

\* Outside SECBIT mode no failure of compile() is answered with an empty list
\* of errors, although the errors of the stack are not part of the answer.
THEOREM NoSilentFailure == StdSpec => []FailuresAreAnswered
<1>1. StdInv => FailuresAreAnswered
  BY DEF StdInv
<1> QED
  BY <1>1, ServiceInvariant, PTL

\* A stack that serves requests keeps what CompilerStack promises its clients.
THEOREM ServiceKeepsPromises ==
  StdSpec => [](TypeOK /\ AcceptedProgramsAreClean /\ ParsedProgramsAreComplete /\ NothingDangles
                /\ FailuresAreExplained)
<1>1. StdInv => TypeOK /\ AcceptedProgramsAreClean /\ ParsedProgramsAreComplete /\ NothingDangles
                /\ FailuresAreExplained
  BY StackIsTyped, AcceptedIsClean, ParsedIsComplete DEF StdInv, IInv
<1> QED
  BY <1>1, ServiceInvariant, PTL
-----------------------------------------------------------------------------
(***************************************************************************)
(* The answer as a function of the request: what compile(Json) promises    *)
(* of a request that supplies what its sources import, as long as the      *)
(* limit of errors is not used up.  Nothing here reads a variable.         *)
(***************************************************************************)
EntryNames(input) == {n \in Names : input.entries[n] # None}
EntryOrder(input) == InNameOrder(EntryNames(input))
TextOf(input, n)  == AcceptedText(input.entries[n])

Unreadable(entry) == entry.content = None /\ (entry.urls = None \/ ~HasReadFile)

Refused(input) ==
  \/ ~input.wellFormed
  \/ \E n \in EntryNames(input) : Unreadable(input.entries[n])
  \/ input.evmVersion = "invalid"
  \/ input.libraries = "invalid"

\* f[i]: the errors after the first i entries, for i up to k.
Collects(input, k, f) ==
  /\ f[0] = <<>>
  /\ \A i \in 1 .. k : f[i] = f[i - 1] \o Complaints(input.entries[EntryOrder(input)[i]])

ComplaintsOf(input) ==
  CHOOSE e : \E f : Collects(input, Len(EntryOrder(input)), f) /\ e = f[Len(EntryOrder(input))]

\* f[i]: the search of resolveImports after i steps, for i up to k.
ImportsIn(input) ==
  [n \in Names |-> IF n \in Accepted(input) THEN TextOf(input, n).imports ELSE <<>>]

SearchStep(imp, d) ==
  IF d.path = <<>> THEN Order!NextRoot(d)
  ELSE IF Order!Top(d).next <= Len(imp[Order!Top(d).source]) THEN Order!Follow(d, imp)
  ELSE Order!Leave(d)

Searches(input, k, f) ==
  /\ f[0] = Order!StartSearch(InNameOrder(Accepted(input)))
  /\ \A i \in 1 .. k : ~Order!Finished(f[i - 1]) /\ f[i] = SearchStep(ImportsIn(input), f[i - 1])

OrderOf(input) ==
  CHOOSE o : \E k \in Nat : \E f : Searches(input, k, f) /\ Order!Finished(f[k]) /\ o = f[k].order

Visited(input) == {OrderOf(input)[i] : i \in DOMAIN OrderOf(input)}

CheckedBy(input, n) ==
  {OrderOf(input)[i] : i \in {j \in DOMAIN OrderOf(input) :
     \E k \in j .. Len(OrderOf(input)) : OrderOf(input)[k] = n}}

\* What each pass finds, from the texts alone.
MakesCycle(input, n) ==
  \E C \in SUBSET CheckedBy(input, n) :
    n \in C /\ \A c \in C : TextOf(input, c).creates \cap C # {}

MakesWrong(input, n) ==
  \/ \E c \in TextOf(input, n).creates :
       TextOf(input, c).contract = "abstract" /\ c \in CheckedBy(input, n)
  \/ MakesCycle(input, n)

MakesNoContract(input, n) ==
  \E c \in TextOf(input, n).creates : TextOf(input, c).contract = "none"

Found(input, p, n) ==
  CASE TextOf(input, n).reports[p] = "fatal" -> "fatal"
    [] p = "resolve" /\ MakesNoContract(input, n) -> "error"
    [] p = "typeCheck" /\ MakesWrong(input, n) -> "error"
    [] OTHER -> TextOf(input, n).reports[p]

PassedOver(input, p, n) == p \in PerContract /\ TextOf(input, n).contract = "none"

\* The verdicts of parse() and analyze().
ParseClean(input) ==
  \A n \in Accepted(input) : TextOf(input, n).reports["parse"] \notin ErrorSeverities

AnalysisClean(input) ==
  \A n \in Visited(input), p \in PassNames :
    ~PassedOver(input, p, n) => Found(input, p, n) \notin ErrorSeverities

Accepts(input) == Accepted(input) # {} /\ ParseClean(input) /\ AnalysisClean(input)

\* analyze() ends half-way.
Stops(input, p, n) ==
  /\ ~PassedOver(input, p, n)
  /\ Found(input, p, n) = "fatal" \/ (p \in Aborting /\ Found(input, p, n) = "error")

ReachesEnd(input) ==
  /\ Accepted(input) # {} /\ ParseClean(input)
  /\ \A n \in Visited(input), p \in PassNames : ~Stops(input, p, n)

\* The SECBIT warnings: those of the SECBIT pass and of the SMT checker.
SECBITFound(input) ==
  {f \in (DOMAIN Passes) \X Visited(input) :
     /\ Passes[f[1]] = "secbit" \/ (Passes[f[1]] = "smt" /\ ~input.noSMT)
     /\ Found(input, Passes[f[1]], f[2]) = "secbit"}

SECBITAnswer(input) ==
  LET n == IF input.tagsWanted /\ ReachesEnd(input) THEN Cardinality(SECBITFound(input)) ELSE 0
  IN  Reply([i \in 1 .. n |-> Message("SECBITWarning", TRUE)], {}, {}, NoContracts)

\* The contracts that get code: the implemented ones among those requested,
\* and among those that what gets code creates.
IsConcrete(input, n) == TextOf(input, n).contract = "concrete"

RequestedIn(input, n) ==
  \/ requestedContractNames(input.selection) = {}
  \/ n \in requestedContractNames(input.selection)

GetsCode(input, C) ==
  /\ \A n \in Visited(input) : IsConcrete(input, n) /\ RequestedIn(input, n) => n \in C
  /\ \A n \in C : \A c \in TextOf(input, n).creates : IsConcrete(input, c) => c \in C

Needed(input) ==
  {n \in Visited(input) : \A C \in SUBSET Visited(input) : GetsCode(input, C) => n \in C}

LacksCode(input) ==
  \E n \in Needed(input) : \E c \in TextOf(input, n).creates : ~IsConcrete(input, c)

CodeOf(input, n) ==
  IF n \in Needed(input) THEN [evmVersion |-> EVMOf(input), optimize |-> input.optimize]
  ELSE None

ObjectOf(input, n) ==
  [code |-> CodeOf(input, n),
   linked |-> n \in Needed(input) /\ input.libraries = "given",
   sourceMapping |-> CodeOf(input, n)]

OutputOf(input, n) ==
  IF n \notin Visited(input) \/ TextOf(input, n).contract = "none" THEN None
  ELSE [abi |-> isArtifactRequested(input.selection, n, n, "abi"),
        bytecode |-> IF isArtifactRequested(input.selection, n, n, "bytecode")
                       THEN {ObjectOf(input, n)} ELSE {}]

Compiles(input) == Accepts(input) /\ ~LacksCode(input)

ErrorsOf(input) ==
  ComplaintsOf(input)
    \o (IF Accepts(input) /\ LacksCode(input) THEN <<Message("InternalCompilerError", FALSE)>>
        ELSE <<>>)

FullAnswer(input) ==
  LET files == IF Accepts(input) THEN Accepted(input) ELSE {} IN
  IF ~Compiles(input) /\ ErrorsOf(input) = <<>> THEN FatalReply("InternalCompilerError")
  ELSE Reply(ErrorsOf(input), files,
             {n \in files : isArtifactRequested(input.selection, n, "", "ast")},
             IF Compiles(input) THEN [n \in Names |-> OutputOf(input, n)] ELSE NoContracts)

AnswerTo(input) ==
  IF Refused(input) THEN FatalReply("JSONError")
  ELSE IF input.secbit THEN SECBITAnswer(input)
  ELSE FullAnswer(input)
-----------------------------------------------------------------------------
(***************************************************************************)
(* The invariant that ties the run of a request to its answer.             *)
(***************************************************************************)
SECBITs == Count(reporter.list, {"SECBITWarning"})

\* k entries have been read; none of them was the last of the request.
ReadInv ==
  /\ request.input.wellFormed
  /\ \E k \in 0 .. Len(EntryOrder(request.input)) : \E f :
       /\ Collects(request.input, k, f) /\ request.errors = f[k]
       /\ request.left = SubSeq(EntryOrder(request.input), k + 1, Len(EntryOrder(request.input)))
  /\ \A n \in EntryNames(request.input) :
       n \in Elements(request.left) \/ ~Unreadable(request.input.entries[n])

\* m_sources before compile(): what has been accepted, not yet parsed.
ReadyInv ==
  request.phase # "running" =>
    /\ \A n \in Names : sources[n] # None =>
         /\ n \in Accepted(request.input)
         /\ sources[n] = [text |-> TextOf(request.input, n), isLibrary |-> FALSE, ast |-> None]
    /\ \A n \in Accepted(request.input) : n \in Elements(request.left) \/ sources[n] # None
    /\ stackState = Empty <=> Present = {}
    /\ reporter.list = <<>>

SettledInv ==
  /\ request.phase # "sources" => request.left = <<>> /\ request.input.evmVersion # "invalid"
  /\ request.phase \in {"selection", "compile", "running"} => request.input.libraries # "invalid"

\* While compile() runs no source comes or goes.
GivenInv ==
  \A n \in Names :
    /\ sources[n] # None <=> n \in Accepted(request.input)
    /\ sources[n] # None =>
         sources[n].text = TextOf(request.input, n) /\ ~sources[n].isLibrary

ParsePart ==
  call.phase \in {"parse", "load"} =>
    /\ Accepted(request.input) # {}
    /\ \A n \in Names : call.fetched[n] = None
    /\ Elements(call.imports) \subseteq Accepted(request.input)
    /\ ParseClean(request.input) => ContainsOnlyWarnings(reporter.list)
    /\ SECBITs = 0

OrderPart ==
  call.phase = "order" =>
    /\ ContainsOnlyWarnings(reporter.list) /\ SECBITs = 0 /\ scopes = {}
    /\ \E k \in Nat : \E f : Searches(request.input, k, f) /\ search = f[k]

SECBITDone == {f \in SECBITFound(request.input) : Done(f[1], f[2])}

PassPart ==
  call.phase = "pass" =>
    /\ sourceOrder = OrderOf(request.input)
    /\ \A i, j \in DOMAIN sourceOrder : i # j => sourceOrder[i] # sourceOrder[j]
    /\ \A i, j \in DOMAIN call.work : i # j => call.work[i] # call.work[j]
    /\ call.pass = 13 /\ call.work # <<>> => ~request.input.noSMT
    /\ \A n \in scopes : Done(3, n)
    /\ AnalysisClean(request.input) => ContainsOnlyWarnings(reporter.list) /\ call.noErrors
    /\ \A n \in Analysed, q \in DOMAIN Passes :
         Done(q, n) => ~Stops(request.input, Passes[q], n)
    /\ request.input.secbit => SECBITs = Cardinality(SECBITDone)
    /\ \A n \in Names : contracts[n] # None =>
         /\ Ast(n).contract # "none"
         /\ contracts[n].code = None /\ ~contracts[n].linked

CodegenPart ==
  call.phase = "codegen" =>
    /\ sourceOrder = OrderOf(request.input)
    /\ Accepts(request.input)
    /\ call.compiled \subseteq Needed(request.input)
    /\ \A i \in DOMAIN call.stack : call.stack[i].name \in Needed(request.input)
    /\ \A n \in Names : contracts[n] # None =>
         /\ Ast(n).contract # "none"
         /\ n \notin call.compiled => contracts[n].code = None /\ ~contracts[n].linked

\* How compile() has ended.
EndPart ==
  call.phase = "idle" =>
    IF request.input.secbit
      THEN /\ result \in {"compileRefused", "false", "true"}
           /\ SECBITs = IF ReachesEnd(request.input)
                          THEN Cardinality(SECBITFound(request.input)) ELSE 0
      ELSE /\ stackState >= AnalysisSuccessful <=> Accepts(request.input)
           /\ stackState = CompilationSuccessful <=> Compiles(request.input)
           /\ result = IF stackState = CompilationSuccessful THEN "true"
                       ELSE IF Accepts(request.input) THEN "assertCompiledContract"
                       ELSE IF stackState = Empty THEN "compileRefused" ELSE "false"
           /\ stackState = CompilationSuccessful =>
                \A n \in Names :
                  IF n \in Visited(request.input) /\ TextOf(request.input, n).contract # "none"
                    THEN /\ contracts[n] # None /\ contracts[n].sourceMapping = None
                         /\ contracts[n].code = CodeOf(request.input, n)
                         /\ contracts[n].linked = ObjectOf(request.input, n).linked
                    ELSE contracts[n] = None

CompileInv ==
  request.phase = "running" =>
    /\ GivenInv
    /\ call.phase \in {"order", "pass"} =>
         Accepted(request.input) # {} /\ ParseClean(request.input)
    /\ call.phase \in {"parse", "load", "order", "pass"} => call.noSMT = request.input.noSMT
    /\ ParsePart /\ OrderPart /\ PassPart /\ CodegenPart /\ EndPart

Progress == ReadInv /\ ReadyInv /\ SettledInv /\ CompileInv

Determined(answer) ==
  ~LimitUsedUp /\ SuppliesImports(answer.input) => answer.reply = AnswerTo(answer.input)

AnswerInv ==
  /\ \A i \in DOMAIN answers : Determined(answers[i])
  /\ request # NoRequest /\ ~LimitUsedUp /\ SuppliesImports(request.input) => Progress
-----------------------------------------------------------------------------
(***************************************************************************)
(* The loops of a request have one outcome.                                *)
(***************************************************************************)
\* Two accounts of the errors of the entries agree.
LEMMA CollectsAgree ==
  ASSUME NEW input, NEW k \in Nat, NEW f, NEW g, Collects(input, k, f), Collects(input, k, g)
  PROVE  f[k] = g[k]
<1> DEFINE K == {i \in Nat : i <= k => f[i] = g[i]}
<1>1. 0 \in K
  BY DEF Collects
<1>2. ASSUME NEW i \in Nat, i \in K PROVE i + 1 \in K
  <2> SUFFICES ASSUME i + 1 <= k PROVE f[i + 1] = g[i + 1]
    OBVIOUS
  <2>1. i + 1 \in 1 .. k /\ (i + 1) - 1 = i /\ f[i] = g[i]
    BY <1>2
  <2> DEFINE new == Complaints(input.entries[EntryOrder(input)[i + 1]])
  <2>2. f[i + 1] = f[(i + 1) - 1] \o new /\ g[i + 1] = g[(i + 1) - 1] \o new
    BY <2>1 DEF Collects
  <2> HIDE DEF new
  <2> QED
    BY <2>1, <2>2
<1> HIDE DEF K
<1>3. k \in K
  BY <1>1, <1>2, SetInduction
<1> QED
  BY <1>3 DEF K

\* The errors collected from all entries are those the answer has.
LEMMA ComplaintsCollected ==
  ASSUME NEW input, NEW f, Len(EntryOrder(input)) \in Nat,
         Collects(input, Len(EntryOrder(input)), f)
  PROVE  f[Len(EntryOrder(input))] = ComplaintsOf(input)
<1> DEFINE k == Len(EntryOrder(input))
           P(e) == \E g : Collects(input, k, g) /\ e = g[k]
<1>1. P(f[k])
  OBVIOUS
<1>2. ComplaintsOf(input) = CHOOSE e : P(e)
  BY DEF ComplaintsOf
<1>3. P(CHOOSE e : P(e))
  BY <1>1
<1>4. PICK g : Collects(input, k, g) /\ ComplaintsOf(input) = g[k]
  BY <1>2, <1>3
<1> QED
  BY <1>4, CollectsAgree

\* Two searches of the same imports that have ended agree.
LEMMA SearchesAgree ==
  ASSUME NEW input, NEW k \in Nat, NEW f, Searches(input, k, f), Order!Finished(f[k]),
         NEW j \in Nat, NEW g, Searches(input, j, g), Order!Finished(g[j])
  PROVE  f[k] = g[j]
<1> DEFINE K == {i \in Nat : i <= k /\ i <= j => f[i] = g[i]}
           imp == ImportsIn(input)
<1>1. /\ \A i \in 1 .. k : ~Order!Finished(f[i - 1]) /\ f[i] = SearchStep(imp, f[i - 1])
      /\ \A i \in 1 .. j : ~Order!Finished(g[i - 1]) /\ g[i] = SearchStep(imp, g[i - 1])
  BY DEF Searches
<1>2. 0 \in K
  BY DEF Searches
<1> HIDE DEF imp
<1>3. ASSUME NEW i \in Nat, i \in K PROVE i + 1 \in K
  <2> SUFFICES ASSUME i + 1 <= k, i + 1 <= j PROVE f[i + 1] = g[i + 1]
    OBVIOUS
  <2>1. /\ i + 1 \in 1 .. k /\ i + 1 \in 1 .. j /\ (i + 1) - 1 = i /\ f[i] = g[i]
    BY <1>3
  <2> QED
    BY <1>1, <2>1
<1> HIDE DEF K
<1>4. \A i \in Nat : i \in K
  BY <1>2, <1>3, SetInduction
<1>5. CASE k < j
  <2>1. k + 1 \in 1 .. j /\ (k + 1) - 1 = k
    BY <1>5
  <2> QED
    BY <1>1, <1>4, <1>5, <2>1 DEF K
<1>6. CASE j < k
  <2>1. j + 1 \in 1 .. k /\ (j + 1) - 1 = j
    BY <1>6
  <2> QED
    BY <1>1, <1>4, <1>6, <2>1 DEF K
<1>7. CASE j = k
  BY <1>4, <1>7 DEF K
<1> QED
  BY <1>5, <1>6, <1>7

\* The order a search ends with is the order of the request.
LEMMA OrderFound ==
  ASSUME NEW input, NEW k \in Nat, NEW f, Searches(input, k, f), Order!Finished(f[k])
  PROVE  f[k].order = OrderOf(input)
<1> DEFINE P(o) == \E j \in Nat : \E g : Searches(input, j, g) /\ Order!Finished(g[j])
                                          /\ o = g[j].order
<1>1. P(f[k].order)
  OBVIOUS
<1>2. OrderOf(input) = CHOOSE o : P(o)
  BY DEF OrderOf
<1>3. P(CHOOSE o : P(o))
  BY <1>1
<1>4. PICK j \in Nat : \E g : Searches(input, j, g) /\ Order!Finished(g[j])
                                /\ OrderOf(input) = g[j].order
  BY <1>2, <1>3
<1>5. PICK g : Searches(input, j, g) /\ Order!Finished(g[j]) /\ OrderOf(input) = g[j].order
  BY <1>4
<1> QED
  BY <1>5, SearchesAgree

-----------------------------------------------------------------------------
(***************************************************************************)
(* What a request supplies.                                                *)
(***************************************************************************)
LEMMA EntryOrderFacts ==
  ASSUME NEW input
  PROVE  /\ EntryOrder(input) \in Seq(Names) /\ Elements(EntryOrder(input)) = EntryNames(input)
         /\ EntryNames(input) \subseteq Names
<1>1. EntryNames(input) \in SUBSET Names
  BY DEF EntryNames
<1> QED
  BY <1>1, InNameOrderFacts DEF EntryOrder

\* The accepted sources are among the entries, each with one text; their imports are too.
LEMMA AcceptedFacts ==
  ASSUME NEW input \in Requests
  PROVE  /\ Accepted(input) \subseteq EntryNames(input) /\ Accepted(input) \subseteq Names
         /\ \A n \in Accepted(input) : TextOf(input, n) \in Texts
         /\ SuppliesImports(input) =>
              \A n \in Accepted(input) :
                Elements(TextOf(input, n).imports) \subseteq Accepted(input)
<1>1. Accepted(input) \subseteq EntryNames(input) /\ Accepted(input) \subseteq Names
  BY DEF Accepted, EntryNames
<1>2. ASSUME NEW n \in Accepted(input) PROVE TextOf(input, n) \in Texts
  <2>1. input.entries[n] \in EntryType \cup {None} /\ n \in Names
    BY <1>1, InputFacts
  <2>2. /\ input.entries[n] # None /\ Acceptable(input.entries[n]) # {}
        /\ input.entries[n].content # None \/ input.entries[n].urls # None
    BY DEF Accepted
  <2> QED
    BY <2>1, <2>2, AcceptedTextFacts DEF TextOf
<1>3. SuppliesImports(input) =>
        \A n \in Accepted(input) : Elements(TextOf(input, n).imports) \subseteq Accepted(input)
  BY DEF SuppliesImports, TextOf, Elements
<1> QED
  BY <1>1, <1>2, <1>3

\* What is left of a loop: its first entry, and what is left after it.
LEMMA SuffixFacts ==
  ASSUME NEW S, NEW s \in Seq(S), NEW m \in 1 .. Len(s)
  PROVE  /\ SubSeq(s, m, Len(s)) # <<>> /\ SubSeq(s, m, Len(s)) \in Seq(S)
         /\ Head(SubSeq(s, m, Len(s))) = s[m]
         /\ Tail(SubSeq(s, m, Len(s))) = SubSeq(s, m + 1, Len(s))
<1>1. SubSeq(s, m, Len(s)) \in Seq(S)
  OBVIOUS
<1>2. SubSeq(s, m, Len(s)) # <<>>
  <2> DEFINE rest == SubSeq(s, m, Len(s))
  <2>1. Len(rest) # 0
    OBVIOUS
  <2> HIDE DEF rest
  <2>2. rest # <<>>
    BY <2>1
  <2> QED
    BY <2>2 DEF rest
<1>3. /\ Head(SubSeq(s, m, Len(s))) = s[m]
      /\ Tail(SubSeq(s, m, Len(s))) = SubSeq(s, m + 1, Len(s))
  OBVIOUS
<1> QED
  BY <1>1, <1>2, <1>3

\* What is left of the entries after the first k.
LEMMA RestFacts ==
  ASSUME NEW s \in Seq(Names), NEW k \in 0 .. Len(s)
  PROVE  LET rest == SubSeq(s, k + 1, Len(s)) IN
         /\ rest = <<>> <=> k = Len(s)
         /\ rest # <<>> => /\ k + 1 \in 1 .. Len(s) /\ k + 1 \in 0 .. Len(s)
                           /\ Head(rest) = s[k + 1]
                           /\ Tail(rest) = SubSeq(s, (k + 1) + 1, Len(s))
<1>1. Len(s) \in Nat /\ k \in Nat
  OBVIOUS
<1>2. CASE k = Len(s)
  <2>1. SubSeq(s, Len(s) + 1, Len(s)) = <<>>
    BY <1>1
  <2> QED
    BY <1>2, <2>1
<1>3. CASE k # Len(s)
  <2>1. k + 1 \in 1 .. Len(s) /\ k + 1 \in 0 .. Len(s)
    BY <1>1, <1>3
  <2> DEFINE m == k + 1
  <2>2. m \in 1 .. Len(s)
    BY <2>1
  <2> HIDE DEF m
  <2>3. /\ SubSeq(s, m, Len(s)) # <<>> /\ Head(SubSeq(s, m, Len(s))) = s[m]
        /\ Tail(SubSeq(s, m, Len(s))) = SubSeq(s, m + 1, Len(s))
    BY <2>2, SuffixFacts
  <2> QED
    BY <1>3, <2>1, <2>3 DEF m
<1> QED
  BY <1>2, <1>3

-----------------------------------------------------------------------------
(***************************************************************************)
(* The reporter: no counter goes back, and SECBIT warnings are only added. *)
(***************************************************************************)
LEMMA ReportedSECBITs ==
  ASSUME NEW r, InvOf(r), NEW severity \in Severities
  PROVE  /\ Count(r.list, {"SECBITWarning"}) \in Nat
         /\ Count(Report(r, severity).list, {"SECBITWarning"})
              = Count(r.list, {"SECBITWarning"}) + (IF severity = "secbit" THEN 1 ELSE 0)
         /\ Caught(Report(r, severity)).list = Report(r, severity).list
<1> DEFINE Number(l) == Count(l, {"SECBITWarning"})
<1>1. r \in ReporterType /\ r.list \in Seq(Types)
  BY DEF InvOf, ReporterType
<1>2. CountWarning(r) \in ReporterType /\ CountWarning(r).list = r.list
  BY <1>1, CountWarningFields
<1>3. CountError(r) \in ReporterType /\ CountError(r).list = r.list
  BY <1>1, CountErrorFields
<1>4. /\ Number(r.list) \in Nat
      /\ \A x \in Types : Number(Append(r.list, x))
                            = Number(r.list) + (IF x = "SECBITWarning" THEN 1 ELSE 0)
  BY <1>1, CountAppend, TypesDiffer
<1> HIDE DEF Number
<1>5. /\ "Error" # "SECBITWarning" /\ "Warning" # "SECBITWarning"
      /\ TooManyErrors # "SECBITWarning" /\ TooManyWarnings # "SECBITWarning"
      /\ "Error" \in Types /\ "Warning" \in Types /\ "SECBITWarning" \in Types
      /\ TooManyErrors \in Types /\ TooManyWarnings \in Types
  BY TypesDiffer
<1>6. Number(ReportWarning(r).list) = Number(r.list)
  <2>1. \/ ReportWarning(r) = Store(CountWarning(r), "Warning")
        \/ ReportWarning(r) = Store(CountWarning(r), TooManyWarnings)
        \/ ReportWarning(r) = CountWarning(r)
    BY DEF ReportWarning
  <2>2. \A x \in Types : Store(CountWarning(r), x).list = Append(r.list, x)
    BY <1>2, StoreFields
  <2>3. /\ Store(CountWarning(r), "Warning").list = Append(r.list, "Warning")
        /\ Store(CountWarning(r), TooManyWarnings).list = Append(r.list, TooManyWarnings)
    BY <1>5, <2>2
  <2>4. /\ Number(Append(r.list, "Warning")) = Number(r.list)
        /\ Number(Append(r.list, TooManyWarnings)) = Number(r.list)
    BY <1>4, <1>5
  <2> QED
    BY <1>2, <2>1, <2>3, <2>4
<1>7. Number(ReportSECBITWarning(r).list) = Number(r.list) + 1
  <2>1. ReportSECBITWarning(r).list = Append(r.list, "SECBITWarning")
    BY <1>1, <1>5, StoreFields DEF ReportSECBITWarning
  <2> QED
    BY <1>4, <1>5, <2>1
<1>8. /\ Number(ReportError(r).list) = Number(r.list) /\ ReportError(r) \in ReporterType
  <2>1. \A x \in Types : /\ Store(CountError(r), x).list = Append(r.list, x)
                         /\ Store(CountError(r), x) \in ReporterType
    BY <1>3, StoreFields
  <2>2. CASE r.errors + 1 > c_maxErrorsAllowed
    <3>1. ReportError(r) = Throw(Store(CountError(r), TooManyErrors))
      BY <2>2 DEF ReportError
    <3>2. ReportError(r).list = Append(r.list, TooManyErrors) /\ ReportError(r) \in ReporterType
      BY <1>5, <2>1, <3>1, ThrowFields
    <3> QED
      BY <1>4, <1>5, <3>2
  <2>3. CASE ~(r.errors + 1 > c_maxErrorsAllowed)
    <3>1. ReportError(r) = Store(CountError(r), "Error")
      BY <2>3 DEF ReportError
    <3>2. ReportError(r).list = Append(r.list, "Error") /\ ReportError(r) \in ReporterType
      BY <1>5, <2>1, <3>1
    <3> QED
      BY <1>4, <1>5, <3>2
  <2> QED
    BY <2>2, <2>3
<1>9. Number(ReportFatalError(r).list) = Number(r.list)
  BY <1>8, ThrowFields DEF ReportFatalError
<1>10. Number(Report(r, severity).list)
         = Number(r.list) + (IF severity = "secbit" THEN 1 ELSE 0)
  <2>1. CASE severity = "nothing"
    BY <1>4, <2>1 DEF Report
  <2>2. CASE severity = "warning"
    BY <1>4, <1>6, <2>2 DEF Report
  <2>3. CASE severity = "secbit"
    BY <1>7, <2>3 DEF Report
  <2>4. CASE severity \in {"quiet", "error"}
    BY <1>4, <1>8, <2>4 DEF Report
  <2>5. CASE severity = "fatal"
    BY <1>4, <1>9, <2>5 DEF Report
  <2> QED
    BY <2>1, <2>2, <2>3, <2>4, <2>5 DEF Severities
<1>11. ~r.fatal \/ r.fatal
  OBVIOUS
<1>12. Caught(Report(r, severity)).list = Report(r, severity).list
  <2> DEFINE q == Report(r, severity)
  <2>1. q \in ReporterType
    <3>1. /\ ReportWarning(r) \in ReporterType /\ ReportSECBITWarning(r) \in ReporterType
      BY <1>1, <1>2, <1>5, StoreFields DEF ReportWarning, ReportSECBITWarning
    <3>2. ReportFatalError(r) \in ReporterType
      BY <1>8, ThrowFields DEF ReportFatalError
    <3> QED
      BY <1>1, <1>8, <3>1, <3>2 DEF Report, Severities
  <2> HIDE DEF q
  <2> QED
    BY <2>1 DEF Caught, ReporterType, q
<1> QED
  BY <1>4, <1>10, <1>12 DEF Number

\* What clear() leaves.
LEMMA ClearedFacts ==
  ASSUME ReportInv
  PROVE  /\ Clear(reporter).list = <<>> /\ Clear(reporter).errors = reporter.errors
         /\ \A secbit \in BOOLEAN :
              /\ ClearForParse(reporter, secbit).errors = reporter.errors
              /\ Count(ClearForParse(reporter, secbit).list, {"SECBITWarning"}) = 0
<1> DEFINE c == Clear(reporter)
<1>1. c = [Clear(reporter) EXCEPT !.fatal = FALSE]
  BY DEF ReportInv, InvOf, ReporterType, Clear
<1>2. InvOf(c) /\ c.list = <<>> /\ c.errors = reporter.errors
  BY <1>1, RestartKeepsInv, ClearFields DEF ReportInv, InvOf
<1> HIDE DEF c
<1>3. c \in ReporterType /\ Report(c, "warning") = ReportWarning(c) /\ "warning" \in Severities
  BY <1>2 DEF InvOf, Report, Severities
<1>4. Count(c.list, {"SECBITWarning"}) = 0
  BY <1>2, CountEmpty
<1>5. Count(ReportWarning(c).list, {"SECBITWarning"}) = 0
  BY <1>2, <1>3, <1>4, ReportedSECBITs
<1>6. ReportWarning(c).errors = reporter.errors
  BY <1>2, <1>3, WarningEffect
<1> QED
  BY <1>2, <1>4, <1>5, <1>6 DEF ClearForParse, c

\* The steps of compile() clear no counter.
LEMMA WorkErrorsGrow ==
  ASSUME IInv, Work
  PROVE  /\ reporter.errors \in Nat /\ reporter'.errors \in Nat
         /\ reporter'.errors >= reporter.errors
<1> USE DEF IInv
<1>1. reporter.errors \in Nat
  BY DEF ReportInv, InvOf, ReporterType
<1>2. ASSUME NEW severity \in Severities, reporter' = Caught(Report(reporter, severity))
      PROVE  reporter'.errors \in Nat /\ reporter'.errors >= reporter.errors
  BY <1>2, ReportFacts DEF ReportInv
<1>3. CASE ParseSource
  <2> DEFINE n == Head(call.work)
             severity == sources[n].text.reports["parse"]
  <2>1. reporter' = Caught(Report(reporter, severity)) /\ call.phase = "parse" /\ call.work # <<>>
    BY <1>3 DEF ParseSource
  <2>2. call.work \in Seq(Names) /\ Elements(call.work) \subseteq Present
    BY <2>1, ParsingFacts
  <2>3. n \in Present
    BY <2>1, <2>2, ElementsFacts
  <2>4. sources[n].text \in Texts
    BY <2>3, SourceFacts DEF Present
  <2>5. severity \in Severities
    BY <2>4, TextFacts, SeverityFacts
  <2> QED
    BY <1>1, <1>2, <2>1, <2>5
<1>4. CASE MissImport
  <2>1. reporter' = Caught(Report(reporter, "error")) /\ "error" \in Severities
    BY <1>4 DEF MissImport, Report, Severities
  <2> QED
    BY <1>1, <1>2, <2>1
<1>5. CASE AnalyzeSource
  <2> DEFINE p == Passes[call.pass]
             n == Head(call.work)
             skip == p \in PerContract /\ Ast(n).contract = "none"
             r == IF skip THEN reporter ELSE Report(reporter, Finding(p, n))
  <2>1. call.phase = "pass" /\ call.work # <<>>
    BY <1>5 DEF AnalyzeSource
  <2>2. /\ call.work \in Seq(Names) /\ Elements(call.work) \subseteq Analysed
        /\ p \in PassNames
    BY <2>1, PassPhaseFacts, PassFacts
  <2>3. n \in Analysed
    BY <2>1, <2>2, ElementsFacts
  <2>4. Ast(n) \in Texts
    BY <2>3, AnalysedFacts
  <2>5. Finding(p, n) \in Severities
    BY <2>2, <2>4, FindingFacts
  <2>6. reporter' = reporter \/ reporter' = Caught(reporter)
          \/ reporter' = Caught(Report(reporter, Finding(p, n)))
    BY <1>5 DEF AnalyzeSource
  <2>7. Caught(reporter).errors = reporter.errors
    BY DEF Caught, ReportInv, InvOf, ReporterType
  <2> HIDE DEF p, n
  <2> QED
    BY <1>1, <1>2, <2>5, <2>6, <2>7
<1>6. CASE SkipImport \/ AddFetched \/ EndParse \/ ResolveImports \/ EndResolveImports
  BY <1>1, <1>6 DEF SkipImport, AddFetched, EndParse, ResolveImports, EndResolveImports
<1>7. CASE NextPass \/ EndAnalyze \/ TakeContract \/ GenerateCode \/ EndCompile
  BY <1>1, <1>7 DEF NextPass, EndAnalyze, TakeContract, GenerateCode, EndCompile
<1>8. CASE \E t \in Sessions[session].texts : FetchImport(t)
  BY <1>1, <1>8 DEF FetchImport
<1>9. CASE \E d \in Names : CompileDependency(d)
  BY <1>1, <1>9 DEF CompileDependency
<1> QED
  BY <1>3, <1>4, <1>5, <1>6, <1>7, <1>8, <1>9 DEF Work

\* A limit that is used up stays used up, whatever is requested.
LEMMA StillAllowed ==
  ASSUME StdInv, StdNext, ~LimitUsedUp'
  PROVE  ~LimitUsedUp
<1>1. IInv /\ reporter.errors \in Nat /\ c_maxErrorsAllowed \in Nat
  BY LimitsAssumption DEF StdInv, IInv, ReportInv, InvOf, ReporterType
<1>2. SUFFICES reporter'.errors \in Nat /\ reporter'.errors >= reporter.errors
  BY <1>1 DEF LimitUsedUp
<1>3. ReportInv
  BY <1>1 DEF IInv
<1>4. CASE \E r \in Requests : Receive(r)
  BY <1>1, <1>3, <1>4, ClearedFacts DEF Receive, Reset, ResetRest
<1>5. CASE ReadEntry
  BY <1>1, <1>3, <1>5, ClearedFacts DEF ReadEntry, Refuse, AddSource, ResetRest, stackVars, vars
<1>6. CASE ApplyEVMVersion \/ ApplyOptimizer \/ ApplyLibraries \/ ApplySelection
  BY <1>1, <1>6 DEF ApplyEVMVersion, ApplyOptimizer, ApplyLibraries, ApplySelection, Refuse,
                    SetEVMVersion, SetOptimiserSettings, SetLibraries,
                    SetRequestedContractNames, stackVars, vars
<1>7. CASE RunCompile
  <2>1. request.phase = "compile" /\ Compile(request.input.secbit, request.input.noSMT)
    BY <1>7 DEF RunCompile
  <2>2. request.input \in Requests
    BY <2>1, RequestFacts DEF RequestPhases, StdInv
  <2>3. request.input.secbit \in BOOLEAN
    BY <2>2, InputFacts
  <2>4. reporter' = reporter \/ reporter' = ClearForParse(reporter, request.input.secbit)
    BY <2>1 DEF Compile, StartParse
  <2> QED
    BY <1>1, <1>3, <2>3, <2>4, ClearedFacts
<1>8. CASE CompileStep
  BY <1>1, <1>8, WorkErrorsGrow DEF CompileStep
<1>9. CASE AnswerSECBIT \/ AnswerInconsistent \/ AnswerFull
  BY <1>1, <1>9 DEF AnswerSECBIT, AnswerInconsistent, AnswerFull, stackVars, vars
<1> QED
  BY <1>4, <1>5, <1>6, <1>7, <1>8, <1>9 DEF StdNext, Serve

-----------------------------------------------------------------------------
(***************************************************************************)
(* From the request to the call of compile().                              *)
(***************************************************************************)
\* An answer that is the right one joins the others.
LEMMA RightAnswer ==
  ASSUME StdInv, StdNext, AnswerInv, NEW input, NEW reply, Finish(input, reply),
         ~LimitUsedUp' /\ SuppliesImports(input) => reply = AnswerTo(input)
  PROVE  AnswerInv'
<1> DEFINE a == [input |-> input, reply |-> reply]
<1>1. answers' = Append(answers, a) /\ request' = NoRequest
  BY DEF Finish
<1>2. answers \in Seq(Elements(answers))
  BY DEF StdInv, AnswersInv
<1>3. \A i \in DOMAIN answers' : \/ i \in DOMAIN answers /\ answers'[i] = answers[i]
                                 \/ answers'[i] = a
  BY <1>1, <1>2
<1>4. ~LimitUsedUp' => ~LimitUsedUp
  BY StillAllowed
<1>5. \A i \in DOMAIN answers : ~LimitUsedUp' /\ SuppliesImports(answers[i].input)
                                  => answers[i].reply = AnswerTo(answers[i].input)
  BY <1>4 DEF AnswerInv, Determined
<1>6. ~LimitUsedUp' /\ SuppliesImports(a.input) => a.reply = AnswerTo(a.input)
  OBVIOUS
<1> HIDE DEF a
<1>7. \A i \in DOMAIN answers' : ~LimitUsedUp' /\ SuppliesImports(answers'[i].input)
                                   => answers'[i].reply = AnswerTo(answers'[i].input)
  BY <1>3, <1>5, <1>6
<1>8. \A i \in DOMAIN answers' : Determined(answers[i])'
  BY <1>7 DEF Determined
<1> QED
  BY <1>1, <1>8 DEF AnswerInv

\* A step that answers nothing.
LEMMA NoAnswer ==
  ASSUME StdInv, StdNext, AnswerInv, UNCHANGED answers,
         request' # NoRequest /\ ~LimitUsedUp' /\ SuppliesImports(request'.input) => Progress'
  PROVE  AnswerInv'
<1>1. ~LimitUsedUp' => ~LimitUsedUp
  BY StillAllowed
<1>2. \A i \in DOMAIN answers : Determined(answers[i])'
  BY <1>1 DEF AnswerInv, Determined
<1> QED
  BY <1>2 DEF AnswerInv

\* A refused request is answered with the one error it was refused for.
LEMMA RefusedAnswer ==
  ASSUME NEW input, Refused(input)
  PROVE  AnswerTo(input) = FatalReply("JSONError")
  BY DEF AnswerTo

\* A new request starts with a reset stack: nothing of the last one gets into its answer.
LEMMA ReceiveAnswerInv ==
  ASSUME StdInv, AnswerInv, NEW input \in Requests, Receive(input)
  PROVE  AnswerInv'
<1>1. StdNext
  BY DEF StdNext
<1>2. CASE ~input.wellFormed
  <2>1. Finish(input, FatalReply("JSONError")) /\ Refused(input)
    BY <1>2 DEF Receive, Refused
  <2> QED
    BY <1>1, <2>1, RefusedAnswer, RightAnswer
<1>3. CASE input.wellFormed
  <2> DEFINE r == [phase |-> "sources", input |-> input, errors |-> <<>>,
                   left |-> EntryOrder(input)]
             s == EntryOrder(input)
  <2>1. request' = r /\ UNCHANGED answers /\ Reset(FALSE)
    BY <1>3 DEF Receive, EntryOrder, EntryNames
  <2>2. s \in Seq(Names) /\ Elements(s) = EntryNames(input)
    BY EntryOrderFacts
  <2>3. s = SubSeq(s, 0 + 1, Len(s)) /\ Len(s) \in Nat
    BY <2>2
  <2>4. ReadInv'
    <3>1. Collects(input, 0, [i \in 0 .. 0 |-> <<>>]) /\ [i \in 0 .. 0 |-> <<>>][0] = <<>>
      BY DEF Collects
    <3>2. \E k \in 0 .. Len(s) : \E f :
            Collects(input, k, f) /\ r.errors = f[k] /\ r.left = SubSeq(s, k + 1, Len(s))
      BY <2>3, <3>1
    <3>3. r.input = input /\ r.left = s
      OBVIOUS
    <3> HIDE DEF r
    <3> QED
      BY <1>3, <2>1, <2>2, <3>2, <3>3 DEF ReadInv
  <2>5. /\ sources' = [n \in Names |-> None] /\ stackState' = Empty
        /\ reporter' = Clear(reporter)
    BY <2>1 DEF Reset, ResetRest
  <2>6. reporter'.list = <<>>
    BY <2>5, ClearedFacts DEF StdInv, IInv
  <2>7. Accepted(input) \subseteq Elements(s)
    BY <2>2, AcceptedFacts
  <2>8. r.phase = "sources" /\ r.input = input /\ r.left = s
    OBVIOUS
  <2> HIDE DEF r, s
  <2>9. ReadyInv'
    BY <2>1, <2>5, <2>6, <2>7, <2>8 DEF ReadyInv, Present
  <2>10. SettledInv' /\ CompileInv'
    BY <2>1, <2>8 DEF SettledInv, CompileInv
  <2> QED
    BY <1>1, <2>1, <2>4, <2>9, <2>10, NoAnswer DEF Progress
<1> QED
  BY <1>2, <1>3

\* The program of a request that has been refused for its sources or settings.
LEMMA RefuseAnswerInv ==
  ASSUME StdInv, StdNext, AnswerInv, Refuse,
         ~LimitUsedUp' /\ SuppliesImports(request.input) => Refused(request.input)
  PROVE  AnswerInv'
<1>1. Finish(request.input, FatalReply("JSONError"))
  BY DEF Refuse
<1> QED
  BY <1>1, RefusedAnswer, RightAnswer

\* What one entry adds.
LEMMA ReadEntryProgress ==
  ASSUME StdInv, Progress, request.phase = "sources", request.left # <<>>,
         NEW n, n = Head(request.left), NEW entry, entry = request.input.entries[n],
         ~Unreadable(entry),
         request' = [phase |-> "sources", input |-> request.input,
                     errors |-> request.errors \o Complaints(entry),
                     left |-> Tail(request.left)],
         IF Acceptable(entry) = {} THEN UNCHANGED vars
         ELSE AddSource(n, AcceptedText(entry), FALSE)
  PROVE  Progress'
<1> DEFINE input == request.input
           s == EntryOrder(input)
<1>1. s \in Seq(Names) /\ Elements(s) = EntryNames(input) /\ Len(s) \in Nat
  BY EntryOrderFacts
<1>2. PICK k \in 0 .. Len(s) : \E f :
        /\ Collects(input, k, f) /\ request.errors = f[k]
        /\ request.left = SubSeq(s, k + 1, Len(s))
  BY DEF Progress, ReadInv
<1>3. PICK f : /\ Collects(input, k, f) /\ request.errors = f[k]
               /\ request.left = SubSeq(s, k + 1, Len(s))
  BY <1>2
<1>4. /\ k + 1 \in 1 .. Len(s) /\ k + 1 \in 0 .. Len(s) /\ n = s[k + 1]
      /\ Tail(request.left) = SubSeq(s, (k + 1) + 1, Len(s))
  BY <1>1, <1>3, RestFacts
<1>5. OpenRequest(request) /\ request.left \in Seq(Names) /\ input \in Requests
  BY RequestFacts DEF StdInv, OpenRequest, RequestPhases
<1>6. /\ n \in Elements(request.left) /\ n \in Names
      /\ Elements(request.left) = {n} \cup Elements(Tail(request.left))
  BY <1>5, ElementsFacts
<1>7. request'.phase = "sources" /\ request'.input = input
      /\ request'.errors = request.errors \o Complaints(entry)
      /\ request'.left = Tail(request.left)
  OBVIOUS
<1> HIDE DEF input, s
<1>8. ReadInv'
  <2> DEFINE g == [i \in 0 .. k + 1 |-> IF i <= k THEN f[i] ELSE f[k] \o Complaints(entry)]
  <2>0. k \in Nat
    BY <1>1, <1>2
  <2> DEFINE last == f[k] \o Complaints(entry)
  <2> HIDE DEF last
  <2>10. g = [i \in 0 .. k + 1 |-> IF i <= k THEN f[i] ELSE last]
    BY DEF last
  <2> HIDE DEF g
  <2>11. g[k + 1] = last /\ \A i \in 0 .. k : g[i] = f[i]
    BY <2>0, <2>10
  <2>1. k \in Nat /\ g[k + 1] = f[k] \o Complaints(entry) /\ \A i \in 0 .. k : g[i] = f[i]
    BY <2>0, <2>11 DEF last
  <2>2. Collects(input, k + 1, g)
    <3>1. g[0] = <<>>
      BY <1>3, <2>1 DEF Collects
    <3>2. ASSUME NEW i \in 1 .. k + 1
          PROVE  g[i] = g[i - 1] \o Complaints(input.entries[s[i]])
      <4>1. CASE i = k + 1
        <5>1. i - 1 = k /\ i - 1 \in 0 .. k
          BY <2>1, <4>1
        <5> QED
          BY <1>4, <2>1, <4>1, <5>1 DEF input
      <4>2. CASE i # k + 1
        <5>1. i \in 1 .. k /\ i \in 0 .. k /\ i - 1 \in 0 .. k
          BY <2>1, <4>2
        <5>2. f[i] = f[i - 1] \o Complaints(input.entries[s[i]])
          BY <1>3, <5>1 DEF Collects, s
        <5> QED
          BY <2>1, <5>1, <5>2
      <4> QED
        BY <4>1, <4>2
    <3> QED
      BY <3>1, <3>2 DEF Collects, s
  <2>3. request'.errors = g[k + 1] /\ request'.left = SubSeq(s, (k + 1) + 1, Len(s))
    BY <1>3, <1>4, <1>7, <2>1
  <2>4. /\ input.wellFormed
        /\ \A m \in EntryNames(input) :
             m \in Elements(request.left) \/ ~Unreadable(input.entries[m])
    BY DEF Progress, ReadInv, input
  <2>5. \A m \in EntryNames(input) :
          m \in Elements(request'.left) \/ ~Unreadable(input.entries[m])
    BY <1>6, <1>7, <2>4 DEF input
  <2>6. \E j \in 0 .. Len(s) : \E h :
          /\ Collects(input, j, h) /\ request'.errors = h[j]
          /\ request'.left = SubSeq(s, j + 1, Len(s))
    BY <1>4, <2>2, <2>3
  <2> QED
    BY <1>7, <2>4, <2>5, <2>6 DEF ReadInv, s
<1>9. ReadyInv'
  <2> DEFINE new(m) == [text |-> TextOf(input, m), isLibrary |-> FALSE, ast |-> None]
  <2>1. /\ \A m \in Names : sources[m] # None => m \in Accepted(input) /\ sources[m] = new(m)
        /\ \A m \in Accepted(input) : m \in Elements(request.left) \/ sources[m] # None
        /\ stackState = Empty <=> Present = {}
        /\ reporter.list = <<>>
    BY DEF Progress, ReadyInv, input
  <2>2. n \in EntryNames(input)
    BY <1>5, <1>6 DEF OpenRequest, EntryNames, input
  <2>3. CASE Acceptable(entry) = {}
    <3>1. n \notin Accepted(input)
      BY <2>3 DEF Accepted, input
    <3>2. UNCHANGED <<sources, stackState, reporter>>
      BY <2>3 DEF vars
    <3> QED
      BY <1>6, <1>7, <2>1, <3>1, <3>2, SameSources DEF ReadyInv
  <2>4. CASE Acceptable(entry) # {}
    <3>1. /\ n \in Accepted(input) /\ AcceptedText(entry) = TextOf(input, n)
      BY <1>6, <2>2, <2>4 DEF Accepted, Unreadable, TextOf, EntryNames, input
    <3>2. /\ sources' = [sources EXCEPT ![n] =
                           [text |-> AcceptedText(entry), isLibrary |-> FALSE,
                            ast |-> IF sources[n] = None THEN None ELSE sources[n].ast]]
          /\ stackState' = SourcesSet /\ reporter' = Clear(reporter)
      BY <2>4 DEF AddSource, ResetRest
    <3>3. (IF sources[n] = None THEN None ELSE sources[n].ast) = None
      <4>1. sources[n] # None => sources[n] = new(n)
        BY <1>6, <2>1
      <4>2. new(n).ast = None
        OBVIOUS
      <4> HIDE DEF new
      <4> QED
        BY <4>1, <4>2
    <3>4. sources' = [sources EXCEPT ![n] = new(n)]
      BY <3>1, <3>2, <3>3
    <3>5. new(n) \in SourceType /\ new(n) # None /\ sources \in [Names -> SourceType \cup {None}]
      <4>1. TextOf(input, n) \in Texts
        BY <1>5, <3>1, AcceptedFacts
      <4>2. new(n) \in SourceType
        BY <4>1 DEF SourceType
      <4>3. sources \in [Names -> SourceType \cup {None}]
        BY DEF StdInv, IInv, TypeInv
      <4> QED
        BY <4>2, <4>3, StackAssumption
    <3> HIDE DEF new
    <3>6. sources'[n] = new(n) /\ \A m \in Names : m # n => sources'[m] = sources[m]
      BY <1>6, <3>4, <3>5
    <3>7. \A m \in Names : sources'[m] # None => m \in Accepted(input) /\ sources'[m] = new(m)
      BY <2>1, <3>1, <3>6
    <3>8. \A m \in Accepted(input) : m \in Elements(request'.left) \/ sources'[m] # None
      BY <1>5, <1>6, <1>7, <2>1, <3>5, <3>6, AcceptedFacts DEF input
    <3>9. stackState' # Empty /\ Present' # {}
      <4>1. stackState' # Empty
        BY <3>2 DEF Empty, SourcesSet
      <4>2. n \in Present'
        BY <1>6, <3>5, <3>6 DEF Present
      <4> QED
        BY <4>1, <4>2
    <3>10. reporter'.list = <<>>
      BY <3>2, ClearedFacts DEF StdInv, IInv
    <3> QED
      BY <1>7, <3>7, <3>8, <3>9, <3>10 DEF ReadyInv, new
  <2> QED
    BY <2>3, <2>4
<1>10. SettledInv' /\ CompileInv'
  BY <1>7 DEF SettledInv, CompileInv
<1> QED
  BY <1>8, <1>9, <1>10 DEF Progress

\* One more entry of "sources" read, or the request refused at the first entry that cannot be.
LEMMA ReadEntryAnswerInv ==
  ASSUME StdInv, AnswerInv, ReadEntry
  PROVE  AnswerInv'
<1> DEFINE n == Head(request.left)
           entry == request.input.entries[n]
<1>1. /\ StdNext /\ request.phase = "sources" /\ request.left # <<>>
      /\ ~LimitUsedUp' => ~LimitUsedUp
  BY StillAllowed DEF StdNext, Serve, ReadEntry
<1>2. OpenRequest(request) /\ request # NoRequest
  BY <1>1, RequestFacts DEF StdInv, RequestPhases
<1>3. n \in EntryNames(request.input)
  <2>1. n \in Elements(request.left) /\ Elements(request.left) \subseteq Names
    BY <1>1, <1>2, ElementsFacts DEF OpenRequest
  <2> QED
    BY <1>2, <2>1 DEF OpenRequest, EntryNames
<1>4. CASE Unreadable(entry)
  <2>1. Refuse /\ Refused(request.input)
    BY <1>3, <1>4 DEF ReadEntry, Unreadable, Refused
  <2> QED
    BY <1>1, <2>1, RefuseAnswerInv
<1>5. CASE ~Unreadable(entry)
  <2> DEFINE errs == request.errors \o Complaints(entry)
             rest == Tail(request.left)
             r == [phase |-> "sources", input |-> request.input, errors |-> errs,
                   left |-> rest]
  <2>1. /\ IF Acceptable(entry) = {} THEN UNCHANGED vars
           ELSE AddSource(n, AcceptedText(entry), FALSE)
        /\ request' = [request EXCEPT !.left = Tail(@), !.errors = @ \o Complaints(entry)]
        /\ UNCHANGED answers
    BY <1>5 DEF ReadEntry, Unreadable, stackVars
  <2>2. request = [phase |-> request.phase, input |-> request.input,
                   errors |-> request.errors, left |-> request.left]
    BY <1>2 DEF OpenRequest
  <2>3. request' = r
    <3>1. request' = [request EXCEPT !.left = rest, !.errors = errs]
      BY <2>1
    <3> HIDE DEF rest, errs
    <3> QED
      BY <1>1, <2>2, <3>1, EntryRead
  <2>4. request'.input = request.input
    BY <2>3
  <2>5. ASSUME ~LimitUsedUp', SuppliesImports(request'.input) PROVE Progress'
    <3>1. Progress
      BY <1>1, <1>2, <2>4, <2>5 DEF AnswerInv
    <3> HIDE DEF n, entry
    <3> QED
      BY <1>1, <1>5, <2>1, <2>3, <3>1, ReadEntryProgress DEF n, entry
  <2> QED
    BY <1>1, <2>1, <2>5, NoAnswer
<1> QED
  BY <1>4, <1>5

\* A setting has been handed over.
LEMMA HandOverProgress ==
  ASSUME StdInv, Progress, UNCHANGED <<sources, stackState, reporter>>,
         NEW phase \in RequestPhases \ {"sources", "running"}, Enter(phase),
         request.phase \in RequestPhases \ {"running"}, request.left = <<>>,
         request.input.evmVersion # "invalid",
         phase = "selection" \/ phase = "compile" => request.input.libraries # "invalid"
  PROVE  Progress'
<1>1. OpenRequest(request)
  BY RequestFacts DEF StdInv
<1>2. request = [phase |-> request.phase, input |-> request.input,
                 errors |-> request.errors, left |-> request.left]
  BY <1>1 DEF OpenRequest
<1>3. request' = [phase |-> phase, input |-> request.input, errors |-> request.errors,
                  left |-> request.left]
  BY <1>2 DEF Enter
<1>4. /\ request'.phase = phase /\ request'.input = request.input
      /\ request'.errors = request.errors /\ request'.left = request.left
  BY <1>3
<1>5. ReadInv'
  BY <1>4 DEF Progress, ReadInv
<1>6. ReadyInv'
  BY <1>4, SameSources DEF Progress, ReadyInv
<1>7. SettledInv' /\ CompileInv'
  BY <1>4 DEF SettledInv, CompileInv
<1> QED
  BY <1>5, <1>6, <1>7 DEF Progress

\* Handing the read sources to the stack.
LEMMA HandOverAnswerInv ==
  ASSUME StdInv, StdNext, AnswerInv, UNCHANGED <<sources, stackState, reporter, answers>>,
         NEW phase \in RequestPhases \ {"sources", "running"}, Enter(phase),
         request.phase \in RequestPhases \ {"running"},
         request.phase = "sources" =>
           request.left = <<>> /\ request.input.evmVersion # "invalid",
         phase \in {"selection", "compile"} =>
           request.phase = "selection" \/ request.input.libraries # "invalid"
  PROVE  AnswerInv'
<1>1. request' # NoRequest /\ request'.phase = phase /\ request'.input = request.input
  BY EnterFacts DEF StdInv
<1>2. request # NoRequest
  BY RequestFacts DEF StdInv
<1>3. ASSUME ~LimitUsedUp', SuppliesImports(request'.input) PROVE Progress'
  <2>1. Progress
    BY <1>1, <1>2, <1>3, StillAllowed DEF AnswerInv
  <2>2. /\ request.left = <<>> /\ request.input.evmVersion # "invalid"
        /\ phase = "selection" \/ phase = "compile" => request.input.libraries # "invalid"
    BY <2>1 DEF Progress, SettledInv
  <2> QED
    BY <2>1, <2>2, HandOverProgress
<1> QED
  BY <1>1, <1>3, NoAnswer

\* The settings are applied to the stack, which keeps none of the last request's.
LEMMA SettingsAnswerInv ==
  ASSUME StdInv, AnswerInv,
         ApplyEVMVersion \/ ApplyOptimizer \/ ApplyLibraries \/ ApplySelection
  PROVE  AnswerInv'
<1>1. StdNext
  BY DEF StdNext, Serve
<1>2. /\ {"optimizer", "libraries", "selection", "compile"} \subseteq
             RequestPhases \ {"sources", "running"}
      /\ {"sources", "optimizer", "libraries", "selection"} \subseteq RequestPhases \ {"running"}
  BY DEF RequestPhases
<1>3. CASE ApplyEVMVersion
  <2>1. request.phase = "sources" /\ request.left = <<>>
    BY <1>3 DEF ApplyEVMVersion
  <2>2. CASE request.input.evmVersion = "invalid"
    <3>1. Refuse /\ Refused(request.input)
      BY <1>3, <2>2 DEF ApplyEVMVersion, Refused
    <3> QED
      BY <1>1, <3>1, RefuseAnswerInv
  <2>3. CASE request.input.evmVersion # "invalid"
    <3>1. /\ UNCHANGED <<sources, stackState, reporter, answers>> /\ Enter("optimizer")
      <4>1. CASE request.input.evmVersion = "unset"
        BY <1>3, <4>1 DEF ApplyEVMVersion, stackVars, vars
      <4>2. CASE request.input.evmVersion # "unset"
        <5>1. /\ SetEVMVersion(request.input.evmVersion) /\ Enter("optimizer")
              /\ UNCHANGED answers
          BY <1>3, <2>3, <4>2 DEF ApplyEVMVersion
        <5> QED
          BY <5>1 DEF SetEVMVersion
      <4> QED
        BY <4>1, <4>2
    <3> QED
      BY <1>1, <1>2, <2>1, <2>3, <3>1, HandOverAnswerInv
  <2> QED
    BY <2>2, <2>3
<1>4. CASE ApplyOptimizer
  <2>1. /\ request.phase = "optimizer" /\ Enter("libraries")
        /\ UNCHANGED <<sources, stackState, reporter, answers>>
    BY <1>4 DEF ApplyOptimizer, SetOptimiserSettings
  <2> QED
    BY <1>1, <1>2, <2>1, HandOverAnswerInv
<1>5. CASE ApplyLibraries
  <2>1. request.phase = "libraries"
    BY <1>5 DEF ApplyLibraries
  <2>2. CASE request.input.libraries = "invalid"
    <3>1. Refuse /\ Refused(request.input)
      BY <1>5, <2>2 DEF ApplyLibraries, Refused
    <3> QED
      BY <1>1, <3>1, RefuseAnswerInv
  <2>3. CASE request.input.libraries # "invalid"
    <3>1. UNCHANGED <<sources, stackState, reporter, answers>> /\ Enter("selection")
      BY <1>5, <2>3 DEF ApplyLibraries, SetLibraries
    <3> QED
      BY <1>1, <1>2, <2>1, <2>3, <3>1, HandOverAnswerInv
  <2> QED
    BY <2>2, <2>3
<1>6. CASE ApplySelection
  <2>1. /\ request.phase = "selection" /\ Enter("compile")
        /\ UNCHANGED <<sources, stackState, reporter, answers>>
    BY <1>6 DEF ApplySelection, SetRequestedContractNames
  <2> QED
    BY <1>1, <1>2, <2>1, HandOverAnswerInv
<1> QED
  BY <1>3, <1>4, <1>5, <1>6

\* All the sources of the request are there, parsed or not.
LEMMA GivenFacts ==
  ASSUME GivenInv, request.input \in Requests
  PROVE  /\ Present = Accepted(request.input)
         /\ \A n \in Present : sources[n].text = TextOf(request.input, n)
                               /\ ~sources[n].isLibrary
         /\ RootSet = Accepted(request.input)
<1>1. Accepted(request.input) \subseteq Names
  BY AcceptedFacts
<1> QED
  BY <1>1 DEF GivenInv, Present, RootSet

\* compile() starts: from here on the stack is working for this input.
LEMMA RunCompileAnswerInv ==
  ASSUME StdInv, AnswerInv, RunCompile
  PROVE  AnswerInv'
<1> DEFINE input == request.input
<1>1. /\ StdNext /\ request.phase = "compile" /\ request.phase \in RequestPhases
      /\ Compile(input.secbit, input.noSMT) /\ Enter("running") /\ UNCHANGED answers
      /\ "running" \in RequestPhases
  BY DEF StdNext, Serve, RunCompile, RequestPhases
<1>2. /\ request # NoRequest /\ input \in Requests /\ OpenRequest(request)
      /\ request' # NoRequest /\ request'.phase = "running" /\ request'.input = input
  BY <1>1, RequestFacts, EnterFacts DEF StdInv
<1>3. input.secbit \in BOOLEAN
  BY <1>2, InputFacts
<1>4. stackState \in Empty .. SourcesSet
  BY <1>1 DEF StdInv, QuietInv
<1>5. /\ stackState < AnalysisSuccessful /\ stackState # CompilationSuccessful
      /\ stackState = Empty \/ stackState = SourcesSet
  BY <1>4 DEF Empty, SourcesSet, AnalysisSuccessful, CompilationSuccessful
<1>6. /\ StartParse("compile", input.secbit, input.noSMT)
      /\ UNCHANGED <<stackState, sources>>
  BY <1>1, <1>5 DEF Compile
<1>7. ASSUME ~LimitUsedUp', SuppliesImports(input) PROVE Progress'
  <2>1. Progress
    BY <1>1, <1>2, <1>7, StillAllowed DEF AnswerInv
  <2>2. request.left = <<>> /\ input.evmVersion # "invalid" /\ input.libraries # "invalid"
    BY <1>1, <2>1 DEF Progress, SettledInv
  <2>3. request'.left = request.left /\ request'.errors = request.errors
    BY <1>1, <1>2 DEF Enter, OpenRequest
  <2>4. ReadInv' /\ ReadyInv' /\ SettledInv'
    BY <1>2, <2>1, <2>2, <2>3 DEF Progress, ReadInv, ReadyInv, SettledInv
  <2>5. /\ \A n \in Names : sources[n] # None =>
             /\ n \in Accepted(input)
             /\ sources[n] = [text |-> TextOf(input, n), isLibrary |-> FALSE, ast |-> None]
        /\ \A n \in Accepted(input) : n \in Elements(request.left) \/ sources[n] # None
        /\ stackState = Empty <=> Present = {}
        /\ reporter.list = <<>>
    BY <1>1, <2>1 DEF Progress, ReadyInv
  <2>6. Elements(request.left) = {} /\ Accepted(input) \subseteq Names
    BY <1>2, <2>2, AcceptedFacts DEF Elements
  <2>7. GivenInv /\ Present = Accepted(input)
    <3>1. \A n \in Names : sources[n] # None <=> n \in Accepted(input)
      BY <2>5, <2>6
    <3>2. ASSUME NEW n \in Names, sources[n] # None
          PROVE  sources[n].text = TextOf(input, n) /\ ~sources[n].isLibrary
      <4> DEFINE new == [text |-> TextOf(input, n), isLibrary |-> FALSE, ast |-> None]
      <4>1. sources[n] = new
        BY <2>5, <3>2
      <4>2. new.text = TextOf(input, n) /\ ~new.isLibrary
        OBVIOUS
      <4> HIDE DEF new
      <4> QED
        BY <4>1, <4>2
    <3>3. Present = Accepted(input)
      BY <2>6, <3>1 DEF Present
    <3> QED
      BY <3>1, <3>2, <3>3 DEF GivenInv
  <2>8. GivenInv'
    BY <1>2, <1>6, <2>7 DEF GivenInv
  <2>9. CASE stackState = Empty
    <3>1. call' = Idle /\ result' = "compileRefused" /\ UNCHANGED reporter
      BY <1>6, <2>9 DEF StartParse, Return, Empty, SourcesSet
    <3>2. Accepted(input) = {} /\ ~Accepts(input) /\ ~Compiles(input) /\ ~ReachesEnd(input)
      BY <2>5, <2>7, <2>9 DEF Accepts, Compiles, ReachesEnd
    <3>3. SECBITs' = 0
      BY <2>5, <3>1, CountEmpty DEF SECBITs
    <3>4. EndPart'
      BY <1>2, <1>5, <1>6, <2>9, <3>1, <3>2, <3>3
         DEF EndPart, Empty, AnalysisSuccessful, CompilationSuccessful
    <3>5. CompileInv'
      BY <2>8, <3>1, <3>4
         DEF CompileInv, ParsePart, OrderPart, PassPart, CodegenPart, Idle
    <3> QED
      BY <2>4, <3>5 DEF Progress
  <2>10. CASE stackState = SourcesSet
    <3>1. /\ reporter' = ClearForParse(reporter, input.secbit)
          /\ call' = [phase |-> "parse", goal |-> "compile", secbit |-> input.secbit,
                      noSMT |-> input.noSMT, work |-> InNameOrder(Present),
                      imports |-> <<>>, fetched |-> [n \in Names |-> None]]
      BY <1>6, <2>10 DEF StartParse
    <3>2. Accepted(input) # {}
      BY <2>5, <2>7, <2>10 DEF Empty, SourcesSet
    <3>3. ContainsOnlyWarnings(reporter'.list) /\ SECBITs' = 0
      BY <1>3, <3>1, ClearForParseFacts, ClearedFacts DEF SECBITs, StdInv, IInv
    <3>4. Elements(call'.imports) = {} /\ \A n \in Names : call'.fetched[n] = None
      BY <3>1 DEF Elements
    <3>5. ParsePart'
      BY <1>2, <3>2, <3>3, <3>4 DEF ParsePart
    <3>6. call'.phase = "parse" /\ call'.noSMT = input.noSMT
      BY <3>1
    <3>7. CompileInv'
      BY <1>2, <2>8, <3>5, <3>6
         DEF CompileInv, OrderPart, PassPart, CodegenPart, EndPart
    <3> QED
      BY <2>4, <3>7 DEF Progress
  <2> QED
    BY <1>5, <2>9, <2>10
<1> QED
  BY <1>1, <1>2, <1>7, NoAnswer

-----------------------------------------------------------------------------
(***************************************************************************)
(* A step of compile() for a request that supplies its imports.            *)
(***************************************************************************)
ServingStep ==
  /\ StdInv /\ IInv' /\ CompileInv
  /\ request.phase = "running" /\ UNCHANGED request
  /\ SuppliesImports(request.input)
  /\ ~LimitUsedUp /\ ~LimitUsedUp'

\* What a stack at work for a request is known to have.
LEMMA ServingFacts ==
  ASSUME ServingStep
  PROVE  /\ IInv /\ IInv' /\ RunInv /\ request.input \in Requests /\ GivenInv
         /\ request'.phase = "running" /\ request'.input = request.input
         /\ Present = Accepted(request.input) /\ RootSet = Accepted(request.input)
         /\ \A n \in Present : sources[n].text = TextOf(request.input, n)
         /\ \A n \in Accepted(request.input) :
              Elements(TextOf(request.input, n).imports) \subseteq Accepted(request.input)
         /\ call.phase \in {"order", "pass"} =>
              Accepted(request.input) # {} /\ ParseClean(request.input)
         /\ call.phase \in {"parse", "load", "order", "pass"} =>
              call.noSMT = request.input.noSMT
         /\ ParsePart /\ OrderPart /\ PassPart /\ CodegenPart /\ EndPart
<1>1. StdInv /\ IInv' /\ CompileInv /\ request.phase = "running"
      /\ UNCHANGED request /\ SuppliesImports(request.input)
  BY DEF ServingStep
<1>2. IInv /\ RunInv /\ RequestInv
  BY <1>1 DEF StdInv
<1>3. request.input \in Requests
  BY <1>1, <1>2, RequestFacts DEF RequestPhases
<1>4. /\ GivenInv /\ ParsePart /\ OrderPart /\ PassPart /\ CodegenPart /\ EndPart
      /\ call.phase \in {"order", "pass"} =>
           Accepted(request.input) # {} /\ ParseClean(request.input)
      /\ call.phase \in {"parse", "load", "order", "pass"} =>
           call.noSMT = request.input.noSMT
  BY <1>1 DEF CompileInv
<1> QED
  BY <1>1, <1>2, <1>3, <1>4, GivenFacts, AcceptedFacts

\* A step that leaves the sources alone leaves them those of the request.
LEMMA SameGiven ==
  ASSUME GivenInv, UNCHANGED <<request, sources>>
  PROVE  GivenInv'
  BY DEF GivenInv

\* parse() goes on: a source is parsed or an import looked at.
LEMMA ParseGoesOn ==
  ASSUME ServingStep, GivenInv', call'.phase \in {"parse", "load"},
         call.phase \in {"parse", "load"}, call'.noSMT = call.noSMT,
         call'.fetched = call.fetched \/ (\A n \in Names : call'.fetched[n] = None),
         Elements(call'.imports) \subseteq Accepted(request.input),
         ParseClean(request.input) => ContainsOnlyWarnings(reporter'.list),
         SECBITs' = 0
  PROVE  CompileInv'
<1>1. /\ request'.input = request.input /\ request'.phase = "running" /\ ParsePart
      /\ call.noSMT = request.input.noSMT
  BY ServingFacts
<1>2. ParsePart'
  BY <1>1 DEF ParsePart
<1> QED
  BY <1>1, <1>2 DEF CompileInv, OrderPart, PassPart, CodegenPart, EndPart

\* Parsing one more source keeps the stack on its way to the answer.
LEMMA ParseSourceServes ==
  ASSUME ServingStep, ParseSource
  PROVE  CompileInv'
<1> DEFINE input == request.input
           n == Head(call.work)
           text == sources[n].text
           r == Report(reporter, text.reports["parse"])
           ast == IF r.fatal THEN None ELSE text
<1>1. /\ IInv /\ IInv' /\ request'.input = input /\ ParsePart /\ GivenInv
      /\ Present = Accepted(input) /\ input \in Requests /\ request'.phase = "running"
      /\ \A m \in Present : sources[m].text = TextOf(input, m)
      /\ \A m \in Accepted(input) :
           Elements(TextOf(input, m).imports) \subseteq Accepted(input)
  BY ServingFacts
<1>2. /\ call.phase = "parse" /\ call.work # <<>>
      /\ reporter' = Caught(r)
      /\ sources' = [sources EXCEPT ![n].ast = ast]
      /\ IF r.fatal /\ ContainsOnlyWarnings(r.list)
           THEN Return("assertParserError")
           ELSE call' = [call EXCEPT !.phase = IF r.fatal THEN "parse" ELSE "load",
                                     !.work = Tail(@),
                                     !.imports = IF r.fatal THEN <<>> ELSE text.imports]
  BY DEF ParseSource
<1>3. call \in ParseCall /\ call.work \in Seq(Names) /\ Elements(call.work) \subseteq Present
  BY <1>1, <1>2, ParsingFacts
<1>4. n \in Present /\ n \in Names /\ n \in Accepted(input)
  BY <1>1, <1>2, <1>3, ElementsFacts
<1>5. text \in Texts /\ sources[n] \in SourceType /\ text = TextOf(input, n)
  BY <1>1, <1>4, SourceFacts DEF Present, IInv
<1> DEFINE severity == text.reports["parse"]
<1>6. severity \in {"nothing", "warning", "error", "fatal"} /\ severity \in Severities
  BY <1>5, TextFacts, SeverityFacts
<1>7. /\ reporter'.list = r.list
      /\ severity \notin ErrorSeverities =>
           ~r.fatal /\ (ContainsOnlyWarnings(reporter.list) => ContainsOnlyWarnings(r.list))
  BY <1>1, <1>2, <1>6, ReportFacts DEF IInv, ReportInv
<1>8. SECBITs' = 0
  <2>1. Count(r.list, {"SECBITWarning"}) = SECBITs + 0
    BY <1>1, <1>6, ReportedSECBITs DEF SECBITs, IInv, ReportInv
  <2>2. SECBITs = 0
    BY <1>1, <1>2 DEF ParsePart
  <2> QED
    BY <1>7, <2>1, <2>2 DEF SECBITs
<1>9. ParseClean(input) => ContainsOnlyWarnings(reporter'.list)
  BY <1>1, <1>2, <1>4, <1>5, <1>7 DEF ParsePart, ParseClean
<1>10. GivenInv'
  <2> DEFINE s == [sources[n] EXCEPT !.ast = ast]
  <2>1. s.text = sources[n].text /\ s.isLibrary = sources[n].isLibrary /\ s # None
    <3>1. ast \in Texts \cup {None}
      BY <1>5
    <3> HIDE DEF ast
    <3>2. s \in SourceType /\ s.text = sources[n].text /\ s.isLibrary = sources[n].isLibrary
      BY <1>5, <3>1 DEF SourceType
    <3> QED
      BY <3>2, StackAssumption
  <2>2. sources' = [sources EXCEPT ![n] = s] /\ sources \in [Names -> SourceType \cup {None}]
    BY <1>1, <1>2 DEF IInv, TypeInv
  <2> HIDE DEF s, n
  <2>3. sources'[n] = s /\ \A m \in Names : m # n => sources'[m] = sources[m]
    BY <1>4, <2>2
  <2> QED
    BY <1>1, <1>4, <2>1, <2>3 DEF GivenInv, Present
<1>11. ~(r.fatal /\ ContainsOnlyWarnings(r.list))
  <2>1. SUFFICES ASSUME result' = "assertParserError" PROVE FALSE
    BY <1>2 DEF Return
  <2> QED
    BY <1>1, <2>1 DEF IInv, FailuresAreExplained, ServingStep
<1>12. /\ call'.phase \in {"parse", "load"} /\ call'.noSMT = call.noSMT
       /\ call'.fetched = call.fetched
       /\ call'.imports = <<>> \/ call'.imports = text.imports
  BY <1>2, <1>3, <1>11 DEF ParseCall
<1>13. Elements(call'.imports) \subseteq Accepted(input)
  BY <1>1, <1>4, <1>5, <1>12 DEF Elements
<1> HIDE DEF r, text
<1> QED
  BY <1>2, <1>8, <1>9, <1>10, <1>12, <1>13, ParseGoesOn

\* No import has to be fetched.
LEMMA LoadingServes ==
  ASSUME ServingStep,
         \/ SkipImport \/ (\E t \in Sessions[session].texts : FetchImport(t)) \/ MissImport
         \/ AddFetched
  PROVE  CompileInv'
<1> DEFINE input == request.input
<1>1. /\ IInv /\ ParsePart /\ GivenInv /\ Present = Accepted(input) /\ UNCHANGED request
  BY ServingFacts DEF ServingStep
<1>2. call.phase = "load"
  BY DEF SkipImport, FetchImport, MissImport, AddFetched, Loading
<1>3. call \in ParseCall /\ call.imports \in Seq(Names)
  BY <1>1, <1>2, ParsingFacts
<1>4. /\ \A n \in Names : call.fetched[n] = None
      /\ Elements(call.imports) \subseteq Accepted(input)
      /\ ParseClean(input) => ContainsOnlyWarnings(reporter.list)
      /\ SECBITs = 0
  BY <1>1, <1>2 DEF ParsePart
<1>5. CASE SkipImport
  <2>1. /\ call.imports # <<>> /\ call' = [call EXCEPT !.imports = Tail(@)]
        /\ UNCHANGED <<reporter, sources>>
    BY <1>5 DEF SkipImport, Loading
  <2>2. Elements(Tail(call.imports)) \subseteq Accepted(input)
    BY <1>3, <1>4, <2>1, ElementsFacts
  <2>3. /\ call'.imports = Tail(call.imports) /\ call'.phase = "load"
        /\ call'.noSMT = call.noSMT /\ call'.fetched = call.fetched
    BY <1>2, <1>3, <2>1 DEF ParseCall
  <2>4. SECBITs' = 0
    BY <1>4, <2>1 DEF SECBITs
  <2> QED
    BY <1>1, <1>2, <1>4, <2>1, <2>2, <2>3, <2>4, SameGiven, ParseGoesOn
<1>6. CASE (\E t \in Sessions[session].texts : FetchImport(t)) \/ MissImport
  <2>1. call.imports # <<>> /\ sources[Head(call.imports)] = None
    BY <1>6 DEF FetchImport, MissImport, Loading
  <2>2. Head(call.imports) \in Present
    BY <1>1, <1>3, <1>4, <2>1, ElementsFacts
  <2> QED
    BY <2>1, <2>2 DEF Present
<1>7. CASE AddFetched
  <2> DEFINE new == InNameOrder({n \in Names : call.fetched[n] # None})
  <2>1. /\ call.imports = <<>>
        /\ sources' = [n \in Names |->
                         IF call.fetched[n] = None THEN sources[n]
                         ELSE [text |-> call.fetched[n], isLibrary |-> FALSE, ast |-> None]]
        /\ call' = [call EXCEPT !.phase = "parse", !.work = @ \o new,
                                !.fetched = [n \in Names |-> None]]
        /\ UNCHANGED reporter
    BY <1>7 DEF AddFetched
  <2> HIDE DEF new
  <2>2. sources' = [n \in Names |-> sources[n]]
    BY <1>4, <2>1
  <2>3. UNCHANGED sources
    BY <1>1, <2>2 DEF IInv, TypeInv
  <2>4. /\ call'.imports = call.imports /\ call'.phase = "parse"
        /\ call'.noSMT = call.noSMT /\ call'.fetched = [n \in Names |-> None]
    BY <1>3, <2>1 DEF ParseCall
  <2>5. SECBITs' = 0 /\ \A n \in Names : call'.fetched[n] = None
    BY <1>4, <2>1, <2>4 DEF SECBITs
  <2> QED
    BY <1>1, <1>2, <1>4, <2>1, <2>3, <2>4, <2>5, SameGiven, ParseGoesOn
<1> QED
  BY <1>5, <1>6, <1>7

\* compile() has ended without success.
LEMMA EndsFalse ==
  ASSUME ServingStep, GivenInv', call' = Idle, result' = "false", UNCHANGED stackState,
         stackState = SourcesSet \/ stackState = ParsingSuccessful,
         ~Accepts(request.input),
         request.input.secbit =>
           SECBITs' = IF ReachesEnd(request.input)
                        THEN Cardinality(SECBITFound(request.input)) ELSE 0
  PROVE  CompileInv'
<1>1. request'.input = request.input /\ request'.phase = "running" /\ call'.phase = "idle"
  BY ServingFacts DEF Idle
<1>2. ~Compiles(request.input)
  BY DEF Compiles
<1>3. EndPart'
  BY <1>1, <1>2 DEF EndPart, SourcesSet, ParsingSuccessful, AnalysisSuccessful,
                    CompilationSuccessful, Empty
<1> QED
  BY <1>1, <1>3 DEF CompileInv, ParsePart, OrderPart, PassPart, CodegenPart

\* The end of the parsing: on to the imports, or the end of compile().
LEMMA EndParseServes ==
  ASSUME ServingStep, EndParse
  PROVE  CompileInv'
<1> DEFINE input == request.input
<1>1. /\ IInv /\ IInv' /\ RunInv /\ ParsePart /\ GivenInv /\ UNCHANGED request
      /\ input \in Requests /\ request.phase = "running"
      /\ Present = Accepted(input) /\ RootSet = Accepted(input)
      /\ \A m \in Present : sources[m].text = TextOf(input, m)
      /\ call.phase \in {"parse", "load"} => call.noSMT = input.noSMT
  BY ServingFacts DEF ServingStep
<1>2. call.phase = "parse" /\ call.work = <<>> /\ UNCHANGED <<reporter, sources, scopes>>
  BY DEF EndParse
<1>3. /\ Accepted(input) # {} /\ SECBITs = 0
      /\ ParseClean(input) => ContainsOnlyWarnings(reporter.list)
  BY <1>1, <1>2 DEF ParsePart
<1>4. call.goal = "compile" /\ scopes = {} /\ stackState = SourcesSet
  BY <1>1, <1>2, ParsingFacts DEF RunInv
<1>5. GivenInv' /\ SECBITs' = 0
  BY <1>1, <1>2, <1>3, SameGiven DEF SECBITs
<1>6. CASE ~ContainsOnlyWarnings(reporter.list)
  <2>1. call' = Idle /\ result' = "false" /\ UNCHANGED stackState
    BY <1>6 DEF EndParse, Return
  <2>2. ~Accepts(input) /\ ~ReachesEnd(input)
    BY <1>3, <1>6 DEF Accepts, ReachesEnd
  <2> QED
    BY <1>4, <1>5, <2>1, <2>2, EndsFalse
<1>7. CASE ContainsOnlyWarnings(reporter.list)
  <2>1. stackState' = ParsingSuccessful /\ StartAnalyze(call.goal, call.secbit, call.noSMT)
    BY <1>4, <1>7 DEF EndParse
  <2>2. /\ call' = [phase |-> "order", goal |-> call.goal, secbit |-> call.secbit,
                    noSMT |-> call.noSMT]
        /\ search' = Order!StartSearch(Roots)
    BY <2>1 DEF StartAnalyze
  <2>3. call'.phase = "order" /\ call'.noSMT = input.noSMT
    BY <1>1, <1>2, <2>2
  <2>4. ParseClean(input)
    <3>1. \A n \in Present' : Parsed(n)'
      BY <1>1, <2>1 DEF IInv, CompleteInv, ParsingSuccessful
    <3>2. \A n \in Present : Parsed(n)
      BY <1>2, <3>1, SameSources
    <3> QED
      BY <1>1, <3>2 DEF Parsed, ParseClean
  <2>5. Roots = InNameOrder(Accepted(input))
    BY <1>1 DEF Roots, RootSet
  <2>6. \E k \in Nat : \E f : Searches(input, k, f) /\ search' = f[k]
    <3> DEFINE g == [i \in 0 .. 0 |-> Order!StartSearch(InNameOrder(Accepted(input)))]
    <3>1. Searches(input, 0, g) /\ search' = g[0]
      BY <2>2, <2>5 DEF Searches
    <3> QED
      BY <3>1
  <2>7. OrderPart'
    BY <1>1, <1>2, <1>4, <1>5, <1>7, <2>6 DEF OrderPart
  <2> QED
    BY <1>1, <1>3, <1>5, <2>3, <2>4, <2>7
       DEF CompileInv, ParsePart, PassPart, CodegenPart, EndPart
<1> QED
  BY <1>6, <1>7

-----------------------------------------------------------------------------
(***************************************************************************)
(* resolveImports takes the sources in the order of the request.           *)
(***************************************************************************)
\* Once parsed, the sources have the ASTs of the texts of the request.
LEMMA ParsedTexts ==
  ASSUME ServingStep, stackState >= ParsingSuccessful
  PROVE  /\ \A n \in Accepted(request.input) :
              HasAst(n) /\ Ast(n) = TextOf(request.input, n) /\ Ast(n) \in Texts
         /\ AstImports = ImportsIn(request.input)
         /\ Roots = InNameOrder(Accepted(request.input))
         /\ Analysed \subseteq Accepted(request.input)
<1> DEFINE input == request.input
<1>1. /\ IInv /\ Present = Accepted(input) /\ RootSet = Accepted(input)
      /\ \A n \in Present : sources[n].text = TextOf(input, n)
  BY ServingFacts
<1>2. \A n \in Present : Ast(n) = sources[n].text /\ sources[n] # None /\ n \in Names
  BY <1>1 DEF IInv, CompleteInv, Parsed, Present
<1>3. ASSUME NEW n \in Accepted(input)
      PROVE  HasAst(n) /\ Ast(n) = TextOf(input, n) /\ Ast(n) \in Texts
  <2>1. Ast(n) = sources[n].text /\ sources[n] # None /\ n \in Names
        /\ sources[n].text = TextOf(input, n)
    BY <1>1, <1>2, <1>3
  <2>2. Ast(n) \in Texts /\ Ast(n) # None
    BY <1>1, <2>1, SourceFacts, TextFacts DEF IInv
  <2> QED
    BY <2>1, <2>2 DEF HasAst, Ast
<1>4. \A n \in Names : HasAst(n) <=> n \in Accepted(input)
  BY <1>1, <1>3 DEF Present, HasAst
<1>5. AstImports = ImportsIn(input)
  <2>1. \A n \in Names : (IF HasAst(n) THEN Ast(n).imports ELSE <<>>)
                           = (IF n \in Accepted(input) THEN TextOf(input, n).imports ELSE <<>>)
    BY <1>3, <1>4
  <2> QED
    BY <2>1 DEF AstImports, ImportsIn
<1>6. Roots = InNameOrder(Accepted(input))
  BY <1>1 DEF Roots, RootSet
<1>7. Analysed \subseteq Accepted(input)
  <2>1. \A n \in Analysed : n \in Names /\ HasAst(n)
    BY <1>1, AnalysedFacts DEF IInv
  <2> QED
    BY <1>4, <2>1
<1> QED
  BY <1>3, <1>5, <1>6, <1>7

\* Ordering one more source keeps the stack on its way to the answer.
LEMMA ResolveImportsServes ==
  ASSUME ServingStep, ResolveImports
  PROVE  CompileInv'
<1> DEFINE input == request.input
<1>1. /\ IInv /\ GivenInv /\ OrderPart /\ UNCHANGED request /\ request.phase = "running"
      /\ call.phase \in {"order", "pass"} => Accepted(input) # {} /\ ParseClean(input)
      /\ call.phase \in {"order"} => call.noSMT = input.noSMT
  BY ServingFacts DEF ServingStep
<1>2. /\ call.phase = "order" /\ ~Order!Finished(search)
      /\ UNCHANGED <<reporter, sources, scopes, call>>
      /\ \/ search.path = <<>> /\ search' = Order!NextRoot(search)
         \/ /\ search.path # <<>>
            /\ search' = LET t == Order!Top(search) IN
                         IF t.next <= Len(AstImports[t.source])
                           THEN Order!Follow(search, AstImports) ELSE Order!Leave(search)
  BY DEF ResolveImports
<1>3. PICK k \in Nat : \E f : Searches(input, k, f) /\ search = f[k]
  BY <1>1, <1>2 DEF OrderPart
<1>4. PICK f : Searches(input, k, f) /\ search = f[k]
  BY <1>3
<1>5. AstImports = ImportsIn(input)
  <2>1. stackState = ParsingSuccessful /\ ParsingSuccessful >= ParsingSuccessful
    BY <1>1, <1>2 DEF IInv, PhaseInv, ParsingSuccessful
  <2> QED
    BY <2>1, ParsedTexts
<1>6. search' = SearchStep(ImportsIn(input), search)
  BY <1>2, <1>5 DEF SearchStep
<1> DEFINE imp == ImportsIn(input)
           start == Order!StartSearch(InNameOrder(Accepted(input)))
           next == SearchStep(imp, search)
<1> HIDE DEF next
<1> DEFINE g == [i \in 0 .. k + 1 |-> IF i <= k THEN f[i] ELSE next]
<1>7. /\ g[k + 1] = next /\ \A i \in 0 .. k : g[i] = f[i]
  OBVIOUS
<1>8. f[0] = start /\ \A i \in 1 .. k : ~Order!Finished(f[i - 1]) /\ f[i] = SearchStep(imp, f[i - 1])
  BY <1>4 DEF Searches
<1> HIDE DEF g, imp, start
<1>9. g[0] = start
  BY <1>7, <1>8
<1>10. ASSUME NEW i \in 1 .. k + 1
       PROVE  ~Order!Finished(g[i - 1]) /\ g[i] = SearchStep(imp, g[i - 1])
  <2>1. CASE i = k + 1
    <3>1. i - 1 = k /\ g[i - 1] = search
      BY <1>4, <1>7, <2>1
    <3> QED
      BY <1>2, <1>7, <2>1, <3>1 DEF next
  <2>2. CASE i # k + 1
    <3>1. i \in 1 .. k /\ i - 1 \in 0 .. k /\ i \in 0 .. k
      BY <2>2
    <3> QED
      BY <1>7, <1>8, <3>1
  <2> QED
    BY <2>1, <2>2
<1>11. Searches(input, k + 1, g) /\ search' = g[k + 1] /\ k + 1 \in Nat
  BY <1>6, <1>7, <1>9, <1>10 DEF Searches, imp, start, next
<1>12. \E j \in Nat : \E h : Searches(input, j, h) /\ search' = h[j]
  BY <1>11
<1>13. ContainsOnlyWarnings(reporter.list) /\ SECBITs = 0 /\ scopes = {} /\ SECBITs' = SECBITs
  BY <1>1, <1>2 DEF OrderPart, SECBITs
<1>14. OrderPart'
  BY <1>1, <1>2, <1>12, <1>13 DEF OrderPart
<1> QED
  BY <1>1, <1>2, <1>14, SameGiven
     DEF CompileInv, ParsePart, PassPart, CodegenPart, EndPart

\* The end of the ordering: on to the first pass over the sources.
LEMMA EndResolveImportsServes ==
  ASSUME ServingStep, EndResolveImports
  PROVE  CompileInv'
<1> DEFINE input == request.input
           order == search.order
<1>1. /\ IInv /\ IInv' /\ RunInv /\ GivenInv /\ OrderPart /\ UNCHANGED request
      /\ request.phase = "running"
      /\ call.phase \in {"order", "pass"} => Accepted(input) # {} /\ ParseClean(input)
      /\ call.phase \in {"order"} => call.noSMT = input.noSMT
  BY ServingFacts DEF ServingStep
<1>2. /\ call.phase = "order" /\ Order!Finished(search) /\ sourceOrder' = order
      /\ call' = [phase |-> "pass", goal |-> call.goal, secbit |-> call.secbit,
                  noSMT |-> call.noSMT, pass |-> 1, work |-> order, noErrors |-> TRUE]
      /\ UNCHANGED <<reporter, sources, scopes, contracts>>
  BY DEF EndResolveImports
<1>3. PICK k \in Nat : \E f : Searches(input, k, f) /\ search = f[k]
  BY <1>1, <1>2 DEF OrderPart
<1>4. PICK f : Searches(input, k, f) /\ search = f[k]
  BY <1>3
<1>5. order = OrderOf(input)
  BY <1>2, <1>4, OrderFound
<1>6. \A i, j \in DOMAIN order : i # j => order[i] # order[j]
  BY <1>1, <1>2 DEF IInv, OrderInv, OrderProofs!IInv, OrderProofs!NoDuplicates
<1>7. ContainsOnlyWarnings(reporter.list) /\ SECBITs = 0 /\ scopes = {}
      /\ \A n \in Names : contracts[n] = None
  BY <1>1, <1>2 DEF OrderPart, RunInv, Fresh, NoContracts
<1> HIDE DEF order
<1>8. /\ call'.phase = "pass" /\ call'.pass = 1 /\ call'.work = order /\ call'.noErrors = TRUE
      /\ call'.noSMT = call.noSMT
  BY <1>2
<1>9. Analysed' = Elements(order) /\ Visited(input) = Elements(order)
  BY <1>2, <1>5 DEF Analysed, Visited, Elements
<1>10. \A q \in 1 .. 13, n \in Elements(order) : ~Done(q, n)'
  BY <1>8 DEF Done
<1>11. SECBITDone' = {}
  BY <1>1, <1>9, <1>10, PassFacts DEF SECBITDone, SECBITFound
<1>12. SECBITs' = Cardinality(SECBITDone')
  BY <1>2, <1>7, <1>11, FS_EmptySet DEF SECBITs
<1>13. PassPart'
  BY <1>1, <1>2, <1>5, <1>6, <1>7, <1>8, <1>9, <1>10, <1>12, PassFacts DEF PassPart
<1> QED
  BY <1>1, <1>2, <1>8, <1>13, SameGiven
     DEF CompileInv, ParsePart, OrderPart, CodegenPart, EndPart

-----------------------------------------------------------------------------
(***************************************************************************)
(* The passes find in the sources what the texts of the request have.      *)
(***************************************************************************)
LEMMA FoundFacts ==
  ASSUME ServingStep, stackState >= ParsingSuccessful, sourceOrder = OrderOf(request.input)
  PROVE  /\ Visited(request.input) = Analysed /\ Analysed \subseteq Names
         /\ Analysed \subseteq Accepted(request.input)
         /\ \A n \in Analysed : Ast(n) = TextOf(request.input, n) /\ Ast(n) \in Texts
         /\ \A n \in Analysed : \A c \in Ast(n).creates :
              c \in Analysed /\ Ast(c) = TextOf(request.input, c)
         /\ \A p, n : n \in Analysed =>
              /\ Finding(p, n) = Found(request.input, p, n)
              /\ Skipped(p, n) <=> PassedOver(request.input, p, n)
<1> DEFINE input == request.input
<1>1. /\ Analysed \subseteq Accepted(input) /\ Accepted(input) \subseteq Names
      /\ \A n \in Accepted(input) : Ast(n) = TextOf(input, n) /\ Ast(n) \in Texts
  BY ParsedTexts, ServingFacts, AcceptedFacts
<1>2. Visited(input) = Analysed
  BY DEF Visited, Analysed
<1>3. \A n \in Analysed : Ast(n) = TextOf(input, n) /\ Ast(n) \in Texts /\ n \in Names
  BY <1>1
<1>4. ASSUME NEW n \in Analysed, NEW c \in Ast(n).creates
      PROVE  c \in Analysed /\ Ast(c) = TextOf(input, c)
  <2>1. c \in Elements(Ast(n).imports)
    BY <1>3, TextFacts
  <2>2. Elements(Ast(n).imports) \subseteq Analysed
    BY ServingFacts DEF IInv, AnalysedInv
  <2> QED
    BY <1>3, <2>1, <2>2
<1>5. \A n : CheckedUpTo(n) = CheckedBy(input, n) /\ CheckedUpTo(n) \subseteq Analysed
  BY DEF CheckedUpTo, CheckedBy, Analysed
<1>6. ASSUME NEW n \in Analysed
      PROVE  /\ CreatesNoContract(n) <=> MakesNoContract(input, n)
             /\ CreationIsWrong(n) <=> MakesWrong(input, n)
  <2>1. CreatesNoContract(n) <=> MakesNoContract(input, n)
    BY <1>3, <1>4 DEF CreatesNoContract, MakesNoContract
  <2>2. \A C \in SUBSET CheckedUpTo(n) : \A c \in C : Ast(c) = TextOf(input, c)
    BY <1>3, <1>5
  <2>3. CreationIsCyclic(n) <=> MakesCycle(input, n)
    BY <1>5, <2>2 DEF CreationIsCyclic, MakesCycle
  <2>4. (\E c \in Ast(n).creates : Ast(c).contract = "abstract" /\ c \in CheckedUpTo(n))
          <=> (\E c \in TextOf(input, n).creates :
                 TextOf(input, c).contract = "abstract" /\ c \in CheckedBy(input, n))
    BY <1>3, <1>4, <1>5
  <2> QED
    BY <2>1, <2>3, <2>4 DEF CreationIsWrong, MakesWrong
<1>7. \A p, n : n \in Analysed => Finding(p, n) = Found(input, p, n)
  BY <1>3, <1>6 DEF Finding, Found
<1>8. \A p, n : n \in Analysed => (Skipped(p, n) <=> PassedOver(input, p, n))
  BY <1>3 DEF Skipped, PassedOver
<1> QED
  BY <1>1, <1>2, <1>3, <1>4, <1>7, <1>8

\* The first entry of a list without repetitions does not come again.
LEMMA HeadOnce ==
  ASSUME NEW S, NEW s \in Seq(S), s # <<>>,
         \A i, j \in DOMAIN s : i # j => s[i] # s[j]
  PROVE  /\ Elements(Tail(s)) = Elements(s) \ {Head(s)}
         /\ \A i, j \in DOMAIN Tail(s) : i # j => Tail(s)[i] # Tail(s)[j]
<1>1. /\ Head(s) = s[1] /\ 1 \in DOMAIN s /\ Tail(s) \in Seq(S)
      /\ \A i \in DOMAIN Tail(s) : /\ i + 1 \in DOMAIN s /\ i + 1 # 1 /\ i \in Nat
                                   /\ Tail(s)[i] = s[i + 1]
  OBVIOUS
<1>2. Elements(s) = {Head(s)} \cup Elements(Tail(s))
  BY ElementsFacts
<1>3. Head(s) \notin Elements(Tail(s))
  BY <1>1 DEF Elements
<1>4. \A i, j \in DOMAIN Tail(s) : i # j => i + 1 # j + 1
  BY <1>1
<1> QED
  BY <1>1, <1>2, <1>3, <1>4

\* SECBIT finds finitely many warnings, each in one of its passes over one source.
LEMMA SECBITFoundFacts ==
  ASSUME ServingStep, stackState >= ParsingSuccessful, sourceOrder = OrderOf(request.input)
  PROVE  /\ IsFiniteSet(SECBITFound(request.input))
         /\ \A f \in SECBITFound(request.input) :
              /\ f = <<f[1], f[2]>> /\ f[1] \in {12, 13} /\ f[2] \in Analysed
              /\ f[1] = 13 => ~request.input.noSMT
<1> DEFINE input == request.input
<1>1. Visited(input) = Analysed /\ Analysed = Elements(sourceOrder) /\ sourceOrder \in Seq(Names)
  BY FoundFacts, ServingFacts DEF Analysed, Elements, IInv, TypeInv
<1>2. IsFiniteSet(Analysed)
  <2>1. /\ DOMAIN sourceOrder = 1 .. Len(sourceOrder) /\ Len(sourceOrder) \in Nat
    BY <1>1
  <2>2. IsFiniteSet(1 .. Len(sourceOrder))
    BY <2>1, FS_Interval
  <2> DEFINE e == [i \in DOMAIN sourceOrder |-> sourceOrder[i]]
  <2>3. e \in Surjection(DOMAIN sourceOrder, Analysed)
    BY DEF Surjection, Analysed
  <2> QED
    BY <2>1, <2>2, <2>3, FS_Surjection
<1>3. IsFiniteSet(DOMAIN Passes)
  <2>1. IsFiniteSet(1 .. 13)
    <3>1. 1 \in Int /\ 13 \in Int
      OBVIOUS
    <3> QED
      BY ONLY <3>1, FS_Interval
  <2> QED
    BY <2>1, PassFacts
<1>4. IsFiniteSet((DOMAIN Passes) \X Visited(input))
  BY <1>1, <1>2, <1>3, FS_Product
<1>5. SECBITFound(input) \subseteq (DOMAIN Passes) \X Visited(input)
  BY DEF SECBITFound
<1>6. IsFiniteSet(SECBITFound(input))
  BY <1>4, <1>5, FS_Subset
<1>7. ASSUME NEW f \in SECBITFound(input)
      PROVE  /\ f = <<f[1], f[2]>> /\ f[1] \in {12, 13} /\ f[2] \in Analysed
             /\ f[1] = 13 => ~input.noSMT
  <2>1. /\ f \in (DOMAIN Passes) \X Visited(input)
        /\ Passes[f[1]] = "secbit" \/ (Passes[f[1]] = "smt" /\ ~input.noSMT)
    BY DEF SECBITFound
  <2>2. f = <<f[1], f[2]>> /\ f[1] \in 1 .. 13 /\ f[2] \in Analysed
    BY <1>1, <2>1, PassFacts
  <2>3. \A q \in 1 .. 11 : Passes[q] \notin {"secbit", "smt"}
    <3>1. \A q \in 1 .. 11 : \/ q = 1 \/ q = 2 \/ q = 3 \/ q = 4 \/ q = 5 \/ q = 6
                             \/ q = 7 \/ q = 8 \/ q = 9 \/ q = 10 \/ q = 11
      OBVIOUS
    <3> QED
      BY <3>1, PassFacts
  <2>4. f[1] \in {12, 13}
    BY <2>1, <2>2, <2>3
  <2>5. f[1] = 13 => ~input.noSMT
    BY <2>1, PassFacts
  <2> QED
    BY <2>2, <2>4, <2>5
<1> QED
  BY <1>6, <1>7

\* Only some passes can end analyze(), and only two have SECBIT warnings.
LEMMA FoundSeverities ==
  ASSUME ServingStep, stackState >= ParsingSuccessful, sourceOrder = OrderOf(request.input),
         NEW n \in Analysed, NEW p \in PassNames
  PROVE  /\ Finding(p, n) \in Severities
         /\ Finding(p, n) = "secbit" => p \in {"secbit", "smt"}
         /\ p \in {"postTypeCheck", "cfg", "flow", "static", "viewPure", "secbit", "smt"} =>
              ~Stops(request.input, p, n)
<1>1. Ast(n) \in Texts
  BY FoundFacts
<1>2. Finding(p, n) \in Severities /\ Finding(p, n) = Found(request.input, p, n)
  BY <1>1, FindingFacts, FoundFacts
<1>3. /\ Finding(p, n) \in {"fatal", "error", Ast(n).reports[p]}
      /\ Finding(p, n) = "fatal" => Ast(n).reports[p] = "fatal"
  BY DEF Finding
<1>4. Ast(n).reports[p] \in SeveritiesOf(p)
  BY <1>1, TextFacts
<1>5. PassNames = {"syntax", "docString", "register", "performImports", "resolve",
                   "typeCheck", "postTypeCheck", "cfg", "flow", "static", "viewPure",
                   "secbit", "smt"}
  <2>1. \A q \in 1 .. 13 : \/ q = 1 \/ q = 2 \/ q = 3 \/ q = 4 \/ q = 5 \/ q = 6 \/ q = 7
                           \/ q = 8 \/ q = 9 \/ q = 10 \/ q = 11 \/ q = 12 \/ q = 13
    OBVIOUS
  <2> QED
    BY <2>1, PassFacts
<1>6. "secbit" \in SeveritiesOf(p) => p \in {"secbit", "smt"}
  BY <1>5 DEF SeveritiesOf
<1>7. p \in {"postTypeCheck", "cfg", "flow", "static", "viewPure", "secbit", "smt"} =>
        "fatal" \notin SeveritiesOf(p) /\ p \notin Aborting
  BY DEF SeveritiesOf, Aborting
<1> QED
  BY <1>2, <1>3, <1>4, <1>6, <1>7 DEF Stops
-----------------------------------------------------------------------------
(***************************************************************************)
(* A source in a pass.                                                     *)
(***************************************************************************)
\* What a pass makes of m_contracts has no code yet.
LEMMA PassMakesNoCode ==
  ASSUME ServingStep, AnalyzeSource,
         \A m \in Names : contracts[m] # None =>
           Ast(m).contract # "none" /\ contracts[m].code = None /\ ~contracts[m].linked
  PROVE  \A m \in Names : contracts'[m] # None =>
           Ast(m).contract # "none" /\ contracts'[m].code = None /\ ~contracts'[m].linked
<1> DEFINE p == Passes[call.pass]
           n == Head(call.work)
           skip == p \in PerContract /\ Ast(n).contract = "none"
           r == IF skip THEN reporter ELSE Report(reporter, Finding(p, n))
           ok == skip \/ PassSucceeds(p, Finding(p, n), r.list)
           made == ok /\ ~r.fatal
           new == [ast |-> Ast(n), evmVersion |-> None, code |-> None, linked |-> FALSE,
                   sourceMapping |-> None]
<1>1. /\ IInv /\ contracts \in [Names -> ContractType \cup {None}]
      /\ call.phase = "pass" /\ call.work # <<>>
  BY ServingFacts DEF AnalyzeSource, IInv, TypeInv
<1>2. call.work \in Seq(Names) /\ Elements(call.work) \subseteq Analysed /\ call.pass \in 1 .. 13
  BY <1>1, PassPhaseFacts
<1>3. n \in Analysed /\ n \in Names /\ Ast(n) \in Texts
  BY <1>1, <1>2, ElementsFacts, AnalysedFacts DEF IInv
<1>4. contracts' =
        CASE p = "resolve" /\ ~skip /\ ok /\ ~r.fatal /\ contracts[n] = None ->
               [contracts EXCEPT ![n] = new]
          [] p = "typeCheck" /\ ~skip ->
               [contracts EXCEPT ![n].evmVersion = settings.evmVersion]
          [] OTHER -> contracts
  BY DEF AnalyzeSource
<1>5. new.code = None /\ new.linked = FALSE
  OBVIOUS
<1>6. p = "resolve" \/ p = "typeCheck" => (~skip => Ast(n).contract # "none")
  BY DEF PerContract
<1> HIDE DEF new, skip, ok, r, n, p
<1>7. CASE p = "resolve" /\ ~skip /\ ok /\ ~r.fatal /\ contracts[n] = None
  <2>1. contracts' = [contracts EXCEPT ![n] = new]
    BY <1>4, <1>7
  <2>2. contracts'[n] = new /\ \A m \in Names : m # n => contracts'[m] = contracts[m]
    BY <1>1, <1>3, <2>1
  <2> QED
    BY <1>5, <1>6, <1>7, <2>2
<1>8. CASE p = "typeCheck" /\ ~skip
  <2> DEFINE old == contracts[n]
             c == [old EXCEPT !.evmVersion = settings.evmVersion]
  <2>1. contracts' = [contracts EXCEPT ![n] = c]
    BY <1>4, <1>8
  <2>2. old # None
    <3>1. call.pass = 6
      <4>1. \/ call.pass = 1 \/ call.pass = 2 \/ call.pass = 3 \/ call.pass = 4 \/ call.pass = 5
            \/ call.pass = 6 \/ call.pass = 7 \/ call.pass = 8 \/ call.pass = 9 \/ call.pass = 10
            \/ call.pass = 11 \/ call.pass = 12 \/ call.pass = 13
        BY <1>2
      <4> QED
        BY <1>8, <4>1, PassFacts DEF p
    <3>2. Done(5, n)
      BY <3>1 DEF Done
    <3>3. PassContracts
      BY <1>1 DEF IInv, PassInv
    <3> QED
      BY <1>3, <1>6, <1>8, <3>2, <3>3 DEF PassContracts
  <2>3. old \in ContractType
    BY <1>1, <1>3, <2>2
  <2>4. c.code = old.code /\ c.linked = old.linked
    BY <2>3 DEF ContractType
  <2> HIDE DEF old, c
  <2>5. contracts'[n] = c /\ \A m \in Names : m # n => contracts'[m] = contracts[m]
    BY <1>1, <1>3, <2>1
  <2>6. c.code = None /\ ~c.linked /\ Ast(n).contract # "none"
    <3>1. old = contracts[n]
      BY DEF old
    <3> QED
      BY <1>3, <2>2, <2>4, <3>1
  <2> QED
    BY <2>5, <2>6
<1>9. CASE /\ ~(p = "resolve" /\ ~skip /\ ok /\ ~r.fatal /\ contracts[n] = None)
           /\ ~(p = "typeCheck" /\ ~skip)
  <2>1. contracts' = contracts
    BY <1>4, <1>9
  <2> QED
    BY <2>1
<1>10. \A m : Ast(m)' = Ast(m)
  BY SameSources DEF AnalyzeSource
<1> QED
  BY <1>7, <1>8, <1>9

\* How the pass goes on, as the texts of the request have it.
LEMMA PassOutcome ==
  ASSUME ServingStep, AnalyzeSource
  PROVE  LET p == Passes[call.pass]
             n == Head(call.work) IN
         /\ call.phase = "pass" /\ call.work # <<>> /\ call \in PassCall
         /\ call.pass \in 1 .. 13 /\ p \in PassNames /\ call.work \in Seq(Names)
         /\ n \in Elements(call.work) /\ n \in Analysed /\ n \in Names
         /\ UNCHANGED <<stackState, sources, settings, sourceOrder>>
         /\ stackState = ParsingSuccessful
         /\ scopes' = IF p = "register" THEN scopes \cup {n} ELSE scopes
         /\ SECBITs \in Nat
         /\ SECBITs' = SECBITs + IF Finding(p, n) = "secbit" THEN 1 ELSE 0
         /\ \/ Stops(request.input, p, n) /\ call' = Idle /\ result' = "false"
            \/ /\ ~Stops(request.input, p, n)
               /\ call' = [call EXCEPT !.work = Tail(@), !.noErrors = call'.noErrors]
               /\ call'.noErrors \in BOOLEAN
               /\ Skipped(p, n) \/ Finding(p, n) \notin ErrorSeverities =>
                    /\ ContainsOnlyWarnings(reporter.list) => ContainsOnlyWarnings(reporter'.list)
                    /\ ContainsOnlyWarnings(reporter'.list) => call'.noErrors = call.noErrors
<1> DEFINE p == Passes[call.pass]
           n == Head(call.work)
           skip == p \in PerContract /\ Ast(n).contract = "none"
           r == IF skip THEN reporter ELSE Report(reporter, Finding(p, n))
           ok == skip \/ PassSucceeds(p, Finding(p, n), r.list)
           twice == p = "register" /\ n \in scopes
           finding == Finding(p, n)
           input == request.input
<1>1. /\ IInv /\ PassPart /\ call.phase = "pass" /\ call.work # <<>>
  BY ServingFacts DEF AnalyzeSource
<1>2. /\ call \in PassCall /\ stackState = ParsingSuccessful
      /\ call.work \in Seq(Names) /\ call.pass \in 1 .. 13 /\ call.noErrors \in BOOLEAN
      /\ Elements(call.work) \subseteq Analysed
  BY <1>1, PassPhaseFacts
<1>3. n \in Elements(call.work)
  BY <1>1, <1>2, ElementsFacts
<1>4. n \in Analysed /\ n \in Names /\ Ast(n) \in Texts /\ p \in PassNames
  BY <1>1, <1>2, <1>3, AnalysedFacts, PassFacts DEF IInv
<1>5. ~twice
  <2>1. p = "register" => call.pass = 3
    <3>1. \/ call.pass = 1 \/ call.pass = 2 \/ call.pass = 3 \/ call.pass = 4 \/ call.pass = 5
          \/ call.pass = 6 \/ call.pass = 7 \/ call.pass = 8 \/ call.pass = 9 \/ call.pass = 10
          \/ call.pass = 11 \/ call.pass = 12 \/ call.pass = 13
      BY <1>2
    <3> QED
      BY <3>1, PassFacts
  <2>2. \A m \in scopes : Done(3, m)
    BY <1>1 DEF PassPart
  <2> QED
    BY <1>3, <2>1, <2>2 DEF Done
<1>6. /\ reporter' = Caught(r)
      /\ scopes' = IF p = "register" THEN scopes \cup {n} ELSE scopes
      /\ UNCHANGED <<stackState, sources, settings, sourceOrder>>
      /\ \/ (r.fatal \/ (~ok /\ p \in Aborting)) /\ call' = Idle /\ result' = "false"
         \/ /\ ~r.fatal /\ ~(~ok /\ p \in Aborting)
            /\ call' = [call EXCEPT !.work = Tail(@), !.noErrors = @ /\ ok]
  BY <1>5 DEF AnalyzeSource, Return
<1>7. /\ Caught(r).list = r.list /\ Caught(r).errors = r.errors
      /\ r.fatal \in BOOLEAN
      /\ skip \/ finding \notin ErrorSeverities =>
           ~r.fatal /\ (ContainsOnlyWarnings(reporter.list) => ContainsOnlyWarnings(r.list))
      /\ ~skip /\ ~r.fatal =>
           /\ finding # "fatal"
           /\ finding \in {"quiet", "error"} => ~ContainsOnlyWarnings(r.list)
  <2>1. ReportInv
    BY <1>1 DEF IInv
  <2> HIDE DEF p, n
  <2> QED
    BY <1>4, <2>1, PassReportFacts
<1>8. /\ finding \in Severities
      /\ finding = "error" => p \notin {"register", "secbit", "smt"}
  <2> HIDE DEF p, n
  <2> QED
    BY <1>4, FindingFacts
<1>9. ~skip => r = Report(reporter, finding) /\ InvOf(reporter) /\ ~reporter.fatal
  BY <1>1 DEF IInv, ReportInv
<1>10. ~skip /\ r.fatal => finding = "fatal"
  <2>1. ~skip /\ finding \in {"quiet", "error"} /\ r.fatal => r.errors > c_maxErrorsAllowed
    <3> HIDE DEF r, finding, skip
    <3> QED
      BY <1>8, <1>9, ReportFacts
  <2>2. ~(r.errors > c_maxErrorsAllowed)
    BY <1>6, <1>7 DEF ServingStep, LimitUsedUp
  <2> HIDE DEF r, finding, skip
  <2> QED
    BY <1>7, <2>1, <2>2 DEF ErrorSeverities
<1>11. ~skip /\ ~r.fatal =>
         /\ ok => finding # "error"
         /\ ~ok => ~ContainsOnlyWarnings(r.list) \/ finding = "error"
         /\ p \in Aborting /\ ~ok => finding = "error"
  <2> DEFINE list == r.list
  <2>1. ASSUME ~skip, ~r.fatal
        PROVE  finding = "error" => ~ContainsOnlyWarnings(list)
    BY <1>7, <2>1
  <2>2. ~skip => (ok <=> PassSucceeds(p, finding, list))
    OBVIOUS
  <2> HIDE DEF finding, list, p, r, ok, skip
  <2>3. ASSUME ~skip, ~r.fatal
        PROVE  /\ PassSucceeds(p, finding, list) => finding # "error"
               /\ ~PassSucceeds(p, finding, list) =>
                    ~ContainsOnlyWarnings(list) \/ finding = "error"
               /\ p \in Aborting /\ ~PassSucceeds(p, finding, list) => finding = "error"
    BY <1>4, <1>8, <2>1, <2>3, SuccessFacts
  <2> QED
    BY <2>2, <2>3 DEF list
<1>12. skip => ok /\ r = reporter /\ ~r.fatal
  BY <1>1 DEF IInv, ReportInv
<1>13. /\ (skip <=> Skipped(p, n)) /\ (skip <=> PassedOver(input, p, n))
       /\ finding = Found(input, p, n)
       /\ finding = "secbit" => p \in {"secbit", "smt"}
  <2>1. stackState >= ParsingSuccessful /\ sourceOrder = OrderOf(input)
    BY <1>1, <1>2 DEF PassPart, ParsingSuccessful
  <2> HIDE DEF n, p
  <2> QED
    BY <1>4, <2>1, FoundFacts, FoundSeverities DEF Skipped
<1>14. SECBITs \in Nat /\ SECBITs' = SECBITs + IF finding = "secbit" THEN 1 ELSE 0
  <2>1. CASE skip
    <3>1. finding # "secbit"
      <4>1. p \in {"resolve", "typeCheck"}
        BY <2>1 DEF PerContract
      <4> HIDE DEF p, n, finding, skip
      <4> QED
        BY <1>13, <4>1
    <3>2. SECBITs' = SECBITs
      BY <1>6, <1>7, <1>12, <2>1 DEF SECBITs
    <3>3. SECBITs \in Nat
      <4>1. InvOf(reporter) /\ "nothing" \in Severities
        BY <1>1 DEF IInv, ReportInv, Severities
      <4> QED
        BY <4>1, ReportedSECBITs DEF SECBITs
    <3> QED
      BY <3>1, <3>2, <3>3
  <2>2. CASE ~skip
    <3> HIDE DEF skip, finding, r
    <3> QED
      BY <1>6, <1>7, <1>8, <1>9, <2>2, ReportedSECBITs DEF SECBITs
  <2> QED
    BY <2>1, <2>2
<1>15. CASE (r.fatal \/ (~ok /\ p \in Aborting)) /\ call' = Idle /\ result' = "false"
  <2>1. ~skip /\ (finding = "fatal" \/ (p \in Aborting /\ finding = "error"))
    <3>1. ~skip
      BY <1>12, <1>15
    <3>2. r.fatal => finding = "fatal"
      BY <1>10, <3>1
    <3>3. ~r.fatal => p \in Aborting /\ finding = "error"
      BY <1>11, <1>15, <3>1
    <3> QED
      BY <3>1, <3>2, <3>3
  <2>2. Stops(input, p, n)
    <3> HIDE DEF skip, finding, r, ok, n, p, input
    <3> QED
      BY <1>13, <2>1 DEF Stops
  <2> HIDE DEF skip, r, ok
  <2> QED
    BY <1>1, <1>2, <1>3, <1>4, <1>6, <1>14, <1>15, <2>2
<1>16. CASE /\ ~r.fatal /\ ~(~ok /\ p \in Aborting)
            /\ call' = [call EXCEPT !.work = Tail(@), !.noErrors = @ /\ ok]
  <2>1. ~skip => ~(finding = "fatal" \/ (p \in Aborting /\ finding = "error"))
    <3>1. ASSUME ~skip PROVE finding # "fatal"
      BY <1>7, <1>16, <3>1
    <3>2. ASSUME ~skip, p \in Aborting PROVE finding # "error"
      BY <1>11, <1>16, <3>2
    <3> QED
      BY <3>1, <3>2
  <2>2. ~Stops(input, p, n)
    <3> HIDE DEF skip, finding, r, ok, n, p, input
    <3> QED
      BY <1>13, <2>1 DEF Stops
  <2>3. /\ call'.noErrors = (call.noErrors /\ ok) /\ call'.noErrors \in BOOLEAN
        /\ call' = [call EXCEPT !.work = Tail(@), !.noErrors = call'.noErrors]
    <3> HIDE DEF ok
    <3> QED
      BY <1>2, <1>16 DEF PassCall
  <2>4. ASSUME Skipped(p, n) \/ finding \notin ErrorSeverities
        PROVE  /\ ContainsOnlyWarnings(reporter.list) => ContainsOnlyWarnings(reporter'.list)
               /\ ContainsOnlyWarnings(reporter'.list) => call'.noErrors = call.noErrors
    <3>1. reporter'.list = r.list
      BY <1>6, <1>7
    <3>2. ContainsOnlyWarnings(r.list) => ok
      <4>1. CASE skip
        BY <1>12, <4>1
      <4>2. CASE ~skip
        <5>1. finding # "error"
          BY <1>13, <2>4, <4>2 DEF ErrorSeverities
        <5> QED
          BY <1>11, <1>16, <4>2, <5>1
      <4> QED
        BY <4>1, <4>2
    <3>3. ContainsOnlyWarnings(reporter.list) => ContainsOnlyWarnings(r.list)
      <4>1. skip \/ finding \notin ErrorSeverities
        BY <1>13, <2>4
      <4> HIDE DEF skip, finding, r, ok, n, p
      <4> QED
        BY <1>7, <4>1
    <3> HIDE DEF skip, finding, r, ok, n, p
    <3> QED
      BY <1>2, <2>3, <3>1, <3>2, <3>3
  <2> HIDE DEF skip, r, ok
  <2> QED
    BY <1>1, <1>2, <1>3, <1>4, <1>6, <1>14, <2>2, <2>3, <2>4
<1> QED
  BY <1>6, <1>15, <1>16

\* What the passes have been through grows by the source at the head.
LEMMA PassDone ==
  ASSUME ServingStep, AnalyzeSource,
         call' = [call EXCEPT !.work = Tail(@), !.noErrors = call'.noErrors],
         call'.noErrors \in BOOLEAN
  PROVE  /\ call'.phase = "pass" /\ call'.pass = call.pass /\ call'.work = Tail(call.work)
         /\ call'.noSMT = call.noSMT
         /\ \A q, m : Done(q, m)' <=> Done(q, m) \/ (q = call.pass /\ m = Head(call.work))
         /\ ~Done(call.pass, Head(call.work))
         /\ \A i, j \in DOMAIN Tail(call.work) : i # j => Tail(call.work)[i] # Tail(call.work)[j]
         /\ Tail(call.work) # <<>> => call.work # <<>>
<1> DEFINE n == Head(call.work)
<1>1. /\ call.phase = "pass" /\ call.work # <<>> /\ call \in PassCall /\ call.pass \in 1 .. 13
      /\ call.work \in Seq(Names) /\ n \in Elements(call.work)
  BY PassOutcome
<1>2. \A i, j \in DOMAIN call.work : i # j => call.work[i] # call.work[j]
  BY <1>1, ServingFacts DEF PassPart
<1>3. /\ call'.phase = "pass" /\ call'.pass = call.pass /\ call'.work = Tail(call.work)
      /\ call'.noSMT = call.noSMT
  BY <1>1 DEF PassCall
<1>4. /\ Elements(Tail(call.work)) = Elements(call.work) \ {n}
      /\ \A i, j \in DOMAIN Tail(call.work) : i # j => Tail(call.work)[i] # Tail(call.work)[j]
  BY <1>1, <1>2, HeadOnce
<1> HIDE DEF n
<1>5. ASSUME NEW q, NEW m
      PROVE  Done(q, m)' <=> Done(q, m) \/ (q = call.pass /\ m = n)
  BY <1>3, <1>4 DEF Done
<1>6. ~Done(call.pass, n)
  BY <1>1 DEF Done
<1> QED
  BY <1>1, <1>3, <1>4, <1>5, <1>6 DEF n

\* The SECBIT warnings there are follow what the passes have been through.
LEMMA PassCountsSECBITs ==
  ASSUME ServingStep, AnalyzeSource, UNCHANGED sourceOrder,
         SECBITs = Cardinality(SECBITDone),
         \A q, m : Done(q, m)' <=> Done(q, m) \/ (q = call.pass /\ m = Head(call.work)),
         SECBITs' = SECBITs + IF Finding(Passes[call.pass], Head(call.work)) = "secbit"
                                THEN 1 ELSE 0
  PROVE  SECBITs' = Cardinality(SECBITDone')
<1> DEFINE n == Head(call.work)
           p == Passes[call.pass]
           new == <<call.pass, n>>
           all == SECBITFound(request.input)
           input == request.input
<1>1. /\ call.phase = "pass" /\ call.work # <<>> /\ call.pass \in 1 .. 13 /\ p \in PassNames
      /\ n \in Elements(call.work) /\ n \in Analysed /\ stackState = ParsingSuccessful
  BY PassOutcome
<1>2. PassPart /\ UNCHANGED request
  BY ServingFacts DEF ServingStep
<1>3. sourceOrder = OrderOf(input) /\ stackState >= ParsingSuccessful
  BY <1>1, <1>2 DEF PassPart, ParsingSuccessful
<1>4. /\ IsFiniteSet(all)
      /\ \A f \in all : f = <<f[1], f[2]>> /\ f[1] \in {12, 13} /\ f[2] \in Analysed
  BY <1>3, SECBITFoundFacts
<1>5. new \in all <=> Finding(p, n) = "secbit"
  <2>1. new \in (DOMAIN Passes) \X Visited(input) /\ new[1] = call.pass /\ new[2] = n
    BY <1>1, <1>3, PassFacts, FoundFacts
  <2>2. Finding(p, n) = Found(input, p, n)
    <3> HIDE DEF p, n
    <3> QED
      BY <1>1, <1>3, FoundFacts
  <2>3. Finding(p, n) = "secbit" => p \in {"secbit", "smt"}
    <3> HIDE DEF p, n
    <3> QED
      BY <1>1, <1>3, FoundSeverities
  <2>4. p = "smt" => call.pass = 13
    <3>1. \/ call.pass = 1 \/ call.pass = 2 \/ call.pass = 3 \/ call.pass = 4 \/ call.pass = 5
          \/ call.pass = 6 \/ call.pass = 7 \/ call.pass = 8 \/ call.pass = 9 \/ call.pass = 10
          \/ call.pass = 11 \/ call.pass = 12 \/ call.pass = 13
      BY <1>1
    <3> QED
      BY <3>1, PassFacts
  <2>5. call.pass = 13 => ~input.noSMT
    BY <1>1, <1>2 DEF PassPart
  <2>6. new \in all <=> /\ Passes[new[1]] = "secbit" \/ (Passes[new[1]] = "smt" /\ ~input.noSMT)
                        /\ Found(input, Passes[new[1]], new[2]) = "secbit"
    <3> HIDE DEF new
    <3> QED
      BY <2>1 DEF SECBITFound
  <2>7. Passes[new[1]] = p
    BY <2>1
  <2> HIDE DEF new, p, n, all
  <2> QED
    BY <2>1, <2>2, <2>3, <2>4, <2>5, <2>6, <2>7
<1>6. SECBITDone = {f \in all : Done(f[1], f[2])}
  BY DEF SECBITDone
<1>7. SECBITDone' = {f \in all : Done(f[1], f[2]) \/ (f[1] = call.pass /\ f[2] = n)}
  BY <1>2 DEF SECBITDone
<1>8. ~Done(call.pass, n) /\ new[1] = call.pass /\ new[2] = n
  BY <1>1 DEF Done
<1>9. \A f \in all : f[1] = call.pass /\ f[2] = n <=> f = new
  BY <1>4
<1>10. IsFiniteSet(SECBITDone) /\ new \notin SECBITDone
  <2>1. SECBITDone \subseteq all
    BY <1>6
  <2> HIDE DEF all, new
  <2> QED
    BY <1>4, <1>6, <1>8, <2>1, FS_Subset
<1>11. CASE Finding(p, n) = "secbit"
  <2>1. SECBITDone' = SECBITDone \cup {new}
    <3> HIDE DEF all, new, n, p
    <3> QED
      BY <1>5, <1>6, <1>7, <1>9, <1>11
  <2> HIDE DEF all, new
  <2>2. Cardinality(SECBITDone \cup {new}) = Cardinality(SECBITDone) + 1
    BY <1>10, FS_AddElement
  <2> QED
    BY <1>11, <2>1, <2>2
<1>12. CASE Finding(p, n) # "secbit"
  <2>1. SECBITDone' = SECBITDone
    <3> HIDE DEF all, new, n, p
    <3> QED
      BY <1>5, <1>6, <1>7, <1>9, <1>12
  <2>2. SECBITs' = SECBITs + 0 /\ SECBITs \in Nat
    BY <1>12, PassOutcome
  <2> QED
    BY <2>1, <2>2
<1> QED
  BY <1>11, <1>12

\* One source analysed in one pass keeps the stack on its way to the answer.
LEMMA AnalyzeSourceServes ==
  ASSUME ServingStep, AnalyzeSource
  PROVE  CompileInv'
<1> DEFINE input == request.input
           p == Passes[call.pass]
           n == Head(call.work)
<1>1. /\ call.phase = "pass" /\ call.work # <<>> /\ call \in PassCall
      /\ call.pass \in 1 .. 13 /\ p \in PassNames
      /\ n \in Elements(call.work) /\ n \in Analysed /\ n \in Names
      /\ UNCHANGED <<stackState, sources, settings, sourceOrder>>
      /\ stackState = ParsingSuccessful
      /\ scopes' = IF p = "register" THEN scopes \cup {n} ELSE scopes
      /\ SECBITs \in Nat
      /\ SECBITs' = SECBITs + IF Finding(p, n) = "secbit" THEN 1 ELSE 0
      /\ \/ Stops(input, p, n) /\ call' = Idle /\ result' = "false"
         \/ /\ ~Stops(input, p, n)
            /\ call' = [call EXCEPT !.work = Tail(@), !.noErrors = call'.noErrors]
            /\ call'.noErrors \in BOOLEAN
            /\ Skipped(p, n) \/ Finding(p, n) \notin ErrorSeverities =>
                 /\ ContainsOnlyWarnings(reporter.list) => ContainsOnlyWarnings(reporter'.list)
                 /\ ContainsOnlyWarnings(reporter'.list) => call'.noErrors = call.noErrors
  BY PassOutcome
<1>2. /\ IInv /\ PassPart /\ GivenInv /\ UNCHANGED request /\ request.phase = "running"
      /\ call.noSMT = input.noSMT /\ Accepted(input) # {} /\ ParseClean(input)
      /\ request'.input = input
  BY <1>1, ServingFacts DEF ServingStep
<1>3. /\ sourceOrder = OrderOf(input) /\ stackState >= ParsingSuccessful
      /\ \A m \in scopes : Done(3, m)
      /\ AnalysisClean(input) => ContainsOnlyWarnings(reporter.list) /\ call.noErrors
      /\ \A m \in Analysed, q \in DOMAIN Passes : Done(q, m) => ~Stops(input, Passes[q], m)
      /\ input.secbit => SECBITs = Cardinality(SECBITDone)
      /\ \A m \in Names : contracts[m] # None =>
           Ast(m).contract # "none" /\ contracts[m].code = None /\ ~contracts[m].linked
      /\ call.pass = 13 /\ call.work # <<>> => ~input.noSMT
  BY <1>1, <1>2 DEF PassPart, ParsingSuccessful
<1>4. /\ Visited(input) = Analysed
      /\ Finding(p, n) = Found(input, p, n)
      /\ Skipped(p, n) <=> PassedOver(input, p, n)
      /\ Finding(p, n) = "secbit" => p \in {"secbit", "smt"}
      /\ p \in {"secbit", "smt"} => ~Stops(input, p, n)
  <2> HIDE DEF n, p
  <2> QED
    BY <1>1, <1>3, FoundFacts, FoundSeverities
<1>5. GivenInv'
  BY <1>1, <1>2, SameGiven
<1>6. CASE Stops(input, p, n) /\ call' = Idle /\ result' = "false"
  <2>1. ~ReachesEnd(input) /\ ~Accepts(input)
    <3>1. n \in Visited(input) /\ p \in PassNames
      BY <1>1, <1>4
    <3>2. ~ReachesEnd(input)
      <4> HIDE DEF n, p, input
      <4> QED
        BY <1>6, <3>1 DEF ReachesEnd
    <3>3. ~PassedOver(input, p, n) /\ Found(input, p, n) \in ErrorSeverities
      BY <1>6 DEF Stops, ErrorSeverities
    <3>4. ~AnalysisClean(input)
      <4> HIDE DEF n, p, input
      <4> QED
        BY <3>1, <3>3 DEF AnalysisClean
    <3> QED
      BY <3>2, <3>4 DEF Accepts
  <2>2. input.secbit => SECBITs' = 0
    <3>1. p \notin {"secbit", "smt"}
      BY <1>4, <1>6
    <3>2. SECBITs' = SECBITs
      BY <1>1, <1>4, <3>1
    <3>3. call.pass \notin {12, 13}
      BY <3>1, PassFacts
    <3>4. SECBITDone = {}
      <4>1. \A f \in SECBITFound(input) : f[1] \in {12, 13} /\ f[2] \in Analysed
        BY <1>3, SECBITFoundFacts
      <4>2. \A q \in {12, 13} : \A m : ~Done(q, m)
        BY <1>1, <3>3 DEF Done
      <4> QED
        BY <4>1, <4>2 DEF SECBITDone
    <3>5. Cardinality({}) = 0
      BY FS_EmptySet
    <3> QED
      BY <1>3, <3>2, <3>4, <3>5
  <2> QED
    BY <1>1, <1>2, <1>5, <1>6, <2>1, <2>2, EndsFalse
<1>7. CASE /\ ~Stops(input, p, n)
           /\ call' = [call EXCEPT !.work = Tail(@), !.noErrors = call'.noErrors]
           /\ call'.noErrors \in BOOLEAN
           /\ Skipped(p, n) \/ Finding(p, n) \notin ErrorSeverities =>
                /\ ContainsOnlyWarnings(reporter.list) => ContainsOnlyWarnings(reporter'.list)
                /\ ContainsOnlyWarnings(reporter'.list) => call'.noErrors = call.noErrors
  <2>1. /\ call'.phase = "pass" /\ call'.pass = call.pass /\ call'.work = Tail(call.work)
        /\ call'.noSMT = call.noSMT
        /\ \A q, m : Done(q, m)' <=> Done(q, m) \/ (q = call.pass /\ m = n)
        /\ \A i, j \in DOMAIN Tail(call.work) : i # j => Tail(call.work)[i] # Tail(call.work)[j]
    BY <1>7, PassDone
  <2>2. /\ \A m : Ast(m)' = Ast(m)
        /\ Analysed' = Analysed
    BY <1>1, SameSources, SameFindings
  <2>3. \A m \in scopes' : Done(3, m)'
    <3>1. p = "register" => call.pass = 3
      <4>1. \/ call.pass = 1 \/ call.pass = 2 \/ call.pass = 3 \/ call.pass = 4
            \/ call.pass = 5 \/ call.pass = 6 \/ call.pass = 7 \/ call.pass = 8
            \/ call.pass = 9 \/ call.pass = 10 \/ call.pass = 11 \/ call.pass = 12
            \/ call.pass = 13
        BY <1>1
      <4> QED
        BY <4>1, PassFacts
    <3> HIDE DEF n, p
    <3> QED
      BY <1>1, <1>3, <2>1, <3>1
  <2>4. AnalysisClean(input) => ContainsOnlyWarnings(reporter'.list) /\ call'.noErrors
    <3> SUFFICES ASSUME AnalysisClean(input)
                 PROVE  ContainsOnlyWarnings(reporter'.list) /\ call'.noErrors
      OBVIOUS
    <3>1. PassedOver(input, p, n) \/ Found(input, p, n) \notin ErrorSeverities
      <4>1. n \in Visited(input) /\ p \in PassNames
        BY <1>1, <1>4
      <4> HIDE DEF n, p, input
      <4> QED
        BY <4>1 DEF AnalysisClean
    <3>2. Skipped(p, n) \/ Finding(p, n) \notin ErrorSeverities
      BY <1>4, <3>1
    <3> HIDE DEF n, p
    <3> QED
      BY <1>3, <1>7, <3>2
  <2>5. ASSUME NEW m \in Analysed, NEW q \in DOMAIN Passes, Done(q, m)'
        PROVE  ~Stops(input, Passes[q], m)
    <3>1. CASE Done(q, m)
      BY <1>3, <3>1
    <3>2. CASE q = call.pass /\ m = n
      BY <1>7, <3>2
    <3> QED
      BY <2>1, <2>5, <3>1, <3>2
  <2>6. input.secbit => SECBITs' = Cardinality(SECBITDone')
    <3> HIDE DEF n, p
    <3> QED
      BY <1>1, <1>3, <2>1, PassCountsSECBITs DEF n, p
  <2>7. \A m \in Names : contracts'[m] # None =>
          Ast(m).contract # "none" /\ contracts'[m].code = None /\ ~contracts'[m].linked
    BY <1>3, PassMakesNoCode
  <2>8. call'.pass = 13 /\ call'.work # <<>> => ~input.noSMT
    BY <1>1, <1>3, <2>1
  <2> HIDE DEF n, p
  <2>9. PassPart'
    BY <1>1, <1>2, <1>3, <2>1, <2>2, <2>3, <2>4, <2>5, <2>6, <2>7, <2>8 DEF PassPart
  <2> QED
    BY <1>2, <1>5, <2>1, <2>9 DEF CompileInv, ParsePart, OrderPart, CodegenPart, EndPart
<1> HIDE DEF n, p
<1> QED
  BY <1>1, <1>6, <1>7

\* A pass that is left out neither ends analyze() nor has a warning that counts.
LEMMA NextPassServes ==
  ASSUME ServingStep, NextPass
  PROVE  CompileInv'
<1> DEFINE input == request.input
           p == Passes[call.pass + 1]
           runs == Runs(p, call.noErrors, call.secbit, call.noSMT)
           all == SECBITFound(input)
<1>1. /\ call.phase = "pass" /\ call.work = <<>> /\ call.pass < 13
      /\ call' = [call EXCEPT !.pass = @ + 1, !.work = IF runs THEN sourceOrder ELSE <<>>]
      /\ UNCHANGED <<reporter, stackState, sources, settings, sourceOrder, scopes, contracts>>
  BY PassFacts DEF NextPass
<1>2. /\ IInv /\ RunInv /\ PassPart /\ GivenInv /\ UNCHANGED request
      /\ request.phase = "running"
      /\ call.noSMT = input.noSMT /\ Accepted(input) # {} /\ ParseClean(input)
  BY <1>1, ServingFacts DEF ServingStep
<1>3. /\ call \in PassCall /\ call.pass \in 1 .. 13 /\ stackState = ParsingSuccessful
      /\ call.secbit = input.secbit
  BY <1>1, <1>2, PassPhaseFacts DEF RunInv
<1>4. call.pass + 1 \in 1 .. 13 /\ call.pass + 1 \in 2 .. 13 /\ p \in PassNames
  BY <1>1, <1>3, PassFacts
<1>5. /\ sourceOrder = OrderOf(input) /\ stackState >= ParsingSuccessful
      /\ \A i, j \in DOMAIN sourceOrder : i # j => sourceOrder[i] # sourceOrder[j]
      /\ \A m \in scopes : Done(3, m)
      /\ AnalysisClean(input) => ContainsOnlyWarnings(reporter.list) /\ call.noErrors
      /\ \A m \in Analysed, q \in DOMAIN Passes : Done(q, m) => ~Stops(input, Passes[q], m)
      /\ input.secbit => SECBITs = Cardinality(SECBITDone)
      /\ \A m \in Names : contracts[m] # None =>
           Ast(m).contract # "none" /\ contracts[m].code = None /\ ~contracts[m].linked
  BY <1>1, <1>2, <1>3 DEF PassPart, ParsingSuccessful
<1> HIDE DEF runs
<1>6. /\ call'.phase = "pass" /\ call'.pass = call.pass + 1 /\ call'.noErrors = call.noErrors
      /\ call'.noSMT = call.noSMT /\ call'.work = IF runs THEN sourceOrder ELSE <<>>
  BY <1>1, <1>3 DEF PassCall
<1>7. Elements(<<>>) = {} /\ Analysed = Elements(sourceOrder)
  BY DEF Elements, Analysed
<1>8. \A q \in 1 .. 13 : \A m \in Analysed :
        /\ Done(q, m) <=> q <= call.pass
        /\ Done(q, m)' <=> q <= call.pass \/ (q = call.pass + 1 /\ ~runs)
  <2> SUFFICES ASSUME NEW q \in 1 .. 13, NEW m \in Analysed
               PROVE  /\ Done(q, m) <=> q <= call.pass
                      /\ Done(q, m)' <=> q <= call.pass \/ (q = call.pass + 1 /\ ~runs)
    OBVIOUS
  <2>1. m \notin Elements(call.work) /\ (m \in Elements(call'.work) <=> runs)
    BY <1>1, <1>6, <1>7
  <2> QED
    BY <1>3, <1>6, <2>1 DEF Done
<1>9. /\ p \in {"postTypeCheck", "cfg", "flow", "static", "viewPure", "secbit", "smt"} \/ runs
      /\ p = "secbit" /\ ~runs => ~call.secbit
      /\ p = "smt" /\ ~runs /\ call.secbit => call.noSMT
      /\ p = "smt" /\ runs => ~call.noSMT
  BY DEF runs, Runs
<1>10. \A m : Ast(m)' = Ast(m)
  BY <1>1, SameSources
<1>11. Analysed' = Analysed
  BY <1>1 DEF Analysed
<1>12. ASSUME NEW m \in Analysed, NEW q \in DOMAIN Passes, Done(q, m)'
       PROVE  ~Stops(input, Passes[q], m)
  <2>1. q \in 1 .. 13
    BY PassFacts
  <2>2. CASE q <= call.pass
    BY <1>5, <1>8, <2>1, <2>2
  <2>3. CASE q = call.pass + 1 /\ ~runs
    <3> HIDE DEF p, input
    <3>1. p \in {"postTypeCheck", "cfg", "flow", "static", "viewPure", "secbit", "smt"}
      BY <1>9, <2>3
    <3>2. ~Stops(input, p, m)
      BY <1>4, <1>5, <3>1, FoundSeverities DEF input
    <3> QED
      BY <2>3, <3>2 DEF p
  <2> QED
    BY <1>8, <1>12, <2>1, <2>2, <2>3
<1>13. input.secbit => SECBITs' = Cardinality(SECBITDone')
  <2> SUFFICES ASSUME input.secbit PROVE SECBITs' = Cardinality(SECBITDone')
    OBVIOUS
  <2>1. \A f \in all : /\ f[1] \in {12, 13} /\ f[2] \in Analysed
                       /\ f[1] = 13 => ~input.noSMT
    BY <1>5, SECBITFoundFacts
  <2>2. call.pass + 1 = 12 => runs
    BY <1>3, <1>9, PassFacts
  <2>3. call.pass + 1 = 13 => runs \/ input.noSMT
    BY <1>2, <1>3, <1>9, PassFacts
  <2>4. ASSUME NEW f \in all PROVE Done(f[1], f[2])' <=> Done(f[1], f[2])
    <3>1. f[1] \in 1 .. 13 /\ f[2] \in Analysed /\ f[1] \in {12, 13}
      BY <2>1
    <3>2. ~(f[1] = call.pass + 1 /\ ~runs)
      BY <2>1, <2>2, <2>3, <3>1
    <3> QED
      BY <1>8, <3>1, <3>2
  <2>5. SECBITDone = {f \in all : Done(f[1], f[2])}
        /\ SECBITDone' = {f \in all : Done(f[1], f[2])'}
    BY <1>2 DEF SECBITDone
  <2> HIDE DEF all
  <2>6. SECBITDone' = SECBITDone
    BY <2>4, <2>5
  <2> QED
    BY <1>1, <1>5, <2>6 DEF SECBITs
<1>14. \A m \in scopes' : Done(3, m)'
  BY <1>1, <1>3, <1>5, <1>6 DEF Done
<1>15. \A i, j \in DOMAIN call'.work : i # j => call'.work[i] # call'.work[j]
  BY <1>5, <1>6
<1>16. call'.pass = 13 /\ call'.work # <<>> => ~input.noSMT
  BY <1>2, <1>6, <1>9, PassFacts
<1> HIDE DEF p
<1>17. PassPart'
  BY <1>1, <1>2, <1>5, <1>6, <1>10, <1>11, <1>12, <1>13, <1>14, <1>15, <1>16 DEF PassPart
<1>18. GivenInv'
  BY <1>1, <1>2, SameGiven
<1> QED
  BY <1>2, <1>6, <1>17, <1>18 DEF CompileInv, ParsePart, OrderPart, CodegenPart, EndPart

\* analyze() gives the verdict the texts of the request call for.
LEMMA EndAnalyzeServes ==
  ASSUME ServingStep, EndAnalyze
  PROVE  CompileInv'
<1> DEFINE input == request.input
<1>1. /\ call.phase = "pass" /\ call.work = <<>> /\ call.pass = 13
      /\ UNCHANGED <<reporter, sources, settings, sourceOrder, scopes, contracts>>
  BY PassFacts DEF EndAnalyze
<1>2. /\ IInv /\ RunInv /\ PassPart /\ GivenInv /\ UNCHANGED request
      /\ request.phase = "running"
      /\ Accepted(input) # {} /\ ParseClean(input)
  BY <1>1, ServingFacts DEF ServingStep
<1>3. /\ stackState = ParsingSuccessful /\ call.goal = "compile" /\ call.secbit = input.secbit
  BY <1>1, <1>2, PassPhaseFacts DEF RunInv
<1>4. /\ sourceOrder = OrderOf(input) /\ stackState >= ParsingSuccessful
      /\ AnalysisClean(input) => ContainsOnlyWarnings(reporter.list) /\ call.noErrors
      /\ \A m \in Analysed, q \in DOMAIN Passes : Done(q, m) => ~Stops(input, Passes[q], m)
      /\ input.secbit => SECBITs = Cardinality(SECBITDone)
      /\ \A m \in Names : contracts[m] # None =>
           Ast(m).contract # "none" /\ contracts[m].code = None /\ ~contracts[m].linked
  BY <1>1, <1>2, <1>3 DEF PassPart, ParsingSuccessful
<1>5. \A q \in 1 .. 13, m \in Analysed : Done(q, m)
  BY <1>1 DEF Done, Elements
<1>6. /\ Visited(input) = Analysed
      /\ \A q, m : m \in Analysed =>
           Finding(q, m) = Found(input, q, m) /\ (Skipped(q, m) <=> PassedOver(input, q, m))
  BY <1>4, FoundFacts
<1>7. ReachesEnd(input)
  <2>1. ASSUME NEW m \in Visited(input), NEW q \in PassNames PROVE ~Stops(input, q, m)
    <3>1. PICK i \in 1 .. 13 : q = Passes[i]
      BY PassFacts
    <3> QED
      BY <1>4, <1>5, <1>6, <3>1, PassFacts
  <2> QED
    BY <1>2, <2>1 DEF ReachesEnd
<1>8. input.secbit => SECBITs' = Cardinality(SECBITFound(input))
  <2>1. \A f \in SECBITFound(input) : f[1] \in 1 .. 13 /\ f[2] \in Analysed
    BY <1>4, SECBITFoundFacts
  <2>2. SECBITDone = SECBITFound(input)
    BY <1>5, <2>1 DEF SECBITDone
  <2> QED
    BY <1>1, <1>4, <2>2 DEF SECBITs
<1>9. GivenInv'
  BY <1>1, <1>2, SameGiven
<1>10. CASE ~call.noErrors
  <2>1. call' = Idle /\ result' = "false" /\ UNCHANGED stackState
    BY <1>10 DEF EndAnalyze, Return
  <2>2. ~Accepts(input)
    BY <1>4, <1>10 DEF Accepts
  <2> QED
    BY <1>3, <1>7, <1>8, <1>9, <2>1, <2>2, EndsFalse
<1>11. CASE call.noErrors
  <2>1. StartBackend(input.secbit, AnalysisSuccessful)
    BY <1>3, <1>11 DEF EndAnalyze
  <2>2. Accepts(input)
    <3>1. \A m \in Analysed, q \in PassNames : ~Skipped(q, m) => Finding(q, m) \notin ErrorSeverities
      BY <1>1, <1>2, <1>11, NothingFound
    <3>2. AnalysisClean(input)
      BY <1>6, <3>1 DEF AnalysisClean
    <3> QED
      BY <1>2, <3>2 DEF Accepts
  <2>3. CASE input.secbit
    <3>1. call'.phase = "idle" /\ result' = "true"
      BY <2>1, <2>3 DEF StartBackend, Return, Idle
    <3>2. EndPart'
      BY <1>2, <1>7, <1>8, <2>3, <3>1 DEF EndPart
    <3> QED
      BY <1>9, <3>1, <3>2 DEF CompileInv, ParsePart, OrderPart, PassPart, CodegenPart
  <2>4. CASE ~input.secbit
    <3>1. call' = [phase |-> "codegen", work |-> sourceOrder, compiled |-> {}, stack |-> <<>>]
      BY <2>1, <2>4 DEF StartBackend
    <3>2. call'.phase = "codegen" /\ call'.compiled = {} /\ call'.stack = <<>>
      BY <3>1
    <3>3. \A m : Ast(m)' = Ast(m)
      BY <1>1, SameSources
    <3>4. CodegenPart'
      BY <1>1, <1>2, <1>4, <2>2, <3>2, <3>3 DEF CodegenPart
    <3> QED
      BY <1>9, <3>2, <3>4 DEF CompileInv, ParsePart, OrderPart, PassPart, EndPart
  <2> QED
    BY <2>3, <2>4
<1> QED
  BY <1>10, <1>11

-----------------------------------------------------------------------------
(***************************************************************************)
(* The backend makes code for exactly the contracts that need it.          *)
(***************************************************************************)
\* What the backend goes by, in terms of the request.
LEMMA BackendFacts ==
  ASSUME ServingStep, call.phase = "codegen"
  PROVE  LET input == request.input IN
         /\ IInv /\ RunInv /\ CodegenPart /\ GivenInv /\ ~input.secbit
         /\ call \in CodegenCall /\ call.stack \in Seq(FrameType)
         /\ stackState = AnalysisSuccessful
         /\ Visited(input) = Analysed /\ Analysed \subseteq Names
         /\ \A n \in Analysed : Ast(n) = TextOf(input, n) /\ Ast(n) \in Texts
         /\ \A n \in Analysed : \A c \in Ast(n).creates :
              c \in Analysed /\ Ast(c) = TextOf(input, c)
         /\ \A n : IsRequested(n) <=> RequestedIn(input, n)
         /\ CurrentCode = [evmVersion |-> EVMOf(input), optimize |-> input.optimize]
         /\ CurrentCode # None
         /\ settings.libraries = (input.libraries = "given")
         /\ request'.input = input /\ request'.phase = "running"
<1> DEFINE input == request.input
<1>1. /\ IInv /\ RunInv /\ CodegenPart /\ GivenInv /\ request.phase = "running"
      /\ request'.input = input /\ request'.phase = "running"
  BY ServingFacts DEF ServingStep
<1>2. /\ ~input.secbit /\ stackState # CompilationSuccessful
  BY <1>1 DEF RunInv
<1>3. /\ call \in CodegenCall /\ call.stack \in Seq(FrameType)
      /\ stackState \in {AnalysisSuccessful, CompilationSuccessful}
  BY <1>1, CodegenFacts
<1>4. stackState >= ParsingSuccessful /\ sourceOrder = OrderOf(input)
  BY <1>1, <1>2, <1>3 DEF CodegenPart, AnalysisSuccessful, ParsingSuccessful
<1>5. /\ settings.evmVersion = EVMOf(input) /\ settings.optimize = input.optimize
      /\ settings.libraries = (input.libraries = "given")
      /\ settings.requested = requestedContractNames(input.selection)
  BY <1>1 DEF ServingStep, StdInv, SettingsInv, RequestPhases
<1>6. \A n : IsRequested(n) <=> RequestedIn(input, n)
  BY <1>5 DEF IsRequested, RequestedIn
<1>7. CurrentCode = [evmVersion |-> EVMOf(input), optimize |-> input.optimize]
  BY <1>5 DEF CurrentCode
<1>8. CurrentCode # None
  <2>1. CurrentCode \in CodeType
    BY <1>1 DEF IInv, TypeInv, CurrentCode, CodeType
  <2> QED
    BY <2>1, StackAssumption
<1> QED
  BY <1>1, <1>2, <1>3, <1>4, <1>5, <1>6, <1>7, <1>8, FoundFacts

\* Needed is the least set of the contracts that get code.
LEMMA NeededFacts ==
  ASSUME NEW input, Visited(input) = Analysed,
         \A n \in Analysed : Ast(n) = TextOf(input, n),
         \A n \in Analysed : \A c \in Ast(n).creates :
           c \in Analysed /\ Ast(c) = TextOf(input, c),
         \A n : IsRequested(n) <=> RequestedIn(input, n)
  PROVE  /\ Needed(input) \subseteq Analysed
         /\ \A n \in Analysed :
              Ast(n).contract = "concrete" /\ IsRequested(n) => n \in Needed(input)
         /\ \A n \in Needed(input) : \A c \in Ast(n).creates :
              Ast(c).contract = "concrete" => c \in Needed(input)
         /\ \A C \in SUBSET Analysed :
              /\ \A n \in Analysed : Ast(n).contract = "concrete" /\ IsRequested(n) => n \in C
              /\ \A n \in C : Ast(n).creates \subseteq C
              => Needed(input) \subseteq C
<1>1. Needed(input) = {n \in Analysed : \A C \in SUBSET Analysed : GetsCode(input, C) => n \in C}
  BY DEF Needed
<1>2. \A C \in SUBSET Analysed : GetsCode(input, C) <=>
        /\ \A n \in Analysed : Ast(n).contract = "concrete" /\ IsRequested(n) => n \in C
        /\ \A n \in C : \A c \in Ast(n).creates : Ast(c).contract = "concrete" => c \in C
  <2> SUFFICES ASSUME NEW C \in SUBSET Analysed
               PROVE  GetsCode(input, C) <=>
                        /\ \A n \in Analysed :
                             Ast(n).contract = "concrete" /\ IsRequested(n) => n \in C
                        /\ \A n \in C : \A c \in Ast(n).creates :
                             Ast(c).contract = "concrete" => c \in C
    OBVIOUS
  <2>1. \A n \in Analysed : IsConcrete(input, n) <=> Ast(n).contract = "concrete"
    BY DEF IsConcrete
  <2>2. \A n \in C : \A c \in Ast(n).creates :
          IsConcrete(input, c) <=> Ast(c).contract = "concrete"
    BY DEF IsConcrete
  <2>3. \A n \in C : TextOf(input, n) = Ast(n)
    OBVIOUS
  <2> QED
    BY <2>1, <2>2, <2>3 DEF GetsCode
<1>3. ASSUME NEW n \in Needed(input), NEW c \in Ast(n).creates, Ast(c).contract = "concrete"
      PROVE  c \in Needed(input)
  <2>1. n \in Analysed /\ c \in Analysed
    BY <1>1
  <2>2. ASSUME NEW C \in SUBSET Analysed, GetsCode(input, C) PROVE c \in C
    <3>1. n \in C
      BY <1>1, <2>2
    <3> QED
      BY <1>2, <1>3, <2>2, <3>1
  <2> QED
    BY <1>1, <2>1, <2>2
<1>4. ASSUME NEW n \in Analysed, Ast(n).contract = "concrete", IsRequested(n)
      PROVE  n \in Needed(input)
  BY <1>1, <1>2, <1>4
<1>5. ASSUME NEW C \in SUBSET Analysed,
             \A n \in Analysed : Ast(n).contract = "concrete" /\ IsRequested(n) => n \in C,
             \A n \in C : Ast(n).creates \subseteq C
      PROVE  Needed(input) \subseteq C
  <2>1. GetsCode(input, C)
    BY <1>2, <1>5
  <2> QED
    BY <1>1, <2>1
<1> QED
  BY <1>1, <1>3, <1>4, <1>5

\* A new frame of compileContract is that of a contract that needs code.
LEMMA CodegenGoesOn ==
  ASSUME ServingStep, call.phase = "codegen", call'.phase = "codegen",
         call'.compiled = call.compiled, UNCHANGED <<sources, sourceOrder, contracts>>,
         \A i \in DOMAIN call'.stack : call'.stack[i].name \in Needed(request.input)
  PROVE  CompileInv'
<1>1. CodegenPart /\ GivenInv /\ UNCHANGED request
  BY BackendFacts DEF ServingStep
<1>2. \A n : Ast(n)' = Ast(n)
  BY SameSources
<1>3. CodegenPart'
  BY <1>1, <1>2 DEF CodegenPart
<1>4. GivenInv'
  BY <1>1, SameGiven
<1> QED
  BY <1>3, <1>4 DEF CompileInv, ParsePart, OrderPart, PassPart, EndPart

\* The next contract of the sources' order is taken for compilation, or passed over.
LEMMA TakeContractServes ==
  ASSUME ServingStep, TakeContract
  PROVE  CompileInv'
<1> DEFINE input == request.input
           n == Head(call.work)
           new == [name |-> n, left |-> Ast(n).creates]
           takes == Ast(n).contract # "none" /\ IsRequested(n) /\ NeedsCode(n)
<1>1. /\ call.phase = "codegen" /\ call.stack = <<>> /\ call.work # <<>>
      /\ UNCHANGED <<sources, sourceOrder, contracts>>
  BY DEF TakeContract
<1>2. call' = [call EXCEPT !.work = Tail(@), !.stack = IF takes THEN Append(@, new) ELSE @]
  BY DEF TakeContract, CallCompileContract
<1>3. /\ IInv /\ call \in CodegenCall
      /\ \A m \in Analysed : Ast(m).contract = "concrete" /\ IsRequested(m) => m \in Needed(input)
  BY <1>1, BackendFacts, NeededFacts
<1>4. n \in Analysed
  <2>1. call.work \in Seq(Names) /\ Elements(call.work) \subseteq Analysed
    BY <1>1, <1>3, CodegenFacts DEF IInv, CodegenInv
  <2> QED
    BY <1>1, <2>1, ElementsFacts
<1>5. takes => n \in Needed(input)
  BY <1>3, <1>4 DEF NeedsCode
<1>6. new.name = n
  OBVIOUS
<1>7. Append(<<>>, new) = <<new>>
  OBVIOUS
<1> HIDE DEF new, takes, n
<1>8. /\ call'.phase = "codegen" /\ call'.compiled = call.compiled
      /\ call'.stack = IF takes THEN <<new>> ELSE <<>>
  BY <1>1, <1>2, <1>3, <1>7 DEF CodegenCall
<1>9. \A i \in DOMAIN call'.stack : call'.stack[i].name \in Needed(input)
  <2>1. CASE takes
    <3>1. call'.stack = <<new>>
      BY <1>8, <2>1
    <3>2. \A i \in DOMAIN <<new>> : <<new>>[i] = new
      OBVIOUS
    <3> QED
      BY <1>5, <1>6, <2>1, <3>1, <3>2
  <2>2. CASE ~takes
    BY <1>8, <2>2
  <2> QED
    BY <2>1, <2>2
<1> QED
  BY <1>1, <1>8, <1>9, CodegenGoesOn

\* A contract created by another one is compiled before it.
LEMMA CompileDependencyServes ==
  ASSUME ServingStep, NEW d \in Names, CompileDependency(d)
  PROVE  CompileInv'
<1> DEFINE input == request.input
           k == Len(call.stack)
           top == call.stack[k]
           cut == [call.stack EXCEPT ![k].left = @ \ {d}]
           new == [name |-> d, left |-> Ast(d).creates]
           st == IF NeedsCode(d) THEN Append(cut, new) ELSE cut
<1>1. /\ call.phase = "codegen" /\ call.stack # <<>> /\ d \in top.left
      /\ UNCHANGED <<sources, sourceOrder, contracts>>
      /\ call' = [call EXCEPT !.stack = st]
  BY DEF CompileDependency, CallCompileContract, GoOnTo, Innermost
<1>2. /\ IInv /\ call \in CodegenCall /\ call.stack \in Seq(FrameType) /\ CodegenPart
      /\ \A m \in Needed(input) : \A c \in Ast(m).creates :
           Ast(c).contract = "concrete" => c \in Needed(input)
  BY <1>1, BackendFacts, NeededFacts
<1>3. k \in Nat /\ k \in DOMAIN call.stack /\ DOMAIN call.stack = 1 .. k
  BY <1>1, <1>2
<1>4. \A i \in DOMAIN call.stack : call.stack[i].name \in Needed(input)
  BY <1>1, <1>2 DEF CodegenPart
<1>5. NeedsCode(d) => d \in Needed(input)
  <2>1. top.left \subseteq Ast(top.name).creates
    BY <1>1, <1>2, <1>3 DEF IInv, CodegenInv, FrameInv
  <2> QED
    BY <1>1, <1>2, <1>3, <1>4, <2>1 DEF NeedsCode
<1>6. /\ cut \in Seq(FrameType) /\ DOMAIN cut = 1 .. k /\ Len(cut) = k
      /\ \A i \in 1 .. k : cut[i].name = call.stack[i].name
  <2> DEFINE f == [top EXCEPT !.left = @ \ {d}]
  <2>1. top \in FrameType
    BY <1>2, <1>3
  <2>2. f \in FrameType /\ f.name = top.name
    BY <2>1 DEF FrameType
  <2>3. cut = [call.stack EXCEPT ![k] = f]
    OBVIOUS
  <2>4. Len(call.stack) = k
    OBVIOUS
  <2> HIDE DEF f, k, cut, top
  <2>5. cut \in Seq(FrameType) /\ DOMAIN cut = 1 .. k /\ Len(cut) = k
    BY <1>2, <1>3, <2>2, <2>3, <2>4
  <2>6. ASSUME NEW i \in 1 .. k PROVE cut[i].name = call.stack[i].name
    BY <1>2, <1>3, <2>2, <2>3 DEF top
  <2> QED
    BY <2>5, <2>6
<1>7. new.name = d
  OBVIOUS
<1> HIDE DEF cut, new, k
<1>8. \A i \in DOMAIN st : st[i].name \in Needed(input)
  <2>1. CASE NeedsCode(d)
    <3>1. /\ st = Append(cut, new) /\ DOMAIN st = 1 .. k + 1
          /\ st[k + 1] = new /\ \A i \in 1 .. k : st[i] = cut[i]
      <4>1. st = Append(cut, new)
        BY <2>1
      <4> HIDE DEF st
      <4> QED
        BY <1>3, <1>6, <4>1
    <3> HIDE DEF st
    <3>2. \A i \in 1 .. k + 1 : i = k + 1 \/ i \in 1 .. k
      BY <1>3
    <3> QED
      BY <1>3, <1>4, <1>5, <1>6, <1>7, <2>1, <3>1, <3>2
  <2>2. CASE ~NeedsCode(d)
    BY <1>3, <1>4, <1>6, <2>2
  <2> QED
    BY <2>1, <2>2
<1> HIDE DEF st
<1>9. call'.phase = "codegen" /\ call'.compiled = call.compiled /\ call'.stack = st
  BY <1>1, <1>2 DEF CodegenCall
<1> QED
  BY <1>1, <1>8, <1>9, CodegenGoesOn

\* Code generated, or refused with an exception that ends compile().
LEMMA GenerateCodeServes ==
  ASSUME ServingStep, GenerateCode
  PROVE  CompileInv'
<1> DEFINE input == request.input
           k == Len(call.stack)
           n == call.stack[k].name
           creates == Ast(n).creates
<1>1. /\ call.phase = "codegen" /\ call.stack # <<>> /\ call.stack[k].left = {}
      /\ Innermost.name = n
      /\ UNCHANGED <<stackState, sources, settings, sourceOrder>>
  BY DEF GenerateCode, Innermost
<1>2. /\ IInv /\ RunInv /\ CodegenPart /\ GivenInv /\ ~input.secbit
      /\ call \in CodegenCall /\ call.stack \in Seq(FrameType)
      /\ stackState = AnalysisSuccessful
      /\ Visited(input) = Analysed
      /\ \A m \in Analysed : Ast(m) = TextOf(input, m)
      /\ \A m \in Analysed : \A c \in Ast(m).creates :
           c \in Analysed /\ Ast(c) = TextOf(input, c)
      /\ request'.input = input /\ request'.phase = "running"
      /\ UNCHANGED request
  BY <1>1, BackendFacts DEF ServingStep
<1>3. k \in Nat /\ k \in DOMAIN call.stack /\ DOMAIN call.stack = 1 .. k
  BY <1>1, <1>2
<1>4. /\ FrameInv(k) /\ n \in Needed(input) /\ Accepts(input)
      /\ call.compiled \subseteq Needed(input)
      /\ \A i \in DOMAIN call.stack : call.stack[i].name \in Needed(input)
      /\ \A m \in Names : contracts[m] # None =>
           /\ Ast(m).contract # "none"
           /\ m \notin call.compiled => contracts[m].code = None /\ ~contracts[m].linked
      /\ sourceOrder = OrderOf(input)
  BY <1>1, <1>2, <1>3 DEF IInv, CodegenInv, CodegenPart
<1>5. n \in Analysed /\ Ast(n).contract = "concrete"
  BY <1>4 DEF FrameInv
<1>6. n \in Names /\ contracts[n] # None
  BY <1>1, <1>2, <1>5, CodegenFacts
<1>7. /\ \A m : Ast(m)' = Ast(m)
      /\ GivenInv'
  BY <1>1, <1>2, SameSources, SameGiven
<1>8. CASE ~(creates \subseteq call.compiled)
  <2>1. call'.phase = "idle" /\ result' = "assertCompiledContract"
    BY <1>1, <1>8 DEF GenerateCode, Return, Idle
  <2>2. PICK c \in creates : c \notin call.compiled
    BY <1>8
  <2>3. k + 1 \notin DOMAIN call.stack
    BY <1>3
  <2>4. Ast(c).contract # "concrete"
    <3> HIDE DEF k
    <3> QED
      BY <1>1, <1>4, <2>2, <2>3 DEF FrameInv
  <2>5. Ast(n) = TextOf(input, n) /\ Ast(c) = TextOf(input, c)
    BY <1>2, <1>5, <2>2
  <2>6. LacksCode(input)
    <3>1. c \in TextOf(input, n).creates /\ ~IsConcrete(input, c)
      BY <2>2, <2>4, <2>5 DEF IsConcrete
    <3> HIDE DEF n
    <3> QED
      BY <1>4, <3>1 DEF LacksCode
  <2>7. EndPart'
    BY <1>1, <1>2, <1>4, <2>1, <2>6
       DEF EndPart, Compiles, AnalysisSuccessful, CompilationSuccessful
  <2> QED
    BY <1>7, <2>1, <2>7 DEF CompileInv, ParsePart, OrderPart, PassPart, CodegenPart
<1>9. CASE creates \subseteq call.compiled
  <2> DEFINE cs == [contracts EXCEPT
                      ![n].code = [evmVersion |-> settings.evmVersion,
                                   optimize |-> settings.optimize],
                      ![n].linked = FALSE]
  <2>1. /\ contracts' = cs
        /\ call' = [call EXCEPT !.compiled = @ \cup {n},
                                !.stack = SubSeq(@, 1, Len(@) - 1)]
    BY <1>1, <1>9 DEF GenerateCode
  <2>2. contracts \in [Names -> ContractType \cup {None}]
    BY <1>2 DEF IInv, TypeInv
  <2>3. \A m \in Names : m # n => cs[m] = contracts[m]
    BY <2>2
  <2> HIDE DEF cs, n, k
  <2>4. /\ call'.phase = "codegen" /\ call'.compiled = call.compiled \cup {n}
        /\ call'.stack = SubSeq(call.stack, 1, Len(call.stack) - 1)
    BY <1>1, <1>2, <2>1 DEF CodegenCall
  <2>5. \A i \in DOMAIN call'.stack : call'.stack[i].name \in Needed(input)
    <3>1. \A i \in DOMAIN call'.stack : i \in DOMAIN call.stack /\ call'.stack[i] = call.stack[i]
      BY <1>1, <1>2, <2>4
    <3> QED
      BY <1>4, <3>1
  <2>6. \A m \in Names : contracts'[m] # None =>
          /\ Ast(m).contract # "none"
          /\ m \notin call'.compiled => contracts'[m].code = None /\ ~contracts'[m].linked
    <3> SUFFICES ASSUME NEW m \in Names, contracts'[m] # None
                 PROVE  /\ Ast(m).contract # "none"
                        /\ m \notin call'.compiled =>
                             contracts'[m].code = None /\ ~contracts'[m].linked
      OBVIOUS
    <3>1. CASE m = n
      BY <1>5, <2>4, <3>1
    <3>2. CASE m # n
      BY <1>4, <2>1, <2>3, <2>4, <3>2
    <3> QED
      BY <3>1, <3>2
  <2>7. CodegenPart'
    BY <1>1, <1>2, <1>4, <1>7, <2>4, <2>5, <2>6 DEF CodegenPart
  <2> QED
    BY <1>7, <2>4, <2>7 DEF CompileInv, ParsePart, OrderPart, PassPart, EndPart
<1> QED
  BY <1>8, <1>9

\* When the backend is done it has made what the request calls for.
LEMMA EndCompileServes ==
  ASSUME ServingStep, EndCompile
  PROVE  CompileInv'
<1> DEFINE input == request.input
<1>1. /\ call.phase = "codegen" /\ call.stack = <<>> /\ call.work = <<>>
      /\ contracts' = Link(contracts) /\ stackState' = CompilationSuccessful
      /\ call'.phase = "idle" /\ result' = "true"
      /\ UNCHANGED <<sources, settings, sourceOrder>>
  BY DEF EndCompile, Return, Idle
<1>2. /\ IInv /\ RunInv /\ CodegenPart /\ GivenInv /\ ~input.secbit
      /\ Visited(input) = Analysed /\ Analysed \subseteq Names
      /\ \A n \in Analysed : Ast(n) = TextOf(input, n)
      /\ \A n \in Analysed : \A c \in Ast(n).creates :
           c \in Analysed /\ Ast(c) = TextOf(input, c)
      /\ \A n : IsRequested(n) <=> RequestedIn(input, n)
      /\ CurrentCode = [evmVersion |-> EVMOf(input), optimize |-> input.optimize]
      /\ CurrentCode # None
      /\ settings.libraries = (input.libraries = "given")
      /\ request'.input = input /\ UNCHANGED request
  BY <1>1, BackendFacts DEF ServingStep
<1>3. /\ CompiledInv /\ TakenInv /\ call.compiled \subseteq Needed(input)
      /\ Accepts(input)
      /\ \A m \in Names : contracts[m] # None =>
           /\ Ast(m).contract # "none"
           /\ m \notin call.compiled => contracts[m].code = None /\ ~contracts[m].linked
      /\ \A m \in Names : contracts[m] # None => m \in Analysed /\ contracts[m].sourceMapping = None
  BY <1>1, <1>2 DEF IInv, CodegenInv, CodegenPart, RunInv, Fresh, ServingStep
<1>4. call.compiled = Needed(input)
  <2>1. call.compiled \subseteq Analysed
    BY <1>3 DEF CompiledInv
  <2>2. \A n \in Analysed : Ast(n).contract = "concrete" /\ IsRequested(n) => n \in call.compiled
    <3>1. Elements(call.work) = {}
      BY <1>1 DEF Elements
    <3> QED
      BY <1>1, <1>3, <3>1 DEF TakenInv
  <2>3. \A n \in call.compiled : Ast(n).creates \subseteq call.compiled
    BY <1>3 DEF CompiledInv
  <2>4. Needed(input) \subseteq call.compiled
    BY <1>2, <2>1, <2>2, <2>3, NeededFacts
  <2> QED
    BY <1>3, <2>4
<1>5. ~LacksCode(input)
  <2> SUFFICES ASSUME NEW n \in Needed(input), NEW c \in TextOf(input, n).creates
               PROVE  IsConcrete(input, c)
    BY DEF LacksCode
  <2>1. n \in call.compiled /\ n \in Analysed
    BY <1>3, <1>4 DEF CompiledInv
  <2>2. c \in Ast(n).creates /\ Ast(c) = TextOf(input, c)
    BY <1>2, <2>1
  <2>3. c \in call.compiled
    BY <1>3, <2>1, <2>2 DEF CompiledInv
  <2> QED
    BY <1>3, <2>2, <2>3 DEF CompiledInv, IsConcrete
<1>6. TypeInv /\ contracts \in [Names -> ContractType \cup {None}]
  BY <1>2 DEF IInv, TypeInv
<1>7. ASSUME NEW n \in Analysed, Ast(n).contract # "none"
      PROVE  /\ contracts'[n] # None /\ contracts'[n].sourceMapping = None
             /\ contracts'[n].code = CodeOf(input, n)
             /\ contracts'[n].linked = (n \in Needed(input) /\ input.libraries = "given")
  <2>1. n \in Names /\ contracts[n] # None /\ contracts[n] \in ContractType
    BY <1>1, <1>2, <1>7, CodegenFacts
  <2>2. /\ contracts'[n] # None /\ contracts'[n].sourceMapping = None
        /\ contracts'[n].code = contracts[n].code
        /\ contracts[n].code # None =>
             contracts'[n].linked = (contracts[n].linked \/ settings.libraries)
    BY <1>1, <1>3, <1>6, <2>1, LinkFacts
  <2>3. CASE n \in call.compiled
    <3>1. contracts[n].code = CurrentCode /\ ~contracts[n].linked
      BY <1>3, <2>3 DEF CompiledInv
    <3>2. contracts[n].linked \in BOOLEAN
      BY <2>1 DEF ContractType
    <3> QED
      BY <1>2, <1>4, <2>2, <2>3, <3>1, <3>2 DEF CodeOf
  <2>4. CASE n \notin call.compiled
    <3>1. contracts[n].code = None /\ ~contracts[n].linked
      BY <1>3, <2>1, <2>4
    <3>2. contracts'[n] = contracts[n]
      BY <1>1, <2>1, <3>1 DEF Link
    <3>3. contracts[n].linked \in BOOLEAN
      BY <2>1 DEF ContractType
    <3> QED
      BY <1>4, <2>2, <2>4, <3>1, <3>2, <3>3 DEF CodeOf
  <2> QED
    BY <2>3, <2>4
<1>8. ASSUME NEW n \in Names
      PROVE  IF n \in Visited(input) /\ TextOf(input, n).contract # "none"
               THEN /\ contracts'[n] # None /\ contracts'[n].sourceMapping = None
                    /\ contracts'[n].code = CodeOf(input, n)
                    /\ contracts'[n].linked = ObjectOf(input, n).linked
               ELSE contracts'[n] = None
  <2>1. CASE n \in Analysed /\ Ast(n).contract # "none"
    <3>1. ObjectOf(input, n).linked = (n \in Needed(input) /\ input.libraries = "given")
      BY DEF ObjectOf
    <3>2. n \in Visited(input) /\ TextOf(input, n).contract # "none"
      BY <1>2, <2>1
    <3> QED
      BY <1>7, <2>1, <3>1, <3>2
  <2>2. CASE ~(n \in Analysed /\ Ast(n).contract # "none")
    <3>1. contracts[n] = None
      BY <1>3, <2>2
    <3>2. contracts'[n] = None
      BY <1>1, <1>6, <3>1, LinkFacts
    <3> QED
      BY <1>2, <2>2, <3>2
  <2> QED
    BY <2>1, <2>2
<1>9. Compiles(input)
  BY <1>3, <1>5 DEF Compiles
<1>10. EndPart'
  BY <1>1, <1>2, <1>3, <1>8, <1>9 DEF EndPart, AnalysisSuccessful, CompilationSuccessful
<1>11. GivenInv'
  BY <1>1, <1>2, SameGiven
<1> QED
  BY <1>1, <1>10, <1>11 DEF CompileInv, ParsePart, OrderPart, PassPart, CodegenPart

-----------------------------------------------------------------------------
(***************************************************************************)
(* The steps of compile(), and the answers.                                *)
(***************************************************************************)
LEMMA WorkServes ==
  ASSUME ServingStep, Work
  PROVE  CompileInv'
<1>1. CASE \/ ParseSource \/ SkipImport \/ (\E t \in Sessions[session].texts : FetchImport(t))
           \/ MissImport \/ AddFetched \/ EndParse
  BY <1>1, ParseSourceServes, LoadingServes, EndParseServes
<1>2. CASE ResolveImports \/ EndResolveImports
  BY <1>2, ResolveImportsServes, EndResolveImportsServes
<1>3. CASE AnalyzeSource \/ NextPass \/ EndAnalyze
  BY <1>3, AnalyzeSourceServes, NextPassServes, EndAnalyzeServes
<1>4. CASE TakeContract \/ GenerateCode \/ EndCompile
  BY <1>4, TakeContractServes, GenerateCodeServes, EndCompileServes
<1>5. CASE \E d \in Names : CompileDependency(d)
  BY <1>5, CompileDependencyServes
<1> QED
  BY <1>1, <1>2, <1>3, <1>4, <1>5 DEF Work

\* Every step of compile() keeps the answer it is bound for.
LEMMA CompileStepAnswerInv ==
  ASSUME StdInv, AnswerInv, CompileStep
  PROVE  AnswerInv'
<1>1. /\ StdNext /\ request.phase = "running" /\ Work /\ UNCHANGED <<request, answers>>
  BY DEF StdNext, Serve, CompileStep
<1>2. request # NoRequest /\ IInv'
  BY <1>1, RequestFacts, WorkIInv DEF StdInv
<1>3. ASSUME ~LimitUsedUp', SuppliesImports(request'.input) PROVE Progress'
  <2>1. Progress /\ ~LimitUsedUp
    BY <1>1, <1>2, <1>3, StillAllowed DEF AnswerInv
  <2>2. ServingStep
    BY <1>1, <1>2, <1>3, <2>1 DEF ServingStep, Progress
  <2>3. CompileInv'
    BY <1>1, <2>2, WorkServes
  <2>4. ReadInv' /\ ReadyInv' /\ SettledInv'
    BY <1>1, <2>1 DEF Progress, ReadInv, ReadyInv, SettledInv
  <2> QED
    BY <2>3, <2>4 DEF Progress
<1> QED
  BY <1>1, <1>3, NoAnswer

\* A request that compile() has been through.
LEMMA ServedFacts ==
  ASSUME StdInv, AnswerInv, Compiled, ~LimitUsedUp, SuppliesImports(request.input)
  PROVE  /\ ~Refused(request.input) /\ EndPart /\ Present = Accepted(request.input)
         /\ request.errors = ComplaintsOf(request.input)
<1> DEFINE input == request.input
           s == EntryOrder(input)
<1>1. request.phase = "running" /\ call.phase = "idle"
  BY DEF Compiled
<1>2. request # NoRequest /\ input \in Requests
  BY <1>1, RequestFacts DEF StdInv, RequestPhases
<1>3. Progress
  BY <1>2 DEF AnswerInv
<1>4. EndPart /\ GivenInv
  BY <1>1, <1>3 DEF Progress, CompileInv
<1>5. request.left = <<>> /\ input.evmVersion # "invalid" /\ input.libraries # "invalid"
  BY <1>1, <1>3 DEF Progress, SettledInv
<1>6. Elements(request.left) = {}
  BY <1>5 DEF Elements
<1>7. ~Refused(input)
  BY <1>3, <1>5, <1>6 DEF Progress, ReadInv, Refused
<1>8. s \in Seq(Names) /\ Len(s) \in Nat
  BY EntryOrderFacts
<1>9. PICK k \in 0 .. Len(s) : \E f : /\ Collects(input, k, f) /\ request.errors = f[k]
                                      /\ request.left = SubSeq(s, k + 1, Len(s))
  BY <1>3 DEF Progress, ReadInv
<1>10. PICK f : /\ Collects(input, k, f) /\ request.errors = f[k]
                /\ request.left = SubSeq(s, k + 1, Len(s))
  BY <1>9
<1>11. k = Len(s)
  <2> HIDE DEF s
  <2> QED
    BY <1>5, <1>8, <1>10, RestFacts
<1>12. request.errors = ComplaintsOf(input)
  BY <1>8, <1>10, <1>11, ComplaintsCollected
<1> QED
  BY <1>2, <1>4, <1>7, <1>12, GivenFacts

\* What compile() throws, and when.
LEMMA ThrownFacts ==
  ASSUME EndPart, call.phase = "idle"
  PROVE  /\ request.input.secbit => Thrown = <<>>
         /\ ~request.input.secbit =>
              Thrown = IF Accepts(request.input) /\ LacksCode(request.input)
                         THEN <<Message("InternalCompilerError", FALSE)>> ELSE <<>>
<1>1. request.input.secbit => result \in {"compileRefused", "false", "true"}
  BY DEF EndPart
<1>2. ~request.input.secbit =>
        /\ stackState = CompilationSuccessful <=> Compiles(request.input)
        /\ result = IF stackState = CompilationSuccessful THEN "true"
                    ELSE IF Accepts(request.input) THEN "assertCompiledContract"
                    ELSE IF stackState = Empty THEN "compileRefused" ELSE "false"
  BY DEF EndPart
<1>3. result \in {"compileRefused", "false", "true"} => Thrown = <<>>
  BY DEF Thrown
<1>4. result = "assertCompiledContract" => Thrown = <<Message("InternalCompilerError", FALSE)>>
  BY DEF Thrown
<1>5. Accepts(request.input) /\ LacksCode(request.input)
        <=> Accepts(request.input) /\ ~Compiles(request.input)
  BY DEF Compiles
<1> QED
  BY <1>1, <1>2, <1>3, <1>4, <1>5 DEF Compiles

\* The answer in SECBIT's format, which counts warnings only.
LEMMA AnswerSECBITAnswerInv ==
  ASSUME StdInv, AnswerInv, AnswerSECBIT
  PROVE  AnswerInv'
<1> DEFINE input == request.input
           reply == SECBITReply(input.tagsWanted)
<1>1. StdNext /\ Compiled /\ input.secbit /\ Finish(input, reply)
  BY DEF StdNext, Serve, AnswerSECBIT, OnlySECBIT
<1>2. ASSUME ~LimitUsedUp', SuppliesImports(input) PROVE reply = AnswerTo(input)
  <2>1. ~LimitUsedUp
    BY <1>1, <1>2, StillAllowed
  <2>2. ~Refused(input) /\ EndPart
    BY <1>1, <1>2, <2>1, ServedFacts
  <2>3. SECBITs = IF ReachesEnd(input) THEN Cardinality(SECBITFound(input)) ELSE 0
    BY <1>1, <2>2 DEF EndPart, Compiled
  <2>4. (IF input.tagsWanted THEN SECBITs ELSE 0)
          = IF input.tagsWanted /\ ReachesEnd(input) THEN Cardinality(SECBITFound(input)) ELSE 0
    BY <2>3
  <2>5. reply = SECBITAnswer(input)
    BY <2>4 DEF SECBITReply, SECBITAnswer, SECBITs
  <2> QED
    BY <1>1, <2>2, <2>5 DEF AnswerTo
<1> HIDE DEF reply
<1> QED
  BY <1>1, <1>2, RightAnswer

\* The answer that reports an internal error.
LEMMA AnswerInconsistentAnswerInv ==
  ASSUME StdInv, AnswerInv, AnswerInconsistent
  PROVE  AnswerInv'
<1> DEFINE input == request.input
           reply == FatalReply("InternalCompilerError")
<1>1. StdNext /\ Compiled /\ ~OnlySECBIT /\ Inconsistent /\ Finish(input, reply)
  BY DEF StdNext, Serve, AnswerInconsistent
<1>2. ASSUME ~LimitUsedUp', SuppliesImports(input) PROVE reply = AnswerTo(input)
  <2>1. ~LimitUsedUp
    BY <1>1, <1>2, StillAllowed
  <2>2. ~Refused(input) /\ EndPart /\ request.errors = ComplaintsOf(input) /\ call.phase = "idle"
    BY <1>1, <1>2, <2>1, ServedFacts DEF Compiled
  <2>3. ~input.secbit
    BY <1>1, <2>2, ThrownFacts DEF OnlySECBIT
  <2>4. Errors = ErrorsOf(input)
    BY <2>2, <2>3, ThrownFacts DEF Errors, ErrorsOf
  <2>5. ~Compiles(input) /\ ErrorsOf(input) = <<>>
    BY <1>1, <2>2, <2>3, <2>4 DEF Inconsistent, EndPart
  <2>6. FullAnswer(input) = reply
    BY <2>5 DEF FullAnswer
  <2> QED
    BY <2>2, <2>3, <2>6 DEF AnswerTo
<1> HIDE DEF reply
<1> QED
  BY <1>1, <1>2, RightAnswer

\* What is handed out for a contract.
LEMMA OutputFacts ==
  ASSUME StdInv, EndPart, call.phase = "idle", ~request.input.secbit,
         stackState = CompilationSuccessful, NEW n \in Names
  PROVE  Output(n) = OutputOf(request.input, n)
<1> DEFINE input == request.input
           wants == isArtifactRequested(input.selection, n, n, "bytecode")
           object == [code |-> contracts[n].code, linked |-> contracts[n].linked,
                      sourceMapping |-> MappedContracts[n].sourceMapping]
<1>1. IF n \in Visited(input) /\ TextOf(input, n).contract # "none"
        THEN /\ contracts[n] # None /\ contracts[n].sourceMapping = None
             /\ contracts[n].code = CodeOf(input, n)
             /\ contracts[n].linked = ObjectOf(input, n).linked
        ELSE contracts[n] = None
  BY DEF EndPart
<1>2. CASE contracts[n] = None
  <2>1. n \notin Visited(input) \/ TextOf(input, n).contract = "none"
    BY <1>1, <1>2
  <2> QED
    BY <1>2, <2>1 DEF Output, OutputOf
<1>3. CASE contracts[n] # None
  <2>1. /\ ~(n \notin Visited(input) \/ TextOf(input, n).contract = "none")
        /\ contracts[n].sourceMapping = None /\ contracts[n].code = CodeOf(input, n)
        /\ contracts[n].linked = ObjectOf(input, n).linked
    BY <1>1, <1>3
  <2>2. wants => MappedContracts[n].sourceMapping = CodeOf(input, n)
    BY <1>3, <2>1, MappedFacts DEF StdInv, IInv, WantsBytecode
  <2>3. ObjectOf(input, n) = [code |-> CodeOf(input, n), linked |-> ObjectOf(input, n).linked,
                              sourceMapping |-> CodeOf(input, n)]
    BY DEF ObjectOf
  <2>4. wants => object = ObjectOf(input, n)
    BY <2>1, <2>2, <2>3
  <2>5. Output(n) = [abi |-> isArtifactRequested(input.selection, n, n, "abi"),
                     bytecode |-> IF wants THEN {object} ELSE {}]
    BY <1>3 DEF Output, WantsBytecode, EVMObject
  <2>6. OutputOf(input, n) = [abi |-> isArtifactRequested(input.selection, n, n, "abi"),
                              bytecode |-> IF wants THEN {ObjectOf(input, n)} ELSE {}]
    BY <2>1 DEF OutputOf
  <2> HIDE DEF object, wants
  <2> QED
    BY <2>4, <2>5, <2>6
<1> QED
  BY <1>2, <1>3

\* The full answer, with errors, sources and contracts.
LEMMA AnswerFullAnswerInv ==
  ASSUME StdInv, AnswerInv, AnswerFull
  PROVE  AnswerInv'
<1> DEFINE input == request.input
           reply == FullReply(Errors)
<1>1. StdNext /\ Compiled /\ ~OnlySECBIT /\ ~Inconsistent /\ Finish(input, reply)
  BY DEF StdNext, Serve, AnswerFull
<1>2. ASSUME ~LimitUsedUp', SuppliesImports(input) PROVE reply = AnswerTo(input)
  <2>1. ~LimitUsedUp
    BY <1>1, <1>2, StillAllowed
  <2>2. /\ ~Refused(input) /\ EndPart /\ request.errors = ComplaintsOf(input)
        /\ call.phase = "idle" /\ Present = Accepted(input)
    BY <1>1, <1>2, <2>1, ServedFacts DEF Compiled
  <2>3. ~input.secbit
    BY <1>1, <2>2, ThrownFacts DEF OnlySECBIT
  <2>4. Errors = ErrorsOf(input)
    BY <2>2, <2>3, ThrownFacts DEF Errors, ErrorsOf
  <2>5. /\ stackState >= AnalysisSuccessful <=> Accepts(input)
        /\ stackState = CompilationSuccessful <=> Compiles(input)
    BY <2>2, <2>3 DEF EndPart
  <2>6. ~(~Compiles(input) /\ ErrorsOf(input) = <<>>)
    BY <1>1, <2>4, <2>5 DEF Inconsistent
  <2> DEFINE files == IF Accepts(input) THEN Accepted(input) ELSE {}
             asts == {n \in files : isArtifactRequested(input.selection, n, "", "ast")}
             outputs == IF Compiles(input) THEN [n \in Names |-> OutputOf(input, n)]
                        ELSE NoContracts
  <2>7. (IF stackState >= AnalysisSuccessful THEN Present ELSE {}) = files
    BY <2>2, <2>5
  <2>8. (IF stackState = CompilationSuccessful THEN [n \in Names |-> Output(n)]
         ELSE NoContracts) = outputs
    <3>1. CASE Compiles(input)
      <4>1. \A n \in Names : Output(n) = OutputOf(input, n)
        BY <2>2, <2>3, <2>5, <3>1, OutputFacts
      <4> QED
        BY <2>5, <3>1, <4>1
    <3>2. CASE ~Compiles(input)
      BY <2>5, <3>2
    <3> QED
      BY <3>1, <3>2
  <2>9. FullAnswer(input) = Reply(ErrorsOf(input), files, asts, outputs)
    BY <2>6 DEF FullAnswer
  <2>10. reply = Reply(Errors, files, asts, outputs)
    <3> HIDE DEF files, outputs
    <3> QED
      BY <2>7, <2>8 DEF FullReply
  <2> HIDE DEF reply, files, asts, outputs
  <2> QED
    BY <2>2, <2>3, <2>4, <2>9, <2>10 DEF AnswerTo
<1> HIDE DEF reply
<1> QED
  BY <1>1, <1>2, RightAnswer

\* Before the first request nothing was answered.
LEMMA AnswerInit ==
  ASSUME StdInit
  PROVE  AnswerInv
  BY DEF StdInit, AnswerInv

\* A step of something else changes nothing of this.
LEMMA AnswerStutter ==
  ASSUME AnswerInv, UNCHANGED stdVars
  PROVE  AnswerInv'
<1>1. UNCHANGED <<request, answers, reporter, stackState, sources, sourceOrder, scopes,
                  contracts, call, search, result>>
  BY DEF stdVars, vars
<1>2. \A i \in DOMAIN answers : Determined(answers[i])' <=> Determined(answers[i])
  BY <1>1 DEF Determined, LimitUsedUp
<1>3. ReadInv' /\ ReadyInv' /\ SettledInv' <=> ReadInv /\ ReadyInv /\ SettledInv
  BY <1>1 DEF ReadInv, ReadyInv, SettledInv, Present
<1>4. CompileInv => CompileInv'
  <2>1. GivenInv' <=> GivenInv
    BY <1>1 DEF GivenInv
  <2>2. SECBITs' = SECBITs /\ SECBITDone' = SECBITDone
    BY <1>1 DEF SECBITs, SECBITDone, Done
  <2>3. ParsePart' /\ OrderPart' <=> ParsePart /\ OrderPart
    BY <1>1, <2>2 DEF ParsePart, OrderPart
  <2>4. PassPart' /\ CodegenPart' <=> PassPart /\ CodegenPart
    BY <1>1, <2>2 DEF PassPart, CodegenPart, Done, Analysed, Ast
  <2>5. EndPart' <=> EndPart
    BY <1>1, <2>2 DEF EndPart
  <2> QED
    BY <1>1, <2>1, <2>3, <2>4, <2>5 DEF CompileInv
<1> QED
  BY <1>1, <1>2, <1>3, <1>4 DEF AnswerInv, Progress, LimitUsedUp

-----------------------------------------------------------------------------
\* Every answer is the one AnswerTo gives for its request, which looks at
\* nothing but the request, whatever the stack has been through: as long as
\* the limit of errors is not used up, of the requests that supply what their
\* sources import.
THEOREM AnswersAreDetermined == StdSpec => []AnswerInv
<1>1. StdInit => AnswerInv
  BY AnswerInit
<1>2. StdInv /\ AnswerInv /\ [StdNext]_stdVars => AnswerInv'
  <2> SUFFICES ASSUME StdInv, AnswerInv, [StdNext]_stdVars PROVE AnswerInv'
    OBVIOUS
  <2>1. CASE \E r \in Requests : Receive(r)
    BY <2>1, ReceiveAnswerInv
  <2>2. CASE ReadEntry
    BY <2>2, ReadEntryAnswerInv
  <2>3. CASE ApplyEVMVersion \/ ApplyOptimizer \/ ApplyLibraries \/ ApplySelection
    BY <2>3, SettingsAnswerInv
  <2>4. CASE RunCompile \/ CompileStep
    BY <2>4, RunCompileAnswerInv, CompileStepAnswerInv
  <2>5. CASE AnswerSECBIT \/ AnswerInconsistent \/ AnswerFull
    BY <2>5, AnswerSECBITAnswerInv, AnswerInconsistentAnswerInv, AnswerFullAnswerInv
  <2>6. CASE UNCHANGED stdVars
    BY <2>6, AnswerStutter
  <2> QED
    BY <2>1, <2>2, <2>3, <2>4, <2>5, <2>6 DEF StdNext, Serve
<1> QED
  BY <1>1, <1>2, ServiceInvariant, PTL DEF StdSpec

\* The same request gets the same answer however many requests the stack has
\* served in between.
THEOREM SameAnswerAgain == StdSpec => []AnswersAreRepeatable
<1>1. StdInv /\ AnswerInv => AnswersAreRepeatable
  <2> SUFFICES ASSUME StdInv, AnswerInv, Answered, ~LimitUsedUp,
                      SuppliesImports(Latest.input), NEW i \in DOMAIN answers,
                      answers[i].input = Latest.input
               PROVE  answers[i].reply = Latest.reply
    BY DEF AnswersAreRepeatable
  <2>1. answers \in Seq(Elements(answers)) /\ answers # <<>>
    BY DEF StdInv, AnswersInv, Answered
  <2>2. Len(answers) \in DOMAIN answers
    BY <2>1
  <2>3. Determined(answers[i]) /\ Determined(Latest)
    BY <2>2 DEF AnswerInv, Latest
  <2> QED
    BY <2>3 DEF Determined
<1> QED
  BY <1>1, ServiceInvariant, AnswersAreDetermined, PTL

=============================================================================

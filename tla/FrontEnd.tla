------------------------------- MODULE FrontEnd -------------------------------
(****************************************************************************)
(* The way of a program through the front end, in the order of              *)
(* CompilerStack::parse and CompilerStack::analyze: the parser, the syntax  *)
(* checker, the registration of the declarations, the imports, the          *)
(* contracts one after the other, the type checker, and the checks that run *)
(* when nothing was reported.  A program is a text for each of its units, in*)
(* the order that puts imported units first (module ImportOrder).           *)
(*                                                                          *)
(* A program may also be open: then it is typed in, one word of its         *)
(* alphabet after the other, as long as the parser wants more.              *)
(****************************************************************************)
EXTENDS Parser, SyntaxChecker, ContractChecks, ControlFlow, StaticAnalyzer,
        Meaning

CONSTANT Programs          \* the programs to compile

VARIABLES program,         \* [open, order, texts, alphabet, limit]
          typed,           \* what has been typed of an open program
          stage,           \* the stage that comes next, or how it ended
          parsed,          \* what the parser made of each text
          noErrors,        \* whether the checks so far were content
          checker,         \* the syntax checker
          resolver,        \* scopes and annotations
          contracts,       \* the contracts left to resolve
          graph,           \* the control flow graphs
          found            \* what the type checker and the checks behind it found
vars == <<program, typed, stage, parsed, noErrors, checker, resolver, contracts,
          graph, found>>

Trees == [u \in DOMAIN parsed |-> parsed[u].unit]

Nothing == [types |-> NewTypeChecker, cyclic |-> {}, unassigned |-> <<>>,
            static |-> NewStaticAnalyzer, mutability |-> NewViewPureChecker]

Init == /\ program \in Programs
        /\ typed = <<>>
        /\ stage = "parse"
        /\ parsed = <<>>
        /\ noErrors = TRUE
        /\ checker = NewSyntaxChecker
        /\ resolver = NewResolver(<<>>)
        /\ contracts = <<>>
        /\ graph = EmptyGraph
        /\ found = Nothing

----------------------------------------------------------------------------
(* An open program is completed with what closes its text.                  *)
TypedTexts(p, tokens) ==
    [u \in {"whole", "typed"} |->
        p.texts["before"] \o tokens \o IF u = "whole" THEN p.texts["after"] ELSE <<>>]
WantsMore(p, tokens, outcome) ==
    Len(tokens) < p.limit /\ outcome.at > Len(p.texts["before"] \o tokens)

(* What is parsed next: the texts of the program, or one word more.         *)
Inputs == IF program.open
          THEN {[typed |-> typed \o w, texts |-> TypedTexts(program, typed \o w)] :
                   w \in program.alphabet}
          ELSE {[typed |-> <<>>, texts |-> program.texts]}

AfterParsing(p, tokens, outcomes) ==
    CASE p.open -> IF WantsMore(p, tokens, outcomes["typed"]) THEN "parse" ELSE "typed"
      [] ~p.open /\ \E u \in DOMAIN outcomes : outcomes[u].failed -> "rejected"
      [] OTHER -> "syntax"

Parse == /\ stage = "parse"
         /\ \E input \in Inputs :
               \E outcomes \in {[u \in DOMAIN input.texts |-> parse(input.texts[u])]} :
                  /\ typed' = input.typed
                  /\ parsed' = outcomes
                  /\ stage' = AfterParsing(program, input.typed, outcomes)
         /\ UNCHANGED <<program, noErrors, checker, resolver, contracts, graph, found>>

RECURSIVE CheckUnits(_, _, _)
CheckUnits(c, units, order) ==
    IF order = <<>> THEN c
    ELSE CheckUnits(checkSyntax(c, Head(order), units[Head(order)]), units, Tail(order))

CheckSyntax ==
    /\ stage = "syntax"
    /\ \E c \in {CheckUnits(checker, Trees, program.order)} :
          /\ checker' = c
          /\ noErrors' = (c.errors = {})
    /\ stage' = "register"
    /\ UNCHANGED <<program, typed, parsed, resolver, contracts, graph, found>>

RECURSIVE RegisterUnits(_, _, _)
RegisterUnits(r, units, order) ==
    IF order = <<>> THEN r
    ELSE RegisterUnits(registerDeclarations(units, r, Head(order)), units, Tail(order))

RegisterDeclarations ==
    /\ stage = "register"
    /\ resolver' = RegisterUnits(NewResolver(checker.features), Trees, program.order)
    /\ stage' = "imports"
    /\ UNCHANGED <<program, typed, parsed, noErrors, checker, contracts, graph, found>>

(* The first unit whose imports fail ends the analysis.                     *)
RECURSIVE ImportUnits(_, _, _)
ImportUnits(r, units, order) ==
    IF order = <<>> \/ ~r.success THEN r
    ELSE ImportUnits(performImports(units, r, Head(order)), units, Tail(order))

ContractsIn(units, u) ==
    SelectSeq([k \in DOMAIN units[u].nodes |-> Id(u, <<k>>)],
              LAMBDA id : KindOf(units, id) = "ContractDefinition")

AllContracts == FlattenSeq([k \in DOMAIN program.order |->
                              ContractsIn(Trees, program.order[k])])

PerformImports ==
    /\ stage = "imports"
    /\ \E r \in {ImportUnits(resolver, Trees, program.order)} :
          /\ resolver' = r
          /\ stage' = IF r.success THEN "contracts" ELSE "rejected"
    /\ contracts' = AllContracts
    /\ UNCHANGED <<program, typed, parsed, noErrors, checker, graph, found>>

(* One contract; the first that fails ends the analysis.                    *)
ResolveContract ==
    /\ stage = "contracts"
    /\ contracts # <<>>
    /\ \E r \in {resolveNamesAndTypes(Trees,
                    updateDeclaration(updateDeclaration(resolver, "this"), "super"),
                    Head(contracts))} :
          /\ resolver' = r
          /\ stage' = CASE r.crash -> "failed"
                        [] ~r.crash /\ ~r.success -> "rejected"
                        [] OTHER -> stage
    /\ contracts' = Tail(contracts)
    /\ UNCHANGED <<program, typed, parsed, noErrors, checker, graph, found>>

(* The contracts one after the other; what the other passes reported before *)
(* counts as well.                                                          *)
RECURSIVE CheckContracts(_, _, _, _)
CheckContracts(units, r, k, ids) ==
    IF ids = <<>> \/ k.fatal \/ k.crash THEN k
    ELSE CheckContracts(units, r, checkTypeRequirements(units, r, k, Head(ids)), Tail(ids))

CheckTypes ==
    /\ stage = "contracts"
    /\ contracts = <<>>
    /\ \E k \in {CheckContracts(Trees, resolver, NewTypeChecker, AllContracts)} :
          /\ found' = [found EXCEPT !.types = k]
          /\ noErrors' = /\ noErrors
                         /\ resolver.errors = <<>>
                         /\ \A x \in k.findings : x.severity = "warning"
          /\ stage' = CASE k.crash -> "failed"
                        [] ~k.crash /\ noErrors' -> "post"
                        [] OTHER -> "rejected"
    /\ UNCHANGED <<program, typed, parsed, checker, resolver, contracts, graph>>

RECURSIVE PostCheckUnits(_, _, _, _)
PostCheckUnits(units, r, p, order) ==
    IF order = <<>> THEN p
    ELSE PostCheckUnits(units, r, checkPostTypes(units, r, p, Head(order)), Tail(order))

PostTypeCheck ==
    /\ stage = "post"
    /\ \E p \in {PostCheckUnits(Trees, resolver, NewPostTypeChecker, program.order)} :
          /\ found' = [found EXCEPT !.cyclic = p.cyclic]
          /\ stage' = CASE p.crash -> "failed"
                        [] ~p.crash /\ p.cyclic # {} -> "rejected"
                        [] OTHER -> "graph"
    /\ UNCHANGED <<program, typed, parsed, noErrors, checker, resolver, contracts, graph>>

RECURSIVE ConstructUnits(_, _, _, _)
ConstructUnits(units, r, g, order) ==
    IF order = <<>> \/ g.failed THEN g
    ELSE ConstructUnits(units, r, constructFlow(units, r, g, Head(order)), Tail(order))

ConstructFlow ==
    /\ stage = "graph"
    /\ \E g \in {ConstructUnits(Trees, resolver, graph, program.order)} :
          /\ graph' = g
          /\ stage' = IF g.failed THEN "failed" ELSE "flow"
    /\ UNCHANGED <<program, typed, parsed, noErrors, checker, resolver, contracts, found>>

AnalyzeFlow ==
    /\ stage = "flow"
    /\ found' = [found EXCEPT !.unassigned =
                    [f \in DOMAIN graph.functions |->
                        checkUnassignedStorageReturnValues(Trees, resolver, graph, f)]]
    /\ stage' = "static"
    /\ UNCHANGED <<program, typed, parsed, noErrors, checker, resolver, contracts, graph>>

RECURSIVE AnalyzeUnits(_, _, _, _)
AnalyzeUnits(units, r, a, order) ==
    IF order = <<>> THEN a
    ELSE AnalyzeUnits(units, r, analyzeStatically(units, r, a, Head(order)), Tail(order))

AnalyzeStatically ==
    /\ stage = "static"
    /\ \E a \in {AnalyzeUnits(Trees, resolver, NewStaticAnalyzer, program.order)} :
          /\ found' = [found EXCEPT !.static = a]
          /\ stage' = CASE a.crash -> "failed"
                        [] ~a.crash /\ a.errors # {} -> "rejected"
                        [] OTHER -> "mutability"
    /\ UNCHANGED <<program, typed, parsed, noErrors, checker, resolver, contracts, graph>>

CheckMutability ==
    /\ stage = "mutability"
    /\ \E v \in {checkMutability(Trees, resolver)} :
          /\ found' = [found EXCEPT !.mutability = v]
          /\ stage' = CASE v.crash -> "failed"
                        [] ~v.crash /\ v.errors # {} -> "rejected"
                        [] OTHER -> "accepted"
    /\ UNCHANGED <<program, typed, parsed, noErrors, checker, resolver, contracts, graph>>

Next == \/ Parse \/ CheckSyntax \/ RegisterDeclarations \/ PerformImports
        \/ ResolveContract \/ CheckTypes \/ PostTypeCheck \/ ConstructFlow
        \/ AnalyzeFlow \/ AnalyzeStatically \/ CheckMutability

Spec == Init /\ [][Next]_vars

----------------------------------------------------------------------------
(* What the front end promises.                                             *)

Bare(text) == SelectSeq(text, LAMBDA t : t \notin {"(", ")"})
DeclaresOne(unit) ==
    \E events \in {Accept(NoId, unit, {})} :
       \E k \in DOMAIN events :
          /\ events[k].n.node = "VariableDeclarationStatement"
          /\ Len(events[k].n.variables) = 1
(* The braces of an empty list of named arguments leave no trace.           *)
EmptyNames(text, k) == k + 2 <= Len(text)
                       /\ SubSeq(text, k, k + 2) = <<"(", "{", "}">>
WithoutEmptyNames(text) ==
    LET kept == SelectSeq([k \in DOMAIN text |-> k],
                          LAMBDA k : ~\E j \in {k - 1, k - 2} : j > 0 /\ EmptyNames(text, j))
    IN  [k \in DOMAIN kept |-> text[kept[k]]]
WrittenLike(unit, text) ==
    \/ Written(unit) = text
    \/ DeclaresOne(unit) /\ Bare(Written(unit)) = Bare(text)
ReadBack(text, outcome) ==
    ~outcome.failed => /\ Canonical(outcome.unit)
                       /\ WrittenLike(outcome.unit, WithoutEmptyNames(text))

(* The tree of a text that parses is written as that text, its operators    *)
(* group as documented, except that the branch after the colon of a         *)
(* conditional takes an assignment, and an else belongs to the nearest if;  *)
(* only the parentheses around a single declaration and the braces of an    *)
(* empty list of named arguments are lost.  Every text of a complete        *)
(* program parses (Parser::parse).                                          *)
ParsedAsWritten ==
    [][parsed' # parsed =>
         \A u \in DOMAIN parsed' :
            /\ ReadBack(IF program.open THEN TypedTexts(program, typed')[u]
                        ELSE program.texts[u], parsed'[u])
            /\ ~program.open => ~parsed'[u].failed]_vars

Said(r, what) == {e.id : e \in {x \in ToSet(r.errors) : x.what = what}}
Resolving == stage = "contracts" /\ contracts # <<>>

(* The order of the bases of a contract holds the contract and everything   *)
(* it is derived from once, keeps the order of every base and the reverse   *)
(* of the written list; a contract is only refused for its bases when there *)
(* is no such order (NameAndTypeResolver::linearizeBaseContracts).          *)
Linearised ==
    [][Resolving =>
         /\ \A c \in DOMAIN resolver'.linearized \ DOMAIN resolver.linearized :
               IsLinearization(Trees, resolver', c, resolver'.linearized[c])
         /\ \A c \in Said(resolver', "Linearization of inheritance graph impossible") :
               ~HasLinearization(Trees, resolver', c)]_vars

UnitsImported(units, unit) == {n.path : n \in ImportsIn(units, unit)}
RECURSIVE ImportedFrom(_, _)
ImportedFrom(units, seen) ==
    LET all == seen \cup UNION {UnitsImported(units, u) : u \in seen}
    IN  IF all = seen THEN seen ELSE ImportedFrom(units, all)
ImportsInCycle(units) ==
    \E u \in DOMAIN units : u \in ImportedFrom(units, UnitsImported(units, u))

NameMeans(units, r, nodes, id) ==
    IF KindOf(units, id) = "Identifier"
    THEN MeaningOf(units, r, nodes, NodeAt(units, id).name, id)
    ELSE PathMeaning(units, r, nodes, NodeAt(units, id).path, id)

(* An identifier or the name of a type refers to what it means by the rules *)
(* of scoping, inheritance and imports, and is only refused when it means   *)
(* nothing, or nothing definite; not said of a program with a name declared *)
(* twice.  Units that import each other in a cycle may see less than they   *)
(* should, never anything else (ReferencesResolver, NameAndTypeResolver).   *)
NamesResolved ==
    [][(Resolving /\ Said(resolver', "Identifier already declared.") = {}) =>
         \E nodes \in {NodesOf(Trees)} :
            \E inContract \in {NodesIn(Trees, Head(contracts))} :
               /\ \A id \in DOMAIN resolver'.refs \cap inContract :
                     ToSet(resolver'.refs[id]) \subseteq NameMeans(Trees, resolver', nodes, id)
               /\ ImportsInCycle(Trees) \/
                  /\ \A id \in DOMAIN resolver'.refs \cap inContract :
                        NameMeans(Trees, resolver', nodes, id)
                        \subseteq ToSet(resolver'.refs[id])
                  /\ \A id \in Said(resolver', "Undeclared identifier.") :
                        NameMeans(Trees, resolver', nodes, id) = {}
                  /\ \A id \in Said(resolver', "Identifier not found or not unique.") :
                        Cardinality(NameMeans(Trees, resolver', nodes, id)) # 1]_vars

ChecksTypes == stage = "contracts" /\ contracts = <<>>
(* What a call of f promises also holds for g, unless f is the declaration  *)
(* of an interface and g a public function.                                 *)
Keeps(units, r, g, f) ==
    \/ StandsForInterface(units, r, g, f)
    \/ /\ VisibilityOf(NodeAt(units, g)) = VisibilityOf(NodeAt(units, f))
       /\ NodeAt(units, g).mutability = NodeAt(units, f).mutability
       /\ ReturnTypes(units, r, g) = ReturnTypes(units, r, f)
Gives(units, r, c, base) ==
    \/ \E k \in DOMAIN NodeAt(units, c).bases :
          /\ NamedBase(r, Child(c, k)) = base
          /\ NodeAt(units, c).bases[k].arguments # <<>>
    \/ \E m \in ToSet(ConstructorModifiers(units, c)) :
          /\ Head(Dereferenced(r, m)) = base
          /\ NodeAt(units, m).arguments # <<>>
Needs(units, base) == ConstructorParameters(units, base) > 0

(* In a well typed program, a contract that leaves nothing open, of which   *)
(* code is generated, answers each call of one of its functions or of super *)
(* with a function that has a body and keeps what the called one promises,  *)
(* and each constructor of a base gets its arguments; a contract that leaves*)
(* something open would fail one of these.  A call from outside finds the   *)
(* function a call from inside would.  Of super only calls that mean a      *)
(* function with a body (TypeChecker, ContractDefinition, CompilerContext). *)
CallsReachBodies ==
    [][ChecksTypes /\ noErrors' =>
         \A c \in DOMAIN found'.types.unimplemented :
            LET order == resolver.linearized[c]
                fs == ToSet(FunctionsAlong(Trees, order))
                reached(f) == resolveVirtualFunction(Trees, resolver, c, f)
            IN  /\ (found'.types.unimplemented[c] = {})
                   <=> /\ \A f \in fs : IsImplemented(Trees, reached(f))
                       /\ \A b \in {x \in ToSet(Tail(order)) : Needs(Trees, x)} :
                             \E d \in ToSet(order) : Gives(Trees, resolver, d, b)
                /\ \A f \in {d \in interfaceFunctionList(Trees, resolver, c) :
                                KindOf(Trees, d) = "FunctionDefinition"} : reached(f) = f
                /\ fallbackFunction(Trees, resolver, c) # NoId =>
                      LET f == fallbackFunction(Trees, resolver, c) IN reached(f) = f
                /\ \A f \in fs : reached(f) # f => Keeps(Trees, resolver, reached(f), f)
                /\ \A b \in ToSet(order) :
                      \A f \in SuperMembers(Trees, resolver, b) :
                         IsImplemented(Trees, f) =>
                           IsImplemented(Trees, superFunction(Trees, resolver, c, f, b))]_vars

(* A storage pointer is reported as returned unassigned exactly when some   *)
(* path through the function leaves it so; of a function with modifiers     *)
(* only that what is reported is true (ControlFlowAnalyzer).                *)
ReturnsAssigned ==
    [][stage = "flow" =>
         \A f \in DOMAIN found'.unassigned :
            /\ found'.unassigned[f] \subseteq LeftOpen(Trees, resolver, f)
            /\ NodeAt(Trees, f).modifiers = <<>> =>
                  LeftOpen(Trees, resolver, f) \subseteq found'.unassigned[f]]_vars

FunctionsOf(units) == {id \in NodesOf(units) : KindOf(units, id) = "FunctionDefinition"}

(* In an accepted program a pure function, with all it calls and its        *)
(* modifiers, touches no state, and a view function changes none unless     *)
(* there is a warning on the way (ViewPureChecker).                         *)
PromisesKept ==
    [][stage' = "accepted" =>
         \A f \in FunctionsOf(Trees) :
            \E called \in {Reached(Trees, resolver, {f}, {f})} :
               LET effects == Effects(Trees, resolver, called)
                   warned == \E w \in found'.mutability.warnings : w.in \in called
                   promise == NodeAt(Trees, f).mutability
               IN  /\ promise = "pure" => effects = {}
                   /\ promise = "view" /\ "write" \in effects => warned]_vars

(* The variables reported as unused are those no expression of their        *)
(* function refers to (StaticAnalyzer).                                     *)
UnusedFound ==
    [][stage = "static" =>
         {w.id : w \in {x \in found'.static.warnings :
                           x.what \in {"Unused function parameter.",
                                       "Unused local variable."}}}
         = UNION {UnusedIn(Trees, resolver, f) :
                     f \in {g \in FunctionsOf(Trees) : NodeAt(Trees, g).body # Null}}]_vars

(* A program is refused for its constants exactly when one of them has no   *)
(* value, and only those are named (PostTypeChecker).                       *)
ConstantsGrounded ==
    [][stage = "post" =>
         \E all \in {ConstantsOf(Trees, NodesOf(Trees))} :
            \E open \in {all \ Grounded(Trees, resolver, all, {})} :
               /\ found'.cyclic \subseteq open
               /\ open # {} => found'.cyclic # {}]_vars

(* No program makes an assertion of the analysis fail, but for one that     *)
(* declares a name twice in a block under the rules of 0.5.0, or has a      *)
(* constructor with an overloaded function for a modifier.                  *)
NoInternalErrors ==
    [][stage' = "failed" =>
         \/ \E d \in Said(resolver', "Identifier already declared.") :
               /\ V050(resolver', d.unit)
               /\ KindOf(Trees, resolver'.scopeOf[d]) \in CodeScopes
         \/ \E c \in ToSet(AllContracts) :
               \E m \in ToSet(ConstructorModifiers(Trees, c)) :
                  Cardinality(ToSet(resolver'.refs[Child(m, 1)])) > 1]_vars
=============================================================================

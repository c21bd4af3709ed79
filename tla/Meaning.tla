------------------------------- MODULE Meaning -------------------------------
(****************************************************************************)
(* What the analysis is held to, stated on the syntax tree alone: which     *)
(* declaration a name means where it is used, which orders of its bases a   *)
(* contract may have, on which paths a function returns without having      *)
(* assigned a variable, what a function can do to the state, which locals   *)
(* are used and which constants have a value.  Nothing here follows the way *)
(* the compiler works; units are the trees and r holds its annotations.     *)
(****************************************************************************)
EXTENDS Annotations, FiniteSets

NodesIn(units, id) == IdsOf(Accept(id, NodeAt(units, id), {}))
NodesOf(units) == UNION {NodesIn(units, Id(u, <<>>)) : u \in DOMAIN units}
Ancestor(id, k) == Id(id.unit, SubSeq(id.path, 1, k))
Parent(id) == Ancestor(id, Len(id.path) - 1)

----------------------------------------------------------------------------
(* Names.  Since 0.5.0 a local variable belongs to the block or the for     *)
(* statement it is declared in, from the end of its declaration on; before, *)
(* to all of its function.                                                  *)

ScopeKinds(r, unit) == Opens \cup {"SourceUnit"}
                       \cup IF V050(r, unit) THEN CodeScopes ELSE {}

(* The scopes around a node, from the inside; the list of the bases of a    *)
(* contract is not inside it.                                               *)
RECURSIVE ScopesAround(_, _, _, _)
ScopesAround(units, r, id, k) ==
    IF k < 0 THEN <<>>
    ELSE LET a == Ancestor(id, k)
             inBases == /\ KindOf(units, a) = "ContractDefinition"
                        /\ k < Len(id.path)
                        /\ id.path[k + 1] <= Len(NodeAt(units, a).bases)
         IN  (IF KindOf(units, a) \in ScopeKinds(r, id.unit) /\ ~inBases
              THEN <<a>> ELSE <<>>)
             \o ScopesAround(units, r, id, k - 1)
ScopeAround(units, r, id) == Head(ScopesAround(units, r, id, Len(id.path) - 1))

(* a ends before b begins.                                                  *)
Before(a, b) ==
    \E k \in DOMAIN a.path : /\ k <= Len(b.path)
                             /\ a.path[k] < b.path[k]
                             /\ \A j \in 1..(k - 1) : a.path[j] = b.path[j]

OwnDeclarations(units, r, nodes, scope, name) ==
    {d \in nodes : /\ d.unit = scope.unit
                   /\ KindOf(units, d) \in Declares
                   /\ NameOf(NodeAt(units, d)) = name
                   /\ ScopeAround(units, r, d) = scope}

(* What a unit declares or imports under a name, and what the units it      *)
(* imports import.                                                          *)
ImportedName(n, name) ==
    CASE n.symbolAliases = <<>> -> IF n.unitAlias = "" THEN {name} ELSE {}
      [] OTHER -> {a.symbol : a \in {b \in ToSet(n.symbolAliases) :
                                        name = IF b.alias = "" THEN b.symbol ELSE b.alias}}
ImportsIn(units, unit) ==
    {units[unit].nodes[k] : k \in {j \in DOMAIN units[unit].nodes :
                                      units[unit].nodes[j].node = "ImportDirective"}}
RECURSIVE InUnit(_, _, _, _, _, _)
InUnit(units, r, nodes, unit, name, seen) ==
    OwnDeclarations(units, r, nodes, Id(unit, <<>>), name)
    \cup UNION {UNION {InUnit(units, r, nodes, n.path, x, seen \cup {unit}) :
                          x \in IF n.path \in seen \cup {unit} THEN {}
                                ELSE ImportedName(n, name)} :
                   n \in ImportsIn(units, unit)}

(* What a contract has under a name: its own declarations, and of those of  *)
(* its bases the nearest.                                                   *)
InContract(units, r, nodes, contract, name) ==
    LET order == r.linearized[contract]
        In(k) == {d \in OwnDeclarations(units, r, nodes, order[k], name) :
                     IF k = 1 THEN IsVisibleInContract(NodeAt(units, d))
                     ELSE IsVisibleInDerivedContracts(NodeAt(units, d))}
    IN  UNION {{d \in In(k) : \A j \in 1..(k - 1) : \A e \in In(j) :
                  /\ KindOf(units, d) = "FunctionDefinition"
                  /\ ArgumentTypes(units, r, d) # ArgumentTypes(units, r, e)} :
                  k \in DOMAIN order}

InScope(units, r, nodes, scope, name, use) ==
    CASE KindOf(units, scope) = "SourceUnit" ->
           InUnit(units, r, nodes, scope.unit, name, {})
      [] KindOf(units, scope) = "ContractDefinition" ->
           InContract(units, r, nodes, scope, name)
      [] KindOf(units, scope) \in CodeScopes ->
           {d \in OwnDeclarations(units, r, nodes, scope, name) : Before(Parent(d), use)}
      [] OTHER -> OwnDeclarations(units, r, nodes, scope, name)

RECURSIVE MeaningIn(_, _, _, _, _, _)
MeaningIn(units, r, nodes, scopes, name, use) ==
    IF scopes = <<>>
    THEN IF name \in {"this", "super"} THEN {Magic(name, 1)}
         ELSE ToSet(MagicDeclarations(name))
    ELSE LET here == InScope(units, r, nodes, Head(scopes), name, use)
         IN  IF here # {} THEN here
             ELSE MeaningIn(units, r, nodes, Tail(scopes), name, use)
MeaningOf(units, r, nodes, name, use) ==
    MeaningIn(units, r, nodes, ScopesAround(units, r, use, Len(use.path) - 1), name, use)

(* What a dotted name means: a member of a unit or of a contract.           *)
PathMeaning(units, r, nodes, path, use) ==
    LET first == MeaningOf(units, r, nodes, path[1], use)
    IN  IF Len(path) = 1 THEN first
        ELSE UNION {IF KindOf(units, d) = "ImportDirective"
                    THEN InUnit(units, r, nodes, NodeAt(units, d).path, path[2], {})
                    ELSE InContract(units, r, nodes, d, path[2]) : d \in first}

----------------------------------------------------------------------------
(* Inheritance.                                                             *)

BasesOf(units, r, contract) ==
    [k \in DOMAIN BaseSpecifiers(units, contract) |->
        NamedBase(r, BaseSpecifiers(units, contract)[k])]
RECURSIVE Family(_, _, _)
Family(units, r, contract) ==
    {contract} \cup UNION {Family(units, r, b) : b \in ToSet(BasesOf(units, r, contract))}

(* What has to come before what: a contract before its bases, a base that   *)
(* is listed later before one that is listed earlier, and what comes first  *)
(* in the order of a base.                                                  *)
PairsOf(s) == UNION {{<<s[j], s[k]>> : k \in (j + 1)..Len(s)} : j \in DOMAIN s}
Precedences(units, r, contract) ==
    LET bases == BasesOf(units, r, contract)
    IN  PairsOf(<<contract>> \o Reverse(bases))
        \cup UNION {PairsOf(r.linearized[b]) : b \in ToSet(bases)}

(* An order a contract may have: itself and all it is derived from, once.   *)
IsLinearization(units, r, contract, order) ==
    /\ Len(order) = Cardinality(ToSet(order))
    /\ ToSet(order) = Family(units, r, contract)
    /\ Precedences(units, r, contract) \subseteq PairsOf(order)
HasLinearization(units, r, contract) ==
    \E precedences \in {Precedences(units, r, contract)} :
       \E order \in SetToSeqs(Family(units, r, contract)) :
          precedences \subseteq PairsOf(order)

----------------------------------------------------------------------------
(* Paths.  Run gives the ways in which a piece of code can be left: how,    *)
(* and whether the variable is still unassigned; a path that reverts ends   *)
(* nowhere.  c holds the variable and the code that runs where a modifier   *)
(* has its placeholder, the innermost last.                                 *)

Way(how, open) == [how |-> how, open |-> open]
On(ways, how) == {w.open : w \in {x \in ways : x.how = how}}
Except(ways, hows) == {w \in ways : w.how \notin hows}

RECURSIVE Run(_, _, _, _, _, _), RunEach(_, _, _, _, _, _, _)
(* The children from the k-th on, one after the other.                      *)
RunEach(units, r, c, id, n, k, open) ==
    IF k > Len(Children(n)) THEN {Way("next", open)}
    ELSE LET first == Run(units, r, c, Child(id, k), Children(n)[k], open)
         IN  Except(first, {"next"})
             \cup UNION {RunEach(units, r, c, id, n, k + 1, o) : o \in On(first, "next")}
Then(units, r, c, ways, id, n) ==
    Except(ways, {"next"})
    \cup UNION {Run(units, r, c, id, n, o) : o \in On(ways, "next")}
Rounded(ways, hows) ==
    {IF w.how \in hows THEN Way("next", w.open) ELSE w : w \in ways}

(* A loop from its test on; opens is how the test can be reached.           *)
RECURSIVE Loop(_, _, _, _, _, _)
Loop(units, r, c, id, n, opens) ==
    LET test == IF n.node = "ForStatement" /\ n.init # Null THEN 2 ELSE 1
        tested(o) == IF n.node = "ForStatement" /\ n.condition = Null
                     THEN {Way("next", o)}
                     ELSE Run(units, r, c, Child(id, test), Children(n)[test], o)
        bodied(ways) == Rounded(Then(units, r, c, ways, Child(id, Len(Children(n))),
                                     n.body), {"continue"})
        looped(ways) == IF n.node # "ForStatement" \/ n.loop = Null THEN ways
                        ELSE Then(units, r, c, ways,
                                  Child(id, Len(Children(n)) - 1), n.loop)
        ways == UNION {looped(bodied(tested(o))) : o \in opens}
        all == opens \cup On(ways, "next")
    IN  IF all # opens THEN Loop(units, r, c, id, n, all)
        ELSE UNION {tested(o) : o \in opens}
             \cup Rounded(Except(ways, {"next"}), {"break"})
(* The body of a do loop runs first; continue starts it again.              *)
RECURSIVE DoLoop(_, _, _, _, _, _)
DoLoop(units, r, c, id, n, opens) ==
    LET bodied == UNION {Run(units, r, c, Child(id, 2), n.body, o) : o \in opens}
        tested == Then(units, r, c, Except(bodied, {"continue", "break"}),
                       Child(id, 1), n.condition)
        all == opens \cup On(bodied, "continue") \cup On(tested, "next")
    IN  IF all # opens THEN DoLoop(units, r, c, id, n, all)
        ELSE tested \cup {Way("next", o) : o \in On(bodied, "break")}

RECURSIVE Targets(_, _, _)
Targets(r, id, n) ==
    CASE n.node = "TupleExpression" ->
           UNION {Targets(r, Child(id, k), Children(n)[k]) : k \in DOMAIN Children(n)}
      [] n.node = "Identifier" -> ToSet(r.refs[id])
      [] OTHER -> {}
GlobalCalled(r, id, n) ==
    IF n.expression.node = "Identifier" THEN Head(r.refs[Child(id, 1)]).unit ELSE ""

Run(units, r, c, id, n, open) ==
    CASE n.node \in {"IfStatement", "Conditional"} ->
           LET tested == Run(units, r, c, Child(id, 1), Children(n)[1], open)
           IN  Then(units, r, c, tested, Child(id, 2), Children(n)[2])
               \cup IF Len(Children(n)) = 2 THEN tested
                    ELSE Then(units, r, c, tested, Child(id, 3), Children(n)[3])
      [] n.node = "BinaryOperation" /\ n.operator \in {"&&", "||"} ->
           LET left == Run(units, r, c, Child(id, 1), n.left, open)
           IN  left \cup Then(units, r, c, left, Child(id, 2), n.right)
      [] n.node = "WhileStatement" ->
           IF n.isDoWhile THEN DoLoop(units, r, c, id, n, {open})
           ELSE Loop(units, r, c, id, n, {open})
      [] n.node = "ForStatement" ->
           IF n.init = Null THEN Loop(units, r, c, id, n, {open})
           ELSE Loop(units, r, c, id, n,
                     On(Run(units, r, c, Child(id, 1), n.init, open), "next"))
      [] n.node = "Break" -> {Way("break", open)}
      [] n.node = "Continue" -> {Way("continue", open)}
      [] n.node = "Throw" -> {}
      [] n.node = "Return" -> {Way("return", open /\ n.expression = Null)}
      [] n.node = "Assignment" ->
           {Way(w.how, w.open /\ c.variable \notin Targets(r, Child(id, 1), n.left)) :
               w \in RunEach(units, r, c, id, n, 1, open)}
      [] n.node = "InlineAssembly" -> {Way("next", open /\ c.variable \notin r.assembly[id])}
      [] n.node = "PlaceholderStatement" ->
           Rounded(Run(units, r, [c EXCEPT !.inner = Tail(@)], Head(c.inner),
                       NodeAt(units, Head(c.inner)), open), {"return"})
      [] n.node = "FunctionCall" /\ GlobalCalled(r, id, n) = "revert" -> {}
      [] OTHER -> RunEach(units, r, c, id, n, 1, open)

(* The bodies that run one inside the other when a function is called.      *)
BodyOf(units, id) == Child(id, Len(Children(NodeAt(units, id))))
BodiesOf(units, r, function) ==
    LET named == [k \in DOMAIN NodeAt(units, function).modifiers |->
                     Head(r.refs[Child(Child(function, k + 2), 1)])]
    IN  Append([k \in DOMAIN named |-> BodyOf(units, named[k])], BodyOf(units, function))

(* The storage pointers a function may return as they were.                 *)
StorageReturned(units, r, function) ==
    {v \in {Child(Child(function, 2), k) :
               k \in DOMAIN NodeAt(units, function).returnParameters.parameters} :
        TypeAt(r, v).cat = "mapping" \/ TypeAt(r, v).location = "storage"}
LeftOpen(units, r, function) ==
    {v \in StorageReturned(units, r, function) :
        \/ NodeAt(units, function).body = Null
        \/ LET bodies == BodiesOf(units, r, function)
           IN  \E w \in Run(units, r, [variable |-> v, inner |-> Tail(bodies)],
                            Head(bodies), NodeAt(units, Head(bodies)), TRUE) : w.open}

----------------------------------------------------------------------------
(* Effects on the state: what the code of a function does to values in      *)
(* storage and to the chain, with the functions it calls and its modifiers. *)

IsValue(t) == t.cat \in {"elementary", "contract", "enum"}
InStorage(units, r, id, n) ==
    CASE n.node = "Identifier" ->
           LET d == NodeAt(units, Head(r.refs[id]))
           IN  d.node = "VariableDeclaration" /\ d.isState /\ ~d.isConstant
      [] n.node = "MemberAccess" ->
           ExpressionType(units, r, Child(id, 1), n.expression).location = "storage"
      [] n.node = "IndexAccess" ->
           LET t == ExpressionType(units, r, Child(id, 1), n.base)
           IN  t.location = "storage" \/ t.cat = "mapping"
      [] OTHER -> FALSE
IsAssigned(units, id) ==
    \E k \in 0..(Len(id.path) - 1) :
       id \in LValues(Ancestor(id, k), NodeAt(units, Ancestor(id, k)))
ReadsChain(r, id, n) ==
    \/ n.node = "Identifier" /\ Head(r.refs[id]).unit = "now"
    \/ /\ n.node = "MemberAccess" /\ n.expression.node = "Identifier"
       /\ \/ Head(r.refs[Child(id, 1)]).unit = "msg" /\ n.member \notin {"data", "sig"}
          \/ Head(r.refs[Child(id, 1)]).unit = "this" /\ n.member = "balance"
(* Calls of what the program does not declare: they change storage, send    *)
(* ether or run other code, or look at the chain.                           *)
CallEffects(units, r, id, n) ==
    IF /\ n.node = "FunctionCall" /\ n.expression.node = "MemberAccess"
       /\ CalledDeclaration(units, r, id, n) = NoId
    THEN (IF n.expression.member \in {"push", "call", "callcode", "delegatecall", "send",
                                      "transfer"} THEN {"write"} ELSE {})
         \cup (IF n.expression.member = "blockhash" THEN {"read"} ELSE {})
    ELSE {}
AssemblyEffect(n) == CASE n.node # "InlineAssembly" -> {}
                       [] AssemblyEffects[n.body] = "pure" -> {}
                       [] AssemblyEffects[n.body] = "view" -> {"read"}
                       [] OTHER -> {"write"}
OwnEffects(units, r, id, n) ==
    (IF InStorage(units, r, id, n) /\ IsValue(ExpressionType(units, r, id, n))
     THEN IF IsAssigned(units, id) THEN {"write"} ELSE {"read"} ELSE {})
    \cup (IF ReadsChain(r, id, n) THEN {"read"} ELSE {})
    \cup (IF n.node = "EmitStatement" THEN {"write"} ELSE {})
    \cup CallEffects(units, r, id, n) \cup AssemblyEffect(n)

(* The functions and modifiers a piece of code calls.                       *)
Calls(units, r, id, n) ==
    CASE n.node = "FunctionCall" -> {CalledDeclaration(units, r, id, n)}
      [] n.node = "ModifierInvocation" -> {Head(r.refs[Child(id, 1)])}
      [] OTHER -> {}
RECURSIVE Reached(_, _, _, _)
Reached(units, r, found, todo) ==
    IF todo = {} THEN found
    ELSE LET called == {d \in UNION {UNION {Calls(units, r, id, NodeAt(units, id)) :
                                              id \in NodesIn(units, f)} : f \in todo} :
                           KindOf(units, d) \in {"FunctionDefinition",
                                                 "ModifierDefinition"}}
         IN  Reached(units, r, found \cup called, called \ found)
Effects(units, r, functions) ==
    UNION {UNION {OwnEffects(units, r, id, NodeAt(units, id)) :
                     id \in NodesIn(units, f)} : f \in functions}

----------------------------------------------------------------------------
(* Locals and constants.                                                    *)

UsedIn(units, r, f) ==
    UNION {CASE KindOf(units, id) = "Identifier" -> ToSet(r.refs[id])
             [] KindOf(units, id) = "InlineAssembly" -> r.assembly[id]
             [] OTHER -> {} : id \in NodesIn(units, f)}
ReturnsValue(units, f) ==
    \E id \in NodesIn(units, f) : /\ KindOf(units, id) = "Return"
                                  /\ NodeAt(units, id).expression # Null
UnusedIn(units, r, f) ==
    {v \in NodesIn(units, f) :
        /\ KindOf(units, v) = "VariableDeclaration"
        /\ NodeAt(units, v).name # ""
        /\ v \notin UsedIn(units, r, f)
        /\ IsReturnParameter(units, f, v) => ~ReturnsValue(units, f)}

ConstantsOf(units, nodes) ==
    {v \in nodes : /\ KindOf(units, v) = "VariableDeclaration"
                   /\ NodeAt(units, v).isConstant}
(* The constants that get a value when those they refer to have one.        *)
RECURSIVE Grounded(_, _, _, _)
Grounded(units, r, constants, known) ==
    LET more == {c \in constants \ known : UsedIn(units, r, c) \cap constants \subseteq known}
    IN  IF more = {} THEN known ELSE Grounded(units, r, constants, known \cup more)

----------------------------------------------------------------------------
(****************************************************************************)
(* What the parser is held to: how each tree is written (docs/grammar.txt)  *)
(* and which trees their written form stands for, given the precedence of   *)
(* the operators (docs/miscellaneous.rst), with one exception that is named *)
(* below.  Nothing else here follows the way the parser works.              *)
(****************************************************************************)

RECURSIVE Written(_)

(* The given sequences of tokens, separated by a token.                     *)
RECURSIVE Separated(_, _)
Separated(texts, t) == CASE texts = <<>> -> <<>>
                         [] Len(texts) = 1 -> texts[1]
                         [] OTHER -> texts[1] \o <<t>> \o Separated(Tail(texts), t)
RECURSIVE Joined(_)
Joined(texts) == IF texts = <<>> THEN <<>> ELSE texts[1] \o Joined(Tail(texts))

AllWritten(nodes) == [k \in DOMAIN nodes |-> Written(nodes[k])]
WrittenList(nodes) == Separated(AllWritten(nodes), ",")
Word(w) == IF w \in {"", "default", "nonpayable"} THEN <<>> ELSE <<w>>
Names(path) == Separated([k \in DOMAIN path |-> <<path[k]>>], ".")
Arguments(n) == IF n.given THEN <<"(">> \o WrittenList(n.arguments) \o <<")">>
                ELSE <<>>
NamedList(n) == <<"{">> \o Separated([k \in DOMAIN n.names |->
                                         <<n.names[k], ":">>
                                         \o Written(n.arguments[k])], ",")
                \o <<"}">>
Returns(n) == IF n.returnParameters.parameters = <<>> THEN <<>>
              ELSE <<"returns">> \o Written(n.returnParameters)
OrSemicolon(body) == IF body = Null THEN <<";">> ELSE Written(body)
Alias(a) == <<a.symbol>> \o IF a.alias = "" THEN <<>> ELSE <<"as", a.alias>>

WrittenDefinition(n) ==
    CASE n.node = "SourceUnit" -> Joined(AllWritten(n.nodes))
      [] n.node = "PragmaDirective" -> <<"pragma">> \o n.tokens \o <<";">>
      [] n.node = "ImportDirective" ->
           <<"import">>
           \o (CASE n.symbolAliases # <<>> ->
                      <<"{">> \o Separated([k \in DOMAIN n.symbolAliases |->
                                               Alias(n.symbolAliases[k])], ",")
                      \o <<"}", "from", n.path>>
                 [] OTHER -> <<n.path>> \o IF n.unitAlias = "" THEN <<>>
                                           ELSE <<"as", n.unitAlias>>)
           \o <<";">>
      [] n.node = "ContractDefinition" ->
           <<n.kind, n.name>>
           \o (IF n.bases = <<>> THEN <<>> ELSE <<"is">> \o WrittenList(n.bases))
           \o <<"{">> \o Joined(AllWritten(n.subNodes)) \o <<"}">>
      [] n.node = "InheritanceSpecifier" -> Written(n.name) \o Arguments(n)
      [] n.node = "UsingForDirective" ->
           <<"using">> \o Written(n.library) \o <<"for">>
           \o (IF n.typeName = Null THEN <<"*">> ELSE Written(n.typeName))
           \o <<";">>
      [] n.node = "StructDefinition" ->
           <<"struct", n.name, "{">>
           \o Joined([k \in DOMAIN n.members |->
                         Written(n.members[k]) \o <<";">>]) \o <<"}">>
      [] n.node = "EnumDefinition" ->
           <<"enum", n.name, "{">> \o WrittenList(n.members) \o <<"}">>
      [] n.node = "EnumValue" -> <<n.name>>

WrittenCallable(n) ==
    CASE n.node = "ParameterList" ->
           <<"(">> \o WrittenList(n.parameters) \o <<")">>
      [] n.node = "FunctionDefinition" ->
           (IF n.isConstructor /\ n.name = "" THEN <<"constructor">>
            ELSE <<"function">> \o Word(n.name))
           \o Written(n.parameters) \o Word(n.visibility) \o Word(n.mutability)
           \o Joined(AllWritten(n.modifiers)) \o Returns(n)
           \o OrSemicolon(n.body)
      [] n.node = "VariableDeclaration" ->
           (IF n.typeName = Null THEN <<"var">> ELSE Written(n.typeName))
           \o Word(n.visibility) \o (IF n.isIndexed THEN <<"indexed">> ELSE <<>>)
           \o (IF n.isConstant THEN <<"constant">> ELSE <<>>) \o Word(n.location)
           \o Word(n.name)
           \o (IF n.value = Null THEN <<>> ELSE <<"=">> \o Written(n.value))
           \o (IF n.isState THEN <<";">> ELSE <<>>)
      [] n.node = "ModifierDefinition" ->
           <<"modifier", n.name>>
           \o (IF n.parameters.parameters = <<>> THEN <<>>
               ELSE Written(n.parameters)) \o Written(n.body)
      [] n.node = "ModifierInvocation" -> Written(n.name) \o Arguments(n)
      [] n.node = "EventDefinition" ->
           <<"event", n.name>> \o Written(n.parameters)
           \o (IF n.anonymous THEN <<"anonymous">> ELSE <<>>) \o <<";">>

WrittenTypeName(n) ==
    CASE n.node = "ElementaryTypeName" -> <<n.type>>
      [] n.node = "UserDefinedTypeName" -> Names(n.path)
      [] n.node = "FunctionTypeName" ->
           <<"function">> \o Written(n.parameters) \o Word(n.visibility)
           \o Word(n.mutability) \o Returns(n)
      [] n.node = "Mapping" ->
           <<"mapping", "(">> \o Written(n.keyType) \o <<"=>">>
           \o Written(n.valueType) \o <<")">>
      [] n.node = "ArrayTypeName" ->
           Written(n.baseType) \o <<"[">> \o Written(n.length) \o <<"]">>

(* The variables of one declaration: var (a, b), or (T a, U b), or just one. *)
WrittenVariables(vs) ==
    LET untyped == \A k \in DOMAIN vs : vs[k] = Null \/ vs[k].typeName = Null
    IN  CASE Len(vs) = 1 /\ vs[1] # Null -> Written(vs[1])
          [] untyped /\ ~(Len(vs) = 1 /\ vs[1] # Null) ->
               <<"var", "(">>
               \o Separated([k \in DOMAIN vs |-> IF vs[k] = Null THEN <<>>
                                                 ELSE <<vs[k].name>>], ",")
               \o <<")">>
          [] OTHER -> <<"(">> \o WrittenList(vs) \o <<")">>

WrittenStatement(n) ==
    CASE n.node = "InlineAssembly" -> <<"assembly", n.body>>
      [] n.node = "Block" -> <<"{">> \o Joined(AllWritten(n.statements)) \o <<"}">>
      [] n.node = "PlaceholderStatement" -> <<"_", ";">>
      [] n.node = "IfStatement" ->
           <<"if", "(">> \o Written(n.condition) \o <<")">> \o Written(n.trueBody)
           \o (IF n.falseBody = Null THEN <<>>
               ELSE <<"else">> \o Written(n.falseBody))
      [] n.node = "WhileStatement" ->
           IF n.isDoWhile
           THEN <<"do">> \o Written(n.body) \o <<"while", "(">>
                \o Written(n.condition) \o <<")", ";">>
           ELSE <<"while", "(">> \o Written(n.condition) \o <<")">>
                \o Written(n.body)
      [] n.node = "ForStatement" ->
           <<"for", "(">> \o OrSemicolon(n.init) \o Written(n.condition)
           \o <<";">> \o (IF n.loop = Null THEN <<>>
                          ELSE Written(n.loop.expression))
           \o <<")">> \o Written(n.body)
      [] n.node = "Continue" -> <<"continue", ";">>
      [] n.node = "Break" -> <<"break", ";">>
      [] n.node = "Return" -> <<"return">> \o Written(n.expression) \o <<";">>
      [] n.node = "Throw" -> <<"throw", ";">>
      [] n.node = "EmitStatement" -> <<"emit">> \o Written(n.eventCall) \o <<";">>
      [] n.node = "VariableDeclarationStatement" ->
           WrittenVariables(n.variables)
           \o (IF n.value = Null THEN <<>> ELSE <<"=">> \o Written(n.value))
           \o <<";">>
      [] n.node = "ExpressionStatement" -> Written(n.expression) \o <<";">>

WrittenExpression(n) ==
    CASE n.node = "Conditional" ->
           Written(n.condition) \o <<"?">> \o Written(n.trueExpression) \o <<":">>
           \o Written(n.falseExpression)
      [] n.node \in {"Assignment", "BinaryOperation"} ->
           Written(n.left) \o <<n.operator>> \o Written(n.right)
      [] n.node = "TupleExpression" ->
           IF n.isArray THEN <<"[">> \o WrittenList(n.components) \o <<"]">>
           ELSE <<"(">> \o WrittenList(n.components) \o <<")">>
      [] n.node = "UnaryOperation" ->
           IF n.isPrefix THEN <<n.operator>> \o Written(n.subExpression)
           ELSE Written(n.subExpression) \o <<n.operator>>
      [] n.node = "FunctionCall" ->
           Written(n.expression) \o <<"(">>
           \o (IF n.names = <<>> THEN WrittenList(n.arguments) ELSE NamedList(n))
           \o <<")">>
      [] n.node = "NewExpression" -> <<"new">> \o Written(n.typeName)
      [] n.node = "MemberAccess" -> Written(n.expression) \o <<".", n.member>>
      [] n.node = "IndexAccess" ->
           Written(n.base) \o <<"[">> \o Written(n.index) \o <<"]">>
      [] n.node = "Identifier" -> <<n.name>>
      [] n.node = "ElementaryTypeNameExpression" -> <<n.type>>
      [] n.node = "Literal" -> <<n.value>> \o Word(n.subdenomination)

DefinitionNodes == {"SourceUnit", "PragmaDirective", "ImportDirective",
                "ContractDefinition", "InheritanceSpecifier",
                "UsingForDirective", "StructDefinition", "EnumDefinition",
                "EnumValue"}
CallableNodes == {"ParameterList", "FunctionDefinition", "VariableDeclaration",
              "ModifierDefinition", "ModifierInvocation", "EventDefinition"}
TypeNameNodes == {"ElementaryTypeName", "UserDefinedTypeName", "FunctionTypeName",
              "Mapping", "ArrayTypeName"}
StatementNodes == {"InlineAssembly", "Block", "PlaceholderStatement",
                   "IfStatement", "WhileStatement", "ForStatement", "Continue",
                   "Break", "Return", "Throw", "EmitStatement",
                   "VariableDeclarationStatement", "ExpressionStatement"}

(* How a tree is written.                                                   *)
Written(n) == CASE n.node = "Null" -> <<>>
                [] n.node \in DefinitionNodes -> WrittenDefinition(n)
                [] n.node \in CallableNodes -> WrittenCallable(n)
                [] n.node \in TypeNameNodes -> WrittenTypeName(n)
                [] n.node \in StatementNodes -> WrittenStatement(n)
                [] OTHER -> WrittenExpression(n)

----------------------------------------------------------------------------
(* The documented order of evaluation: 1 binds tightest.                    *)
Level(n) ==
    CASE n.node = "UnaryOperation" -> IF n.isPrefix THEN 2 ELSE 1
      [] n.node = "BinaryOperation" ->
           (CASE n.operator = "**" -> 3
              [] n.operator \in {"*", "/", "%"} -> 4
              [] n.operator \in {"+", "-"} -> 5
              [] n.operator \in {"<<", ">>", ">>>"} -> 6
              [] n.operator = "&" -> 7
              [] n.operator = "^" -> 8
              [] n.operator = "|" -> 9
              [] n.operator \in {"<", ">", "<=", ">="} -> 10
              [] n.operator \in {"==", "!="} -> 11
              [] n.operator = "&&" -> 12
              [] n.operator = "||" -> 13)
      [] n.node = "Conditional" -> 14
      [] n.node = "Assignment" -> 15
      [] OTHER -> 1

(* What may be called, indexed or incremented as it stands.                 *)
Atomic(n) == Level(n) = 1 /\ n.node # "UnaryOperation"

(* As documented, binary operators of a level group to the left,            *)
(* conditionals and assignments to the right.                               *)
Grouped(n) ==
    CASE n.node = "BinaryOperation" -> /\ Level(n.left) <= Level(n)
                                       /\ Level(n.right) < Level(n)
      [] n.node = "UnaryOperation" ->
           IF n.isPrefix THEN Level(n.subExpression) <= 2
           ELSE Atomic(n.subExpression)
      [] n.node = "Conditional" -> /\ Level(n.condition) < Level(n)
                                   /\ Level(n.falseExpression) <= Level(n)
      [] n.node = "Assignment" -> Level(n.left) < Level(n)
      [] n.node \in {"FunctionCall", "MemberAccess"} -> Atomic(n.expression)
      [] n.node = "IndexAccess" -> /\ Atomic(n.base)
                                   /\ n.base.node # "NewExpression"
      [] OTHER -> TRUE

(* The exception: docs/miscellaneous.rst and docs/grammar.txt have a        *)
(* conditional bind tighter than an assignment, so that "a ? b : c = d"     *)
(* would assign to the conditional, but the parser gives the assignment to  *)
(* the branch after the colon (Parser::parseExpression).                    *)
BranchAssigns(n) == /\ n.node = "Conditional" /\ n.falseExpression.node = "Assignment"
                    /\ Level(n.condition) < Level(n)
AssignsToConditional(n) == n.node = "Assignment" /\ n.left.node = "Conditional"

(* A statement that a following else would continue.                        *)
RECURSIVE AwaitsElse(_)
AwaitsElse(n) ==
    CASE n.node = "IfStatement" -> n.falseBody = Null \/ AwaitsElse(n.falseBody)
      [] n.node = "ForStatement" -> AwaitsElse(n.body)
      [] n.node = "WhileStatement" -> ~n.isDoWhile /\ AwaitsElse(n.body)
      [] OTHER -> FALSE

(* The tree is the one its written form stands for: an operator takes what  *)
(* binds tighter, an else belongs to the nearest if, and one component      *)
(* without an expression is no component.                                   *)
RECURSIVE Canonical(_)
Canonical(n) ==
    /\ (Grouped(n) /\ ~AssignsToConditional(n)) \/ BranchAssigns(n)
    /\ n.node = "IfStatement" => (n.falseBody # Null => ~AwaitsElse(n.trueBody))
    /\ n.node = "TupleExpression" => n.components # <<Null>>
    /\ \A k \in DOMAIN Children(n) : Canonical(Children(n)[k])
=============================================================================

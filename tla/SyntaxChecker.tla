---------------------------- MODULE SyntaxChecker ----------------------------
(****************************************************************************)
(* What the grammar lets through and the language does not                  *)
(* (libsolidity/analysis/SyntaxChecker): pragmas, loops, placeholders and   *)
(* what version 0.5.0 does away with.  One checker visits all units, so     *)
(* its fields outlive a unit.  The version a unit asks for is not compared  *)
(* with the compiler's (the SECBIT build does not), and the warnings of     *)
(* that build are the ones of the other.                                    *)
(****************************************************************************)
EXTENDS Syntax, TLC

ExperimentalFeatures == {"SMTChecker", "ABIEncoderV2", "v0.5.0"}
ExperimentalFeatureOnlyAnalysis == {"SMTChecker", "v0.5.0"}

NewSyntaxChecker ==
    [versionPragmaFound |-> FALSE, placeholderFound |-> FALSE, inLoopDepth |-> 0,
     features |-> <<>>, errors |-> {}, warnings |-> {}]

SyntaxError(c, what, id) == [c EXCEPT !.errors = @ \cup {[what |-> what, id |-> id]}]
SyntaxWarning(c, what, id) == [c EXCEPT !.warnings = @ \cup {[what |-> what, id |-> id]}]

(* What is an error from version 0.5.0 on and a warning before it.          *)
Deprecated(c, what, id) == IF "v0.5.0" \in c.features[id.unit]
                           THEN SyntaxError(c, what, id)
                           ELSE SyntaxWarning(c, what, id)
DeprecatedIf(c, condition, what, id) ==
    IF condition THEN Deprecated(c, what, id) ELSE c

EnableFeature(c, id, feature) ==
    CASE feature \notin ExperimentalFeatures ->
           SyntaxError(c, "Unsupported experimental feature name.", id)
      [] feature \in c.features[id.unit] ->
           SyntaxError(c, "Duplicate experimental feature name.", id)
      [] OTHER ->
           IF feature \in ExperimentalFeatureOnlyAnalysis
           THEN [c EXCEPT !.features[id.unit] = @ \cup {feature}]
           ELSE SyntaxWarning([c EXCEPT !.features[id.unit] = @ \cup {feature}],
                              "Experimental features are turned on.", id)

CheckPragma(c, id, tokens) ==
    CASE TokenOf(Head(tokens)) # "Identifier" -> SyntaxError(c, "Invalid pragma", id)
      [] Head(tokens) = "experimental" ->
           IF Len(tokens) # 2
           THEN SyntaxError(c, "Experimental feature name is missing.", id)
           ELSE EnableFeature(c, id, tokens[2])
      [] Head(tokens) = "solidity" -> [c EXCEPT !.versionPragmaFound = TRUE]
      [] OTHER -> SyntaxError(c, "Unknown pragma", id)

CheckFunction(c, id, n) ==
    LET hidden == IF n.visibility = "default" /\ "v0.5.0" \in c.features[id.unit]
                  THEN SyntaxError(c, "No visibility specified.", id) ELSE c
        named == DeprecatedIf(hidden, n.isConstructor /\ n.name # "",
                              "constructors as functions", id)
        bare == DeprecatedIf(named, n.body = Null /\ n.modifiers # <<>>,
                             "Functions without implementation cannot have modifiers.",
                             id)
    IN  IF n.name = "constructor"
        THEN SyntaxWarning(bare, "This function is named constructor", id) ELSE bare

(* Taken for granted: that a jump is inside of a loop.                      *)
CheckNoLoop(c, id) == c
CheckInLoop(c, id) == IF c.inLoopDepth = 0
                      THEN SyntaxError(c, "has to be in a loop.", id) ELSE c

CheckVisit(c, id, n) ==
    CASE n.node = "SourceUnit" ->
           [c EXCEPT !.versionPragmaFound = FALSE,
                     !.features = (id.unit :> {}) @@ @]
      [] n.node = "PragmaDirective" -> CheckPragma(c, id, n.tokens)
      [] n.node = "ModifierDefinition" -> [c EXCEPT !.placeholderFound = FALSE]
      [] n.node = "PlaceholderStatement" -> [c EXCEPT !.placeholderFound = TRUE]
      [] n.node \in {"WhileStatement", "ForStatement"} ->
           [c EXCEPT !.inLoopDepth = @ + 1]
      [] n.node \in {"Continue", "Break"} -> CheckInLoop(c, id)
      [] n.node = "Throw" -> Deprecated(c, "throw is deprecated", id)
      [] n.node = "UnaryOperation" ->
           DeprecatedIf(c, n.operator = "+", "Use of unary + is deprecated.", id)
      [] n.node = "FunctionDefinition" -> CheckFunction(c, id, n)
      [] n.node = "FunctionTypeName" ->
           IF \E v \in ToSet(n.parameters.parameters
                             \o n.returnParameters.parameters) : v.name # ""
           THEN SyntaxWarning(c, "Naming function type parameters is deprecated.", id)
           ELSE c
      [] n.node = "VariableDeclaration" ->
           DeprecatedIf(c, n.typeName = Null, "Use of var is deprecated.", id)
      [] n.node = "StructDefinition" ->
           DeprecatedIf(c, n.members = <<>>, "empty structs", id)
      [] OTHER -> c

CheckEndVisit(c, id, n) ==
    CASE n.node = "SourceUnit" ->
           IF c.versionPragmaFound THEN c
           ELSE SyntaxWarning(c, "does not specify required compiler version", id)
      [] n.node = "ModifierDefinition" ->
           [IF c.placeholderFound THEN c
            ELSE SyntaxError(c, "Modifier body does not contain '_'.", id)
            EXCEPT !.placeholderFound = FALSE]
      [] n.node \in {"WhileStatement", "ForStatement"} ->
           [c EXCEPT !.inLoopDepth = @ - 1]
      [] OTHER -> c

RECURSIVE CheckEvents(_, _, _, _)
CheckEvents(c, events, a, b) ==
    CASE a > b -> c
      [] a = b ->
           IF events[a].ended THEN CheckEndVisit(c, events[a].id, events[a].n)
           ELSE CheckVisit(c, events[a].id, events[a].n)
      [] OTHER ->
           Only({CheckEvents(x, events, (a + b) \div 2 + 1, b) :
                    x \in {CheckEvents(c, events, a, (a + b) \div 2)}})
CheckWalk(c, events) == CheckEvents(c, events, 1, Len(events))
checkSyntax(c, unit, ast) == CheckWalk(c, Accept(Id(unit, <<>>), ast, {}))
=============================================================================

---------------------------- MODULE StaticAnalyzer ----------------------------
(****************************************************************************)
(* Code that is legal but suspicious, and constants that depend on          *)
(* themselves (libsolidity/analysis: StaticAnalyzer and PostTypeChecker).   *)
(* One analyzer visits all units; what it keeps about a function or a       *)
(* contract must not leak into the next one.  Left out: the estimate of the *)
(* storage a variable takes, and the warnings the SECBIT build gives a      *)
(* second time.                                                             *)
(****************************************************************************)
EXTENDS Annotations

NewStaticAnalyzer ==
    [library |-> FALSE, contract |-> NoId, function |-> NoId,
     nonPayablePublic |-> FALSE, constructor |-> FALSE, useCount |-> <<>>,
     errors |-> {}, warnings |-> {}, crash |-> FALSE]

StaticError(a, what, id) == [a EXCEPT !.errors = @ \cup {[what |-> what, id |-> id]}]
StaticWarning(a, what, id) ==
    [a EXCEPT !.warnings = @ \cup {[what |-> what, id |-> id]}]
StaticallyDeprecated(r, a, what, id) ==
    IF V050(r, id.unit) THEN StaticError(a, what, id) ELSE StaticWarning(a, what, id)

(* m_localVarUseCount: an entry is made when it is first counted.           *)
Count(a, variable, k) ==
    [a EXCEPT !.useCount =
        (variable :> k + IF variable \in DOMAIN @ THEN @[variable] ELSE 0) @@ @]
RECURSIVE CountAll(_, _)
CountAll(a, variables) ==
    IF variables = {} THEN a
    ELSE LET v == CHOOSE x \in variables : TRUE
         IN  CountAll(Count(a, v, 1), variables \ {v})
LocalVariables(units, r, decls) ==
    {d \in decls : /\ KindOf(units, d) = "VariableDeclaration"
                   /\ IsLocalVariable(units, r.scopeOf[d])}

AnalyzeFunction(a, id, n) ==
    LET noted == IF n.visibility = "default"
                 THEN StaticWarning(a, "No visibility specified.", id) ELSE a
    IN  [noted EXCEPT !.function = IF n.body = Null THEN @ ELSE id,
                      !.crash = @ \/ a.useCount # <<>>
                                  \/ (n.body = Null /\ a.function # NoId),
                      !.nonPayablePublic = IsPublic(n) /\ n.mutability # "payable",
                      !.constructor = n.isConstructor]
EndFunction(units, r, a) ==
    LET unused == {v \in DOMAIN a.useCount : a.useCount[v] = 0}
    IN  [a EXCEPT !.function = NoId, !.nonPayablePublic = FALSE,
                  !.constructor = FALSE, !.useCount = <<>>,
                  !.warnings = @ \cup
                     {[what |-> IF IsCallableParameter(units, r.scopeOf[v], v)
                                THEN "Unused function parameter."
                                ELSE "Unused local variable.", id |-> v] : v \in unused}]

(* A return with a value uses the named return variables.                   *)
NoReturns(units, function) == {}
NamedReturns(units, function) ==
    LET parameters == NodeAt(units, function).returnParameters.parameters
    IN  {Child(Child(function, 2), k) :
            k \in {j \in DOMAIN parameters : parameters[j].name # ""}}

(* The expression behind any number of parentheses.                         *)
RECURSIVE Unwrapped(_)
Unwrapped(n) == IF n.node = "TupleExpression" /\ Len(n.components) = 1
                THEN Unwrapped(n.components[1]) ELSE n

IsDeprecatedMember(t, member) ==
    \/ t.cat = "magic" /\ t.name = "msg" /\ member = "gas"
    \/ t.cat = "magic" /\ t.name = "block" /\ member = "blockhash"
    \/ t.cat = "elementary" /\ member = "callcode"
WarnIf(a, condition, what, id) == IF condition THEN StaticWarning(a, what, id) ELSE a
AnalyzeMemberAccess(r, a, id, n, t, base) ==
    WarnIf(WarnIf(IF IsDeprecatedMember(t, n.member)
                  THEN StaticallyDeprecated(r, a, "member has been deprecated", id)
                  ELSE a,
                  /\ a.nonPayablePublic /\ ~a.library
                  /\ t.cat = "magic" /\ t.name = "msg" /\ n.member = "value",
                  "msg.value used in non-payable function.", id),
           a.constructor /\ base.node = "Identifier" /\ base.name = "this",
           "this used in constructor.", id)

IsZero(n) == n.node = "Literal" /\ n.value = "0"

AnalyzeVisit(units, r, a, id, n) ==
    CASE n.node = "ContractDefinition" ->
           [a EXCEPT !.library = n.kind = "library", !.contract = id]
      [] n.node = "FunctionDefinition" -> AnalyzeFunction(a, id, n)
      [] n.node = "Identifier" ->
           IF a.function = NoId \/ Len(r.refs[id]) # 1 THEN a
           ELSE CountAll(a, LocalVariables(units, r, ToSet(r.refs[id])))
      [] n.node = "VariableDeclaration" ->
           IF a.function = NoId \/ n.name = "" THEN a ELSE Count(a, id, 0)
      [] n.node = "Return" ->
           IF a.function = NoId \/ n.expression = Null THEN a
           ELSE CountAll(a, NamedReturns(units, a.function))
      [] n.node = "ExpressionStatement" ->
           IF IsPure(units, r, Child(id, 1), n.expression)
           THEN StaticWarning(a, "Statement has no effect.", id) ELSE a
      [] n.node = "MemberAccess" ->
           AnalyzeMemberAccess(r, a, id, n,
                               ExpressionType(units, r, Child(id, 1), n.expression),
                               Unwrapped(n.expression))
      [] n.node = "InlineAssembly" ->
           IF a.function = NoId THEN a
           ELSE CountAll(a, LocalVariables(units, r, r.assembly[id]))
      [] n.node = "BinaryOperation" ->
           IF n.operator \in {"/", "%"} /\ IsZero(n.right)
           THEN StaticError(a, "Division by zero.", id) ELSE a
      [] n.node = "FunctionCall" ->
           IF /\ n.expression.node = "Identifier"
              /\ Head(r.refs[Child(id, 1)]).unit \in {"addmod", "mulmod"}
              /\ IsZero(Last(n.arguments))
           THEN StaticError(a, "Arithmetic modulo zero.", id) ELSE a
      [] OTHER -> a
AnalyzeEndVisit(units, r, a, n) ==
    CASE n.node = "ContractDefinition" -> [a EXCEPT !.library = FALSE, !.contract = NoId]
      [] n.node = "FunctionDefinition" -> EndFunction(units, r, a)
      [] OTHER -> a

RECURSIVE AnalyzeEvents(_, _, _, _, _, _)
AnalyzeEvents(units, r, a, events, i, j) ==
    CASE i > j -> a
      [] i = j ->
           IF events[i].ended THEN AnalyzeEndVisit(units, r, a, events[i].n)
           ELSE AnalyzeVisit(units, r, a, events[i].id, events[i].n)
      [] OTHER ->
           Only({AnalyzeEvents(units, r, x, events, (i + j) \div 2 + 1, j) :
                    x \in {AnalyzeEvents(units, r, a, events, i, (i + j) \div 2)}})
AnalyzeWalk(units, r, a, events) == AnalyzeEvents(units, r, a, events, 1, Len(events))
analyzeStatically(units, r, a, unit) ==
    AnalyzeWalk(units, r, a, Accept(Id(unit, <<>>), units[unit], {}))

----------------------------------------------------------------------------
(* PostTypeChecker: the value of a constant may not depend on itself.  The  *)
(* checker keeps the constants of the contract it is in and what their      *)
(* values refer to.                                                         *)

NewPostTypeChecker == [current |-> NoId, constants |-> <<>>, dependencies |-> <<>>,
                       cyclic |-> {}, crash |-> FALSE]

DependenciesOf(p, v) == IF v \in DOMAIN p.dependencies THEN p.dependencies[v] ELSE {}

(* CycleDetector::run: the search from a constant along its dependencies    *)
(* comes back to one it is still working on.                                *)
(* A constant that refers to itself directly.                               *)
FindsItself(p, v, open) == v \in DependenciesOf(p, v)
RECURSIVE FindsCycle(_, _, _)
FindsCycle(p, v, open) ==
    \/ v \in open
    \/ \E d \in DependenciesOf(p, v) : FindsCycle(p, d, open \cup {v})

PostVisit(units, r, p, id, n) ==
    CASE n.node = "ContractDefinition" ->
           [p EXCEPT !.crash = @ \/ p.current # NoId \/ p.dependencies # <<>>]
      [] n.node = "VariableDeclaration" ->
           IF n.isConstant
           THEN [p EXCEPT !.crash = @ \/ p.current # NoId, !.current = id,
                          !.constants = Append(@, id)]
           ELSE [p EXCEPT !.crash = @ \/ p.current # NoId]
      [] n.node = "Identifier" ->
           IF p.current = NoId THEN p
           ELSE [p EXCEPT !.dependencies =
                    (p.current :> DependenciesOf(p, p.current) \cup
                        {d \in ToSet(r.refs[id]) :
                            /\ KindOf(units, d) = "VariableDeclaration"
                            /\ NodeAt(units, d).isConstant}) @@ @]
      [] OTHER -> p
PostEndVisit(p, id, n) ==
    CASE n.node = "ContractDefinition" ->
           [p EXCEPT !.cyclic = @ \cup {v \in ToSet(p.constants) : FindsCycle(p, v, {})},
                     !.constants = <<>>, !.dependencies = <<>>]
      [] n.node = "VariableDeclaration" /\ n.isConstant -> [p EXCEPT !.current = NoId]
      [] OTHER -> p

RECURSIVE PostEvents(_, _, _, _, _, _)
PostEvents(units, r, p, events, a, b) ==
    CASE a > b -> p
      [] a = b ->
           IF events[a].ended THEN PostEndVisit(p, events[a].id, events[a].n)
           ELSE PostVisit(units, r, p, events[a].id, events[a].n)
      [] OTHER ->
           Only({PostEvents(units, r, x, events, (a + b) \div 2 + 1, b) :
                    x \in {PostEvents(units, r, p, events, a, (a + b) \div 2)}})
PostWalk(units, r, p, events) == PostEvents(units, r, p, events, 1, Len(events))
checkPostTypes(units, r, p, unit) ==
    PostWalk(units, r, p, Accept(Id(unit, <<>>), units[unit], {}))

----------------------------------------------------------------------------
(****************************************************************************)
(* Whether functions keep the promise of view and pure                      *)
(* (libsolidity/analysis/ViewPureChecker).  What the modifiers do is found  *)
(* first; a function is then charged with each of its expressions, calls    *)
(* with what the callee declares.  AssemblyEffects gives the strongest      *)
(* effect among the instructions of a block of inline assembly.             *)
(****************************************************************************)

MutabilityRank(m) == CASE m = "pure" -> 0 [] m = "view" -> 1
                       [] m = "nonpayable" -> 2 [] m = "payable" -> 3
Stronger(m, n) == MutabilityRank(m) > MutabilityRank(n)

NewViewPureChecker ==
    [function |-> NoId, best |-> "pure", inferred |-> <<>>, enforce |-> FALSE,
     skipped |-> NoId, lvalues |-> {}, errors |-> {}, warnings |-> {},
     restrictable |-> {}, crash |-> FALSE]

AccessOf(writes) == IF writes THEN "nonpayable" ELSE "view"

reportMutability(units, v, m, id) ==
    LET declared == IF v.function = NoId THEN "payable"
                    ELSE NodeAt(units, v.function).mutability
        seen == IF Stronger(m, v.best) THEN [v EXCEPT !.best = m] ELSE v
    IN  CASE ~Stronger(m, declared) -> seen
          [] Stronger(m, declared) /\ declared = "view" /\ ~v.enforce ->
               [seen EXCEPT !.warnings = @ \cup {[in |-> v.function, id |-> id]}]
          [] OTHER -> [seen EXCEPT !.errors = @ \cup {[in |-> v.function, id |-> id]}]

IdentifierNeeds(units, d, writes) ==
    LET n == NodeAt(units, d)
    IN  CASE n.node = "VariableDeclaration" /\ n.isState /\ ~n.isConstant ->
               AccessOf(writes)
          [] n.node = "MagicVariableDeclaration" /\ n.name \in {"this", "now"} -> "view"
          [] OTHER -> "pure"

PureMembers == {"encode", "encodePacked", "encodeWithSelector",
                "encodeWithSignature", "data", "sig", "blockhash"}
MemberNeeds(units, r, t, member, writes) ==
    CASE t.cat \in {"contract", "super", "elementary"} ->
           IF member = "balance" /\ HasAddressMembers(units, r, t, member)
           THEN "view" ELSE "pure"
      [] t.cat = "magic" -> IF member \in PureMembers THEN "pure" ELSE "view"
      [] t.cat = "struct" /\ t.location = "storage" -> AccessOf(writes)
      [] t.cat = "array" /\ t.location = "storage" /\ member = "length" ->
           AccessOf(writes)
      [] OTHER -> "pure"

(* An index counts as reading, also when it is assigned to.                 *)
IndexReads(t, writes) ==
    IF t.cat = "mapping" \/ t.location = "storage" THEN "view" ELSE "pure"
IndexNeeds(t, writes) ==
    IF t.cat = "mapping" \/ t.location = "storage" THEN AccessOf(writes) ELSE "pure"

(* The mutability of what is called; a conversion needs nothing.  To call a *)
(* payable function is no more than to call one that is not.                *)
BuiltinMutability(name) ==
    CASE name \in {"blockhash", "gasleft"} -> "view"
      [] name \in {"selfdestruct", "suicide", "log0", "log1", "log2", "log3",
                   "log4"} -> "nonpayable"
      [] OTHER -> "pure"
DeclaredMutability(units, d) ==
    LET n == NodeAt(units, d)
    IN  CASE n.node = "FunctionDefinition" -> n.mutability
          [] n.node = "MagicVariableDeclaration" -> BuiltinMutability(n.name)
          [] n.node = "VariableDeclaration" -> "view"
          [] OTHER -> "nonpayable"
CallNeeds(units, t, called) ==
    CASE t.cat # "function" -> "pure"
      [] t.cat = "function" /\ t.name \in {"push", "address"} -> "nonpayable"
      [] t.cat = "function" /\ t.name = "blockhash" -> "view"
      [] OTHER -> IF DeclaredMutability(units, called) = "payable" THEN "nonpayable"
                  ELSE DeclaredMutability(units, called)

(* The selector of a function of this is a constant.                        *)
IsSelector(n) == /\ n.member = "selector"
                 /\ n.expression.node = "MemberAccess"
                 /\ n.expression.expression = Identifier("this")

(* A function of a base that this one overrides.                            *)
HasSuperFunction(units, r, id, n) ==
    \E k \in 2..Len(r.linearized[ContractAt(id)]) :
       \E d \in ToSet(r.scopes[r.linearized[ContractAt(id)][k]].visible[n.name]) :
          /\ KindOf(units, d) = "FunctionDefinition"
          /\ ArgumentTypes(units, r, d) = ArgumentTypes(units, r, id)

EndFunctionMutability(units, r, v, id, n) ==
    IF /\ Stronger(n.mutability, v.best)
       /\ n.mutability # "payable" /\ n.body # Null
       /\ ~n.isConstructor /\ ~IsFallback(n)
       /\ ~HasSuperFunction(units, r, id, n)
    THEN [v EXCEPT !.restrictable = @ \cup {[function |-> id, to |-> v.best]},
                   !.function = NoId]
    ELSE [v EXCEPT !.function = NoId]

MutabilityVisit(v, id, n) ==
    CASE n.node = "FunctionDefinition" ->
           [v EXCEPT !.function = id, !.best = "pure", !.crash = @ \/ v.function # NoId]
      [] n.node = "ModifierDefinition" ->
           [v EXCEPT !.best = "pure", !.crash = @ \/ v.function # NoId]
      [] n.node = "MemberAccess" /\ IsSelector(n) -> [v EXCEPT !.skipped = id]
      [] OTHER -> [v EXCEPT !.lvalues = @ \cup LValues(id, n)]

MutabilityEndVisit(units, r, v, id, n) ==
    CASE n.node = "FunctionDefinition" -> EndFunctionMutability(units, r, v, id, n)
      [] n.node = "ModifierDefinition" ->
           [v EXCEPT !.inferred = (id :> v.best) @@ @]
      [] n.node = "Identifier" ->
           reportMutability(units, v, IdentifierNeeds(units, Head(r.refs[id]),
                                                      id \in v.lvalues), id)
      [] n.node = "InlineAssembly" ->
           reportMutability(units, v, AssemblyEffects[n.body], id)
      [] n.node = "FunctionCall" ->
           reportMutability(units, v,
                            CallNeeds(units,
                                      ExpressionType(units, r, Child(id, 1),
                                                     n.expression),
                                      CalledDeclaration(units, r, id, n)), id)
      [] n.node = "MemberAccess" ->
           reportMutability(units, [v EXCEPT !.skipped = NoId],
                            MemberNeeds(units, r,
                                        ExpressionType(units, r, Child(id, 1),
                                                       n.expression),
                                        n.member, id \in v.lvalues), id)
      [] n.node = "IndexAccess" ->
           reportMutability(units, v,
                            IndexNeeds(ExpressionType(units, r, Child(id, 1), n.base),
                                       id \in v.lvalues), id)
      [] n.node = "ModifierInvocation" ->
           LET d == Head(r.refs[Child(id, 1)])
           IN  IF KindOf(units, d) # "ModifierDefinition" THEN v
               ELSE IF d \notin DOMAIN v.inferred THEN [v EXCEPT !.crash = TRUE]
               ELSE reportMutability(units, v, v.inferred[d], id)
      [] OTHER -> v

RECURSIVE MutabilityEvents(_, _, _, _, _, _)
MutabilityEvents(units, r, v, events, a, b) ==
    CASE a > b -> v
      [] a = b ->
           CASE v.skipped # NoId /\ events[a].id # v.skipped -> v
             [] ~(v.skipped # NoId /\ events[a].id # v.skipped) /\ events[a].ended ->
                  MutabilityEndVisit(units, r, v, events[a].id, events[a].n)
             [] OTHER -> MutabilityVisit(v, events[a].id, events[a].n)
      [] OTHER ->
           Only({MutabilityEvents(units, r, x, events, (a + b) \div 2 + 1, b) :
                    x \in {MutabilityEvents(units, r, v, events, a, (a + b) \div 2)}})

MutabilityWalk(units, r, v, events) ==
    MutabilityEvents(units, r, v, events, 1, Len(events))

(* The parts of the program that are visited: the modifiers, and then the   *)
(* contracts.                                                               *)
ContractsOf(units) ==
    UNION {{Id(u, <<k>>) : k \in {j \in DOMAIN units[u].nodes :
                                    units[u].nodes[j].node = "ContractDefinition"}} :
              u \in DOMAIN units}
ModifierDefinitions(units, contracts) ==
    UNION {{p \in ToSet(PartsOf(units, c)) : KindOf(units, p) = "ModifierDefinition"} :
              c \in contracts}
RECURSIVE MutabilityOfEach(_, _, _, _)
MutabilityOfEach(units, r, v, ids) ==
    IF ids = <<>> THEN v
    ELSE MutabilityOfEach(units, r,
             MutabilityWalk(units, r, [v EXCEPT !.enforce = V050(r, Head(ids).unit)],
                            Accept(Head(ids), NodeAt(units, Head(ids)), {})),
             Tail(ids))
checkMutability(units, r) ==
    MutabilityOfEach(units, r, NewViewPureChecker,
                     Listed(ModifierDefinitions(units, ContractsOf(units)))
                     \o Listed(ContractsOf(units)))
=============================================================================

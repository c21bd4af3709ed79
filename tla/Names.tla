-------------------------------- MODULE Names --------------------------------
(****************************************************************************)
(* Scopes and the meaning of names (libsolidity/analysis:                   *)
(* NameAndTypeResolver, DeclarationRegistrationHelper, DeclarationContainer *)
(* and ReferencesResolver).                                                 *)
(*                                                                          *)
(* A scope holds, for every name, the declarations that can be seen and     *)
(* those that cannot (yet).  The resolver r is a record: the scopes, the    *)
(* current one, what the nodes are annotated with and what was reported.    *)
(* Left out: the texts of the messages, the suggestions of similar names,   *)
(* the lengths of array types, and the suffixes _slot and _offset by which  *)
(* inline assembly reaches the storage of a variable.                       *)
(****************************************************************************)
EXTENDS Syntax, TLC

CONSTANTS AssemblyUses,     \* the names a block of inline assembly refers to
          AssemblyEffects   \* block of inline assembly -> mutability it needs

NoId == Id("", <<>>)
GlobalScope == NoId
Magic(name, k) == Id(name, <<k>>)
Globals == {"abi", "addmod", "assert", "block", "blockhash", "ecrecover", "gasleft",
            "keccak256", "log0", "log1", "log2", "log3", "log4", "msg", "mulmod", "now",
            "require", "revert", "ripemd160", "selfdestruct", "sha256", "sha3", "suicide",
            "tx"}
OverloadedGlobals == {"require", "revert"}

(* The node with an identity; a declaration of the global context has none. *)
NodeAt(units, id) == IF id.unit \in DOMAIN units
                     THEN Down(units[id.unit], id.path)
                     ELSE [node |-> "MagicVariableDeclaration", name |-> id.unit]
KindOf(units, id) == NodeAt(units, id).node

(* Whether the unit asks for version 0.5.0; the syntax checker has read its *)
(* pragmas.                                                                 *)
V050(r, unit) == "v0.5.0" \in r.features[unit]

----------------------------------------------------------------------------
(* Declarations.                                                            *)

VisibilityRank(v) == CASE v = "private" -> 1 [] v = "internal" -> 2
                       [] v = "public" -> 3 [] v = "external" -> 4
VisibilityOf(d) ==
    CASE d.node = "VariableDeclaration" ->
           IF d.visibility = "default" THEN "internal" ELSE d.visibility
      [] d.node = "FunctionDefinition" ->
           IF d.visibility = "default" THEN "public" ELSE d.visibility
      [] d.node = "ModifierDefinition" -> "internal"
      [] OTHER -> "public"
IsPublic(d) == VisibilityRank(VisibilityOf(d)) >= VisibilityRank("public")
IsFallback(f) == f.name = "" /\ ~f.isConstructor
IsVisibleInContract(d) ==
    /\ VisibilityOf(d) # "external"
    /\ d.node = "FunctionDefinition" => ~d.isConstructor /\ ~IsFallback(d)
IsVisibleInDerivedContracts(d) ==
    IsVisibleInContract(d) /\ VisibilityRank(VisibilityOf(d)) >= 2

(* The name a node declares; an import declares its alias.                  *)
NameOf(d) == IF d.node = "ImportDirective" THEN d.unitAlias ELSE d.name

Callables == {"FunctionDefinition", "ModifierDefinition", "EventDefinition"}

(* Whether a variable declared in a scope is a parameter of it, or one of   *)
(* those it returns.                                                        *)
IsParameterIn(units, scope, id, lists) ==
    /\ KindOf(units, scope) \in Callables
    /\ Len(id.path) = Len(scope.path) + 2
    /\ id.path[Len(scope.path) + 1] \in lists
IsReturnParameter(units, scope, id) ==
    /\ KindOf(units, scope) = "FunctionDefinition"
    /\ IsParameterIn(units, scope, id, {2})
IsCallableParameter(units, scope, id) ==
    \/ IsParameterIn(units, scope, id, {1})
    \/ IsReturnParameter(units, scope, id)
IsExternalCallableParameter(units, scope, id) ==
    /\ IsParameterIn(units, scope, id, {1})
    /\ VisibilityOf(NodeAt(units, scope)) = "external"
IsLocalVariable(units, scope) ==
    KindOf(units, scope) \in Callables \cup {"Block", "ForStatement"}

----------------------------------------------------------------------------
(* DeclarationContainer.                                                    *)

EmptyContainer(enclosing) ==
    [enclosing |-> enclosing, visible |-> [x \in Identifiers |-> <<>>],
     invisible |-> [x \in Identifiers |-> <<>>]]

(* Functions, events and magic variables tolerate their like and public     *)
(* state variables.                                                         *)
Tolerates(other, kind) ==
    IF other.node = "VariableDeclaration"
    THEN other.isState /\ ~other.isConstant /\ IsPublic(other)
    ELSE other.node = kind

(* The declarations, conflictingDeclaration the first of them, because of   *)
(* which d may not be declared with a name.                                 *)
Conflicts(units, container, d, name) ==
    LET all == container.visible[name] \o container.invisible[name]
    IN  IF KindOf(units, d) \in {"FunctionDefinition", "EventDefinition",
                                 "MagicVariableDeclaration"}
        THEN SelectSeq(all, LAMBDA o : ~Tolerates(NodeAt(units, o),
                                                  KindOf(units, d)))
        ELSE IF all = <<d>> THEN <<>> ELSE all

AddTo(decls, d) == IF d \in ToSet(decls) THEN decls ELSE Append(decls, d)
Enter(container, d, name, invisible) ==
    IF invisible THEN [container EXCEPT !.invisible[name] = AddTo(@, d)]
    ELSE [container EXCEPT !.visible[name] = AddTo(@, d)]

(* The declarations of a name in one container; all of them, as if none     *)
(* were hidden.                                                             *)
AllCandidates(container, name, alsoInvisible) ==
    container.visible[name] \o container.invisible[name]
Candidates(container, name, alsoInvisible) ==
    container.visible[name]
    \o IF alsoInvisible THEN container.invisible[name] ELSE <<>>
RECURSIVE resolveName(_, _, _, _, _)
resolveName(scopes, id, name, recursive, alsoInvisible) ==
    LET here == Candidates(scopes[id], name, alsoInvisible)
    IN  IF here = <<>> /\ recursive /\ id # GlobalScope
        THEN resolveName(scopes, scopes[id].enclosing, name, TRUE, alsoInvisible)
        ELSE here

----------------------------------------------------------------------------
(* Registration.                                                            *)

Report(r, what, id) == [r EXCEPT !.errors = Append(@, [what |-> what, id |-> id])]
Warn(r, what, id) == [r EXCEPT !.warnings = @ \cup {[what |-> what, id |-> id]}]

Shadowed(r, scope, name) ==
    IF scope = GlobalScope THEN <<>>
    ELSE resolveName(r.scopes, r.scopes[scope].enclosing, name, TRUE, TRUE)

WarnOfShadow(units, r, shadowed, d) ==
    IF shadowed = <<>> THEN r
    ELSE Warn(r, IF KindOf(units, Last(shadowed)) = "MagicVariableDeclaration"
                 THEN "shadows a builtin symbol"
                 ELSE "shadows an existing declaration", d)

(* DeclarationRegistrationHelper::registerDeclaration on a container: d is  *)
(* entered, or reported.                                                    *)
RegisterIn(units, r, scope, d, name, warnOnShadow, inactive) ==
    LET hidden == ~IsVisibleInContract(NodeAt(units, d)) \/ inactive
    IN  CASE name = "" -> r
          [] name # "" /\ Conflicts(units, r.scopes[scope], d, name) # <<>> ->
               Report(r, "Identifier already declared.", d)
          [] OTHER ->
               WarnOfShadow(units,
                            [r EXCEPT !.scopes[scope] = Enter(@, d, name, hidden)],
                            IF warnOnShadow THEN Shadowed(r, scope, name) ELSE <<>>,
                            d)

Opens == Callables \cup {"ContractDefinition", "StructDefinition",
                         "EnumDefinition"}
Declares == Opens \cup {"ImportDirective", "EnumValue", "VariableDeclaration"}
CodeScopes == {"Block", "ForStatement"}

enterNewSubScope(r, id) ==
    [r EXCEPT !.scopes = (id :> EmptyContainer(r.cur)) @@ @, !.cur = id]
closeCurrentScope(r) == [r EXCEPT !.cur = r.scopes[r.cur].enclosing]
SetScopeOf(r, id) == [r EXCEPT !.scopeOf = (id :> r.cur) @@ @]

registerDeclaration(units, r, id, n) ==
    LET in == KindOf(units, r.cur)
        warn == /\ in \notin {"StructDefinition", "EnumDefinition",
                              "EventDefinition"}
                /\ ~(n.node = "FunctionDefinition" /\ n.isConstructor)
        inactive == r.c99 /\ in \in CodeScopes
    IN  SetScopeOf(RegisterIn(units, r, r.cur, id, NameOf(n), warn, inactive), id)

Opened(r, id, n) ==
    CASE n.node \in {"FunctionDefinition", "ModifierDefinition"} ->
           [enterNewSubScope(r, id) EXCEPT !.function = id]
      [] n.node \in Opens \ {"FunctionDefinition", "ModifierDefinition"} ->
           enterNewSubScope(r, id)
      [] OTHER -> r

(* An import shares the scope of the unit it imports, which may not have    *)
(* been visited yet.                                                        *)
KnownUnit(r, unit) ==
    IF Id(unit, <<>>) \in DOMAIN r.scopes THEN r
    ELSE [r EXCEPT !.scopes = (Id(unit, <<>>) :> EmptyContainer(GlobalScope)) @@ @]

RegisterVisit(units, r, id, n) ==
    CASE n.node = "SourceUnit" -> [KnownUnit(r, id.unit) EXCEPT !.cur = id]
      [] n.node = "ImportDirective" ->
           registerDeclaration(units, KnownUnit(r, n.path), id, n)
      [] n.node \in CodeScopes ->
           IF r.c99 THEN enterNewSubScope(SetScopeOf(r, id), id)
           ELSE SetScopeOf(r, id)
      [] n.node \in Declares \ {"ImportDirective"} ->
           Opened(registerDeclaration(units, r, id, n), id, n)
      [] OTHER -> r

(* The variables a statement declares are local variables of the function.  *)
VariablesOf(id, n) ==
    {Child(id, k) : k \in {j \in DOMAIN Children(n) :
                              Children(n)[j].node = "VariableDeclaration"}}

RegisterEndVisit(r, id, n) ==
    CASE n.node \in Opens \cup {"SourceUnit"} -> closeCurrentScope(r)
      [] n.node \in CodeScopes -> IF r.c99 THEN closeCurrentScope(r) ELSE r
      [] n.node = "VariableDeclarationStatement" ->
           [r EXCEPT !.locals = {[in |-> r.function, variable |-> v] :
                                    v \in VariablesOf(id, n)} \cup @]
      [] OTHER -> r

RECURSIVE RegisterAll(_, _, _, _, _)
RegisterAll(units, r, events, a, b) ==
    CASE a > b -> r
      [] a = b ->
           IF events[a].ended THEN RegisterEndVisit(r, events[a].id, events[a].n)
           ELSE RegisterVisit(units, r, events[a].id, events[a].n)
      [] OTHER ->
           Only({RegisterAll(units, x, events, (a + b) \div 2 + 1, b) :
                    x \in {RegisterAll(units, r, events, a, (a + b) \div 2)}})

RegisterWalk(units, r, events) == RegisterAll(units, r, events, 1, Len(events))

(* The resolver before any unit is registered.                              *)
MagicDeclarations(x) == CASE x \notin Globals -> <<>>
                          [] x \in OverloadedGlobals -> <<Magic(x, 1), Magic(x, 2)>>
                          [] OTHER -> <<Magic(x, 1)>>
NewResolver(features) ==
    [scopes |-> (GlobalScope :> [EmptyContainer(NoId) EXCEPT
                    !.visible = [x \in Identifiers |-> MagicDeclarations(x)]]),
     features |-> features, cur |-> GlobalScope, c99 |-> FALSE,
     scopeOf |-> <<>>, function |-> NoId, locals |-> {}, errors |-> <<>>, warnings |-> {},
     refs |-> <<>>, types |-> <<>>, linearized |-> <<>>, returns |-> <<>>,
     assembly |-> <<>>, insideCode |-> FALSE,
     v050 |-> FALSE, errorOccurred |-> FALSE, success |-> TRUE,
     fatal |-> FALSE, crash |-> FALSE]

registerDeclarations(units, r, unit) ==
    RegisterWalk(units, [r EXCEPT !.c99 = V050(r, unit)],
                 Accept(Id(unit, <<>>), units[unit], {}))

----------------------------------------------------------------------------
(* Imports.                                                                 *)

RECURSIVE RegisterEach(_, _, _, _, _)
RegisterEach(units, r, scope, decls, name) ==
    IF decls = <<>> THEN r
    ELSE RegisterEach(units,
                      RegisterIn(units, r, scope, Head(decls),
                                 IF name = "" THEN NameOf(NodeAt(units, Head(decls)))
                                 ELSE name, TRUE, FALSE),
                      scope, Tail(decls), name)

(* Everything the importee declares, name by name.                          *)
NamesDeclared(r, scope) ==
    Listed({x \in Identifiers : r.scopes[scope].visible[x] # <<>>})
RECURSIVE ImportAll(_, _, _, _, _)
ImportAll(units, r, target, from, names) ==
    IF names = <<>> THEN r
    ELSE ImportAll(units,
                   RegisterEach(units, r, target,
                                r.scopes[from].visible[Head(names)], Head(names)),
                   target, from, Tail(names))

(* One listed symbol; without an alias a declaration keeps its own name.    *)
ImportSymbol(units, r, target, decls, alias) ==
    IF decls = <<>> THEN Report(r, "Declaration not found.", target)
    ELSE RegisterEach(units, r, target, decls, alias)

RECURSIVE ImportSome(_, _, _, _, _)
ImportSome(units, r, target, from, aliases) ==
    IF aliases = <<>> THEN r
    ELSE ImportSome(units,
                    ImportSymbol(units, r, target,
                                 resolveName(r.scopes, from, Head(aliases).symbol,
                                             FALSE, FALSE),
                                 Head(aliases).alias),
                    target, from, Tail(aliases))

ImportFrom(units, r, target, n) ==
    CASE n.node # "ImportDirective" -> r
      [] n.node = "ImportDirective" /\ n.symbolAliases # <<>> ->
           ImportSome(units, r, target, Id(n.path, <<>>), n.symbolAliases)
      [] n.node = "ImportDirective" /\ n.symbolAliases = <<>>
         /\ n.unitAlias = "" ->
           ImportAll(units, r, target, Id(n.path, <<>>),
                     NamesDeclared(r, Id(n.path, <<>>)))
      [] OTHER -> r

RECURSIVE ImportInto(_, _, _, _)
ImportInto(units, r, target, nodes) ==
    IF nodes = <<>> THEN r
    ELSE ImportInto(units, ImportFrom(units, r, target, Head(nodes)), target,
                    Tail(nodes))

(* Fails when anything is reported.                                         *)
Succeeding(r, errors) == [r EXCEPT !.success = r.errors = errors]
performImports(units, r, unit) ==
    Succeeding(ImportInto(units, r, Id(unit, <<>>), units[unit].nodes), r.errors)

----------------------------------------------------------------------------
(* Looking names up while the references are resolved.                      *)

(* A declared variable can be seen from the end of its statement on; the    *)
(* compiler fails when it is not the only hidden one of its name.           *)
activateVariable(r, name) ==
    LET c == r.scopes[r.cur]
    IN  IF Len(c.invisible[name]) # 1 \/ c.visible[name] # <<>>
        THEN [r EXCEPT !.crash = TRUE]
        ELSE [r EXCEPT !.scopes[r.cur].visible[name] = c.invisible[name],
                       !.scopes[r.cur].invisible[name] = <<>>]

RECURSIVE ActivateAll(_, _)
ActivateAll(r, names) ==
    IF names = <<>> \/ r.crash THEN r
    ELSE ActivateAll(activateVariable(r, Head(names)), Tail(names))

(* this and super mean the contract that is resolved next.                  *)
updateDeclaration(r, name) ==
    IF name \notin Identifiers THEN r
    ELSE [r EXCEPT !.scopes[GlobalScope].visible[name] = <<Magic(name, 1)>>,
                   !.scopes[GlobalScope].invisible[name] = <<>>]

(* An import is the scope of the unit it imports.                           *)
ScopeId(units, id) == IF KindOf(units, id) = "ImportDirective"
                      THEN Id(NodeAt(units, id).path, <<>>) ELSE id

RECURSIVE FollowPath(_, _, _, _)
FollowPath(units, r, candidates, path) ==
    IF path = <<>> \/ Len(candidates) # 1 THEN candidates
    ELSE LET scope == ScopeId(units, Head(candidates))
         IN  IF scope \notin DOMAIN r.scopes THEN <<>>
             ELSE FollowPath(units, r,
                             resolveName(r.scopes, scope, Head(path), FALSE, FALSE),
                             Tail(path))
pathFromCurrentScope(units, r, path) ==
    LET found == FollowPath(units, r,
                            resolveName(r.scopes, r.cur, Head(path), TRUE, FALSE),
                            Tail(path))
    IN  IF Len(found) = 1 THEN Head(found) ELSE NoId

----------------------------------------------------------------------------
(* Types, as far as the resolver looks at them: the category, the name of   *)
(* an elementary type, the declaration of a user-defined one, the parts of  *)
(* a composed one and where a value of the type lives.                      *)

NewType(cat, name, decl, parts) ==
    [cat |-> cat, name |-> name, decl |-> decl, parts |-> parts,
     location |-> IF cat \in {"array", "struct"} THEN "storage" ELSE "",
     pointer |-> FALSE]
NoType == NewType("", "", NoId, <<>>)
IsReference(t) == t.cat \in {"array", "struct"}
CopyForLocation(t, location, pointer) ==
    IF IsReference(t) THEN [t EXCEPT !.location = location, !.pointer = pointer]
    ELSE t

TypeAt(r, id) == IF id \in DOMAIN r.types THEN r.types[id] ELSE NoType
SetType(r, id, t) == [r EXCEPT !.types = (id :> t) @@ @]

fromElementaryTypeName(name) ==
    IF name \in {"bytes", "string"} THEN NewType("array", name, NoId, <<>>)
    ELSE NewType("elementary", name, NoId, <<>>)

(* The parameters, or what is returned, of a callable declaration.          *)
ListedTypes(units, r, d, list) ==
    [k \in DOMAIN NodeAt(units, Child(d, list)).parameters |->
        TypeAt(r, Child(Child(d, list), k))]

(* Whether a value of the type can be passed to another contract.           *)
RECURSIVE canBeUsedExternally(_, _, _, _)
canBeUsedExternally(units, r, t, seen) ==
    CASE t.cat = "mapping" -> FALSE
      [] t.cat = "function" -> t.name = "external"
      [] t.cat = "array" -> \A k \in DOMAIN t.parts :
                               canBeUsedExternally(units, r, t.parts[k], seen)
      [] t.cat = "struct" ->
           /\ t.decl \notin seen
           /\ \A k \in DOMAIN NodeAt(units, t.decl).members :
                 canBeUsedExternally(units, r, TypeAt(r, Child(t.decl, k)),
                                     seen \cup {t.decl})
      [] OTHER -> TRUE

(* The arguments by which overloaded declarations differ; those of a public *)
(* variable are the ones of its getter.                                     *)
RECURSIVE GetterArguments(_)
GetterArguments(t) ==
    CASE t.cat = "mapping" -> <<t.parts[1]>> \o GetterArguments(t.parts[2])
      [] t.cat = "array" /\ t.parts # <<>> ->
           <<fromElementaryTypeName("uint")>> \o GetterArguments(t.parts[1])
      [] OTHER -> <<>>
MagicArguments(d) == IF d.unit = "revert" THEN d.path[1] - 1 ELSE d.path[1]
ArgumentTypes(units, r, d) ==
    CASE KindOf(units, d) \in {"FunctionDefinition", "EventDefinition"} ->
           ListedTypes(units, r, d, 1)
      [] KindOf(units, d) = "VariableDeclaration" -> GetterArguments(TypeAt(r, d))
      [] OTHER -> [k \in 1..MagicArguments(d) |-> NewType("magic", d.unit, NoId, <<>>)]
ReturnTypes(units, r, d) ==
    IF KindOf(units, d) = "FunctionDefinition" THEN ListedTypes(units, r, d, 2)
    ELSE <<>>

----------------------------------------------------------------------------
(* ReferencesResolver.                                                      *)

DeclarationError(r, what, id) == [Report(r, what, id) EXCEPT !.errorOccurred = TRUE]
TypeError(r, what, id) == [Report(r, what, id) EXCEPT !.errorOccurred = TRUE]
FatalError(r, what, id) == [TypeError(r, what, id) EXCEPT !.fatal = TRUE]
Stopped(r) == r.fatal \/ r.crash

(* The declarations left when those with the arguments of an earlier one    *)
(* are passed over.                                                         *)
RECURSIVE Distinct(_, _, _, _)
Distinct(units, r, decls, unique) ==
    IF decls = <<>> THEN unique
    ELSE Distinct(units, r, Tail(decls),
                  IF \E k \in DOMAIN unique : ArgumentTypes(units, r, unique[k])
                                              = ArgumentTypes(units, r, Head(decls))
                  THEN unique ELSE Append(unique, Head(decls)))
cleanedDeclarations(units, r, id, decls) ==
    IF \E k \in DOMAIN decls :
          NoType \in ToSet(ArgumentTypes(units, r, decls[k])
                           \o ReturnTypes(units, r, decls[k]))
    THEN FatalError(r, "Function type can not be used in this context.", id)
    ELSE [r EXCEPT !.refs = (id :> Distinct(units, r, decls, <<>>)) @@ @]

ResolveIdentifier(units, r, id, decls) ==
    CASE decls = <<>> -> DeclarationError(r, "Undeclared identifier.", id)
      [] Len(decls) = 1 -> [r EXCEPT !.refs = (id :> decls) @@ @]
      [] OTHER -> cleanedDeclarations(units, r, id, decls)

TypeDeclarations == {"StructDefinition", "EnumDefinition", "ContractDefinition"}
CategoryOf(kind) == CASE kind = "StructDefinition" -> "struct"
                      [] kind = "EnumDefinition" -> "enum"
                      [] OTHER -> "contract"
ResolveUserDefinedTypeName(units, r, id, d) ==
    CASE d = NoId ->
           DeclarationError(r, "Identifier not found or not unique.", id)
      [] d # NoId /\ KindOf(units, d) \in TypeDeclarations ->
           SetType([r EXCEPT !.refs = (id :> <<d>>) @@ @], id,
                   NewType(CategoryOf(KindOf(units, d)), "", d, <<>>))
      [] OTHER -> TypeError([r EXCEPT !.refs = (id :> <<d>>) @@ @],
                            "Name has to refer to a struct, enum or contract.", id)

(* A parameter whose type could not be resolved fails an assertion.         *)
ResolveFunctionTypeName(units, r, id, n, types) ==
    LET visibility == IF n.visibility = "default" THEN "internal" ELSE n.visibility
    IN  CASE visibility \notin {"internal", "external"} ->
               TypeError(r, "Invalid visibility.", id)
          [] visibility = "internal" /\ n.mutability = "payable" ->
               TypeError(r, "Only external function types can be payable.", id)
          [] visibility = "external" /\ NoType \in ToSet(types) ->
               [r EXCEPT !.crash = TRUE]
          [] /\ visibility = "external"
             /\ NoType \notin ToSet(types)
             /\ \E k \in DOMAIN types :
                   ~canBeUsedExternally(units, r, types[k], {}) ->
               TypeError(r, "Internal type cannot be used.", id)
          [] OTHER -> SetType(r, id, NewType("function", visibility, NoId, types))

ResolveArrayTypeName(r, id, n) ==
    CASE TypeAt(r, Child(id, 1)) = NoType -> r
      [] TypeAt(r, Child(id, 1)) # NoType /\ n.length.node \notin {"Null", "Literal"} ->
           FatalError(r, "Invalid array length.", id)
      [] OTHER -> SetType(r, id, NewType("array", "", NoId,
                                         <<TypeAt(r, Child(id, 1))>>))

(* Where the value of a variable of a reference type lives.                 *)
Located(r, id, t, location, pointer) ==
    SetType(r, id, CopyForLocation(t, location, pointer))
InLibrary(units, r, id) == NodeAt(units, r.scopeOf[r.scopeOf[id]]).kind = "library"

LocateExternalParameter(r, id, n, t, library) ==
    IF \/ library /\ n.location = "memory"
       \/ ~library /\ n.location # "default"
    THEN FatalError(r, "Location has to be calldata.", id)
    ELSE Located(r, id, t, IF n.location = "default" THEN "calldata" ELSE n.location,
                 TRUE)
LocatePublicParameter(r, id, n, t, library) ==
    IF n.location = "storage" /\ ~library
    THEN FatalError(r, "Location has to be memory.", id)
    ELSE Located(r, id, t,
                 IF n.location = "default" \/ ~library THEN "memory" ELSE n.location,
                 TRUE)
LocateConstant(r, id, n, t) ==
    IF n.location = "storage" THEN FatalError(r, "Location has to be memory.", id)
    ELSE Located(r, id, t, "memory", ~n.isState)
LocateByDefault(units, r, id, n, t) ==
    CASE IsCallableParameter(units, r.scopeOf[id], id) ->
           Located(r, id, t, "memory", ~n.isState)
      [] ~IsCallableParameter(units, r.scopeOf[id], id)
         /\ IsLocalVariable(units, r.scopeOf[id]) ->
           Located(IF V050(r, id.unit)
                   THEN TypeError(r, "Storage location must be specified.", id)
                   ELSE Warn(r, "declared as a storage pointer", id),
                   id, t, "storage", ~n.isState)
      [] OTHER -> Located(r, id, t, "storage", ~n.isState)
Locate(units, r, id, n, t) ==
    LET scope == r.scopeOf[id]
    IN  CASE IsExternalCallableParameter(units, scope, id) ->
               LocateExternalParameter(r, id, n, t, InLibrary(units, r, id))
          [] /\ ~IsExternalCallableParameter(units, scope, id)
             /\ IsCallableParameter(units, scope, id)
             /\ IsPublic(NodeAt(units, scope)) ->
               LocatePublicParameter(r, id, n, t, InLibrary(units, r, id))
          [] OTHER -> IF n.isConstant THEN LocateConstant(r, id, n, t)
                      ELSE IF n.location = "default"
                      THEN LocateByDefault(units, r, id, n, t)
                      ELSE Located(r, id, t, n.location, ~n.isState)

ResolveVariable(units, r, id, n) ==
    CASE TypeAt(r, id) # NoType -> r
      [] TypeAt(r, id) = NoType /\ n.typeName = Null ->
           IF /\ IsLocalVariable(units, r.scopeOf[id])
              /\ ~IsCallableParameter(units, r.scopeOf[id], id)
           THEN r ELSE TypeError(r, "Explicit type needed.", id)
      [] OTHER ->
           IF IsReference(TypeAt(r, Child(id, 1)))
           THEN Locate(units, r, id, n, TypeAt(r, Child(id, 1)))
           ELSE SetType(IF n.location = "default" THEN r
                        ELSE TypeError(r, "only for array or struct types", id),
                        id, TypeAt(r, Child(id, 1)))

(* Inline assembly refers to the names that mean one declaration.           *)
ExternalReferences(r, body) ==
    LET found == {resolveName(r.scopes, r.cur, x, TRUE, FALSE) :
                     x \in AssemblyUses[body]}
    IN  {Head(decls) : decls \in {ds \in found : Len(ds) = 1}}

ResolveVisit(units, r, id, n) ==
    CASE n.node \in CodeScopes /\ r.insideCode ->
           [r EXCEPT !.v050 = V050(r, id.unit),
                     !.cur = IF V050(r, id.unit) THEN id ELSE @]
      [] n.node = "Identifier" ->
           ResolveIdentifier(units, r, id,
                             resolveName(r.scopes, r.cur, n.name, TRUE, FALSE))
      [] n.node = "ElementaryTypeName" ->
           SetType(r, id, fromElementaryTypeName(n.type))
      [] n.node \in {"FunctionDefinition", "ModifierDefinition"} ->
           [r EXCEPT !.function = IF n.node = "FunctionDefinition" THEN id ELSE NoId]
      [] n.node = "InlineAssembly" ->
           [r EXCEPT !.assembly = (id :> ExternalReferences(r, n.body)) @@ @]
      [] n.node = "Return" -> [r EXCEPT !.returns = (id :> r.function) @@ @]
      [] OTHER -> r

ResolveEndVisit(units, r, id, n) ==
    CASE n.node \in CodeScopes /\ r.insideCode ->
           IF r.v050 THEN [r EXCEPT !.cur = r.scopeOf[id]] ELSE r
      [] n.node = "VariableDeclarationStatement" /\ r.insideCode ->
           IF r.v050
           THEN ActivateAll(r, [k \in DOMAIN SelectSeq(n.variables,
                                                      LAMBDA v : v # Null) |->
                                   SelectSeq(n.variables,
                                             LAMBDA v : v # Null)[k].name])
           ELSE r
      [] n.node = "UserDefinedTypeName" ->
           ResolveUserDefinedTypeName(units, r, id,
                                      pathFromCurrentScope(units, r, n.path))
      [] n.node = "FunctionTypeName" ->
           ResolveFunctionTypeName(units, r, id, n,
                                   ListedTypes(units, r, id, 1)
                                   \o ListedTypes(units, r, id, 2))
      [] n.node = "Mapping" ->
           SetType(r, id, NewType("mapping", "", NoId,
                     <<CopyForLocation(TypeAt(r, Child(id, 1)), "memory", TRUE),
                       CopyForLocation(TypeAt(r, Child(id, 2)), "storage", TRUE)>>))
      [] n.node = "ArrayTypeName" -> ResolveArrayTypeName(r, id, n)
      [] n.node = "VariableDeclaration" -> ResolveVariable(units, r, id, n)
      [] OTHER -> r

RECURSIVE ResolveEvents(_, _, _, _, _)
ResolveEvents(units, r, events, a, b) ==
    CASE a > b \/ Stopped(r) -> r
      [] a = b /\ ~Stopped(r) ->
           IF events[a].ended THEN ResolveEndVisit(units, r, events[a].id, events[a].n)
           ELSE ResolveVisit(units, r, events[a].id, events[a].n)
      [] OTHER ->
           Only({ResolveEvents(units, x, events, (a + b) \div 2 + 1, b) :
                    x \in {ResolveEvents(units, r, events, a, (a + b) \div 2)}})

ResolveWalk(units, r, events) == ResolveEvents(units, r, events, 1, Len(events))

(* What is not a contract is resolved in its own scope, if it has one; a    *)
(* fatal error ends it.                                                     *)
Caught(r) == [r EXCEPT !.success = ~r.errorOccurred /\ ~r.fatal, !.fatal = FALSE]
resolveNode(units, r, id, insideCode) ==
    Caught(ResolveWalk(units,
               [r EXCEPT !.cur = IF id \in DOMAIN r.scopes THEN id ELSE @,
                         !.insideCode = insideCode, !.v050 = FALSE,
                         !.errorOccurred = FALSE],
               Accept(id, NodeAt(units, id), IF insideCode THEN {} ELSE CodeScopes)))

----------------------------------------------------------------------------
(* Inheritance.                                                             *)

(* The lists to merge, those of the last base first, the list of the direct *)
(* bases, the last first, at the end.                                       *)
(* Looked at in the first list only.                                        *)
AppearsAtFirstHead(lists, c) == c \notin ToSet(Tail(lists[1]))
AppearsOnlyAtHead(lists, c) ==
    \A k \in DOMAIN lists : c \notin ToSet(Tail(lists[k]))
RECURSIVE cThreeMerge(_, _)
cThreeMerge(lists, merged) ==
    LET free == {k \in DOMAIN lists : AppearsOnlyAtHead(lists, Head(lists[k]))}
        c == Head(lists[CHOOSE k \in free : \A j \in free : k <= j])
        rest == [k \in DOMAIN lists |-> SelectSeq(lists[k], LAMBDA x : x # c)]
    IN  CASE lists = <<>> -> merged
          [] lists # <<>> /\ free = {} -> <<>>
          [] OTHER -> cThreeMerge(SelectSeq(rest, LAMBDA l : l # <<>>),
                                  Append(merged, c))

(* The contract a base specifier names, known from its resolved name.       *)
NamedBase(r, specifier) == Head(r.refs[Child(specifier, 1)])
BaseSpecifiers(units, id) ==
    [k \in DOMAIN NodeAt(units, id).bases |-> Child(id, k)]
LinearizedOf(r, id) == IF id \in DOMAIN r.linearized THEN r.linearized[id] ELSE <<>>

(* The first base, if any, that stops the linearization.                    *)
BadBases(units, r, specifiers) ==
    {k \in DOMAIN specifiers :
        \/ KindOf(units, NamedBase(r, specifiers[k])) # "ContractDefinition"
        \/ LinearizedOf(r, NamedBase(r, specifiers[k])) = <<>>}
linearizeBaseContracts(units, r, id) ==
    LET specifiers == BaseSpecifiers(units, id)
        bases == Reverse([k \in DOMAIN specifiers |-> NamedBase(r, specifiers[k])])
        result == cThreeMerge([k \in DOMAIN bases |-> LinearizedOf(r, bases[k])]
                              \o <<<<id>> \o bases>>, <<>>)
    IN  CASE BadBases(units, r, specifiers) # {} ->
               FatalError(r, "Contract expected, defined before.", id)
          [] BadBases(units, r, specifiers) = {} /\ result = <<>> ->
               FatalError(r, "Linearization of inheritance graph impossible", id)
          [] OTHER -> [r EXCEPT !.linearized = (id :> result) @@ @]

(* A declaration of a base is entered unless the derived contract has one   *)
(* that conflicts; variables and modifiers shadow those of the base.        *)
Inherit(units, r, d, name) ==
    LET conflicts == Conflicts(units, r.scopes[r.cur], d, name)
    IN  CASE conflicts = <<>> ->
               [r EXCEPT !.scopes[r.cur] = Enter(@, d, name, FALSE)]
          [] /\ conflicts # <<>>
             /\ KindOf(units, d) \in {"VariableDeclaration", "ModifierDefinition"}
             /\ KindOf(units, Head(conflicts)) = KindOf(units, d) -> r
          [] OTHER -> Report(r, "Identifier already declared.", d)

RECURSIVE InheritEach(_, _, _, _)
InheritEach(units, r, decls, name) ==
    IF decls = <<>> THEN r
    ELSE InheritEach(units, Inherit(units, r, Head(decls), name), Tail(decls), name)

RECURSIVE importInheritedScope(_, _, _, _)
importInheritedScope(units, r, base, names) ==
    IF names = <<>> THEN r
    ELSE importInheritedScope(units,
           InheritEach(units, r,
                       SelectSeq(r.scopes[base].visible[Head(names)],
                                 LAMBDA d : /\ r.scopeOf[d] = base
                                            /\ IsVisibleInDerivedContracts(
                                                  NodeAt(units, d))),
                       Head(names)),
           base, Tail(names))

RECURSIVE InheritAll(_, _, _)
InheritAll(units, r, bases) ==
    IF bases = <<>> THEN r
    ELSE Only({InheritAll(units, x, Tail(bases)) :
                  x \in {importInheritedScope(units, r, Head(bases),
                                              NamesDeclared(r, Head(bases)))}})

----------------------------------------------------------------------------
(* resolveNamesAndTypes of a contract: its bases in the scope it is in, the *)
(* order of its bases and what it inherits, its parts without their code,   *)
(* of which the first failure is the last, and then with it.                *)

PartsOf(units, id) ==
    LET n == NodeAt(units, id)
    IN  [k \in DOMAIN n.subNodes |-> Child(id, Len(n.bases) + k)]

RECURSIVE ResolveParts(_, _, _, _, _, _), PartResolved(_, _, _, _, _, _)
ResolveParts(units, r, scope, parts, insideCode, ok) ==
    IF parts = <<>> \/ r.crash \/ (~ok /\ ~insideCode)
    THEN [r EXCEPT !.success = ok]
    ELSE PartResolved(units, resolveNode(units, [r EXCEPT !.cur = scope], Head(parts),
                                         insideCode),
                      scope, Tail(parts), insideCode, ok)
PartResolved(units, r, scope, parts, insideCode, ok) ==
    ResolveParts(units, r, scope, parts, insideCode, ok /\ r.success)

(* The three rounds over the parts of a contract.                           *)
RoundParts(units, id, round) == IF round = 1 THEN BaseSpecifiers(units, id)
                                ELSE PartsOf(units, id)
RoundScope(r, id, round) == IF round = 1 THEN r.scopeOf[id] ELSE id

(* Between the rounds: behind the first the bases are put in order, unless  *)
(* one of them failed; the last is left out when something failed.          *)
Inherited(units, r, id) ==
    IF r.fatal THEN r
    ELSE InheritAll(units, [r EXCEPT !.cur = id], Tail(r.linearized[id]))
AfterRound(units, r, id, round, before) ==
    IF round = 1 /\ r.success /\ ~r.crash
    THEN Inherited(units, linearizeBaseContracts(units, r, id), id)
    ELSE [r EXCEPT !.success = @ /\ before]

RECURSIVE ResolveRounds(_, _, _, _)
ResolveRounds(units, r, id, round) ==
    IF round > 3 \/ Stopped(r) \/ (round = 3 /\ ~r.success) THEN r
    ELSE ResolveRounds(units,
           AfterRound(units,
                      ResolveParts(units, r, RoundScope(r, id, round),
                                   RoundParts(units, id, round), round # 2, TRUE),
                      id, round, r.success),
           id, round + 1)

(* A fatal error that is caught here is one of the linearization.           *)
Ended(r) == [r EXCEPT !.success = @ /\ ~r.fatal, !.fatal = FALSE]
resolveNamesAndTypes(units, r, id) ==
    Ended(ResolveRounds(units, [r EXCEPT !.success = TRUE], id, 1))
=============================================================================

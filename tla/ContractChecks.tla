--------------------------- MODULE ContractChecks ---------------------------
(****************************************************************************)
(* What the type checker (libsolidity/analysis/TypeChecker) demands of a    *)
(* contract as a whole and of its declarations: the bases and what they are *)
(* given, overriding, what is left without implementation, the rules of     *)
(* interfaces and libraries; and what of it the code generator relies on.   *)
(* The statements and expressions are well typed, the arguments of modifiers*)
(* and bases fit their parameters, and no two signatures have one hash.     *)
(****************************************************************************)
EXTENDS Annotations

Finding(severity, what, id) == [severity |-> severity, what |-> what, id |-> id]
Wrong(what, id) == Finding("error", what, id)
When(condition, finding) == IF condition THEN {finding} ELSE {}
(* An error under the rules of 0.5.0, a warning before.                     *)
Stricter(r, c, what, id) ==
    Finding(IF V050(r, c.unit) THEN "error" ELSE "warning", what, id)

----------------------------------------------------------------------------
(* The parts of contracts.                                                  *)

Defined(units, c, kind) ==
    SelectSeq(PartsOf(units, c), LAMBDA d : KindOf(units, d) = kind)
definedFunctions(units, c) == Defined(units, c, "FunctionDefinition")
(* What can override and be overridden.                                     *)
IsConstructor(units, f) == NodeAt(units, f).isConstructor
OrdinaryFunctions(units, c) ==
    SelectSeq(definedFunctions(units, c), LAMBDA f : ~IsConstructor(units, f))
Constructors(units, c) ==
    SelectSeq(definedFunctions(units, c), LAMBDA f : IsConstructor(units, f))
Fallbacks(units, c) ==
    SelectSeq(definedFunctions(units, c), LAMBDA f : IsFallback(NodeAt(units, f)))
constructor(units, c) ==
    IF Constructors(units, c) = <<>> THEN NoId ELSE Head(Constructors(units, c))
IsImplemented(units, f) == NodeAt(units, f).body # Null
ContractKind(units, c) == NodeAt(units, c).kind
inContractKind(units, r, f) == ContractKind(units, r.scopeOf[f])

SameName(units, f, g) == NodeAt(units, f).name = NodeAt(units, g).name
hasEqualArgumentTypes(units, r, f, g) ==
    ArgumentTypes(units, r, f) = ArgumentTypes(units, r, g)
Alike(units, r, f, g) ==
    SameName(units, f, g) /\ hasEqualArgumentTypes(units, r, f, g)

(* The functions of contracts, in the order of the contracts.               *)
FunctionsAlong(units, order) ==
    FlattenSeq([k \in DOMAIN order |-> OrdinaryFunctions(units, order[k])])

(* The types other contracts see; NoType where there is none.               *)
RECURSIVE InterfaceType(_, _, _, _)
InterfaceType(units, r, t, library) ==
    CASE library /\ (t.location = "storage" \/ t.cat \in {"contract", "enum"}) -> t
      [] ~library /\ t.cat = "contract" -> fromElementaryTypeName("address")
      [] ~library /\ t.cat = "enum" -> fromElementaryTypeName("uint8")
      [] t.cat = "array" /\ t.parts # <<>> /\ ~(library /\ t.location = "storage") ->
           IF InterfaceType(units, r, t.parts[1], library) = NoType THEN NoType
           ELSE CopyForLocation([t EXCEPT !.parts = <<InterfaceType(units, r, @[1],
                                                                    library)>>],
                                "memory", TRUE)
      [] OTHER -> IF canBeUsedExternally(units, r, t, {})
                  THEN CopyForLocation(t, "memory", TRUE) ELSE NoType

RECURSIVE canLiveOutsideStorage(_)
canLiveOutsideStorage(t) ==
    CASE t.cat = "array" /\ t.parts # <<>> -> canLiveOutsideStorage(t.parts[1])
      [] OTHER -> t.cat # "mapping"

(* What the encoder can do without the experimental pragma; an array in an  *)
(* array is one of variable length.                                         *)
RECURSIVE typeSupportedByOldABIEncoder(_)
typeSupportedByOldABIEncoder(t) ==
    \/ t.location = "storage"
    \/ t.cat # "struct" /\ (t.cat # "array" \/ t.parts = <<>>)
    \/ /\ t.cat = "array" /\ t.parts # <<>>
       /\ t.parts[1].cat # "array"
       /\ typeSupportedByOldABIEncoder([t.parts[1] EXCEPT !.location = t.location])

----------------------------------------------------------------------------
(* Declarations that occur twice.                                           *)

AfterFirst(seq) == {seq[k] : k \in 2..Len(seq)}
(* The search through the overloads of a name ends at the first of them     *)
(* that has been found to be like an earlier one.                           *)
findDuplicateDefinitions(units, r, decls) ==
    LET repeats(i) == \E h \in 1..(i - 1) : Alike(units, r, decls[h], decls[i])
        repeated(i) == \E j \in (i + 1)..Len(decls) : Alike(units, r, decls[i], decls[j])
    IN  {decls[i] : i \in {k \in DOMAIN decls :
            /\ repeated(k)
            /\ \A h \in 1..k : SameName(units, decls[h], decls[k]) => ~repeats(h)}}
checkContractDuplicateFunctions(units, r, c) ==
    {Wrong("More than one constructor defined.", f) :
        f \in AfterFirst(Constructors(units, c))}
    \cup {Wrong("Only one fallback function is allowed.", f) :
             f \in AfterFirst(Fallbacks(units, c))}
    \cup {Wrong("Function with same name and arguments defined twice.", f) :
             f \in findDuplicateDefinitions(units, r,
                      SelectSeq(OrdinaryFunctions(units, c),
                                LAMBDA f : ~IsFallback(NodeAt(units, f))))}
checkContractDuplicateEvents(units, r, c) ==
    {Wrong("Event with same name and arguments defined twice.", e) :
        e \in findDuplicateDefinitions(units, r, Defined(units, c, "EventDefinition"))}

----------------------------------------------------------------------------
(* Overriding.                                                              *)

(* A public function of a contract may stand for an external one of an      *)
(* interface, whatever else they differ in.                                 *)
StandsForInterface(units, r, function, super) ==
    /\ inContractKind(units, r, super) = "interface"
    /\ inContractKind(units, r, function) # "interface"
    /\ VisibilityOf(NodeAt(units, function)) = "public"
checkFunctionOverride(units, r, function, super) ==
    LET f == NodeAt(units, function)
        s == NodeAt(units, super)
    IN  CASE VisibilityOf(f) # VisibilityOf(s) ->
               When(~StandsForInterface(units, r, function, super),
                    Wrong("Overriding function visibility differs.", function))
          [] VisibilityOf(f) = VisibilityOf(s) /\ f.mutability # s.mutability ->
               {Wrong("Overriding function changes state mutability.", function)}
          [] OTHER ->
               When(ReturnTypes(units, r, function) # ReturnTypes(units, r, super),
                    Wrong("Overriding function return types differ.", function))

(* The functions each function of fs overrides, the nearest first.          *)
Overridden(units, r, fs, i) ==
    SelectSeq(SubSeq(fs, i + 1, Len(fs)), LAMBDA g : Alike(units, r, fs[i], g))
FunctionOverrides(units, r, fs) ==
    UNION {UNION {checkFunctionOverride(units, r, fs[i], g) :
                     g \in ToSet(Overridden(units, r, fs, i))} : i \in DOMAIN fs}
SuperFunctions(units, r, fs) ==
    LET overriding == {i \in DOMAIN fs : Overridden(units, r, fs, i) # <<>>}
    IN  [f \in {fs[i] : i \in overriding} |->
            Head(Overridden(units, r, fs, CHOOSE i \in overriding : fs[i] = f))]

(* Modifiers; the most derived of a name is the one that is reported.       *)
ModifierOverrides(units, r, order) ==
    LET all == FlattenSeq([k \in DOMAIN order |->
                  LET ms == Defined(units, order[k], "ModifierDefinition")
                  IN  [j \in DOMAIN ms |-> [at |-> k, id |-> ms[j]]]])
        fs == FlattenSeq([k \in DOMAIN order |->
                 LET gs == OrdinaryFunctions(units, order[k])
                 IN  [j \in DOMAIN gs |-> [at |-> k, id |-> gs[j]]]])
        first(id) == all[CHOOSE i \in DOMAIN all :
                            /\ SameName(units, all[i].id, id)
                            /\ \A h \in 1..(i - 1) : ~SameName(units, all[h].id, id)]
        types(id) == ListedTypes(units, r, id, 1)
    IN  {Wrong("Override changes function to modifier.", first(f.id).id) :
            f \in {x \in ToSet(fs) : \E m \in ToSet(all) :
                      SameName(units, m.id, x.id) /\ m.at < x.at}}
        \cup {Wrong("Override changes modifier signature.", first(m.id).id) :
                 m \in {x \in ToSet(all) : types(first(x.id).id) # types(x.id)}}
        \cup {Wrong("Override changes modifier to function.", first(m.id).id) :
                 m \in {x \in ToSet(all) : \E f \in ToSet(fs) :
                           SameName(units, f.id, x.id) /\ f.at <= x.at}}
checkContractIllegalOverrides(units, r, order) ==
    FunctionOverrides(units, r, FunctionsAlong(units, order))
    \cup ModifierOverrides(units, r, order)

----------------------------------------------------------------------------
(* What a contract leaves without implementation.                           *)

(* The functions from base to derived; from derived to base.                *)
FromDerived(units, order) == FunctionsAlong(units, order)
FromBase(units, order) == FunctionsAlong(units, Reverse(order))
Redeclared(units, r, fs) ==
    {Wrong("Redeclaring an already implemented function as abstract", fs[j]) :
        j \in {k \in DOMAIN fs : /\ ~IsImplemented(units, fs[k])
                                 /\ \E i \in 1..(k - 1) : /\ Alike(units, r, fs[i], fs[k])
                                                          /\ IsImplemented(units, fs[i])}}
(* Of each name the first that no function alike implements.                *)
UnimplementedFunctions(units, r, fs) ==
    LET open(i) == \A j \in DOMAIN fs : Alike(units, r, fs[i], fs[j])
                                           => ~IsImplemented(units, fs[j])
    IN  {fs[i] : i \in {k \in DOMAIN fs :
            open(k) /\ \A h \in 1..(k - 1) : SameName(units, fs[h], fs[k]) => ~open(h)}}

ModifiersAt(units, f) == [k \in DOMAIN NodeAt(units, f).modifiers |-> Child(f, k + 2)]
ConstructorModifiers(units, c) ==
    IF constructor(units, c) = NoId THEN <<>>
    ELSE ModifiersAt(units, constructor(units, c))
(* The one declaration a name stands for; an overloaded name is not settled *)
(* before its expression is checked.                                        *)
Dereferenced(r, id) == r.refs[Child(id, 1)]
ConstructorNamed(units, r, id) ==
    IF KindOf(units, Head(Dereferenced(r, id))) = "ContractDefinition"
    THEN constructor(units, Head(Dereferenced(r, id))) ELSE NoId
Unsettled(units, r, order) ==
    \E k \in DOMAIN order :
       \E m \in ToSet(ConstructorModifiers(units, order[k])) : Len(Dereferenced(r, m)) # 1

(* The places that give arguments to the constructors of bases, in order.   *)
GivenByModifier(units, r, c) ==
    SelectSeq(ConstructorModifiers(units, c),
              LAMBDA m : NodeAt(units, m).given /\ ConstructorNamed(units, r, m) # NoId)
GivenByInheritance(units, r, c) ==
    SelectSeq(BaseSpecifiers(units, c),
              LAMBDA b : /\ NodeAt(units, b).arguments # <<>>
                         /\ ConstructorNamed(units, r, b) # NoId)
ArgumentNodes(units, r, order) ==
    FlattenSeq([k \in DOMAIN order |-> GivenByModifier(units, r, order[k])
                                       \o GivenByInheritance(units, r, order[k])])

annotateBaseConstructorArguments(units, r, c, nodes) ==
    When(\E i, j \in DOMAIN nodes :
            i < j /\ ConstructorNamed(units, r, nodes[i]) = ConstructorNamed(units, r, nodes[j]),
         Stricter(r, c, "Base constructor arguments given twice.", c))
checkContractBaseConstructorArguments(units, r, c, order) ==
    annotateBaseConstructorArguments(units, r, c, ArgumentNodes(units, r, order))
    \cup {Stricter(r, c, "Modifier-style base constructor call without arguments.", m) :
             m \in {x \in UNION {ToSet(ConstructorModifiers(units, order[k])) :
                                    k \in DOMAIN order} : ~NodeAt(units, x).given}}
BaseConstructorArguments(units, r, order) ==
    {ConstructorNamed(units, r, n) : n \in ToSet(ArgumentNodes(units, r, order))}
UnsuppliedConstructors(units, r, order) ==
    {f \in {constructor(units, order[k]) : k \in 2..Len(order)} \ {NoId} :
        /\ ListedTypes(units, r, f, 1) # <<>>
        /\ f \notin BaseConstructorArguments(units, r, order)}

----------------------------------------------------------------------------
(* The bases one by one, the constructor, the fallback function.            *)

ConstructorParameters(units, c) ==
    IF constructor(units, c) = NoId \/ ContractKind(units, c) = "interface" THEN 0
    ELSE Len(NodeAt(units, constructor(units, c)).parameters.parameters)
CheckBase(units, r, c, id) ==
    LET base == Head(Dereferenced(r, id))
        n == NodeAt(units, id)
        wrong == n.given /\ Len(n.arguments) # ConstructorParameters(units, base)
    IN  When(ContractKind(units, c) = "interface", Wrong("Interfaces cannot inherit.", id))
        \cup When(ContractKind(units, base) = "library",
                  Wrong("Libraries cannot be inherited from.", id))
        \cup When(wrong, Finding(IF n.arguments = <<>> /\ ~V050(r, c.unit) THEN "warning"
                                 ELSE "error",
                                 "Wrong argument count for constructor call.", id))

CheckConstructor(units, f) ==
    LET n == NodeAt(units, f)
    IN  When(n.returnParameters.parameters # <<>>,
             Wrong("Non-empty \"returns\" directive for constructor.", f))
        \cup When(n.mutability \notin {"nonpayable", "payable"},
                  Wrong("Constructor must be payable or non-payable.", f))
        \cup When(VisibilityOf(n) \notin {"public", "internal"},
                  Wrong("Constructor must be public or internal.", f))
CheckFallback(units, r, c, f) ==
    LET n == NodeAt(units, f)
    IN  When(ContractKind(units, c) = "library",
             Wrong("Libraries cannot have fallback functions.", f))
        \cup When(n.mutability \notin {"nonpayable", "payable"},
                  Wrong("Fallback function must be payable or non-payable.", f))
        \cup When(n.parameters.parameters # <<>>,
                  Wrong("Fallback function cannot take parameters.", f))
        \cup When(n.returnParameters.parameters # <<>>,
                  Wrong("Fallback function cannot return values.", f))
        \cup When(V050(r, c.unit) /\ VisibilityOf(n) # "external",
                  Wrong("Fallback function must be defined as \"external\".", f))

----------------------------------------------------------------------------
(* The declarations of a contract.                                          *)

RECURSIVE StructsIn(_, _, _)
StructsIn(units, r, structs) ==
    LET all == structs \cup {t.decl : t \in {x \in UNION
                  {{TypeAt(r, Child(s, k)) : k \in DOMAIN NodeAt(units, s).members} :
                      s \in structs} : x.cat = "struct"}}
    IN  IF all = structs THEN structs ELSE StructsIn(units, r, all)
DirectStructs(units, r, s) ==
    {t.decl : t \in {x \in {TypeAt(r, Child(s, k)) : k \in DOMAIN NodeAt(units, s).members} :
                        x.cat = "struct"}}
CheckStruct(units, r, c, s) ==
    When(ContractKind(units, c) = "interface",
         Wrong("Structs cannot be defined in interfaces.", s))
    \cup When(\E t \in StructsIn(units, r, {s}) :
                 t \in StructsIn(units, r, DirectStructs(units, r, t)),
              Finding("fatal", "Recursive struct definition.", s))

CheckParameter(units, r, f, v) ==
    LET t == TypeAt(r, v)
        library == inContractKind(units, r, f) = "library"
        public == IsPublic(NodeAt(units, f))
    IN  When(~canLiveOutsideStorage(t), Wrong("Type is required to live outside storage.", v))
        \cup When(public /\ InterfaceType(units, r, t, library) = NoType,
                  Finding("fatal", "Internal or recursive type is not allowed.", v))
        \cup When(public /\ "ABIEncoderV2" \notin r.features[f.unit]
                  /\ ~typeSupportedByOldABIEncoder(t),
                  Wrong("only supported in the new experimental ABI encoder", v))

(* visitManually: what a modifier of a function stands for.                 *)
ModifierParameters(units, r, f, m) ==
    LET d == Head(Dereferenced(r, m))
    IN  CASE KindOf(units, d) = "ModifierDefinition" ->
               {Len(NodeAt(units, d).parameters.parameters)}
          [] /\ KindOf(units, d) = "ContractDefinition" /\ IsConstructor(units, f)
             /\ d \in ToSet(r.linearized[r.scopeOf[f]]) ->
               {IF constructor(units, d) = NoId THEN 0
                ELSE Len(NodeAt(units, constructor(units, d)).parameters.parameters)}
          [] OTHER -> {}
CheckModifier(units, r, f, m) ==
    CASE Len(Dereferenced(r, m)) # 1 ->
           {Finding("fatal", "No unique declaration found after variable lookup.", m)}
      [] Len(Dereferenced(r, m)) = 1 /\ ModifierParameters(units, r, f, m) = {} ->
           {Wrong("Referenced declaration is neither modifier nor base class.", m)}
      [] OTHER ->
           When(Len(NodeAt(units, m).arguments) \notin ModifierParameters(units, r, f, m),
                Wrong("Wrong argument count for modifier invocation.", m))
ProvidedTwice(units, r, f) ==
    LET ms == ModifiersAt(units, f)
    IN  {Wrong("Base constructor already provided.", ms[j]) :
            j \in {k \in DOMAIN ms : \E i \in 1..(k - 1) :
                      /\ Dereferenced(r, ms[i]) = Dereferenced(r, ms[k])
                      /\ KindOf(units, Head(Dereferenced(r, ms[k]))) = "ContractDefinition"}}

CheckInInterface(units, r, f) ==
    LET v == VisibilityOf(NodeAt(units, f))
    IN  When(IsImplemented(units, f),
             Wrong("Functions in interfaces cannot have an implementation.", f))
        \cup When(v # "external",
                  Finding(IF V050(r, f.unit) \/ v # "public" THEN "error" ELSE "warning",
                          "Functions in interfaces must be declared external.", f))
        \cup When(IsConstructor(units, f),
                  Wrong("Constructor cannot be defined in interfaces.", f))
CheckPayable(units, r, f) ==
    LET n == NodeAt(units, f)
    IN  When(inContractKind(units, r, f) = "library",
             Wrong("Library functions cannot be payable.", f))
        \cup When(~n.isConstructor /\ ~IsFallback(n) /\ ~IsPublic(n),
                  Wrong("Internal functions cannot be payable.", f))
CheckImplemented(units, r, f) ==
    When(~IsImplemented(units, f) /\ IsConstructor(units, f),
         Wrong("Constructor must be implemented if declared.", f))
    \cup When(/\ ~IsImplemented(units, f) /\ ~IsConstructor(units, f)
              /\ inContractKind(units, r, f) = "library"
              /\ VisibilityOf(NodeAt(units, f)) \in {"private", "internal"},
              Wrong("Internal library function must be implemented if declared.", f))
ParametersAt(units, f) ==
    UNION {{Child(Child(f, list), k) :
               k \in DOMAIN NodeAt(units, Child(f, list)).parameters} : list \in {1, 2}}
CheckFunctionTypes(units, r, c, f) ==
    (IF NodeAt(units, f).mutability = "payable" THEN CheckPayable(units, r, f) ELSE {})
    \cup UNION {CheckParameter(units, r, f, v) : v \in ParametersAt(units, f)}
    \cup UNION {CheckModifier(units, r, f, m) : m \in ToSet(ModifiersAt(units, f))}
    \cup ProvidedTwice(units, r, f)
    \cup (IF ContractKind(units, c) = "interface" THEN CheckInInterface(units, r, f) ELSE {})
    \cup When(ContractKind(units, c) = "library" /\ IsConstructor(units, f),
              Wrong("Constructor cannot be defined in libraries.", f))
    \cup CheckImplemented(units, r, f)

CheckEvent(units, r, e) ==
    LET n == NodeAt(units, e)
        indexed == {k \in DOMAIN n.parameters.parameters :
                       n.parameters.parameters[k].isIndexed}
    IN  When(Cardinality(indexed) > IF n.anonymous THEN 4 ELSE 3,
             Wrong("Too many indexed arguments for event.", e))
        \cup UNION {LET t == TypeAt(r, Child(Child(e, 1), k))
                    IN  When(~canLiveOutsideStorage(t),
                             Wrong("Type is required to live outside storage.", e))
                        \cup When(InterfaceType(units, r, t, FALSE) = NoType,
                                  Wrong("not allowed as event parameter type", e))
                        \cup When("ABIEncoderV2" \notin r.features[e.unit]
                                  /\ ~typeSupportedByOldABIEncoder(t),
                                  Wrong("only supported in the new experimental ABI encoder",
                                        e))
                        \cup When("ABIEncoderV2" \in r.features[e.unit]
                                  /\ k \in indexed /\ IsReference(t),
                                  Wrong("Indexed reference types cannot yet be used.", e)) :
                       k \in DOMAIN n.parameters.parameters}

(* The type a getter of a public state variable returns.                    *)
RECURSIVE GetterResult(_)
GetterResult(t) == CASE t.cat = "mapping" -> GetterResult(t.parts[2])
                     [] t.cat = "array" /\ t.parts # <<>> -> GetterResult(t.parts[1])
                     [] OTHER -> t
CheckConstant(units, r, v) ==
    LET n == NodeAt(units, v)
    IN  When(~n.isState, Wrong("Illegal use of \"constant\" specifier.", v))
        \cup When(TypeAt(r, v).cat \in {"struct", "mapping"}
                  \/ (TypeAt(r, v).cat = "array" /\ TypeAt(r, v).parts # <<>>),
                  Wrong("Constants of non-value type not yet implemented.", v))
        \cup When(n.value = Null, Wrong("Uninitialized \"constant\" variable.", v))
        \cup When(n.value # Null /\ ~IsPure(units, r, Child(v, Len(Children(n))), n.value),
                  Stricter(r, v, "Initial value has to be compile-time constant.", v))
CheckVariable(units, r, c, v) ==
    LET n == NodeAt(units, v)
        t == TypeAt(r, v)
    IN  When(ContractKind(units, c) = "interface"
             /\ ~IsCallableParameter(units, r.scopeOf[v], v),
             Wrong("Variables cannot be declared in interfaces.", v))
        \cup (IF n.isConstant THEN CheckConstant(units, r, v) ELSE {})
        \cup When(~n.isState /\ t.location \in {"memory", "calldata"}
                  /\ ~canLiveOutsideStorage(t), Wrong("only valid in storage", v))
        \cup When(n.isState /\ IsPublic(n)
                  /\ InterfaceType(units, r, GetterResult(t), FALSE) = NoType,
                  Wrong("Internal or recursive type is not allowed.", v))
VariablesUnder(units, id) ==
    LET events == Accept(id, NodeAt(units, id), {"VariableDeclaration", "EventDefinition"})
    IN  {events[k].id : k \in {j \in DOMAIN events :
                                  events[j].n.node = "VariableDeclaration"}}

CheckPart(units, r, c, d) ==
    UNION {CheckVariable(units, r, c, v) : v \in VariablesUnder(units, d)}
    \cup CASE KindOf(units, d) = "FunctionDefinition" -> CheckFunctionTypes(units, r, c, d)
           [] KindOf(units, d) = "EventDefinition" -> CheckEvent(units, r, d)
           [] KindOf(units, d) = "StructDefinition" -> CheckStruct(units, r, c, d)
           [] KindOf(units, d) = "EnumDefinition" ->
                When(ContractKind(units, c) = "interface",
                     Wrong("Enumerable cannot be declared in interfaces.", d))
           [] KindOf(units, d) = "UsingForDirective" ->
                When(\A l \in ToSet(Dereferenced(r, d)) :
                        KindOf(units, l) # "ContractDefinition" \/ ContractKind(units, l) # "library",
                     Finding("fatal", "Library name expected.", d))
           [] OTHER -> {}

----------------------------------------------------------------------------
(* Behind the parts of a contract.                                          *)

ExternalTypes(units, r, d) ==
    [k \in DOMAIN ArgumentTypes(units, r, d) |->
        InterfaceType(units, r, ArgumentTypes(units, r, d)[k],
                      inContractKind(units, r, d) = "library")]
isPartOfExternalInterface(units, d) ==
    LET n == NodeAt(units, d)
    IN  CASE n.node = "FunctionDefinition" ->
               IsPublic(n) /\ ~n.isConstructor /\ ~IsFallback(n)
          [] n.node = "VariableDeclaration" -> IsPublic(n)
          [] OTHER -> FALSE
VisibleOutside(units, c) ==
    SelectSeq(definedFunctions(units, c) \o Defined(units, c, "VariableDeclaration"),
              LAMBDA d : isPartOfExternalInterface(units, d))
(* Those with types other contracts see, from derived to base.              *)
WithInterface(units, r, order) ==
    SelectSeq(FlattenSeq([k \in DOMAIN order |-> VisibleOutside(units, order[k])]),
              LAMBDA d : NoType \notin ToSet(ExternalTypes(units, r, d)))
SameSignature(units, r, d, e) ==
    SameName(units, d, e) /\ ExternalTypes(units, r, d) = ExternalTypes(units, r, e)
checkContractExternalTypeClashes(units, r, order) ==
    LET ds == WithInterface(units, r, order)
    IN  {Wrong("Function overload clash during conversion to external types.", ds[j]) :
            j \in {k \in DOMAIN ds : \E i \in 1..(k - 1) :
                      /\ SameSignature(units, r, ds[i], ds[k])
                      /\ ~hasEqualArgumentTypes(units, r, ds[i], ds[k])}}
checkLibraryRequirements(units, c) ==
    When(NodeAt(units, c).bases # <<>>, Wrong("Library is not allowed to inherit.", c))
    \cup {Wrong("Library cannot have non-constant state variables", v) :
             v \in {x \in ToSet(Defined(units, c, "VariableDeclaration")) :
                       ~NodeAt(units, x).isConstant}}

(* The parts are visited in order, but the structs and bases come first.    *)
BeforeParts(units, r, c) ==
    LET structs == Defined(units, c, "StructDefinition")
    IN  [k \in DOMAIN structs |-> CheckPart(units, r, c, structs[k])]
        \o [k \in DOMAIN BaseSpecifiers(units, c) |->
               CheckBase(units, r, c, BaseSpecifiers(units, c)[k])]
CheckWhole(units, r, c) ==
    LET order == r.linearized[c]
    IN  checkContractDuplicateFunctions(units, r, c)
        \cup checkContractDuplicateEvents(units, r, c)
        \cup checkContractIllegalOverrides(units, r, order)
        \cup Redeclared(units, r, FromBase(units, order))
        \cup checkContractBaseConstructorArguments(units, r, c, order)
        \cup (IF constructor(units, c) = NoId THEN {}
              ELSE CheckConstructor(units, constructor(units, c)))
        \cup UNION {CheckFallback(units, r, c, f) : f \in ToSet(Fallbacks(units, c))}
Parts(units, r, c) ==
    LET parts == SelectSeq(PartsOf(units, c),
                           LAMBDA d : KindOf(units, d) # "StructDefinition")
    IN  [k \in DOMAIN parts |-> CheckPart(units, r, c, parts[k])]
AfterParts(units, r, c) ==
    checkContractExternalTypeClashes(units, r, r.linearized[c])
    \cup (IF ContractKind(units, c) = "library" THEN checkLibraryRequirements(units, c)
          ELSE {})

(* A fatal error ends the visit.                                            *)
IsFatal(findings) == \E x \in findings : x.severity = "fatal"
UntilFatal(stages) ==
    UNION {stages[k] : k \in {j \in DOMAIN stages : \A h \in 1..(j - 1) : ~IsFatal(stages[h])}}

NewTypeChecker == [findings |-> {}, superFunction |-> <<>>, unimplemented |-> <<>>,
                   fatal |-> FALSE, crash |-> FALSE]
(* The annotations of a contract: what its functions override, what it      *)
(* leaves open.                                                             *)
Annotated(units, r, k, c) ==
    LET order == r.linearized[c]
    IN  [k EXCEPT !.superFunction = @ @@ SuperFunctions(units, r, FunctionsAlong(units, order)),
                  !.unimplemented = (c :> UnimplementedFunctions(units, r, FromBase(units, order))
                                          \cup UnsuppliedConstructors(units, r, order)) @@ @]
Concluded(k, findings) ==
    [k EXCEPT !.findings = @ \cup findings, !.fatal = IsFatal(findings)]
checkTypeRequirements(units, r, k, c) ==
    LET early == UntilFatal(BeforeParts(units, r, c))
    IN  CASE IsFatal(early) -> Concluded(k, early)
          [] ~IsFatal(early) /\ Unsettled(units, r, r.linearized[c]) -> [k EXCEPT !.crash = TRUE]
          [] OTHER -> Concluded(Annotated(units, r, k, c),
                                early \cup UntilFatal(<<CheckWhole(units, r, c)>>
                                                      \o Parts(units, r, c)
                                                      \o <<AfterParts(units, r, c)>>))

----------------------------------------------------------------------------
(* What the code generator does with it (CompilerContext): a call of f in a *)
(* contract with this order of bases, and a call of super.f from a base.    *)
FirstAlike(units, r, f, order) ==
    LET fs == SelectSeq(FunctionsAlong(units, order), LAMBDA g : Alike(units, r, f, g))
    IN  IF fs = <<>> THEN NoId ELSE Head(fs)
resolveVirtualFunction(units, r, c, f) ==
    IF inContractKind(units, r, f) = "library" THEN f
    ELSE FirstAlike(units, r, f, r.linearized[c])
superContract(order, base) ==
    LET at == CHOOSE k \in DOMAIN order : order[k] = base
    IN  SubSeq(order, at + 1, Len(order))
superFunction(units, r, c, f, base) ==
    FirstAlike(units, r, f, superContract(r.linearized[c], base))
(* What answers calls from outside: the first of each signature, and the    *)
(* first fallback function.                                                 *)
interfaceFunctionList(units, r, c) ==
    LET ds == WithInterface(units, r, r.linearized[c])
    IN  {ds[i] : i \in {k \in DOMAIN ds : \A h \in 1..(k - 1) :
                           ~SameSignature(units, r, ds[h], ds[k])}}
fallbackFunction(units, r, c) ==
    LET order == r.linearized[c]
        fs == FlattenSeq([k \in DOMAIN order |-> Fallbacks(units, order[k])])
    IN  IF fs = <<>> THEN NoId ELSE Head(fs)
(* The functions super has in a contract.                                   *)
SuperMembers(units, r, c) ==
    LET fs == SelectSeq(FunctionsAlong(units, Tail(r.linearized[c])),
                        LAMBDA g : IsVisibleInDerivedContracts(NodeAt(units, g)))
    IN  {fs[i] : i \in {k \in DOMAIN fs : \A h \in 1..(k - 1) :
                           ~Alike(units, r, fs[h], fs[k])}}
=============================================================================

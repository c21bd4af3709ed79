----------------------------- MODULE Annotations -----------------------------
(****************************************************************************)
(* What the type checker (libsolidity/analysis/TypeChecker) leaves on the   *)
(* expressions for the checks behind it: the category of an expression's    *)
(* type, where its data lives, the declaration a call reaches, whether an   *)
(* expression is a constant and whether it is assigned to.  The programs    *)
(* are well typed; an overloaded function is chosen by the number of its    *)
(* arguments, and the value of a constant expression is known when it is a  *)
(* literal.                                                                 *)
(****************************************************************************)
EXTENDS Names

UintType == NewType("elementary", "uint", NoId, <<>>)
ContractAt(id) == Id(id.unit, <<id.path[1]>>)

MagicTypeOf(d, id) ==
    CASE d.unit = "this" -> NewType("contract", "", ContractAt(id), <<>>)
      [] d.unit = "super" -> NewType("super", "", ContractAt(id), <<>>)
      [] d.unit \in {"msg", "block", "tx", "abi"} -> NewType("magic", d.unit, NoId, <<>>)
      [] d.unit = "now" -> UintType
      [] OTHER -> NewType("function", "builtin", d, <<>>)
TypeOfDeclaration(units, r, d, id) ==
    CASE KindOf(units, d) = "VariableDeclaration" -> TypeAt(r, d)
      [] KindOf(units, d) = "MagicVariableDeclaration" -> MagicTypeOf(d, id)
      [] KindOf(units, d) \in {"FunctionDefinition", "EventDefinition"} ->
           NewType("function", "internal", d, <<>>)
      [] OTHER -> NewType("type", "", d, <<>>)

(* The function a contract has under a name, its own or the nearest base's. *)
MembersNamed(units, r, contract, name) ==
    SelectSeq(r.scopes[contract].visible[name],
              LAMBDA d : KindOf(units, d) \in {"FunctionDefinition",
                                               "VariableDeclaration"})

(* The members of an address that are called.  A contract has them as well, *)
(* unless it has a member of its own of that name, up to the rules of 0.5.0 *)
(* under which no well typed program asks a contract for them.              *)
AddressMembers == {"call", "callcode", "delegatecall", "send", "transfer"}
HasAddressMembers(units, r, t, name) ==
    \/ t.cat = "elementary"
    \/ t.cat \in {"contract", "super"} /\ MembersNamed(units, r, t.decl, name) = <<>>

MemberType(units, r, t, name) ==
    CASE t.cat = "struct" ->
           LET members == NodeAt(units, t.decl).members
               k == CHOOSE j \in DOMAIN members : members[j].name = name
           IN  CopyForLocation(TypeAt(r, Child(t.decl, k)), t.location, TRUE)
      [] HasAddressMembers(units, r, t, name) ->
           IF name \in AddressMembers THEN NewType("function", "address", NoId, <<>>)
           ELSE UintType
      [] t.cat \in {"contract", "super"} /\ ~HasAddressMembers(units, r, t, name) ->
           NewType("function", "external", Head(MembersNamed(units, r, t.decl, name)), <<>>)
      [] t.cat = "array" /\ name = "push" -> NewType("function", "push", NoId, <<>>)
      [] t.cat = "magic" /\ name = "blockhash" ->
           NewType("function", "blockhash", NoId, <<>>)
      [] OTHER -> UintType

IndexType(t) == CASE t.cat = "mapping" -> t.parts[2]
                  [] t.cat = "array" /\ t.parts # <<>> ->
                       CopyForLocation(t.parts[1], t.location, TRUE)
                  [] OTHER -> UintType

(* What a call of a value of type t, the callee, gives.                     *)
ResultType(units, r, t) ==
    CASE t.cat = "type" /\ KindOf(units, t.decl) = "StructDefinition" ->
           [NewType("struct", "", t.decl, <<>>) EXCEPT !.location = "memory"]
      [] t.cat = "type" /\ KindOf(units, t.decl) = "ContractDefinition" ->
           NewType("contract", "", t.decl, <<>>)
      [] t.cat = "function" /\ KindOf(units, t.decl) = "FunctionDefinition"
         /\ ReturnTypes(units, r, t.decl) # <<>> ->
           ReturnTypes(units, r, t.decl)[1]
      [] OTHER -> UintType

RECURSIVE ExpressionType(_, _, _, _)
ExpressionType(units, r, id, n) ==
    CASE n.node = "Identifier" ->
           TypeOfDeclaration(units, r, Head(r.refs[id]), id)
      [] n.node = "MemberAccess" ->
           MemberType(units, r, ExpressionType(units, r, Child(id, 1), n.expression),
                      n.member)
      [] n.node = "IndexAccess" ->
           IndexType(ExpressionType(units, r, Child(id, 1), n.base))
      [] n.node = "FunctionCall" ->
           ResultType(units, r, ExpressionType(units, r, Child(id, 1), n.expression))
      [] n.node = "Assignment" -> ExpressionType(units, r, Child(id, 1), n.left)
      [] n.node = "Conditional" ->
           ExpressionType(units, r, Child(id, 2), n.trueExpression)
      [] n.node = "TupleExpression" /\ Len(n.components) = 1 ->
           ExpressionType(units, r, Child(id, 1), n.components[1])
      [] OTHER -> UintType

(* The declaration a call reaches, of an overloaded name the one that takes *)
(* as many arguments; NoId for a conversion and a builtin member.           *)
CalledDeclaration(units, r, id, n) ==
    IF n.expression.node = "Identifier" /\ Len(r.refs[Child(id, 1)]) > 1
    THEN Head(SelectSeq(r.refs[Child(id, 1)],
                        LAMBDA d : Len(ArgumentTypes(units, r, d)) = Len(n.arguments)))
    ELSE ExpressionType(units, r, Child(id, 1), n.expression).decl

(* Whether an expression has the same value wherever it is evaluated.       *)
RECURSIVE IsPure(_, _, _, _)
IsPure(units, r, id, n) ==
    LET each == \A k \in DOMAIN Children(n) :
                   IsPure(units, r, Child(id, k), Children(n)[k])
    IN  CASE n.node \in {"Literal", "ElementaryTypeNameExpression"} -> TRUE
          [] n.node = "Identifier" ->
               LET d == NodeAt(units, Head(r.refs[id]))
               IN  d.node = "VariableDeclaration" /\ d.isConstant
          [] n.node = "UnaryOperation" -> n.operator \notin {"++", "--", "delete"} /\ each
          [] n.node \in {"BinaryOperation", "TupleExpression", "Conditional",
                         "IndexAccess"} -> each
          [] OTHER -> FALSE

(* requireLValue: the expressions that are assigned to.                     *)
RECURSIVE AssignedExpressions(_, _)
AssignedExpressions(id, n) ==
    IF n.node = "TupleExpression"
    THEN UNION {AssignedExpressions(Child(id, k), Children(n)[k]) :
                   k \in DOMAIN Children(n)}
    ELSE {id}
LValues(id, n) ==
    CASE n.node = "Assignment" -> AssignedExpressions(Child(id, 1), n.left)
      [] n.node = "UnaryOperation" /\ n.operator \in {"++", "--", "delete"} ->
           AssignedExpressions(Child(id, 1), n.subExpression)
      [] OTHER -> {}
=============================================================================

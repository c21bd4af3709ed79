-------------------------------- MODULE Syntax --------------------------------
(****************************************************************************)
(* The tokens the scanner delivers (libsolidity/parsing/Token.h) and the    *)
(* syntax tree the parser builds from them (libsolidity/ast/AST.h), with    *)
(* the order in which visitors walk it (AST_accept.h).                      *)
(*                                                                          *)
(* A token is a string: a punctuator, an operator or a keyword is its own   *)
(* spelling, and the names, numbers and strings of the program are given by *)
(* the three constants.  A node is a record whose field node names its      *)
(* class; Null stands for a null pointer.  Source locations and             *)
(* documentation comments are left out.                                     *)
(****************************************************************************)
EXTENDS Naturals, Sequences, SequencesExt

CONSTANTS Identifiers,     \* the names a program may use
          Numbers,         \* its number literals
          Strings          \* its string literals

(* The class of a token; the scanner has seen to it that the words "emit",  *)
(* "from", "constructor" and "_" are identifiers.                           *)
TokenOf(t) == CASE t \in Identifiers -> "Identifier"
                [] t \in Numbers -> "Number"
                [] t \in Strings -> "StringLiteral"
                [] OTHER -> t

ElementaryTypeNames ==
    {"int", "uint", "bytes", "byte", "string", "address", "bool", "fixed",
     "ufixed", "int8", "uint8", "bytes4"}
AssignmentOps == {"=", "|=", "^=", "&=", "<<=", ">>=", ">>>=", "+=", "-=",
                  "*=", "/=", "%="}
CompareOps == {"==", "!=", "<", ">", "<=", ">="}
CountOps == {"++", "--"}
UnaryOps == {"!", "~", "++", "--", "delete", "+", "-"}
VariableVisibilities == {"public", "private", "internal"}
Visibilities == VariableVisibilities \cup {"external"}
Locations == {"memory", "storage"}
Mutabilities == {"pure", "constant", "view", "payable"}
Subdenominations == {"wei", "szabo", "finney", "ether", "seconds", "minutes",
                     "hours", "days", "weeks", "years"}

(* The precedence of an operator; 0 for every other token.                  *)
Precedence(t) == CASE t = "," -> 1
                   [] t \in AssignmentOps -> 2
                   [] t = "?" -> 3
                   [] t = "||" -> 4
                   [] t = "&&" -> 5
                   [] t \in {"==", "!="} -> 6
                   [] t \in {"<", ">", "<=", ">="} -> 7
                   [] t = "|" -> 8
                   [] t = "^" -> 9
                   [] t = "&" -> 10
                   [] t \in {"<<", ">>", ">>>"} -> 11
                   [] t \in {"+", "-"} -> 12
                   [] t \in {"*", "/", "%"} -> 13
                   [] t = "**" -> 14
                   [] OTHER -> 0

(* The binary operator of a compound assignment.                            *)
AssignmentToBinaryOp(op) ==
    CASE op = "|=" -> "|" [] op = "^=" -> "^" [] op = "&=" -> "&"
      [] op = "<<=" -> "<<" [] op = ">>=" -> ">>" [] op = ">>>=" -> ">>>"
      [] op = "+=" -> "+" [] op = "-=" -> "-" [] op = "*=" -> "*"
      [] op = "/=" -> "/" [] op = "%=" -> "%"

----------------------------------------------------------------------------
(* Nodes of the syntax tree.                                                *)

Null == [node |-> "Null"]

SourceUnit(nodes) == [node |-> "SourceUnit", nodes |-> nodes]
PragmaDirective(tokens) == [node |-> "PragmaDirective", tokens |-> tokens]
ImportDirective(path, unitAlias, symbolAliases) ==
    [node |-> "ImportDirective", path |-> path, unitAlias |-> unitAlias,
     symbolAliases |-> symbolAliases]
ContractDefinition(kind, name, bases, subNodes) ==
    [node |-> "ContractDefinition", kind |-> kind, name |-> name,
     bases |-> bases, subNodes |-> subNodes]
(* given: whether a list of arguments is written, possibly an empty one.    *)
InheritanceSpecifier(name, given, arguments) ==
    [node |-> "InheritanceSpecifier", name |-> name, given |-> given,
     arguments |-> arguments]
UsingForDirective(library, typeName) ==
    [node |-> "UsingForDirective", library |-> library, typeName |-> typeName]
StructDefinition(name, members) ==
    [node |-> "StructDefinition", name |-> name, members |-> members]
EnumDefinition(name, members) ==
    [node |-> "EnumDefinition", name |-> name, members |-> members]
EnumValue(name) == [node |-> "EnumValue", name |-> name]
ParameterList(parameters) ==
    [node |-> "ParameterList", parameters |-> parameters]
FunctionDefinition(name, visible, mutable, isConstructor, ps, modifiers, rs, body) ==
    [node |-> "FunctionDefinition", name |-> name, visibility |-> visible,
     mutability |-> mutable, isConstructor |-> isConstructor,
     parameters |-> ps, modifiers |-> modifiers, returnParameters |-> rs, body |-> body]
VariableDeclaration(type, name, value, visible, isState, isIndexed, isConstant, loc) ==
    [node |-> "VariableDeclaration", typeName |-> type, name |-> name,
     value |-> value, visibility |-> visible, isState |-> isState,
     isIndexed |-> isIndexed, isConstant |-> isConstant, location |-> loc]
ModifierDefinition(name, parameters, body) ==
    [node |-> "ModifierDefinition", name |-> name, parameters |-> parameters,
     body |-> body]
ModifierInvocation(name, given, arguments) ==
    [node |-> "ModifierInvocation", name |-> name, given |-> given,
     arguments |-> arguments]
EventDefinition(name, parameters, anonymous) ==
    [node |-> "EventDefinition", name |-> name, parameters |-> parameters,
     anonymous |-> anonymous]

ElementaryTypeName(type) == [node |-> "ElementaryTypeName", type |-> type]
UserDefinedTypeName(path) == [node |-> "UserDefinedTypeName", path |-> path]
FunctionTypeName(parameters, returnParameters, visibility, mutability) ==
    [node |-> "FunctionTypeName", parameters |-> parameters,
     returnParameters |-> returnParameters, visibility |-> visibility,
     mutability |-> mutability]
Mapping(keyType, valueType) ==
    [node |-> "Mapping", keyType |-> keyType, valueType |-> valueType]
ArrayTypeName(baseType, length) ==
    [node |-> "ArrayTypeName", baseType |-> baseType, length |-> length]

InlineAssembly(body) == [node |-> "InlineAssembly", body |-> body]
Block(statements) == [node |-> "Block", statements |-> statements]
PlaceholderStatement == [node |-> "PlaceholderStatement"]
IfStatement(condition, trueBody, falseBody) ==
    [node |-> "IfStatement", condition |-> condition, trueBody |-> trueBody,
     falseBody |-> falseBody]
WhileStatement(condition, body, isDoWhile) ==
    [node |-> "WhileStatement", condition |-> condition, body |-> body,
     isDoWhile |-> isDoWhile]
ForStatement(init, condition, loop, body) ==
    [node |-> "ForStatement", init |-> init, condition |-> condition,
     loop |-> loop, body |-> body]
Continue == [node |-> "Continue"]
Break == [node |-> "Break"]
Return(expression) == [node |-> "Return", expression |-> expression]
Throw == [node |-> "Throw"]
EmitStatement(eventCall) ==
    [node |-> "EmitStatement", eventCall |-> eventCall]
VariableDeclarationStatement(variables, value) ==
    [node |-> "VariableDeclarationStatement", variables |-> variables,
     value |-> value]
ExpressionStatement(expression) ==
    [node |-> "ExpressionStatement", expression |-> expression]

Conditional(condition, trueExpression, falseExpression) ==
    [node |-> "Conditional", condition |-> condition,
     trueExpression |-> trueExpression, falseExpression |-> falseExpression]
Assignment(left, operator, right) ==
    [node |-> "Assignment", left |-> left, operator |-> operator,
     right |-> right]
TupleExpression(components, isArray) ==
    [node |-> "TupleExpression", components |-> components,
     isArray |-> isArray]
UnaryOperation(operator, subExpression, isPrefix) ==
    [node |-> "UnaryOperation", operator |-> operator,
     subExpression |-> subExpression, isPrefix |-> isPrefix]
BinaryOperation(left, operator, right) ==
    [node |-> "BinaryOperation", left |-> left, operator |-> operator,
     right |-> right]
FunctionCall(expression, arguments, names) ==
    [node |-> "FunctionCall", expression |-> expression,
     arguments |-> arguments, names |-> names]
NewExpression(typeName) == [node |-> "NewExpression", typeName |-> typeName]
MemberAccess(expression, member) ==
    [node |-> "MemberAccess", expression |-> expression, member |-> member]
IndexAccess(base, index) ==
    [node |-> "IndexAccess", base |-> base, index |-> index]
Identifier(name) == [node |-> "Identifier", name |-> name]
ElementaryTypeNameExpression(type) ==
    [node |-> "ElementaryTypeNameExpression", type |-> type]
Literal(token, value, subdenomination) ==
    [node |-> "Literal", token |-> token, value |-> value,
     subdenomination |-> subdenomination]

----------------------------------------------------------------------------
(* The children a visitor is led through, in order; a null child is passed  *)
(* over.  One is the child itself, the others are lists.                    *)

One(c) == <<c>>

ChildrenOfDefinition(n) ==
    CASE n.node = "SourceUnit" -> n.nodes
      [] n.node = "ContractDefinition" -> n.bases \o n.subNodes
      [] n.node = "InheritanceSpecifier" -> One(n.name) \o n.arguments
      [] n.node \in {"EnumDefinition", "StructDefinition"} -> n.members
      [] n.node = "UsingForDirective" -> <<n.library, n.typeName>>
      [] OTHER -> <<>>

ChildrenOfCallable(n) ==
    CASE n.node = "ParameterList" -> n.parameters
      [] n.node = "FunctionDefinition" ->
            <<n.parameters, n.returnParameters>> \o n.modifiers \o One(n.body)
      [] n.node = "VariableDeclaration" -> <<n.typeName, n.value>>
      [] n.node = "ModifierDefinition" -> <<n.parameters, n.body>>
      [] n.node = "ModifierInvocation" -> One(n.name) \o n.arguments
      [] n.node = "EventDefinition" -> One(n.parameters)
      [] OTHER -> <<>>

ChildrenOfTypeName(n) ==
    CASE n.node = "FunctionTypeName" -> <<n.parameters, n.returnParameters>>
      [] n.node = "Mapping" -> <<n.keyType, n.valueType>>
      [] n.node = "ArrayTypeName" -> <<n.baseType, n.length>>
      [] OTHER -> <<>>

ChildrenOfStatement(n) ==
    CASE n.node = "Block" -> n.statements
      [] n.node = "IfStatement" -> <<n.condition, n.trueBody, n.falseBody>>
      [] n.node = "WhileStatement" -> <<n.condition, n.body>>
      [] n.node = "ForStatement" -> <<n.init, n.condition, n.loop, n.body>>
      [] n.node \in {"Return", "ExpressionStatement"} -> One(n.expression)
      [] n.node = "EmitStatement" -> One(n.eventCall)
      [] n.node = "VariableDeclarationStatement" ->
            n.variables \o One(n.value)
      [] OTHER -> <<>>

ChildrenOfExpression(n) ==
    CASE n.node = "Conditional" ->
            <<n.condition, n.trueExpression, n.falseExpression>>
      [] n.node \in {"Assignment", "BinaryOperation"} -> <<n.left, n.right>>
      [] n.node = "TupleExpression" -> n.components
      [] n.node = "UnaryOperation" -> One(n.subExpression)
      [] n.node = "FunctionCall" -> One(n.expression) \o n.arguments
      [] n.node = "NewExpression" -> One(n.typeName)
      [] n.node = "MemberAccess" -> One(n.expression)
      [] n.node = "IndexAccess" -> <<n.base, n.index>>
      [] OTHER -> <<>>

Children(n) == LET given == ChildrenOfDefinition(n) \o ChildrenOfCallable(n)
                            \o ChildrenOfTypeName(n) \o ChildrenOfStatement(n)
                            \o ChildrenOfExpression(n)
               IN  SelectSeq(given, LAMBDA c : c # Null)

----------------------------------------------------------------------------
(* A node is identified by the source unit it is in and the path that leads *)
(* to it.                                                                   *)

Id(unit, path) == [unit |-> unit, path |-> path]
Child(id, k) == [id EXCEPT !.path = Append(@, k)]

RECURSIVE Down(_, _)
Down(n, path) == IF path = <<>> THEN n
                 ELSE Down(Children(n)[Head(path)], Tail(path))

(* The members of a set, in some order.                                     *)
RECURSIVE Listed(_)
Listed(S) == IF S = {} THEN <<>>
             ELSE LET x == CHOOSE y \in S : TRUE IN <<x>> \o Listed(S \ {x})

Only(S) == CHOOSE x \in S : TRUE
IdsOf(events) == {events[k].id : k \in DOMAIN events}

(* What accept calls on a visitor, in order: visit of a node, the same for  *)
(* its children unless it is of a class in prune, and endVisit.             *)
Visit(id, n) == [ended |-> FALSE, id |-> id, n |-> n]
EndVisit(id, n) == [ended |-> TRUE, id |-> id, n |-> n]

RECURSIVE Accept(_, _, _), AcceptAll(_, _, _, _)
Accept(id, n, prune) ==
    <<Visit(id, n)>>
    \o (IF n.node \in prune THEN <<>> ELSE AcceptAll(id, Children(n), 1, prune))
    \o <<EndVisit(id, n)>>
AcceptAll(id, children, k, prune) ==
    IF k > Len(children) THEN <<>>
    ELSE Accept(Child(id, k), children[k], prune)
         \o AcceptAll(id, children, k + 1, prune)
=============================================================================

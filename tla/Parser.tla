-------------------------------- MODULE Parser --------------------------------
(****************************************************************************)
(* The recursive descent parser (libsolidity/parsing/Parser.cpp,            *)
(* ParserBase.cpp): one operator per method, from a state to a state.       *)
(*                                                                          *)
(* A state holds the tokens, the index of the current one, what the last    *)
(* method returned (n), whether an error was reported (bad), whether a      *)
(* fatal one unwinds the parser (stop), and m_insideModifier.  Once the     *)
(* parser unwinds, the current token reads as the end of the source, so     *)
(* that every loop ends.  Left out: the limit of the recursion depth, the   *)
(* warning on the word constant, documentation comments and locations.  The *)
(* body of an inline assembly statement is one token: its parser is another *)
(* component.                                                               *)
(****************************************************************************)
EXTENDS Syntax

CONSTANT AssemblyBodies    \* the bodies of inline assembly statements

Start(tokens) == [src |-> tokens, i |-> 1, n |-> Null, bad |-> FALSE,
                  stop |-> FALSE, insideModifier |-> FALSE]

TokenAt(s, i) == IF s.stop \/ i > Len(s.src) THEN "EOS" ELSE TokenOf(s.src[i])
Token(s) == TokenAt(s, s.i)
PeekNext(s) == TokenAt(s, s.i + 1)
CurrentLiteral(s) == IF s.stop \/ s.i > Len(s.src) THEN "" ELSE s.src[s.i]

Advance(s) == [s EXCEPT !.i = @ + 1]
Give(s, n) == [s EXCEPT !.n = n]
parserError(s) == [s EXCEPT !.bad = TRUE]
fatalParserError(s) == [s EXCEPT !.bad = TRUE, !.stop = TRUE]

expectToken(s, t) == IF Token(s) = t THEN Advance(s) ELSE fatalParserError(s)

getLiteralAndAdvance(s) == Advance(Give(s, CurrentLiteral(s)))

expectIdentifierToken(s) ==
    IF Token(s) = "Identifier" THEN getLiteralAndAdvance(s)
    ELSE fatalParserError(Give(s, ""))

parseIdentifier(s) ==
    LET r == expectIdentifierToken(s) IN Give(r, Identifier(r.n))

createEmptyParameterList == ParameterList(<<>>)

(* VarDeclParserOptions, all FALSE by default.                              *)
NoOptions == [allowVar |-> FALSE, isStateVariable |-> FALSE,
              allowIndexed |-> FALSE, allowEmptyName |-> FALSE,
              allowInitialValue |-> FALSE, allowLocationSpecifier |-> FALSE]
WithLocation == [NoOptions EXCEPT !.allowLocationSpecifier = TRUE]
OfStateVariable == [NoOptions EXCEPT !.isStateVariable = TRUE,
                                     !.allowInitialValue = TRUE]

(* The methods that call each other in a cycle are called by their names.   *)
RECURSIVE Method(_, _, _)
parseExpression(s, partial) == Method("Expression", s, <<partial>>)
parseTypeName(s, allowVar) == Method("TypeName", s, <<allowVar>>)
parseVariableDeclaration(s, options, type) ==
    Method("VariableDeclaration", s, <<options, type>>)
parseParameterList(s, options, allowEmpty) ==
    Method("ParameterList", s, <<options, allowEmpty>>)
parseStatement(s) == Method("Statement", s, <<>>)
parseSimpleStatement(s) == Method("SimpleStatement", s, <<>>)
parseFunctionHeader(s, forceEmptyName, allowModifiers, contractName) ==
    Method("FunctionHeader", s, <<forceEmptyName, allowModifiers, contractName>>)
parseFunctionCallArguments(s) == Method("FunctionCallArguments", s, <<>>)
parseFunctionCallListArguments(s) == Method("ListArguments", s, <<>>)
ParenthesizedStatement(s) == Method("ParenthesizedStatement", s, <<>>)
parseContractDefinition(s, kind) == Method("ContractDefinition", s, <<kind>>)
parseBlock(s) == Method("Block", s, <<>>)
parseUserDefinedTypeName(s) == Method("UserDefinedTypeName", s, <<>>)
parseInheritanceSpecifier(s) == Method("InheritanceSpecifier", s, <<>>)
parseSubNode(s, contractName) == Method("SubNode", s, <<contractName>>)
tryParseIndexAccessedPath(s) == Method("IndexAccessedPath", s, <<>>)
parseUnaryExpression(s, partial) == Method("UnaryExpression", s, <<partial>>)
parseBinaryExpression(s, minPrecedence, partial) ==
    Method("BinaryExpression", s, <<minPrecedence, partial>>)

----------------------------------------------------------------------------
(* Lists of arguments.                                                      *)

RECURSIVE MoreListArguments(_, _)
MoreListArguments(s, args) ==
    IF Token(s) = ")" \/ s.stop THEN Give(s, args)
    ELSE LET e == parseExpression(expectToken(s, ","), Null)
         IN  MoreListArguments(e, Append(args, e.n))

ListArguments(s) ==
    IF Token(s) = ")" THEN Give(s, <<>>)
    ELSE LET e == parseExpression(s, Null)
         IN  MoreListArguments(e, <<e.n>>)

(* An optional list of arguments in parentheses, behind a modifier or a     *)
(* base.                                                                    *)
OptionalArguments(s) ==
    IF Token(s) # "(" THEN Give(s, [given |-> FALSE, arguments |-> <<>>])
    ELSE LET l == parseFunctionCallListArguments(Advance(s))
         IN  expectToken(Give(l, [given |-> TRUE, arguments |-> l.n]), ")")

(* Named arguments: { name : expression , ... }.                            *)
RECURSIVE NamedArguments(_, _, _)
NamedArguments(s, args, names) ==
    IF Token(s) = "}" \/ s.stop
    THEN Give(expectToken(s, "}"), [arguments |-> args, names |-> names])
    ELSE LET name == expectIdentifierToken(IF args = <<>> THEN s
                                           ELSE expectToken(s, ","))
             e == parseExpression(expectToken(name, ":"), Null)
             trailing == Token(e) = "," /\ PeekNext(e) = "}"
         IN  NamedArguments(IF trailing THEN Advance(parserError(e)) ELSE e,
                            Append(args, e.n), Append(names, name.n))

CallArguments(s) ==
    IF Token(s) = "{" THEN NamedArguments(Advance(s), <<>>, <<>>)
    ELSE LET l == parseFunctionCallListArguments(s)
         IN  Give(l, [arguments |-> l.n, names |-> <<>>])

----------------------------------------------------------------------------
(* Type names.                                                              *)

RECURSIVE DottedPath(_, _)
DottedPath(s, path) ==
    IF Token(s) # "." THEN Give(s, path)
    ELSE LET id == expectIdentifierToken(Advance(s))
         IN  DottedPath(id, Append(path, id.n))

UserDefinedType(s) ==
    LET id == expectIdentifierToken(s)
        path == DottedPath(id, <<id.n>>)
    IN  Give(path, UserDefinedTypeName(path.n))

(* An index or length in brackets, possibly empty, behind the opening one.  *)
OptionalIndex(s) ==
    LET e == IF Token(s) # "]" THEN parseExpression(s, Null) ELSE Give(s, Null)
    IN  expectToken(e, "]")

RECURSIVE parseTypeNameSuffix(_)
parseTypeNameSuffix(s) ==
    IF Token(s) # "[" THEN s
    ELSE LET length == OptionalIndex(Advance(s))
         IN  parseTypeNameSuffix(Give(length, ArrayTypeName(s.n, length.n)))

parseMapping(s) ==
    LET open == expectToken(expectToken(s, "mapping"), "(")
        key == IF Token(open) \notin ElementaryTypeNames
               THEN fatalParserError(open)
               ELSE getLiteralAndAdvance(open)
        value == parseTypeName(expectToken(key, "=>"), FALSE)
    IN  Give(expectToken(value, ")"),
             Mapping(ElementaryTypeName(key.n), value.n))

parseModifierInvocation(s) ==
    LET name == parseIdentifier(s)
        arguments == OptionalArguments(name)
    IN  Give(arguments, ModifierInvocation(name.n, arguments.n.given,
                                           arguments.n.arguments))

(* Visibility, mutability and modifiers of a header h, in any order.  A     *)
(* name that ends a variable of function type ends the header, as does the  *)
(* visibility of such a variable.                                           *)
RECURSIVE HeaderSpecifiers(_, _, _)
HeaderSpecifiers(s, h, allowModifiers) ==
    LET t == Token(s)
        unnamed == h.name = "" /\ ~h.isConstructor
        variable == unnamed /\ PeekNext(s) \in {";", "="}
        typeOfVariable == /\ h.visibility \in {"external", "internal"}
                          /\ h.modifiers = <<>> /\ unnamed
    IN  CASE allowModifiers /\ t = "Identifier" /\ ~variable ->
               LET m == parseModifierInvocation(s)
               IN  HeaderSpecifiers(m, [h EXCEPT !.modifiers = Append(@, m.n)],
                                    allowModifiers)
          [] t \in Visibilities /\ h.visibility = "default" ->
               HeaderSpecifiers(Advance(s), [h EXCEPT !.visibility = t],
                                allowModifiers)
          [] t \in Visibilities /\ h.visibility # "default" /\ ~typeOfVariable ->
               HeaderSpecifiers(Advance(parserError(s)), h, allowModifiers)
          [] t \in Mutabilities ->
               IF h.mutability = "nonpayable"
               THEN HeaderSpecifiers(Advance(s),
                                     [h EXCEPT !.mutability = IF t = "constant" THEN "view" ELSE t],
                                     allowModifiers)
               ELSE HeaderSpecifiers(Advance(parserError(s)), h, allowModifiers)
          [] OTHER -> Give(s, h)

ReturnParameters(header) ==
    IF Token(header) # "returns" THEN header
    ELSE LET r == parseParameterList(Advance(header), WithLocation, FALSE)
         IN  Give(r, [header.n EXCEPT !.returnParameters = r.n])

FunctionHeader(s, forceEmptyName, allowModifiers, contractName) ==
    LET keyword == Advance(s)
        word == CurrentLiteral(s) = "constructor"
        name == IF word \/ forceEmptyName \/ Token(keyword) = "("
                THEN Give(keyword, "")
                ELSE expectIdentifierToken(keyword)
        parameters == parseParameterList(name, WithLocation, TRUE)
        start == [name |-> name.n,
                  isConstructor |-> word \/ (name.n # ""
                                             /\ name.n = contractName),
                  parameters |-> parameters.n, modifiers |-> <<>>,
                  visibility |-> "default", mutability |-> "nonpayable",
                  returnParameters |-> createEmptyParameterList]
    IN  ReturnParameters(HeaderSpecifiers(parameters, start, allowModifiers))

FunctionTypeOf(h) == FunctionTypeName(h.parameters, h.returnParameters,
                                      h.visibility, h.mutability)

parseFunctionType(s) ==
    LET header == parseFunctionHeader(s, TRUE, FALSE, "")
    IN  Give(header, FunctionTypeOf(header.n))

TypeName(s, allowVar) ==
    LET t == Token(s)
    IN  CASE t \in ElementaryTypeNames ->
               parseTypeNameSuffix(Advance(Give(s, ElementaryTypeName(t))))
          [] t = "var" ->
               Advance(Give(IF allowVar THEN s ELSE parserError(s), Null))
          [] t = "function" -> parseTypeNameSuffix(parseFunctionType(s))
          [] t = "mapping" -> parseTypeNameSuffix(parseMapping(s))
          [] t = "Identifier" ->
               parseTypeNameSuffix(parseUserDefinedTypeName(s))
          [] OTHER -> fatalParserError(Give(s, Null))

----------------------------------------------------------------------------
(* Variables and parameters.                                                *)

(* The words between the type and the name of a variable d.                 *)
RECURSIVE VariableSpecifiers(_, _, _)
VariableSpecifiers(s, options, d) ==
    LET t == Token(s)
    IN  CASE options.isStateVariable /\ t \in VariableVisibilities ->
               IF d.visibility # "default"
               THEN VariableSpecifiers(Advance(parserError(s)), options, d)
               ELSE VariableSpecifiers(Advance(s), options,
                                       [d EXCEPT !.visibility = t])
          [] options.allowIndexed /\ t = "indexed" ->
               VariableSpecifiers(Advance(s), options,
                                  [d EXCEPT !.isIndexed = TRUE])
          [] t = "constant" ->
               VariableSpecifiers(Advance(s), options,
                                  [d EXCEPT !.isConstant = TRUE])
          [] options.allowLocationSpecifier /\ t \in Locations ->
               IF d.location # "default" \/ d.typeName = Null
               THEN VariableSpecifiers(Advance(parserError(s)), options, d)
               ELSE VariableSpecifiers(Advance(s), options,
                                       [d EXCEPT !.location = t])
          [] OTHER -> Give(s, d)

VariableDeclared(s, options, lookAheadArrayType) ==
    LET type == IF lookAheadArrayType # Null THEN Give(s, lookAheadArrayType)
                ELSE parseTypeName(s, options.allowVar)
        words == VariableSpecifiers(
                     type, options,
                     VariableDeclaration(type.n, "", Null, "default",
                                         options.isStateVariable, FALSE, FALSE,
                                         "default"))
        name == IF options.allowEmptyName /\ Token(words) # "Identifier"
                THEN Give(words, "")
                ELSE expectIdentifierToken(words)
        value == IF options.allowInitialValue /\ Token(name) = "="
                 THEN parseExpression(Advance(name), Null)
                 ELSE Give(name, Null)
    IN  Give(value, [words.n EXCEPT !.name = name.n, !.value = value.n])

RECURSIVE MoreParameters(_, _, _)
MoreParameters(s, options, parameters) ==
    IF Token(s) = ")" \/ s.stop THEN Give(s, parameters)
    ELSE LET comma == IF Token(s) = "," /\ PeekNext(s) = ")"
                      THEN fatalParserError(s) ELSE expectToken(s, ",")
             p == parseVariableDeclaration(comma, options, Null)
         IN  MoreParameters(p, options, Append(parameters, p.n))

Parameters(s, options, allowEmpty) ==
    LET inside == [options EXCEPT !.allowEmptyName = TRUE]
        open == expectToken(s, "(")
        first == parseVariableDeclaration(open, inside, Null)
        list == IF allowEmpty /\ Token(open) = ")" THEN Give(open, <<>>)
                ELSE MoreParameters(first, inside, <<first.n>>)
    IN  Advance(Give(list, ParameterList(list.n)))

----------------------------------------------------------------------------
(* Expressions.                                                             *)

(* The components of a tuple or an inline array up to its closing token;    *)
(* those of a tuple may be left out.                                        *)
RECURSIVE Components(_, _, _)
Components(s, closing, components) ==
    LET present == Token(s) \notin {",", closing}
        c == CASE present -> parseExpression(s, Null)
               [] ~present /\ closing = "]" -> parserError(s)
               [] OTHER -> Give(s, Null)
        all == IF present \/ closing = ")" THEN Append(components, c.n)
               ELSE components
    IN  IF Token(c) = closing \/ c.stop THEN Give(c, all)
        ELSE Components(expectToken(c, ","), closing, all)

parsePrimaryExpression(s) ==
    LET t == Token(s)
        value == CurrentLiteral(s)
        closing == IF t = "(" THEN ")" ELSE "]"
        inside == Advance(s)
        components == IF Token(inside) = closing THEN Give(inside, <<>>)
                      ELSE Components(inside, closing, <<>>)
    IN  CASE t = "Number" /\ PeekNext(s) \in Subdenominations ->
               Advance(Give(inside, Literal(t, value, CurrentLiteral(inside))))
          [] t \in {"true", "false", "StringLiteral"}
             \/ (t = "Number" /\ PeekNext(s) \notin Subdenominations) ->
               Advance(Give(s, Literal(t, value, "")))
          [] t = "Identifier" -> Advance(Give(s, Identifier(value)))
          [] t \in {"(", "["} ->
               Give(expectToken(components, closing),
                    TupleExpression(components.n, closing = "]"))
          [] t \in ElementaryTypeNames ->
               Advance(Give(s, ElementaryTypeNameExpression(t)))
          [] OTHER -> fatalParserError(s)

(* What follows an expression that can be called, indexed or looked into.   *)
RECURSIVE Postfixes(_)
Postfixes(s) ==
    LET t == Token(s)
        inside == Advance(s)
    IN  CASE t = "[" -> LET index == OptionalIndex(inside)
                        IN  Postfixes(Give(index, IndexAccess(s.n, index.n)))
          [] t = "." -> LET member == expectIdentifierToken(inside)
                        IN  Postfixes(Give(member, MemberAccess(s.n, member.n)))
          [] t = "(" -> LET call == parseFunctionCallArguments(inside)
                        IN  Postfixes(Give(expectToken(call, ")"),
                                          FunctionCall(s.n, call.n.arguments,
                                                       call.n.names)))
          [] OTHER -> s

parseLeftHandSideExpression(s, partial) ==
    IF partial # Null THEN Postfixes(Give(s, partial))
    ELSE IF Token(s) = "new"
         THEN LET type == parseTypeName(Advance(s), FALSE)
              IN  Postfixes(Give(type, NewExpression(type.n)))
         ELSE Postfixes(parsePrimaryExpression(s))

Counted(e) == IF Token(e) \notin CountOps THEN e
              ELSE Advance(Give(e, UnaryOperation(Token(e), e.n, FALSE)))

UnaryExpression(s, partial) ==
    LET t == Token(s)
    IN  IF partial = Null /\ t \in UnaryOps \cup CountOps
        THEN LET e == parseUnaryExpression(Advance(s), Null)
             IN  Give(e, UnaryOperation(t, e.n, TRUE))
        ELSE Counted(parseLeftHandSideExpression(s, partial))

(* What stands to the right of an operator, which binds tighter; or as      *)
(* tightly, which would group from the right.                               *)
RightGrouped(s, precedence) == parseBinaryExpression(Advance(s), precedence, Null)
RightOperand(s, precedence) == parseBinaryExpression(Advance(s), precedence + 1, Null)

RECURSIVE BinaryTail(_, _, _)
BinaryExpression(s, minPrecedence, partial) ==
    LET e == parseUnaryExpression(s, partial)
    IN  BinaryTail(e, Precedence(Token(e)), minPrecedence)

BinaryTail(s, precedence, minPrecedence) ==
    IF precedence < minPrecedence THEN s
    ELSE IF Precedence(Token(s)) # precedence
         THEN BinaryTail(s, precedence - 1, minPrecedence)
         ELSE LET right == RightOperand(s, precedence)
              IN  BinaryTail(Give(right, BinaryOperation(s.n, Token(s), right.n)),
                             precedence, minPrecedence)

(* What follows the operand e of lowest precedence.                         *)
ExpressionTail(e) ==
    LET t == Token(e)
    IN  CASE t \in AssignmentOps ->
               LET right == parseExpression(Advance(e), Null)
               IN  Give(right, Assignment(e.n, t, right.n))
          [] t = "?" ->
               LET yes == parseExpression(Advance(e), Null)
                   no == parseExpression(expectToken(yes, ":"), Null)
               IN  Give(no, Conditional(e.n, yes.n, no.n))
          [] OTHER -> e

ExpressionOf(s, partial) == ExpressionTail(parseBinaryExpression(s, 4, partial))

----------------------------------------------------------------------------
(* Statements.                                                              *)

(* Whether a statement declares a variable, is an expression, or starts     *)
(* with a path and brackets that may be either.                             *)
peekStatementType(s) ==
    LET t == Token(s)
        next == PeekNext(s)
        mightBeTypeName == t \in ElementaryTypeNames \cup {"Identifier"}
    IN  CASE t \in {"mapping", "function", "var"} -> "VariableDeclaration"
          [] mightBeTypeName /\ next \in Locations \cup {"Identifier"} ->
               "VariableDeclaration"
          [] mightBeTypeName /\ next \in {"[", "."} -> "IndexAccessStructure"
          [] OTHER -> "Expression"

RECURSIVE Indices(_, _)
Indices(s, iap) ==
    IF Token(s) # "[" THEN Give(s, iap)
    ELSE LET index == OptionalIndex(Advance(s))
         IN  Indices(index, [iap EXCEPT !.indices = Append(@, index.n)])

EmptyPath == [path |-> <<>>, indices |-> <<>>]

parseIndexAccessedPath(s) ==
    IF Token(s) = "Identifier"
    THEN LET id == expectIdentifierToken(s)
             names == DottedPath(id, <<id.n>>)
             nodes == [k \in DOMAIN names.n |-> Identifier(names.n[k])]
         IN  Indices(names, [EmptyPath EXCEPT !.path = nodes])
    ELSE Indices(Advance(s), [EmptyPath EXCEPT
                                !.path = <<ElementaryTypeNameExpression(Token(s))>>])

typeNameFromIndexAccessStructure(iap) ==
    LET first == iap.path[1]
        named == IF first.node = "ElementaryTypeNameExpression"
                 THEN ElementaryTypeName(first.type)
                 ELSE UserDefinedTypeName([k \in DOMAIN iap.path |->
                                              iap.path[k].name])
    IN  IF iap = EmptyPath THEN Null
        ELSE FoldLeft(ArrayTypeName, named, iap.indices)

expressionFromIndexAccessStructure(iap) ==
    LET member(e, id) == MemberAccess(e, id.name)
    IN  IF iap = EmptyPath THEN Null
        ELSE FoldLeft(IndexAccess,
                      FoldLeft(member, iap.path[1], Tail(iap.path)),
                      iap.indices)

StatementKind(s) ==
    Give(s, [kind |-> IF Token(s) \in Locations \cup {"Identifier"}
                      THEN "VariableDeclaration" ELSE "Expression",
             iap |-> s.n])

(* The kind of statement, and the path read to find it out.                 *)
IndexAccessedPathIfAny(s) ==
    IF peekStatementType(s) # "IndexAccessStructure"
    THEN Give(s, [kind |-> peekStatementType(s), iap |-> EmptyPath])
    ELSE StatementKind(parseIndexAccessedPath(s))

(* The rest of a tuple of expressions or of declared variables, whose       *)
(* components may be left out.                                              *)
RECURSIVE MoreComponents(_, _, _)
MoreComponents(s, declares, components) ==
    IF Token(s) = ")" \/ s.stop THEN Give(s, components)
    ELSE LET comma == expectToken(s, ",")
             c == CASE Token(comma) \in {",", ")"} -> Give(comma, Null)
                    [] declares ->
                         parseVariableDeclaration(comma, WithLocation, Null)
                    [] OTHER -> parseExpression(comma, Null)
         IN  MoreComponents(c, declares, Append(components, c.n))

(* The names of var (a, , b) = ...                                          *)
RECURSIVE VarComponents(_, _)
VarComponents(s, variables) ==
    LET id == expectIdentifierToken(s)
        var == IF Token(s) \in {",", ")"} THEN Give(s, Null)
               ELSE Give(id, VariableDeclaration(Null, id.n, Null, "default",
                                                 FALSE, FALSE, FALSE, "default"))
        all == Append(variables, var.n)
    IN  IF Token(var) = ")" \/ var.stop THEN Give(var, all)
        ELSE VarComponents(expectToken(var, ","), all)

InitialValue(variables) ==
    LET value == IF Token(variables) = "="
                 THEN parseExpression(Advance(variables), Null)
                 ELSE Give(variables, Null)
    IN  Give(value, VariableDeclarationStatement(variables.n, value.n))

parseVariableDeclarationStatement(s, lookAheadArrayType) ==
    LET several == /\ lookAheadArrayType = Null
                   /\ Token(s) = "var" /\ PeekNext(s) = "("
        inside == Advance(Advance(s))
        names == IF Token(inside) = ")" THEN Give(inside, <<>>)
                 ELSE VarComponents(inside, <<>>)
        one == parseVariableDeclaration(s, [WithLocation EXCEPT !.allowVar = TRUE],
                                        lookAheadArrayType)
        variables == IF several THEN Advance(names) ELSE Give(one, <<one.n>>)
    IN  InitialValue(variables)

parseExpressionStatement(s, partial) ==
    LET e == parseExpression(s, partial)
    IN  Give(e, ExpressionStatement(e.n))

RECURSIVE EmptyComponents(_, _)
EmptyComponents(s, empty) ==
    IF Token(s) # "," THEN Give(s, empty)
    ELSE EmptyComponents(Advance(s), Append(empty, Null))

(* A statement that starts with a parenthesis: the declaration of several   *)
(* variables, or an expression that starts with a tuple.                    *)
ParenthesizedRest(first, declares, empty) ==
    LET all == MoreComponents(first, declares, Append(empty, first.n))
        close == expectToken(all, ")")
        value == parseExpression(expectToken(close, "="), Null)
    IN  IF declares
        THEN Give(value, VariableDeclarationStatement(all.n, value.n))
        ELSE parseExpressionStatement(close, TupleExpression(all.n, FALSE))

FirstComponent(look) ==
    IF look.n.kind = "VariableDeclaration"
    THEN parseVariableDeclaration(look, WithLocation,
                                  typeNameFromIndexAccessStructure(look.n.iap))
    ELSE parseExpression(look, expressionFromIndexAccessStructure(look.n.iap))

ParenthesizedOf(s) ==
    LET empty == EmptyComponents(expectToken(s, "("), <<>>)
        look == tryParseIndexAccessedPath(empty)
    IN  ParenthesizedRest(FirstComponent(look),
                          look.n.kind = "VariableDeclaration", empty.n)

SimpleStatement(s) ==
    LET look == tryParseIndexAccessedPath(s)
    IN  CASE Token(s) = "(" -> ParenthesizedStatement(s)
          [] Token(s) # "(" /\ look.n.kind = "VariableDeclaration" ->
               parseVariableDeclarationStatement(
                   look, typeNameFromIndexAccessStructure(look.n.iap))
          [] OTHER ->
               parseExpressionStatement(
                   look, expressionFromIndexAccessStructure(look.n.iap))

RECURSIVE Statements(_, _)
Statements(s, statements) ==
    IF Token(s) = "}" \/ s.stop THEN Give(s, statements)
    ELSE LET one == parseStatement(s)
         IN  Statements(one, Append(statements, one.n))

BlockOf(s) ==
    LET all == Statements(expectToken(s, "{"), <<>>)
    IN  expectToken(Give(all, Block(all.n)), "}")

parseInlineAssembly(s) ==
    LET inside == Advance(s)
        body == CASE Token(inside) # "StringLiteral" -> inside
                  [] CurrentLiteral(inside) = "evmasm" -> Advance(inside)
                  [] OTHER -> fatalParserError(inside)
    IN  IF CurrentLiteral(body) \in AssemblyBodies
        THEN Advance(Give(body, InlineAssembly(CurrentLiteral(body))))
        ELSE fatalParserError(body)

(* A condition in parentheses, behind the given keyword.                    *)
ParenthesizedCondition(s, keyword) ==
    expectToken(parseExpression(expectToken(expectToken(s, keyword), "("), Null),
                ")")

parseIfStatement(s) ==
    LET condition == ParenthesizedCondition(s, "if")
        yes == parseStatement(condition)
        no == IF Token(yes) = "else" THEN parseStatement(Advance(yes))
              ELSE Give(yes, Null)
    IN  Give(no, IfStatement(condition.n, yes.n, no.n))

parseWhileStatement(s) ==
    LET condition == ParenthesizedCondition(s, "while")
        body == parseStatement(condition)
    IN  Give(body, WhileStatement(condition.n, body.n, FALSE))

parseDoWhileStatement(s) ==
    LET body == parseStatement(expectToken(s, "do"))
        condition == ParenthesizedCondition(body, "while")
    IN  Give(expectToken(condition, ";"),
             WhileStatement(condition.n, body.n, TRUE))

parseForStatement(s) ==
    LET open == expectToken(expectToken(s, "for"), "(")
        init == IF Token(open) = ";" THEN Give(open, Null)
                ELSE parseSimpleStatement(open)
        second == expectToken(init, ";")
        condition == IF Token(second) = ";" THEN Give(second, Null)
                     ELSE parseExpression(second, Null)
        third == expectToken(condition, ";")
        loop == IF Token(third) = ")" THEN Give(third, Null)
                ELSE parseExpressionStatement(third, Null)
        body == parseStatement(expectToken(loop, ")"))
    IN  Give(body, ForStatement(init.n, condition.n, loop.n, body.n))

parseEmitStatement(s) ==
    LET first == Advance(s)
        names == IF Token(first) # "Identifier"
                 THEN Give(fatalParserError(first), EmptyPath)
                 ELSE LET id == expectIdentifierToken(first)
                          p == DottedPath(id, <<id.n>>)
                      IN  Give(p, [EmptyPath EXCEPT
                                     !.path = [k \in DOMAIN p.n |->
                                                  Identifier(p.n[k])]])
        call == parseFunctionCallArguments(expectToken(names, "("))
    IN  Give(expectToken(call, ")"),
             EmitStatement(FunctionCall(
                 expressionFromIndexAccessStructure(names.n),
                 call.n.arguments, call.n.names)))

StatementOf(s) ==
    LET t == Token(s)
        next == Advance(s)
        returned == IF Token(next) = ";" THEN Give(next, Null)
                    ELSE parseExpression(next, Null)
        (* Statements that a semicolon ends.                                *)
        ended ==
            CASE t = "continue" -> Give(next, Continue)
              [] t = "break" -> Give(next, Break)
              [] t = "return" -> Give(returned, Return(returned.n))
              [] t = "throw" -> Give(next, Throw)
              [] t = "Identifier" /\ CurrentLiteral(s) = "emit" ->
                   parseEmitStatement(s)
              [] t = "Identifier" /\ s.insideModifier
                 /\ CurrentLiteral(s) = "_" -> Give(next, PlaceholderStatement)
              [] OTHER -> parseSimpleStatement(s)
    IN  CASE t = "if" -> parseIfStatement(s)
          [] t = "while" -> parseWhileStatement(s)
          [] t = "do" -> parseDoWhileStatement(s)
          [] t = "for" -> parseForStatement(s)
          [] t = "{" -> parseBlock(s)
          [] t = "assembly" -> parseInlineAssembly(s)
          [] OTHER -> expectToken(ended, ";")

----------------------------------------------------------------------------
(* Definitions and the source unit.                                         *)

parseFunctionDefinitionOrFunctionTypeStateVariable(s, contractName) ==
    LET header == parseFunctionHeader(s, FALSE, TRUE, contractName)
        h == header.n
        body == IF Token(header) = ";" THEN Advance(Give(header, Null))
                ELSE parseBlock(header)
        type == parseTypeNameSuffix(Give(header, FunctionTypeOf(h)))
        variable == parseVariableDeclaration(type, OfStateVariable, type.n)
    IN  IF \/ h.isConstructor \/ h.modifiers # <<>> \/ h.name # ""
           \/ Token(header) \in {";", "{"}
        THEN Give(body, FunctionDefinition(h.name, h.visibility, h.mutability,
                                           h.isConstructor, h.parameters,
                                           h.modifiers, h.returnParameters,
                                           body.n))
        ELSE expectToken(variable, ";")

RECURSIVE StructMembers(_, _)
StructMembers(s, members) ==
    IF Token(s) = "}" \/ s.stop THEN Give(s, members)
    ELSE LET member == parseVariableDeclaration(s, NoOptions, Null)
         IN  StructMembers(expectToken(member, ";"), Append(members, member.n))

parseStructDefinition(s) ==
    LET name == expectIdentifierToken(expectToken(s, "struct"))
        members == StructMembers(expectToken(name, "{"), <<>>)
    IN  Give(expectToken(members, "}"), StructDefinition(name.n, members.n))

RECURSIVE EnumValues(_, _)
EnumValues(s, values) ==
    IF Token(s) = "}" \/ s.stop THEN Give(s, values)
    ELSE LET value == expectIdentifierToken(s)
             comma == expectToken(value, ",")
             all == Append(values, EnumValue(value.n))
         IN  CASE Token(value) = "}" -> Give(value, all)
               [] Token(value) # "}" /\ Token(comma) # "Identifier" ->
                    Give(fatalParserError(comma), all)
               [] OTHER -> EnumValues(comma, all)

parseEnumDefinition(s) ==
    LET name == expectIdentifierToken(expectToken(s, "enum"))
        values == EnumValues(expectToken(name, "{"), <<>>)
        checked == IF values.n = <<>> THEN parserError(values) ELSE values
    IN  Give(expectToken(checked, "}"), EnumDefinition(name.n, values.n))

parseModifierDefinition(s) ==
    LET name == expectIdentifierToken(
                    expectToken([s EXCEPT !.insideModifier = TRUE], "modifier"))
        parameters == IF Token(name) # "("
                      THEN Give(name, createEmptyParameterList)
                      ELSE parseParameterList(
                               name, [WithLocation EXCEPT !.allowIndexed = TRUE],
                               TRUE)
        body == parseBlock(parameters)
    IN  Give([body EXCEPT !.insideModifier = FALSE],
             ModifierDefinition(name.n, parameters.n, body.n))

parseEventDefinition(s) ==
    LET name == expectIdentifierToken(expectToken(s, "event"))
        parameters == parseParameterList(
                          name, [NoOptions EXCEPT !.allowIndexed = TRUE], TRUE)
        anonymous == Token(parameters) = "anonymous"
        last == IF anonymous THEN Advance(parameters) ELSE parameters
    IN  Give(expectToken(last, ";"),
             EventDefinition(name.n, parameters.n, anonymous))

parseUsingDirective(s) ==
    LET library == parseUserDefinedTypeName(expectToken(s, "using"))
        for == expectToken(library, "for")
        type == IF Token(for) = "*" THEN Advance(Give(for, Null))
                ELSE parseTypeName(for, FALSE)
    IN  Give(expectToken(type, ";"), UsingForDirective(library.n, type.n))

InheritanceSpecified(s) ==
    LET name == parseUserDefinedTypeName(s)
        arguments == OptionalArguments(name)
    IN  Give(arguments, InheritanceSpecifier(name.n, arguments.n.given,
                                             arguments.n.arguments))

RECURSIVE BaseContracts(_, _)
BaseContracts(s, bases) ==
    LET base == parseInheritanceSpecifier(Advance(s))
        all == Append(bases, base.n)
    IN  IF Token(base) = "," THEN BaseContracts(base, all) ELSE Give(base, all)

SubNode(s, contractName) ==
    LET t == Token(s)
    IN  CASE t = "function" \/ (t = "Identifier"
                                /\ CurrentLiteral(s) = "constructor") ->
               parseFunctionDefinitionOrFunctionTypeStateVariable(s, contractName)
          [] t = "struct" -> parseStructDefinition(s)
          [] t = "enum" -> parseEnumDefinition(s)
          [] t \in ElementaryTypeNames \cup {"mapping"}
             \/ (t = "Identifier" /\ CurrentLiteral(s) # "constructor") ->
               expectToken(parseVariableDeclaration(s, OfStateVariable, Null), ";")
          [] t = "modifier" -> parseModifierDefinition(s)
          [] t = "event" -> parseEventDefinition(s)
          [] t = "using" -> parseUsingDirective(s)
          [] OTHER -> fatalParserError(s)

RECURSIVE SubNodes(_, _, _)
SubNodes(s, contractName, subNodes) ==
    IF Token(s) = "}" \/ s.stop THEN Give(s, subNodes)
    ELSE LET one == parseSubNode(s, contractName)
         IN  SubNodes(one, contractName, Append(subNodes, one.n))

ContractDefined(s, kind) ==
    LET name == expectIdentifierToken(expectToken(s, kind))
        bases == IF Token(name) = "is" THEN BaseContracts(name, <<>>)
                 ELSE Give(name, <<>>)
        subNodes == SubNodes(expectToken(bases, "{"), name.n, <<>>)
    IN  Give(expectToken(subNodes, "}"),
             ContractDefinition(kind, name.n, bases.n, subNodes.n))

(* One or more tokens up to a semicolon.                                    *)
RECURSIVE PragmaTokens(_, _)
PragmaTokens(s, tokens) ==
    LET illegal == Token(s) = "ILLEGAL"
        next == Advance(IF illegal THEN parserError(s) ELSE s)
        all == IF illegal THEN tokens ELSE Append(tokens, CurrentLiteral(s))
    IN  IF Token(next) \in {";", "EOS"} THEN Give(next, all)
        ELSE PragmaTokens(next, all)

parsePragmaDirective(s) ==
    LET tokens == PragmaTokens(expectToken(s, "pragma"), <<>>)
    IN  Give(expectToken(tokens, ";"), PragmaDirective(tokens.n))

(* A name, or name as alias; an absent alias is the empty one.              *)
RECURSIVE SymbolAliases(_, _)
SymbolAliases(s, aliases) ==
    LET id == expectIdentifierToken(s)
        alias == IF Token(id) = "as" THEN expectIdentifierToken(Advance(id))
                 ELSE Give(id, "")
        all == Append(aliases, [symbol |-> id.n, alias |-> alias.n])
    IN  IF Token(alias) = "," THEN SymbolAliases(Advance(alias), all)
        ELSE Give(alias, all)

(* from "path", behind the list of what is imported.                        *)
ImportPath(s) ==
    IF Token(s) = "Identifier" /\ CurrentLiteral(s) = "from"
       /\ PeekNext(s) = "StringLiteral"
    THEN getLiteralAndAdvance(Advance(s))
    ELSE fatalParserError(Give(s, ""))

parseImportDirective(s) ==
    LET first == expectToken(s, "import")
        whole == getLiteralAndAdvance(first)
        alias == IF Token(whole) = "as"
                 THEN expectIdentifierToken(Advance(whole))
                 ELSE Give(whole, "")
        symbols == SymbolAliases(Advance(first), <<>>)
        some == ImportPath(expectToken(symbols, "}"))
        unit == expectIdentifierToken(expectToken(Advance(first), "as"))
        all == ImportPath(unit)
    IN  CASE Token(first) = "StringLiteral" ->
               Give(expectToken(alias, ";"), ImportDirective(whole.n, alias.n, <<>>))
          [] Token(first) = "{" ->
               Give(expectToken(some, ";"), ImportDirective(some.n, "", symbols.n))
          [] Token(first) = "*" ->
               Give(expectToken(all, ";"), ImportDirective(all.n, unit.n, <<>>))
          [] OTHER -> fatalParserError(first)

Unit(s) == CASE Token(s) = "pragma" -> parsePragmaDirective(s)
             [] Token(s) = "import" -> parseImportDirective(s)
             [] Token(s) \in {"interface", "contract", "library"} ->
                  parseContractDefinition(s, Token(s))
             [] OTHER -> fatalParserError(s)

RECURSIVE Units(_, _), UnitsBehind(_, _)
Units(s, nodes) ==
    IF Token(s) = "EOS" THEN Give(s, nodes) ELSE UnitsBehind(Unit(s), nodes)
UnitsBehind(one, nodes) == Units(one, Append(nodes, one.n))

Method(name, s, args) ==
    CASE name = "Expression" -> ExpressionOf(s, args[1])
      [] name = "TypeName" -> TypeName(s, args[1])
      [] name = "VariableDeclaration" -> VariableDeclared(s, args[1], args[2])
      [] name = "ParameterList" -> Parameters(s, args[1], args[2])
      [] name = "Statement" -> StatementOf(s)
      [] name = "SimpleStatement" -> SimpleStatement(s)
      [] name = "FunctionHeader" ->
           FunctionHeader(s, args[1], args[2], args[3])
      [] name = "FunctionCallArguments" -> CallArguments(s)
      [] name = "ListArguments" -> ListArguments(s)
      [] name = "BinaryExpression" -> BinaryExpression(s, args[1], args[2])
      [] name = "UnaryExpression" -> UnaryExpression(s, args[1])
      [] name = "IndexAccessedPath" -> IndexAccessedPathIfAny(s)
      [] name = "SubNode" -> SubNode(s, args[1])
      [] name = "InheritanceSpecifier" -> InheritanceSpecified(s)
      [] name = "UserDefinedTypeName" -> UserDefinedType(s)
      [] name = "Block" -> BlockOf(s)
      [] name = "ContractDefinition" -> ContractDefined(s, args[1])
      [] name = "ParenthesizedStatement" -> ParenthesizedOf(s)
      [] name = "SourceUnit" -> Units(s, <<>>)

Outcome(s) == [unit |-> IF s.stop THEN Null ELSE SourceUnit(s.n),
               failed |-> s.bad, at |-> s.i]

(* The source unit, Null when a fatal error ended the parser, whether any   *)
(* error was reported and the token the parser came to.                     *)
parse(tokens) ==
    Outcome(Method("SourceUnit", Start(tokens), <<>>))
=============================================================================

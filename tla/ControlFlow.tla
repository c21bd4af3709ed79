----------------------------- MODULE ControlFlow -----------------------------
(****************************************************************************)
(* The control flow graphs of the functions of a program and the walk that  *)
(* looks for storage pointers that are returned unassigned                  *)
(* (libsolidity/analysis: ControlFlowBuilder, CFG and ControlFlowAnalyzer). *)
(*                                                                          *)
(* A graph g holds the nodes, numbered in the order of their creation, and  *)
(* what the builder keeps: the node it is at, where break and continue lead *)
(* and the flow under construction.  r is the resolver of the program       *)
(* (Names), whose annotations the builder reads.  Variable declarations in  *)
(* a block, which nothing reads, are left out.                              *)
(****************************************************************************)
EXTENDS Names, FiniteSets

NewNode == [entries |-> <<>>, exits |-> <<>>, expressions |-> {}, assembly |-> {},
            returned |-> NoId]
NoFlow == [entry |-> 0, exit |-> 0, revert |-> 0, placeholderEntry |-> 0,
           placeholderExit |-> 0]
EmptyGraph == [nodes |-> <<>>, cur |-> 0, breakJump |-> 0, continueJump |-> 0,
               flow |-> NoFlow, functions |-> <<>>, modifiers |-> <<>>,
               failed |-> FALSE]

Size(g) == Len(g.nodes)
AddNodes(g, k) == [g EXCEPT !.nodes = @ \o [j \in 1..k |-> NewNode]]
connect(g, from, to) ==
    [g EXCEPT !.nodes[from].exits = Append(@, to),
              !.nodes[to].entries = Append(@, from)]
At(g, node) == [g EXCEPT !.cur = node]

(* The builder goes on at a new node, not connected with the one before or  *)
(* entered from it.                                                         *)
newLabel(g) == At(AddNodes(g, 1), Size(g) + 1)
createLabelHere(g) == At(connect(AddNodes(g, 1), g.cur, Size(g) + 1), Size(g) + 1)
placeAndConnectLabel(g, node) == At(connect(g, g.cur, node), node)

(* Two new nodes behind the current one, the numbers of which are the next. *)
splitFlow(g) == connect(connect(AddNodes(g, 2), g.cur, Size(g) + 1),
                        g.cur, Size(g) + 2)

(* What the nodes of the graph remember of the program.                     *)
Expressions == {"Conditional", "Assignment", "TupleExpression", "UnaryOperation",
                "BinaryOperation", "FunctionCall", "NewExpression", "MemberAccess",
                "IndexAccess", "Identifier", "ElementaryTypeNameExpression",
                "Literal"}
visitNode(g, id, n) ==
    CASE n.node \in Expressions ->
           [g EXCEPT !.nodes[g.cur].expressions = @ \cup {id}]
      [] n.node = "InlineAssembly" ->
           [g EXCEPT !.nodes[g.cur].assembly = @ \cup {id}]
      [] OTHER -> g

(* The builtin function a call calls, if it is one.                         *)
BuiltinCalled(r, id) ==
    IF /\ Child(id, 1) \in DOMAIN r.refs
       /\ Head(r.refs[Child(id, 1)]).unit \in Globals
    THEN Head(r.refs[Child(id, 1)]).unit ELSE ""

(* Control leaves for another node; what follows is not reached from here.  *)
Leave(g, to) == IF to = 0 THEN [g EXCEPT !.failed = TRUE]
                ELSE newLabel(connect(g, g.cur, to))

RECURSIVE Flow(_, _, _, _), FlowAll(_, _, _, _, _)
FlowAll(r, g, id, n, k) ==
    IF k > Len(Children(n)) THEN g
    ELSE FlowAll(r, Flow(r, g, Child(id, k), Children(n)[k]), id, n, k + 1)
FlowOf(r, g, id, n) == IF n = Null THEN g ELSE Flow(r, g, id, n)

(* The right operand of && or || is passed by, or not.                      *)
FlowShortCircuit(r, g, id, n) ==
    LET left == Flow(r, g, Child(id, 1), n.left)
        right == Flow(r, At(splitFlow(left), Size(left) + 1), Child(id, 2), n.right)
    IN  placeAndConnectLabel(right, Size(left) + 2)

(* mergeFlow: both ends lead to a new node.                                 *)
mergeFlow(g, first, second) ==
    At(connect(connect(AddNodes(g, 1), first, Size(g) + 1), second, Size(g) + 1),
       Size(g) + 1)

FlowBranches(r, g, id, condition, yesNode, noNode) ==
    LET tested == Flow(r, g, Child(id, 1), condition)
        yes == Flow(r, At(splitFlow(tested), Size(tested) + 1), Child(id, 2), yesNode)
        no == Flow(r, At(yes, Size(tested) + 2), Child(id, 3), noNode)
    IN  IF noNode = Null THEN placeAndConnectLabel(yes, Size(tested) + 2)
        ELSE mergeFlow(no, yes.cur, no.cur)

(* Within the loop break and continue lead to the given nodes.              *)
FlowLoopBody(r, g, breakJump, continueJump, id, n) ==
    [Flow(r, [g EXCEPT !.breakJump = breakJump, !.continueJump = continueJump], id, n)
     EXCEPT !.breakJump = g.breakJump, !.continueJump = g.continueJump]

FlowFor(r, g, id, n) ==
    LET i == IF n.init = Null THEN 0 ELSE 1
        c == i + IF n.condition = Null THEN 0 ELSE 1
        l == c + IF n.loop = Null THEN 0 ELSE 1
        start == createLabelHere(FlowOf(r, g, Child(id, i), n.init))
        tested == AddNodes(FlowOf(r, start, Child(id, c), n.condition), 1)
        loopExpression == Size(tested)
        afterFor == loopExpression + 2
        body == FlowLoopBody(r, At(splitFlow(tested), loopExpression + 1), afterFor,
                             loopExpression, Child(id, l + 1), n.body)
        looped == FlowOf(r, placeAndConnectLabel(body, loopExpression), Child(id, l),
                         n.loop)
    IN  At(connect(looped, looped.cur, start.cur), afterFor)

(* continue in a do loop leads to its body, not to its condition.           *)
FlowDoWhile(r, g, id, n) ==
    LET afterWhile == Size(g) + 1
        start == createLabelHere(AddNodes(g, 1))
        body == FlowLoopBody(r, start, afterWhile, start.cur, Child(id, 2), n.body)
        tested == Flow(r, body, Child(id, 1), n.condition)
    IN  placeAndConnectLabel(connect(tested, tested.cur, start.cur), afterWhile)

FlowWhile(r, g, id, n) ==
    LET start == createLabelHere(g)
        tested == Flow(r, start, Child(id, 1), n.condition)
        afterWhile == Size(tested) + 2
        body == FlowLoopBody(r, At(splitFlow(tested), Size(tested) + 1), afterWhile,
                             start.cur, Child(id, 2), n.body)
    IN  At(connect(body, body.cur, start.cur), afterWhile)

(* Where a modifier is at its placeholder its flow is cut in two.           *)
FlowPlaceholder(g) ==
    IF g.flow.placeholderEntry = 0 THEN [g EXCEPT !.failed = TRUE]
    ELSE LET after == newLabel(connect(g, g.cur, g.flow.placeholderEntry))
         IN  connect(after, g.flow.placeholderExit, after.cur)

(* revert ends the flow, require and assert may.                            *)
FlowCall(r, g, id, n) ==
    LET called == FlowAll(r, g, id, n, 1)
    IN  CASE BuiltinCalled(r, id) = "revert" -> Leave(called, g.flow.revert)
          [] BuiltinCalled(r, id) \in {"require", "assert"} ->
               createLabelHere(connect(called, called.cur, g.flow.revert))
          [] OTHER -> FlowAll(r, visitNode(g, id, n), id, n, 1)

(* The node of a return statement remembers it; its expression comes after. *)
FlowReturn(r, g, id, n) ==
    FlowAll(r, Leave([g EXCEPT !.nodes[g.cur].returned = id], g.flow.exit), id, n, 1)

Flow(r, g, id, n) ==
    CASE n.node = "Null" \/ g.failed -> g
      [] n.node = "BinaryOperation" /\ n.operator \in {"||", "&&"} ->
           FlowShortCircuit(r, g, id, n)
      [] n.node = "Conditional" ->
           FlowBranches(r, g, id, n.condition, n.trueExpression, n.falseExpression)
      [] n.node = "IfStatement" ->
           FlowBranches(r, g, id, n.condition, n.trueBody, n.falseBody)
      [] n.node = "ForStatement" -> FlowFor(r, g, id, n)
      [] n.node = "WhileStatement" ->
           IF n.isDoWhile THEN FlowDoWhile(r, g, id, n) ELSE FlowWhile(r, g, id, n)
      [] n.node = "Break" -> Leave(g, g.breakJump)
      [] n.node = "Continue" -> Leave(g, g.continueJump)
      [] n.node = "Throw" -> Leave(g, g.flow.revert)
      [] n.node = "Block" -> createLabelHere(FlowAll(r, createLabelHere(g), id, n, 1))
      [] n.node = "Return" -> FlowReturn(r, g, id, n)
      [] n.node = "PlaceholderStatement" -> FlowPlaceholder(g)
      [] n.node = "FunctionCall" -> FlowCall(r, g, id, n)
      [] OTHER -> FlowAll(r, visitNode(g, id, n), id, n, 1)

(* The flow of a function or of a modifier, from its entry to its exit.     *)
NewFlow(g, n) ==
    IF n.node = "FunctionDefinition"
    THEN [NoFlow EXCEPT !.entry = Size(g) + 1, !.exit = Size(g) + 2,
                        !.revert = Size(g) + 3]
    ELSE [entry |-> Size(g) + 1, exit |-> Size(g) + 2, revert |-> Size(g) + 3,
          placeholderEntry |-> Size(g) + 4, placeholderExit |-> Size(g) + 5]
StartFlow(g, flow) ==
    [AddNodes(g, IF flow.placeholderEntry = 0 THEN 3 ELSE 5) EXCEPT
        !.cur = flow.entry, !.flow = flow, !.breakJump = 0, !.continueJump = 0]
EndFlow(g, id, flow) ==
    CASE g.failed -> g
      [] ~g.failed /\ flow.placeholderEntry = 0 ->
           [connect(g, g.cur, flow.exit) EXCEPT !.functions = (id :> flow) @@ g.functions]
      [] OTHER ->
           [connect(g, g.cur, flow.exit) EXCEPT !.modifiers = (id :> flow) @@ g.modifiers]
createFlow(r, g, id, n, flow) == EndFlow(Flow(r, StartFlow(g, flow), id, n), id, flow)

----------------------------------------------------------------------------
(* CFG: the flows of a source unit, to which the modifiers are applied.     *)

RECURSIVE CreateFlows(_, _, _, _, _)
CreateFlows(r, g, events, a, b) ==
    CASE a > b \/ g.failed -> g
      [] a = b /\ ~g.failed ->
           IF ~events[a].ended /\ events[a].n.node \in {"FunctionDefinition",
                                                        "ModifierDefinition"}
           THEN createFlow(r, g, events[a].id, events[a].n, NewFlow(g, events[a].n))
           ELSE g
      [] OTHER ->
           Only({CreateFlows(r, x, events, (a + b) \div 2 + 1, b) :
                    x \in {CreateFlows(r, g, events, a, (a + b) \div 2)}})

(* The nodes of a modifier that are copied: those connected with its entry  *)
(* in either direction without passing one that is not.                     *)
Neighbours(g, nodes) ==
    UNION {ToSet(g.nodes[x].entries) \cup ToSet(g.nodes[x].exits) : x \in nodes}
RECURSIVE NodesToCopy(_, _, _)
NodesToCopy(g, copied, kept) ==
    LET more == (Neighbours(g, copied) \ copied) \ kept
    IN  IF more = {} THEN copied ELSE NodesToCopy(g, copied \cup more, kept)

(* Where the edges of a copy lead: the placeholder stands for the entry and *)
(* the exit of the function, whose own nodes stay as they are.              *)
CopyOf(modifier, function, copies, base, x) ==
    CASE x = modifier.revert -> function.revert
      [] x = modifier.placeholderEntry -> function.entry
      [] x = modifier.placeholderExit -> function.exit
      [] OTHER -> base + CHOOSE k \in DOMAIN copies : copies[k] = x
CopiedNode(node, modifier, function, copies, base) ==
    [node EXCEPT
        !.entries = [k \in DOMAIN @ |->
                        CopyOf(modifier, function, copies, base, @[k])],
        !.exits = [k \in DOMAIN @ |->
                      CopyOf(modifier, function, copies, base, @[k])]]

(* A modifier that does not reach its exit gets an exit of its own, which   *)
(* nothing leads to.                                                        *)
applyModifierFlowToFunctionFlow(g, modifier, function) ==
    LET copied == NodesToCopy(g, {modifier.entry},
                              {modifier.revert, modifier.placeholderEntry,
                               modifier.placeholderExit})
        copies == SelectSeq([x \in 1..Size(g) |-> x],
                            LAMBDA x : x \in copied \cup {modifier.exit})
        new == [k \in DOMAIN copies |->
                   IF copies[k] \notin copied THEN NewNode
                   ELSE CopiedNode(g.nodes[copies[k]], modifier, function, copies,
                                   Size(g))]
    IN  [nodes |-> g.nodes \o new,
         entry |-> CopyOf(modifier, function, copies, Size(g), modifier.entry),
         exit |-> CopyOf(modifier, function, copies, Size(g), modifier.exit)]

WithModifier(g, function, modifier) ==
    LET applied == applyModifierFlowToFunctionFlow(g, g.modifiers[modifier],
                                                   g.functions[function])
    IN  [g EXCEPT !.nodes = applied.nodes,
                  !.functions[function].entry = applied.entry,
                  !.functions[function].exit = applied.exit]

(* The modifiers of a function, the last first; a base contract among them  *)
(* is passed over.                                                          *)
ModifiersOf(units, r, function) ==
    LET n == NodeAt(units, function)
        named == [k \in DOMAIN n.modifiers |->
                     Head(r.refs[Child(Child(function, k + 2), 1)])]
    IN  Reverse(SelectSeq(named,
                          LAMBDA d : KindOf(units, d) = "ModifierDefinition"))

RECURSIVE ApplyEach(_, _, _)
ApplyEach(g, function, modifiers) ==
    IF modifiers = <<>> \/ g.failed THEN g
    ELSE ApplyEach(IF Head(modifiers) \notin DOMAIN g.modifiers
                   THEN [g EXCEPT !.failed = TRUE]
                   ELSE WithModifier(g, function, Head(modifiers)),
                   function, Tail(modifiers))
RECURSIVE applyModifiers(_, _, _, _)
applyModifiers(units, r, g, functions) ==
    IF functions = {} THEN g
    ELSE LET f == CHOOSE x \in functions : TRUE
         IN  applyModifiers(units, r, ApplyEach(g, f, ModifiersOf(units, r, f)),
                            functions \ {f})

(* All functions seen so far are modified whenever a unit has been added.   *)
Modified(units, r, g) ==
    IF g.failed THEN g ELSE applyModifiers(units, r, g, DOMAIN g.functions)
CreateWalk(r, g, events) == CreateFlows(r, g, events, 1, Len(events))
constructFlow(units, r, g, unit) ==
    Modified(units, r,
             CreateWalk(r, g, Accept(Id(unit, <<>>), units[unit],
                                     {"FunctionDefinition", "ModifierDefinition"})))

----------------------------------------------------------------------------
(* ControlFlowAnalyzer.                                                     *)

(* The variables an assignment assigns to.                                  *)
RECURSIVE AssignedTo(_, _, _)
AssignedTo(r, id, n) ==
    CASE n.node = "TupleExpression" ->
           UNION {AssignedTo(r, Child(id, k), Children(n)[k]) :
                     k \in DOMAIN Children(n)}
      [] n.node = "Identifier" -> ToSet(r.refs[id])
      [] OTHER -> {}
variablesAssignedInNode(units, r, node) ==
    UNION {AssignedTo(r, Child(id, 1), NodeAt(units, id).left) :
              id \in {e \in node.expressions : KindOf(units, e) = "Assignment"}}
ReferredToInAssembly(r, node) == UNION {r.assembly[id] : id \in node.assembly}

(* What is unassigned behind a node, given what is before it.               *)
LeftUnassigned(units, r, node, before) ==
    IF node.returned # NoId /\ NodeAt(units, node.returned).expression # Null THEN {}
    ELSE (before \ variablesAssignedInNode(units, r, node))
         \ ReferredToInAssembly(r, node)

(* The exits that have more unassigned variables now than before are walked *)
(* (again).                                                                 *)
Walked(g, x, unassigned, after) ==
    [y \in DOMAIN unassigned |->
        CASE y = x -> after
          [] y # x /\ y \in ToSet(g.nodes[x].exits) -> unassigned[y] \cup after
          [] OTHER -> unassigned[y]]
(* Only those nothing has been found out about yet.                         *)
NotReached(g, x, unassigned, after) ==
    SelectSeq(g.nodes[x].exits, LAMBDA y : after # {} /\ unassigned[y] = {} /\ y # x)
Grown(g, x, unassigned, after) ==
    SelectSeq(g.nodes[x].exits, LAMBDA y : y # x /\ ~(after \subseteq unassigned[y]))
RECURSIVE WalkPaths(_, _, _, _, _), WalkOn(_, _, _, _, _, _)
WalkPaths(units, r, g, unassigned, stack) ==
    IF stack = <<>> THEN unassigned
    ELSE WalkOn(units, r, g, unassigned, stack,
                LeftUnassigned(units, r, g.nodes[Last(stack)], unassigned[Last(stack)]))
WalkOn(units, r, g, unassigned, stack, after) ==
    WalkPaths(units, r, g, Walked(g, Last(stack), unassigned, after),
              Front(stack) \o Grown(g, Last(stack), unassigned, after))

DataStoredInStorage(t) == t.cat = "mapping" \/ t.location = "storage"
StorageReturns(r, function, n) ==
    {v \in {Child(Child(function, 2), k) : k \in DOMAIN n.returnParameters.parameters} :
        DataStoredInStorage(TypeAt(r, v))}

(* The return variables a function is warned about.                         *)
checkUnassignedStorageReturnValues(units, r, g, function) ==
    LET flow == g.functions[function]
    IN  WalkPaths(units, r, g,
                  [x \in DOMAIN g.nodes |->
                      IF x = flow.entry
                      THEN StorageReturns(r, function, NodeAt(units, function))
                      ELSE {}],
                  <<flow.entry>>)[flow.exit]
=============================================================================

--------------------------------- MODULE CSE ---------------------------------
(***************************************************************************)
(* CommonSubexpressionEliminator (libevmasm): a block of items is fed into *)
(* a KnownState, and code that reaches the same stack and performs the     *)
(* same stores is generated from the classes.                              *)
(*                                                                         *)
(* The generator is a record.  error: "StackTooDeep" and "NotAvailable"    *)
(* are the exceptions the caller catches, "Assert" stands for any failed   *)
(* assertion; nothing happens any more once it is set.                     *)
(***************************************************************************)
EXTENDS KnownState

Fail(g, error) == [g EXCEPT !.error = error]
Ok(g) == g.error = ""

Positions(g, id) == IF id \in DOMAIN g.positions THEN g.positions[id] ELSE {}
AddPosition(g, id, p)  == [g EXCEPT !.positions = With(@, id, Positions(g, id) \cup {p})]
DropPosition(g, id, p) == [g EXCEPT !.positions = With(@, id, Positions(g, id) \ {p})]

\* appendItem
AppendTo(g, item) == [g EXCEPT !.items = Append(@, item), !.height = @ + Deposit(item)]

AppendDup(g, from) ==
  LET n == 1 + g.height - from
      id == g.stack[from] IN
  CASE ~Ok(g) -> g
    [] n > Len(Dups) -> Fail(g, "StackTooDeep")
    [] n < 1 -> Fail(g, "Assert")
    [] OTHER -> AddPosition([AppendTo(g, Operation(Dups[n])) EXCEPT !.stack = With(@, g.height + 1, id)],
                            id, g.height + 1)

\* Two equal swaps in a row cancel.
CancelSwaps(items) ==
  LET n == Len(items) IN
  IF n >= 2 /\ IsSwapInstruction(items[n]) /\ items[n - 1] = items[n]
    THEN SubSeq(items, 1, n - 2) ELSE items

AppendOrRemoveSwap(g, from) ==
  LET n == g.height - from
      top == g.stack[g.height]
      other == g.stack[from]
      swapped == [g EXCEPT !.items = CancelSwaps(Append(@, Operation(Swaps[n])))] IN
  CASE ~Ok(g) \/ from = g.height -> g
    [] n > Len(Swaps) -> Fail(g, "StackTooDeep")
    [] n < 1 -> Fail(g, "Assert")
    [] top = other -> swapped
    [] OTHER -> [swapped EXCEPT
                   !.positions = With(With(@, top, (@[top] \ {g.height}) \cup {from}),
                                      other, (@[other] \ {from}) \cup {g.height}),
                   !.stack = With(With(@, g.height, other), from, top)]

\* classElementPosition
ElementPosition(g, id) == Max(Positions(g, id))

CanBeRemoved(g, element, result, from) ==
  LET haveCopy == Cardinality(Positions(g, element)) > 1 IN
  IF element \in g.final
    THEN haveCopy /\ (from \notin DOMAIN g.target \/ g.target[from] # element)
    ELSE \/ haveCopy
         \/ \A need \in {d \in g.needed : d[1] = element} :
              need[2] = result \/ need[2] \in DOMAIN g.positions

\* removeStackTopIfPossible; removed is what it returns.
RemoveStackTop(g) ==
  IF DOMAIN g.stack = {} \/ ~Ok(g) THEN [g |-> g, removed |-> FALSE]
  ELSE IF g.height \notin DOMAIN g.stack THEN [g |-> Fail(g, "Assert"), removed |-> FALSE]
  ELSE LET top == g.stack[g.height] IN
       IF ~CanBeRemoved(g, top, NoId, g.height) THEN [g |-> g, removed |-> FALSE]
       ELSE [g |-> AppendTo([DropPosition(g, top, g.height) EXCEPT !.stack = Without(@, {g.height})],
                            Operation("POP")),
             removed |-> TRUE]

RECURSIVE RemoveSurplus(_)
WithoutSurplus(r) == IF r.removed THEN RemoveSurplus(r.g) ELSE r.g
RemoveSurplus(g) == WithoutSurplus(RemoveStackTop(g))

-----------------------------------------------------------------------------
\* A store is not seen by the hash of length bytes that start offset bytes before it.
IsOutside(offset, length) ==
  LET oKnown == IsConstant(offset.c, offset.id)
      o == Constant(offset.c, offset.id)
      lKnown == IsConstant(offset.c, length)
      l == Constant(offset.c, length) IN
  [c |-> offset.c,
   r |-> \/ lKnown /\ l = 0
         \/ oKnown /\ \/ SignedValue(o) <= -WordBytes
                      \/ lKnown /\ SignedValue(o) >= 0 /\ o >= l]

\* Is the store to slot certainly not seen by the load exp?
StoreIsIndependent(c, exp, slot) ==
  LET from == exp.args[1] IN
  CASE exp.item.instruction = "SLOAD" -> KnownToBeDifferent(c, slot, from)
    [] exp.item.instruction = "MLOAD" -> KnownToBeDifferentByWord(c, slot, from)
    [] OTHER -> IsOutside(Find(c, Operation("SUB"), <<slot, from>>, 0), exp.args[2])

\* The last store of ops before the load, or the first one.
LatestStore(ops, exp) ==
  LET before == {k \in DOMAIN ops : k > 1 /\ ops[k].seq < exp.seq} IN
  IF before = {} THEN ops[1].id ELSE ops[Max(before)].id

RECURSIVE AddDependencies(_, _)

\* id needs the class needed.
AddDependency(g, needed, id) == [AddDependencies(g, needed) EXCEPT !.needed = @ \cup {<<needed, id>>}]
DependUnless(independent, g, store, id) ==
  IF independent.r THEN [g EXCEPT !.c = independent.c]
  ELSE AddDependency([g EXCEPT !.c = independent.c], store, id)

\* A load depends on the stores that come before it and may overlap with it.
AddStoreDependencies(g, exp, id) ==
  LET target == IF exp.item.instruction = "SLOAD" THEN "Storage" ELSE "Memory" IN
  FoldLeft(LAMBDA acc, key :
             IF key[1] # target \/ acc.stores[key][1].seq > exp.seq THEN acc
             ELSE DependUnless(StoreIsIndependent(acc.c, exp, key[2]), acc,
                               LatestStore(acc.stores[key], exp), id),
           g, g.storeOrder)
AddArgumentDependencies(g, exp, id) ==
  FoldLeft(LAMBDA acc, arg : AddDependency(acc, arg, id), g, exp.args)

AddDependencies(g, id) ==
  LET exp == g.c.reps[id] IN
  CASE ~Ok(g) \/ id \in DOMAIN g.positions \/ (\E d \in g.needed : d[1] = id) -> g
    [] exp.item.type = "Undefined" -> Fail(g, "NotAvailable")
    [] OTHER ->
         IF exp.item.type = "Operation" /\ exp.item.instruction \in {"SLOAD", "MLOAD", "KECCAK256"}
           THEN AddStoreDependencies(AddArgumentDependencies(g, exp, id), exp, id)
           ELSE AddArgumentDependencies(g, exp, id)

-----------------------------------------------------------------------------
\* The arguments are on the stack: brings them to its top, consuming what can be.
Removable(g, a, id) == CanBeRemoved(g, a, id, ElementPosition(g, a))
SwapUp(g, a) == AppendOrRemoveSwap(g, ElementPosition(g, a))
DupUp(g, a) == AppendDup(g, ElementPosition(g, a))
DupTop(g) == AppendDup(g, g.height)
SwapTop(g) == AppendOrRemoveSwap(g, g.height - 1)
\* the second argument is on top and will be consumed
PlaceFirst(g, a1, a2, id) ==
  CASE a1 = a2 -> DupTop(g)
    [] a1 # a2 /\ Ok(g) /\ Removable(g, a1, id) -> SwapUp(SwapTop(g), a1)
    [] OTHER -> DupUp(g, a1)

PlaceArguments(g, args, id) ==
  LET a1 == args[1]
      a2 == args[2] IN
  CASE Len(args) = 0 -> g
    [] Len(args) = 1 -> IF Removable(g, a1, id) THEN SwapUp(g, a1) ELSE DupUp(g, a1)
    [] Len(args) = 2 /\ Removable(g, a2, id) -> PlaceFirst(SwapUp(g, a2), a1, a2, id)
    [] Len(args) = 2 /\ ~Removable(g, a2, id) ->
         (CASE a1 = a2 -> DupTop(DupUp(g, a1))
            [] a1 # a2 /\ Removable(g, a1, id) -> SwapTop(DupUp(SwapUp(g, a1), a2))
            [] OTHER -> DupUp(DupUp(g, a2), a1))
    [] OTHER -> Fail(g, "Assert")

RECURSIVE UndoSwaps(_)
\* A commutative operation does not need the swap before it.
UndoSwaps(g) ==
  IF g.items # <<>> /\ Is(Last(g.items), "SWAP1")
    THEN UndoSwaps(AppendOrRemoveSwap(g, g.height - 1)) ELSE g

\* The item is appended and the n arguments on top of the stack are consumed.
Consume(g, n, item) ==
  LET used == g.height - n + 1 .. g.height IN
  AppendTo([g EXCEPT !.positions = [id \in DOMAIN @ |-> @[id] \ used], !.stack = Without(@, used)], item)

\* The class id is now computed, and has a place if its item leaves anything.
Computed(g, exp, id) ==
  IF exp.item.type # "Operation" \/ InstructionInfo[exp.item.instruction].ret = 1
    THEN AddPosition([g EXCEPT !.stack = With(@, g.height, id)], id, g.height)
    ELSE [g EXCEPT !.positions = With(@, id, Positions(g, id))]

\* The arguments have been placed.
FinishElement(g, exp, id) ==
  LET n == Len(exp.args) IN
  CASE ~Ok(g) -> g
    [] \E k \in 1 .. n : g.stack[g.height - k + 1] # exp.args[k] -> Fail(g, "Assert")
    [] OTHER -> Computed(Consume(IF IsCommutativeOperation(exp.item) THEN UndoSwaps(g) ELSE g, n, exp.item),
                         exp, id)

\* The arguments have been generated.
PlaceAndCompute(g, exp, id) ==
  FinishElement(IF Ok(g) THEN PlaceArguments(g, exp.args, id) ELSE g, exp, id)

RECURSIVE GenerateClassElement(_, _, _)
\* The element on top of the stack has been removed, if that was possible.
GenerateExpression(g, exp, id, allowSequenced) ==
  CASE ~Ok(g) -> g
    [] id \in DOMAIN g.positions ->
         IF g.positions[id] = {} THEN Fail(g, "Assert") ELSE g
    [] exp.item.type = "Undefined" \/ (~allowSequenced /\ exp.seq # 0) -> Fail(g, "Assert")
    [] OTHER -> PlaceAndCompute(FoldLeft(LAMBDA acc, arg : GenerateClassElement(acc, arg, FALSE),
                                         g, Reverse(exp.args)), exp, id)

GenerateClassElement(g, id, allowSequenced) ==
  IF Ok(g) /\ \E c \in DOMAIN g.positions : \E p \in g.positions[c] : p > g.height THEN Fail(g, "Assert")
  ELSE GenerateExpression(RemoveStackTop(g).g, g.c.reps[id], id, allowSequenced)

\* The element id has been generated and belongs at h.
MoveTo(g, id, h) ==
  LET position == ElementPosition(g, id) IN
  CASE ~Ok(g) -> g
    [] Ok(g) /\ Positions(g, id) = {} -> Fail(g, "Assert")
    [] Ok(g) /\ h \in Positions(g, id) -> g
    [] OTHER -> AppendOrRemoveSwap(IF position < h THEN AppendDup(g, position)
                                   ELSE AppendOrRemoveSwap(g, position), h)

\* One element of the target stack.
GenerateTarget(g, h) ==
  IF ~Ok(g) \/ (h \in DOMAIN g.stack /\ g.stack[h] = g.target[h]) THEN g
  ELSE MoveTo(GenerateClassElement(g, g.target[h], FALSE), g.target[h], h)

Ascending(S) == SetToSortSeq(S, <)

\* The sequenced expressions that are needed, in the order of their numbers.
SequencedExpressions(g) ==
  LET needed == {id \in UNION {{d[1], d[2]} : d \in g.needed} : g.c.reps[id].seq # 0}
      Before(a, b) == LET x == g.c.reps[a].seq
                          y == g.c.reps[b].seq IN x < y \/ (x = y /\ a < b) IN
  SetToSortSeq(needed, Before)

\* The members of the generator before anything is generated.
Generator(c, stores, initialHeight, initialStack, target) ==
  LET keys == {<<stores[k].target, stores[k].slot>> : k \in DOMAIN stores}
      Of(key) == SelectSeq(stores, LAMBDA s : <<s.target, s.slot>> = key)
      MapOrder(x, y) == \/ x[1] = "Memory" /\ y[1] = "Storage"
                        \/ x[1] = y[1] /\ x[2] < y[2] IN
  [items |-> <<>>, height |-> initialHeight, stack |-> initialStack, target |-> target,
   final |-> Range(target), needed |-> {}, c |-> c, error |-> "",
   positions |-> [id \in Range(initialStack) |-> {h \in DOMAIN initialStack : initialStack[h] = id}],
   stores |-> [key \in keys |-> Of(key)], storeOrder |-> SetToSortSeq(keys, MapOrder)]

StoreDependencies(g) ==
  FoldLeft(LAMBDA acc, key : AddDependencies(acc, Last(acc.stores[key]).id), g, g.storeOrder)
TargetDependencies(g) ==
  FoldLeft(LAMBDA acc, h : AddDependencies(acc, acc.target[h]), g, Ascending(DOMAIN g.target))

\* The items with sequence numbers, unless one lies before the block.
GenerateSequenced(g, sequenced, initialSeq) ==
  IF ~Ok(g) \/ \E k \in DOMAIN sequenced : g.c.reps[sequenced[k]].seq < initialSeq
    THEN (IF Ok(g) THEN Fail(g, "StackTooDeep") ELSE g)
    ELSE FoldLeft(LAMBDA acc, id : IF id \in DOMAIN acc.positions THEN acc
                                   ELSE GenerateClassElement(acc, id, TRUE), g, sequenced)
GenerateStores(g, initialSeq) == GenerateSequenced(g, SequencedExpressions(g), initialSeq)

\* The target stack, and nothing else on the stack.
GenerateTargets(g) == RemoveSurplus(FoldLeft(GenerateTarget, g, Ascending(DOMAIN g.target)))
CheckHeight(g, height) == IF Ok(g) /\ g.height # height THEN Fail(g, "Assert") ELSE g

\* CSECodeGenerator::generateCode
GenerateCode(c, stores, initialSeq, initialHeight, initialStack, target) ==
  CheckHeight(GenerateTargets(GenerateStores(TargetDependencies(StoreDependencies(
                Generator(c, stores, initialHeight, initialStack, target))), initialSeq)),
              CASE DOMAIN target # {}       -> Max(DOMAIN target)
                [] DOMAIN initialStack # {} -> Min(DOMAIN initialStack) - 1
                [] OTHER                    -> initialHeight)

-----------------------------------------------------------------------------
\* feedItem of the eliminator, which is a state k and its stores.
WithStore(e, fed) ==
  [k |-> fed.k, stores |-> IF fed.op = NoStore THEN e.stores ELSE Append(e.stores, fed.op)]
Feed(e, item) == WithStore(e, FeedItem(e.k, item))
FeedAll(e, items) == FoldLeft(Feed, e, items)

NoItem == PushOther("None", 0)

\* What replaces the breaking item: whether the condition is known not to be zero, or to be.
Simpler(item, nonZero, zero) ==
  CASE Is(item, "JUMPI") /\ nonZero          -> [item |-> Operation("JUMP"), fed |-> <<"SWAP1", "POP">>]
    [] Is(item, "JUMPI") /\ ~nonZero /\ zero -> [item |-> NoItem, fed |-> <<"POP", "POP">>]
    [] Is(item, "RETURN") /\ zero            -> [item |-> Operation("STOP"), fed |-> <<"POP", "POP">>]
    [] OTHER                                 -> [item |-> item, fed |-> <<>>]
Replaced(e, new) ==
  [e |-> FeedAll(e, [j \in DOMAIN new.fed |-> Operation(new.fed[j])]), item |-> new.item]
\* JUMPI asks whether the condition is zero, which makes a class.
AskedNonZero(e, item, below, nonZero) ==
  Replaced([e EXCEPT !.k = [below.k EXCEPT !.c = nonZero.c]],
           Simpler(item, nonZero.r, KnownZero(below.k.c, below.id)))
BreakAt(e, item, below) ==
  IF Is(item, "JUMPI") THEN AskedNonZero(e, item, below, KnownNonZero([c |-> below.k.c, id |-> below.id]))
  ELSE Replaced([e EXCEPT !.k = below.k], Simpler(item, FALSE, KnownZero(below.k.c, below.id)))

\* optimizeBreakingItem: the eliminator and the item that ends the block.
OptimizeBreakingItem(e, item) ==
  IF Is(item, "JUMPI") \/ Is(item, "RETURN") THEN BreakAt(e, item, StackElement(e.k, e.k.height - 1))
  ELSE [e |-> e, item |-> item]

\* The stack from min to top, as classes of the state k.
WithContent(acc, h, e) == [k |-> e.k, s |-> With(acc.s, h, e.id)]
StackContents(k, min, top) ==
  FoldLeft(LAMBDA acc, h : WithContent(acc, h, StackElement(acc.k, h)), [k |-> k, s |-> Nothing],
           [j \in 1 .. IF top >= min THEN top - min + 1 ELSE 0 |-> min + j - 1])

\* The breaking item is fed to the state only to see its classes.
ClassesBehind(o) == IF o.item = NoItem THEN o.e.k.c ELSE FeedItem(o.e.k, o.item).k.c

\* getOptimizedItems, in steps: the block has been fed and its last item chosen (o), the classes of
\* the initial stack are known, those of the target stack are.
WithLastItem(g, item) == IF item = NoItem THEN g ELSE [g EXCEPT !.items = Append(@, item)]
GenerateFor(o, initial, target) ==
  WithLastItem(GenerateCode(target.k.c, o.e.stores, EmptyState.seq, 0, initial.s, target.s), o.item)
WithInitial(o, min, initial) ==
  GenerateFor(o, initial, StackContents([o.e.k EXCEPT !.c = initial.k.c], min, o.e.k.height))
FromState(o, c) ==
  LET min == Min({o.e.k.height + 1} \cup DOMAIN o.e.k.stack) IN
  WithInitial(o, min, StackContents([EmptyState EXCEPT !.c = c], min, 0))
FromBlock(o) == FromState(o, ClassesBehind(o))

\* feedItems and getOptimizedItems for one block.
GetOptimizedItems(block, breaking) ==
  FromBlock(OptimizeBreakingItem(FeedAll([k |-> EmptyState, stores |-> <<>>], block), breaking))

-----------------------------------------------------------------------------
\* The end of the block that starts at i, and whether an item breaks it there.
BlockEnd(items, i, msize) ==
  LET ends == {j \in i .. Len(items) : BreaksCSEAnalysisBlock(items[j], msize)} IN
  [last |-> IF ends = {} THEN Len(items) ELSE Min(ends), breaks |-> ends # {}]
OptimizedBlock(items, i, end) ==
  GetOptimizedItems(SubSeq(items, i, IF end.breaks THEN end.last - 1 ELSE end.last),
                    IF end.breaks THEN items[end.last] ELSE NoItem)

\* A block is replaced by what was generated for it if that is shorter.
Emit(chunk, g, rest) ==
  LET better == Ok(g) /\ Len(g.items) < Len(chunk) IN
  [items |-> (IF better THEN g.items ELSE chunk) \o rest.items,
   replaced |-> rest.replaced + (IF better THEN 1 ELSE 0),
   failed |-> g.error = "Assert" \/ rest.failed]

RECURSIVE EliminateFrom(_, _, _)
EliminateBlock(items, i, end, msize) ==
  Emit(SubSeq(items, i, end.last), OptimizedBlock(items, i, end), EliminateFrom(items, end.last + 1, msize))
\* The loop of optimiseInternal over the blocks; replaced counts the better ones.
EliminateFrom(items, i, msize) ==
  IF i > Len(items) THEN [items |-> <<>>, replaced |-> 0, failed |-> FALSE]
  ELSE EliminateBlock(items, i, BlockEnd(items, i, msize), msize)

Eliminate(items) == EliminateFrom(items, 1, \E k \in DOMAIN items : Is(items[k], "MSIZE"))
=============================================================================

-------------------------- MODULE ConstantOptimiser --------------------------
(***************************************************************************)
(* What code costs, and the pass of the optimiser that counts it.          *)
(*                                                                         *)
(* GasMeter and PathGasMeter (libevmasm): an estimate of the gas a piece   *)
(* of code needs, from what KnownState knows about it.  An estimate is a   *)
(* number or infinite.                                                     *)
(*                                                                         *)
(* ConstantOptimisationMethod (libevmasm/ConstantOptimiser.cpp): a pushed  *)
(* constant is replaced by code that computes it or copies it from the     *)
(* data of the assembly, if that is cheaper over the life of the contract. *)
(* The limit of 10000 decompositions is not reached by words of few bits.  *)
(***************************************************************************)
EXTENDS KnownState

CONSTANT
  SstoreSetGas, SstoreResetGas, SloadGas, ExpByteGas, SelfdestructGas,   \* GasCosts
  CreateDataGas,
  QuadCoeffDiv   \* divisor of the quadratic part of memory costs (512 in the code)

ASSUME GasAssumption ==
  /\ {SstoreSetGas, SstoreResetGas, SloadGas, ExpByteGas, SelfdestructGas, CreateDataGas} \subseteq Nat
  /\ QuadCoeffDiv \in Nat \ {0}

\* The remaining costs do not decide between cases.
ExpGas == 10
Keccak256Gas == 30
Keccak256WordGas == 6
CopyGas == 3
MemoryGas == 3
JumpdestGas == 1
CallNewAccountGas == 25000
TxDataZeroGas == 4
TxDataNonZeroGas == 68

\* GasMeter::runGas, from the price tiers of c_instructionInfo
RunGas(i) ==
  CASE i = "JUMPDEST" -> JumpdestGas
    [] i \in {"STOP", "RETURN", "REVERT"} -> 0
    [] i \in {"CALLER", "POP", "MSIZE", "GAS"} -> 2
    [] i \in {"ADD", "SUB", "NOT", "LT", "GT", "SLT", "SGT", "EQ", "ISZERO", "AND", "OR", "XOR", "BYTE",
              "SHL", "SHR", "CALLDATALOAD", "MLOAD", "MSTORE", "MSTORE8", "CODECOPY", "PUSH1"}
             \cup Range(Dups) \cup Range(Swaps) -> 3
    [] i \in {"MUL", "DIV", "SDIV", "MOD", "SMOD", "SIGNEXTEND"} -> 5
    [] i \in {"ADDMOD", "MULMOD", "JUMP"} -> 8
    [] i = "JUMPI" -> 10
    [] OTHER -> 0

Infinite == [value |-> 0, isInfinite |-> TRUE]
Gas(n) == [value |-> n, isInfinite |-> FALSE]
\* GasConsumption::operator+= and operator<
Plus(a, b) == IF a.isInfinite \/ b.isInfinite THEN Infinite ELSE Gas(a.value + b.value)
Less(a, b) == \/ ~a.isInfinite /\ b.isInfinite
              \/ a.isInfinite = b.isInfinite /\ a.value < b.value

-----------------------------------------------------------------------------
\* A meter is a state and m_largestMemoryAccess; memory operations return gas too.
Words32(n) == ((n + WordBytes - 1) % WordSize) \div WordBytes

MemGas(pos) == LET size == Words32(pos) IN MemoryGas * size + (size * size) \div QuadCoeffDiv

\* memoryGas(_position)
MemoryAccess(m, position) ==
  IF ~IsConstant(m.k.c, position) THEN [m |-> m, gas |-> Infinite]
  ELSE LET value == Constant(m.k.c, position) IN
       IF value < m.largest THEN [m |-> m, gas |-> Gas(0)]
       ELSE [m |-> [m EXCEPT !.largest = value], gas |-> Gas(MemGas(value) - MemGas(m.largest))]

\* relativeStackElement
AtElement(m, e) == [m |-> [m EXCEPT !.k = e.k], id |-> e.id]
Relative(m, offset) == AtElement(m, StackElement(m.k, m.k.height + offset))

AccessTo(m, end) == MemoryAccess([m EXCEPT !.k.c = end.c], end.id)

\* The access ends n bytes behind the element at the offset.
AccessFrom(start, n) == AccessTo(start.m, AddTo(start.id, Find(start.m.k.c, Push(n), <<>>, 0)))
FixedAccess(m, offset, n) == AccessFrom(Relative(m, offset), n)

\* memoryGas(_stackPosOffset, _stackPosSize)
AccessBehind(o, size) == AccessTo(o.m, Find(o.m.k.c, Operation("ADD"), <<o.id, size>>, 0))
AccessOf(s, offset) ==
  IF KnownZero(s.m.k.c, s.id) THEN [m |-> s.m, gas |-> Gas(0)]
  ELSE AccessBehind(Relative(s.m, offset), s.id)
RangeAccess(m, offset, size) == AccessOf(Relative(m, size), offset)

WordGas(c, multiplier, id) ==
  IF IsConstant(c, id) THEN Gas(multiplier * Words32(Constant(c, id))) ELSE Infinite

\* Mutant: only a store of zero is cheap, or so it seems.
SstoreGasCheap(m) == [m |-> m, gas |-> Gas(SstoreResetGas)]

GasOver(m, nonZero) ==
  [m |-> [m EXCEPT !.k.c = nonZero.c], gas |-> Gas(IF nonZero.r THEN SstoreResetGas ELSE SstoreSetGas)]
GasOfStore(slot, value) ==
  LET k == value.m.k IN
  CASE KnownZero(k.c, value.id) -> [m |-> value.m, gas |-> Gas(SstoreResetGas)]
    [] slot \in DOMAIN k.storage /\ ~KnownZero(k.c, value.id) ->
         GasOver(value.m, KnownNonZero([c |-> k.c, id |-> k.storage[slot]]))
    [] OTHER -> [m |-> value.m, gas |-> Gas(SstoreSetGas)]
GasOfStoreTo(slot) == GasOfStore(slot.id, Relative(slot.m, -1))
SstoreGas(m) == GasOfStoreTo(Relative(m, 0))

More(r, gas) == [r EXCEPT !.gas = Plus(@, gas)]

KeccakGas(length) ==
  More(RangeAccess(length.m, 0, -1),
       Plus(Gas(Keccak256Gas), WordGas(length.m.k.c, Keccak256WordGas, length.id)))
CodecopyGas(length) ==
  More(RangeAccess(length.m, 0, -2),
       Plus(Gas(RunGas("CODECOPY")), WordGas(length.m.k.c, CopyGas, length.id)))
ExponentGas(exponent) ==
  [m |-> exponent.m,
   gas |-> Gas(ExpGas + ExpByteGas * (IF IsConstant(exponent.m.k.c, exponent.id)
                                        THEN BytesOf[Constant(exponent.m.k.c, exponent.id)]
                                        ELSE WordBytes))]

\* The gas of an operation before it is fed.
OperationGas(m, i) ==
  LET run == Gas(RunGas(i)) IN
  CASE i = "SSTORE" -> SstoreGas(m)
    [] i = "SLOAD"  -> [m |-> m, gas |-> Gas(SloadGas)]
    [] i \in {"RETURN", "REVERT"} -> More(RangeAccess(m, 0, -1), run)
    [] i \in {"MLOAD", "MSTORE"}  -> More(FixedAccess(m, 0, WordBytes), run)
    [] i = "MSTORE8"   -> More(FixedAccess(m, 0, 1), run)
    [] i = "KECCAK256" -> KeccakGas(Relative(m, -1))
    [] i = "CODECOPY"  -> CodecopyGas(Relative(m, -2))
    [] i = "SELFDESTRUCT" -> [m |-> m, gas |-> Gas(SelfdestructGas + CallNewAccountGas)]
    [] i = "EXP" -> ExponentGas(Relative(m, -1))
    [] OTHER -> [m |-> m, gas |-> run]

\* GasMeter::estimateMax
Estimated(r, item) == [m |-> [r.m EXCEPT !.k = FeedItem(@, item).k], gas |-> r.gas]
EstimateItem(m, item) ==
  Estimated(CASE item.type = "Operation" -> OperationGas(m, item.instruction)
              [] item.type = "Tag"       -> [m |-> m, gas |-> Gas(JumpdestGas)]
              [] OTHER                   -> [m |-> m, gas |-> Gas(RunGas("PUSH1"))], item)

-----------------------------------------------------------------------------
\* tagsInExpression: a tag of the assembly itself, as a union of one.
TagsInExpression(c, id) ==
  IF c.reps[id].item.type = "PushTag" THEN {c.reps[id].item} ELSE {}

(***************************************************************************)
(* PathGasMeter: a path is an index, the meter and the gas so far, and the *)
(* jump destinations on it; queue and highest map indices to paths and to  *)
(* the gas they were reached with.                                         *)
(***************************************************************************)
Enqueue(q, path) ==
  IF path.index \in DOMAIN q.highest /\ Less(path.gas, q.highest[path.index]) THEN q
  ELSE [queue |-> With(q.queue, path.index, path), highest |-> With(q.highest, path.index, path.gas)]

\* Where the item at path.index jumps to, and whether the path goes on behind it.
JumpTo(target, stops) ==
  LET tags == TagsInExpression(target.m.k.c, target.id) IN
  [m |-> target.m, tags |-> tags, stops |-> stops, unknown |-> tags = {}]
Stay(m, stops) == [m |-> m, tags |-> {}, stops |-> stops, unknown |-> FALSE]
JumpUnless(m, zero, nonZero) == IF zero THEN Stay(m, FALSE) ELSE JumpTo(Relative(m, 0), nonZero)
JumpAfter(condition, nonZero) ==
  JumpUnless([condition.m EXCEPT !.k.c = nonZero.c],
             ~nonZero.r /\ KnownZero(nonZero.c, condition.id), nonZero.r)
JumpIf(condition) == JumpAfter(condition, KnownNonZero([c |-> condition.m.k.c, id |-> condition.id]))

Branches(path, item) ==
  CASE Is(item, "JUMP")  -> JumpTo(Relative(path.m, 0), TRUE)
    [] Is(item, "JUMPI") -> JumpIf(Relative(path.m, -1))
    [] OTHER -> Stay(path.m, AltersControlFlow(item))

TagPosition(items, tag) ==
  LET at == {j \in DOMAIN items : items[j].type = "Tag" /\ PushTag(items[j].sub, items[j].data) = tag} IN
  IF at = {} THEN Len(items) + 1 ELSE CHOOSE j \in at : TRUE

RECURSIVE FollowPath(_, _, _)
\* The loop of handleQueueItem: the gas of the path and the queue with what branches off.
\* The path behind the item, with the paths that branch off already queued.
Proceed(items, on, b, q) ==
  IF b.stops THEN [gas |-> on.gas, q |-> q] ELSE FollowPath(items, [on EXCEPT !.index = @ + 1], q)
BranchOff(items, on, b, q) ==
  Proceed(items, on, b,
          FoldLeft(LAMBDA acc, tag : Enqueue(acc, [on EXCEPT !.index = TagPosition(items, tag)]),
                   q, SetToSeq(b.tags)))
\* The path with the item added.
Along(path, item, estimate) ==
  [path EXCEPT !.gas = Plus(@, estimate.gas), !.m = estimate.m,
               !.visited = IF item.type = "Tag" THEN @ \cup {path.index} ELSE @]
TakeBranches(items, path, item, b, q) ==
  IF b.unknown THEN [gas |-> Infinite, q |-> q]
  ELSE BranchOff(items, Along(path, item, EstimateItem(b.m, item)), b, q)

FollowPath(items, path, q) ==
  IF path.index > Len(items) \/ path.gas.isInfinite THEN [gas |-> path.gas, q |-> q]
  ELSE IF items[path.index].type = "Tag" /\ path.index \in path.visited THEN [gas |-> Infinite, q |-> q]
  ELSE TakeBranches(items, path, items[path.index], Branches(path, items[path.index]), q)

RECURSIVE HandleQueue(_, _, _)
Higher(a, b) == IF Less(a, b) THEN b ELSE a
HandleRest(items, r, gas) == HandleQueue(items, r.q, Higher(gas, r.gas))
HandleQueue(items, q, gas) ==
  IF DOMAIN q.queue = {} \/ gas.isInfinite THEN gas
  ELSE LET index == Max(DOMAIN q.queue)
           left == [q EXCEPT !.queue = Without(@, {index})]
           misplaced == index > Len(items) \/ (index > 1 /\ items[index].type # "Tag") IN
       HandleRest(items, IF misplaced THEN [gas |-> q.queue[index].gas, q |-> left]
                         ELSE FollowPath(items, q.queue[index], left), gas)

\* PathGasMeter::estimateMax, from the first item in an unknown state.
EstimateMax(items) ==
  LET start == [index |-> 1, m |-> [k |-> EmptyState, largest |-> 0], gas |-> Gas(0), visited |-> {}] IN
  HandleQueue(items, Enqueue([queue |-> Nothing, highest |-> Nothing], start), Gas(0))

-----------------------------------------------------------------------------
(***************************************************************************)
(* ConstantOptimisationMethod.                                             *)
(***************************************************************************)
\* Params: isCreation, runs, multiplicity.
CombineGas(p, runGas, repeatedDataGas, uniqueDataGas) ==
  p.runs * runGas + p.multiplicity * repeatedDataGas + uniqueDataGas

ByteGas(p) == IF p.isCreation THEN TxDataNonZeroGas ELSE CreateDataGas

SumGas(Cost(_), s) == FoldLeft(LAMBDA sum, x : sum + Cost(x), 0, s)

SimpleRunGas(items) ==
  SumGas(LAMBDA item : CASE item.type = "Push" -> RunGas("PUSH1")
                         [] Is(item, "EXP") -> ExpGas
                         [] item.type = "Operation" -> RunGas(item.instruction)
                         [] OTHER -> 0, items)

\* toCompactBigEndian(value, 1)
CompactBytes(value) == SubSeq(BytesOfWord(value), WordBytes + 1 - Max({1, BytesOf[value]}), WordBytes)

DataGas(p, value, data) ==
  IF p.isCreation THEN SumGas(LAMBDA b : IF b = 0 THEN TxDataZeroGas ELSE TxDataNonZeroGas, data)
  ELSE CreateDataGas * Max({1, BytesOf[value]})

LiteralGas(p, value) ==
  CombineGas(p, RunGas("PUSH1"), ByteGas(p) + DataGas(p, value, CompactBytes(value)), 0)

-----------------------------------------------------------------------------
\* CodeCopyMethod::copyRoutine; PushData stands for the data it names.
CopyRoutine(value) ==
  <<Push(0), Operation("DUP1"), Operation("MLOAD"), Push(WordBytes), PushOther("PushData", value),
    Operation("DUP4"), Operation("CODECOPY"), Operation("DUP2"), Operation("MLOAD"),
    Operation("SWAP2"), Operation("MSTORE")>>

CopyMethodGas(p, value) ==
  CombineGas(p, SimpleRunGas(CopyRoutine(value)) + CopyGas,
             BytesRequired(CopyRoutine(value), 3) * ByteGas(p),
             DataGas(p, value, BytesOfWord(value)))

-----------------------------------------------------------------------------
RoutineGas(p, routine) ==
  CombineGas(p, SimpleRunGas(routine)
                + Cardinality({k \in DOMAIN routine : Is(routine[k], "EXP")}) * (ExpGas + ExpByteGas),
             BytesRequired(routine, 3) * ByteGas(p), 0)

Absolute(n) == IF n < 0 THEN -n ELSE n

\* value as upper * 2^bits + lower with lower as small as possible.
Decompose(value, bits) ==
  LET power == 2 ^ bits
      lower == value % power IN
  IF power - lower < lower THEN [upper |-> value \div power + 1, lower |-> lower - power]
  ELSE [upper |-> value \div power, lower |-> lower]

\* The bit positions where decomposing value is worth trying, the highest first.
Gaps(value) ==
  LET IsGap(bits) ==
        LET detector == (value \div 2 ^ (bits - ByteBits)) % (2 * ByteBase)
            d == Decompose(value, bits) IN
        /\ detector \in {ByteBase - 1, ByteBase}
        /\ d.upper # 0 /\ Absolute(d.lower) < 2 ^ bits \div ByteBase IN
  SetToSortSeq({bits \in ByteBits + 1 .. WordBits - 1 : IsGap(bits)}, >)

\* The routine for a decomposition, from the routines of its parts.
Combined(d, lower, upper, bits) ==
  lower \o <<Push(bits), Push(2), Operation("EXP")>>
  \o (IF d.upper # 1 THEN upper \o <<Operation("MUL")>> ELSE <<>>)
  \o (CASE d.lower > 0 -> <<Operation("ADD")>> [] d.lower < 0 -> <<Operation("SUB")>> [] OTHER -> <<>>)

RECURSIVE FindRepresentation(_, _)
\* ComputeMethod::findRepresentation
FindRepresentation(p, value) ==
  LET negated == AllOnes - value
      Try(best, bits) ==
        LET d == Decompose(value, bits)
            lower == IF d.lower # 0 THEN FindRepresentation(p, Absolute(d.lower)) ELSE <<>>
            upper == IF d.upper # 1 THEN FindRepresentation(p, d.upper % WordSize) ELSE <<>>
            routine == Combined(d, lower, upper, bits) IN
        IF RoutineGas(p, routine) < RoutineGas(p, best) THEN routine ELSE best IN
  CASE value < ByteBase ^ 2 -> <<Push(value)>>
    [] value >= ByteBase ^ 2 /\ BytesOf[negated] < BytesOf[value] ->
         Append(FindRepresentation(p, negated), Operation("NOT"))
    [] OTHER -> FoldLeft(Try, <<Push(value)>>, Gaps(value))

\* checkRepresentation: a tiny EVM; the last element of the stack is its top.
CheckRepresentation(value, routine) ==
  LET Step(stack, item) ==
        LET n == Len(stack)
            i == item.instruction
            a == stack[n]
            b == stack[n - 1] IN
        CASE item.type = "Push" -> Append(stack, item.data)
          [] i = "NOT" -> [stack EXCEPT ![n] = AllOnes - a]
          [] i = "EXP" -> Append(SubSeq(stack, 1, n - 2), PowerMod(a, b))
          [] OTHER -> Append(SubSeq(stack, 1, n - 2), FoldConstants(i, <<a, b>>)) IN
  FoldLeft(Step, <<>>, routine) = <<value>>

-----------------------------------------------------------------------------
\* What replaces the constant, or nothing; failed: the assertion in ComputeMethod.
Cheapest(value, routine, literalGas, copyGas, computeGas) ==
  [failed |-> ~CheckRepresentation(value, routine),
   items |-> CASE copyGas < literalGas /\ copyGas < computeGas -> CopyRoutine(value)
               [] computeGas < literalGas /\ computeGas <= copyGas -> routine
               [] OTHER -> <<>>]
Replacement(p, value, routine) ==
  Cheapest(value, routine, LiteralGas(p, value), CopyMethodGas(p, value), RoutineGas(p, routine))

\* optimiseConstants; new holds the replacements.
ReplaceConstants(items, new) ==
  LET Out(item) == IF item.type = "Push" /\ item.data \in DOMAIN new /\ new[item.data].items # <<>>
                     THEN new[item.data].items ELSE <<item>> IN
  [failed |-> \E v \in DOMAIN new : new[v].failed,
   items |-> FoldLeft(LAMBDA out, item : out \o Out(item), <<>>, items)]

OptimiseConstants(items, isCreation, runs) ==
  LET Count(v) == Cardinality({k \in DOMAIN items : items[k] = Push(v)})
      Params(v) == [isCreation |-> isCreation, runs |-> runs, multiplicity |-> Count(v)]
      values == {items[k].data : k \in {j \in DOMAIN items : items[j].type = "Push"}} IN
  ReplaceConstants(items, [v \in {w \in values : w >= ByteBase} |->
                             Replacement(Params(v), v, FindRepresentation(Params(v), v))])
=============================================================================

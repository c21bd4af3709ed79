----------------------------- MODULE KnownState -----------------------------
(***************************************************************************)
(* What the optimiser knows at a point of the program: equivalence classes *)
(* of expressions (libevmasm/ExpressionClasses.cpp) and the classes of the *)
(* stack, of storage and of memory (libevmasm/KnownState.cpp).             *)
(*                                                                         *)
(* A class is a number; reps[id] is its representative, an expression      *)
(* [item, args, seq]; known maps expressions to classes.  Every operation  *)
(* that may create classes returns the new classes or state together with  *)
(* its result; what is then done with both is an operator of its own.      *)
(***************************************************************************)
EXTENDS SimplificationRules

Undefined(n) == Item("Undefined", "none", NoSub, n)

NoClasses == [reps |-> <<>>, known |-> [e \in {} |-> 0], rules |-> Rules]

\* No class: Id(-1).
NoId == 0

RECURSIVE Find(_, _, _, _), RebuildExpression(_, _, _)

\* tryToSimplify: the class of what the first matching rule makes of exp.
Rewritten(c, match) ==
  IF match = NoRule THEN [c |-> c, id |-> NoId]
  ELSE RebuildExpression(c, match.result, match.groups)

TryToSimplify(c, exp) ==
  IF exp.item.type # "Operation" \/ ~IsDeterministic(exp.item) THEN [c |-> c, id |-> NoId]
  ELSE Rewritten(c, FindFirstMatch(c.rules[exp.item.instruction], exp, c.reps))

Constant(c, id) == c.reps[id].item.data

\* The constant a Fold of a rule stands for.
FoldedValue(c, template, groups) ==
  FoldConstants(template.i,
    [k \in DOMAIN template.args |->
       IF template.args[k].p = "number" THEN template.args[k].n
       ELSE Constant(c, groups[template.args[k].g])])

\* One more argument of an expression that is being built: its class joins acc.ids.
Joined(acc, r) == [c |-> r.c, ids |-> Append(acc.ids, r.id)]
RebuildArguments(c, templates, groups) ==
  FoldLeft(LAMBDA acc, t : Joined(acc, RebuildExpression(acc.c, t, groups)), [c |-> c, ids |-> <<>>], templates)
FindOperation(i, built) == Find(built.c, Operation(i), built.ids, 0)

RebuildExpression(c, template, groups) ==
  CASE template.p \in {"any", "constant"} -> [c |-> c, id |-> groups[template.g]]
    [] template.p = "number" -> Find(c, Push(template.n), <<>>, 0)
    [] template.p = "fold"   -> Find(c, Push(FoldedValue(c, template, groups)), <<>>, 0)
    [] template.p = "operation" -> FindOperation(template.i, RebuildArguments(c, template.args, groups))

\* The arguments of a commutative operation are sorted.
Ordered(item, args) ==
  IF IsCommutativeOperation(item) /\ args[1] > args[2] THEN <<args[2], args[1]>> ELSE args

\* exp gets the class of its simplification, or a new one.
Entered(exp, simple) ==
  LET isNew == simple.id = NoId
      id == IF isNew THEN Len(simple.c.reps) + 1 ELSE simple.id IN
  [id |-> id,
   c |-> [simple.c EXCEPT !.reps = IF isNew THEN Append(@, exp) ELSE @, !.known = @ @@ (exp :> id)]]

\* ExpressionClasses::find
FindExpression(c, exp) ==
  IF IsDeterministic(exp.item) /\ exp \in DOMAIN c.known THEN [c |-> c, id |-> c.known[exp]]
  ELSE Entered(exp, TryToSimplify(c, exp))
Find(c, item, args, seq) ==
  FindExpression(c, [item |-> item, args |-> Ordered(item, args), seq |-> seq])

NewClass(c) ==
  LET id == Len(c.reps) + 1
      exp == [item |-> Undefined(WordSize + id), args |-> <<>>, seq |-> 0] IN
  [c |-> [c EXCEPT !.reps = Append(@, exp), !.known = @ @@ (exp :> id)], id |-> id]

IsConstant(c, id) == c.reps[id].item.type = "Push"
KnownZero(c, id)  == IsConstant(c, id) /\ Constant(c, id) = 0

\* The questions below create classes too; r is the answer.
IsZero(f) == [c |-> f.c, r |-> KnownZero(f.c, f.id)]
KnownNonZero(f) == IsZero(Find(f.c, Operation("ISZERO"), <<f.id>>, 0))

KnownToBeDifferent(c, a, b) == KnownNonZero(Find(c, Operation("SUB"), <<a, b>>, 0))

\* knownToBeDifferentBy32: 32 is the number of bytes of a word.
IsBeyondWord(f) ==
  LET reach == WordBytes - 1 IN
  [c |-> f.c,
   r |-> IsConstant(f.c, f.id) /\ (Constant(f.c, f.id) + reach) % WordSize > 2 * reach]
KnownToBeDifferentByWord(c, a, b) == IsBeyondWord(Find(c, Operation("SUB"), <<a, b>>, 0))

-----------------------------------------------------------------------------
(***************************************************************************)
(* m_stackHeight, m_stackElements, m_storageContent, m_memoryContent,      *)
(* m_sequenceNumber, m_knownKeccak256Hashes, m_tagUnions.                  *)
(***************************************************************************)
Nothing == [x \in {} |-> 0]

EmptyState ==
  [c |-> NoClasses, height |-> 0, stack |-> Nothing, storage |-> Nothing, memory |-> Nothing,
   seq |-> 1, hashes |-> Nothing, unions |-> Nothing]

\* StoreOperation; target "Invalid" is the default.
NoStore == [target |-> "Invalid", slot |-> NoId, seq |-> 0, id |-> NoId]

Without(f, xs) == [x \in DOMAIN f \ xs |-> f[x]]
With(f, x, v)  == (x :> v) @@ f

\* stackElement(): an element below what is known gets a class of its own.
OnStack(k, h, f) == [k |-> [k EXCEPT !.c = f.c, !.stack = With(@, h, f.id)], id |-> f.id]
StackElement(k, h) ==
  IF h \in DOMAIN k.stack THEN [k |-> k, id |-> k.stack[h]]
  ELSE OnStack(k, h, Find(k.c, Undefined(h), <<>>, 0))

SetStackElement(k, h, id) == [k EXCEPT !.stack = With(@, h, id)]

\* Both elements are on the stack.
Exchanged(k, a, b) == [k EXCEPT !.stack = With(With(@, a, k.stack[b]), b, k.stack[a])]
SwapStackElements(k, a, b) == Exchanged(StackElement(StackElement(k, a).k, b).k, a, b)

\* One more element taken: its class joins acc.ids.
Taken(acc, e) == [k |-> e.k, ids |-> Append(acc.ids, e.id)]
\* The n topmost elements, the topmost first.
Arguments(k, n) ==
  FoldLeft(LAMBDA acc, j : Taken(acc, StackElement(acc.k, k.height - (j - 1))),
           [k |-> k, ids |-> <<>>], [j \in 1 .. n |-> j])

\* The slot is kept if it is known to differ (d) or has to be.
Kept(acc, slot, d, keep) ==
  [c |-> d.c, kept |-> IF d.r \/ keep THEN acc.kept \cup {slot} ELSE acc.kept]
\* The slots of contents that Differ(c, slot, other) or Keep; the classes grow on the way.
Retained(c, contents, other, Differ(_, _, _), Keep(_)) ==
  FoldLeft(LAMBDA acc, slot : Kept(acc, slot, Differ(acc.c, slot, other), Keep(slot)),
           [c |-> c, kept |-> {}],
           SetToSortSeq(DOMAIN contents, <))

\* The store f = find(item, slot, value) was made in the state k.
Performed(k, target, slot, f) ==
  [k |-> [k EXCEPT !.c = f.c, !.seq = @ + 2],
   op |-> [target |-> target, slot |-> slot, seq |-> k.seq + 1, id |-> f.id]]

\* Mutant: what is known about other slots survives every store.
ForgottenSlots(k, slot, value, left) == [k EXCEPT !.storage = With(@, slot, value)]

\* What is left of storage and of memory once slot holds value.
StorageLeft(k, slot, value, left) ==
  [k EXCEPT !.c = left.c, !.storage = With([s \in left.kept |-> @[s]], slot, value)]
MemoryLeft(k, slot, value, left) ==
  [k EXCEPT !.c = left.c, !.memory = With([s \in left.kept |-> @[s]], slot, value)]

StoreAt(k, target, i, slot, value) ==
  Performed(k, target, slot, Find(k.c, Operation(i), <<slot, value>>, k.seq + 1))

StoreInStorage(k, slot, value) ==
  IF slot \in DOMAIN k.storage /\ k.storage[slot] = value THEN [k |-> k, op |-> NoStore]
  ELSE StoreAt(StorageLeft(k, slot, value,
                           Retained(k.c, k.storage, slot, KnownToBeDifferent, LAMBDA s : k.storage[s] = value)),
               "Storage", "SSTORE", slot, value)

StoreInMemory(k, slot, value) ==
  IF slot \in DOMAIN k.memory /\ k.memory[slot] = value THEN [k |-> k, op |-> NoStore]
  ELSE StoreAt(MemoryLeft(k, slot, value,
                          Retained(k.c, k.memory, slot, KnownToBeDifferentByWord, LAMBDA s : FALSE)),
               "Memory", "MSTORE", slot, value)

InStorage(k, slot, f) == [k |-> [k EXCEPT !.c = f.c, !.storage = With(@, slot, f.id)], id |-> f.id]
LoadFromStorage(k, slot) ==
  IF slot \in DOMAIN k.storage THEN [k |-> k, id |-> k.storage[slot]]
  ELSE InStorage(k, slot, Find(k.c, Operation("SLOAD"), <<slot>>, k.seq))

InMemory(k, slot, f) == [k |-> [k EXCEPT !.c = f.c, !.memory = With(@, slot, f.id)], id |-> f.id]
LoadFromMemory(k, slot) ==
  IF slot \in DOMAIN k.memory THEN [k |-> k, id |-> k.memory[slot]]
  ELSE InMemory(k, slot, Find(k.c, Operation("MLOAD"), <<slot>>, k.seq))

-----------------------------------------------------------------------------
\* The bytes of a word, the most significant first.
BytesOfWord(w) == [j \in 1 .. WordBytes |-> (w \div ByteBase ^ (WordBytes - j)) % ByteBase]

\* dev::keccak256: any function of the bytes will do.
Keccak256(bytes) ==
  FoldLeft(LAMBDA h, b : (h * 5 + b + 3) % WordSize, 7, bytes)

\* The classes of the words from start to start + length.
AddTo(start, offset) == Find(offset.c, Operation("ADD"), <<start, offset.id>>, 0)
LoadAt(k, slot) == LoadFromMemory([k EXCEPT !.c = slot.c], slot.id)
WordsOfMemory(k, start, length) ==
  FoldLeft(LAMBDA acc, j : Taken(acc, LoadAt(acc.k, AddTo(start, Find(acc.k.c, Push((j - 1) * WordBytes), <<>>, 0)))),
           [k |-> k, ids |-> <<>>], [j \in 1 .. (length + WordBytes - 1) \div WordBytes |-> j])

ResultOf(k, f) == [k |-> [k EXCEPT !.c = f.c], id |-> f.id]
HashOf(k, start, length) == Find(k.c, Operation("KECCAK256"), <<start, length>>, k.seq)

\* The hash of words that are all constants is computed.
HashOfWords(words, start, length) ==
  LET c == words.k.c
      data == FoldLeft(LAMBDA bytes, id : bytes \o BytesOfWord(Constant(c, id)), <<>>, words.ids) IN
  IF \A j \in DOMAIN words.ids : IsConstant(c, words.ids[j])
    THEN Find(c, Push(Keccak256(SubSeq(data, 1, Constant(c, length)))), <<>>, 0)
    ELSE HashOf(words.k, start, length)
Hashed(words, f) ==
  [k |-> [words.k EXCEPT !.c = f.c, !.hashes = With(@, words.ids, f.id)], id |-> f.id]

\* applyKeccak256: hashes are remembered by the words they were made of.
HashWords(words, start, length) ==
  IF words.ids \in DOMAIN words.k.hashes
    THEN [k |-> words.k, id |-> words.k.hashes[words.ids]]
    ELSE Hashed(words, HashOfWords(words, start, length))
ApplyKeccak256(k, start, length) ==
  IF ~IsConstant(k.c, length) \/ Constant(k.c, length) > 4 * WordBytes
    THEN ResultOf(k, HashOf(k, start, length))
    ELSE HashWords(WordsOfMemory(k, start, Constant(k.c, length)), start, length)

-----------------------------------------------------------------------------
\* The stack, the memory or the storage that item invalidates is forgotten.
Reset(k, i) ==
  [k EXCEPT !.memory = IF InvalidatesMemory(i) THEN Nothing ELSE @,
            !.storage = IF InvalidatesStorage(i) THEN Nothing ELSE @,
            !.seq = IF InvalidatesMemory(i) \/ InvalidatesStorage(i) THEN @ + 2 ELSE @]

\* The result r of an item becomes the element at the height.
Result(r, height) == [k |-> SetStackElement(r.k, height, r.id), op |-> NoStore]

\* What the item loads or computes from the classes args.
Value(k, item, args) ==
  CASE item.instruction = "SLOAD"     -> LoadFromStorage(k, args[1])
    [] item.instruction = "MLOAD"     -> LoadFromMemory(k, args[1])
    [] item.instruction = "KECCAK256" -> ApplyKeccak256(k, args[1], args[2])
    [] OTHER -> ResultOf(Reset(k, item.instruction), Find(k.c, item, args, 0))

\* The item takes the classes a.ids off the stack.
FeedOperation(a, item) ==
  CASE Is(item, "SSTORE") -> StoreInStorage(a.k, a.ids[1], a.ids[2])
    [] Is(item, "MSTORE") -> StoreInMemory(a.k, a.ids[1], a.ids[2])
    [] InstructionInfo[item.instruction].ret = 1 ->
         Result(Value(a.k, item, a.ids), a.k.height + Deposit(item))
    [] OTHER -> [k |-> Reset(a.k, item.instruction), op |-> NoStore]

\* KnownState::feedItem
Applied(k, item) ==
  LET i == item.instruction
      height == k.height + Deposit(item) IN
  CASE item.type # "Operation" -> Result(ResultOf(k, Find(k.c, item, <<>>, 0)), height)
    [] IsDupInstruction(item)  -> Result(StackElement(k, k.height + 1 - IndexOf(Dups, i)), height)
    [] IsSwapInstruction(item) ->
         [k |-> SwapStackElements(k, k.height, k.height - IndexOf(Swaps, i)), op |-> NoStore]
    [] i = "POP" -> [k |-> k, op |-> NoStore]
    [] OTHER     -> FeedOperation(Arguments(k, InstructionInfo[i].args), item)

\* What is above the new height is forgotten.
Cut(r, height) == [r EXCEPT !.k.height = height, !.k.stack = Without(@, {h \in DOMAIN @ : h > height})]

FeedItem(k, item) ==
  IF item.type = "Tag" THEN [k |-> k, op |-> NoStore]
  ELSE Cut(Applied(k, item), k.height + Deposit(item))
=============================================================================

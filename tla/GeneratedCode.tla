---------------------------- MODULE GeneratedCode ----------------------------
(****************************************************************************)
(* Code the generator appends for one operation of a program, linked and    *)
(* run on the machine of StackCode, and compared with what the operation    *)
(* means.                                                                   *)
(*                                                                          *)
(* An experiment fixes an operation and the types involved, and lists the   *)
(* inputs the code is run on.  The stack below the operands holds two       *)
(* markers that have to survive.                                            *)
(****************************************************************************)
EXTENDS LValue

CONSTANT Experiments       \* the sequence of experiments

------------------------------------------------------------------------------
(* What values of the language are, and how each is represented on the      *)
(* stack, in storage and in memory: the reference the generated code is     *)
(* compared with.  A number, a boolean or an enum is an integer; bytesN is  *)
(* the integer its bytes spell; an array or a struct is a sequence.         *)

Modulus(t) == 2^(ByteBits * StorageBytes(t))
StackWord(t, v) ==
    IF t.cat = "FixedBytes" THEN v * 2^(WordBits - ByteBits * t.bytes) ELSE v % WordSize
\* The values of a value type.
Values(t) ==
    CASE t.cat = "Integer" -> MinValue(t)..MaxValue(t)
      [] t.cat = "FixedBytes" -> 0..(2^(ByteBits * t.bytes) - 1)
      [] t.cat = "Bool" -> 0..1
      [] t.cat = "Enum" -> 0..(EnumMembers[t.enum] - 1)
      [] t.cat = "Contract" -> 0..(2^(ByteBits * AddressBytes) - 1)
\* The value a word stands for when only the bits of the type count.
Meaning(t, w) ==
    LET m == Modulus(t)
    IN  CASE t.cat = "FixedBytes" -> w \div 2^(WordBits - ByteBits * t.bytes)
          [] t.cat = "Integer" /\ IsSigned(t) -> IF w % m >= m \div 2 THEN (w % m) - m ELSE w % m
          [] t.cat = "Bool" -> Flag(w # 0)
          [] OTHER -> w % m
\* A value taken to another type: the low bits of a number, the left bytes of bytesN.
Converted(a, b, v) ==
    LET bits == ByteBits * (IF b.cat = "Contract" THEN AddressBytes ELSE b.bytes)
        Wrapped == IF b.cat = "Integer" /\ IsSigned(b) /\ v % 2^bits >= 2^(bits - 1)
                   THEN (v % 2^bits) - 2^bits ELSE v % 2^bits
    IN  CASE a.cat = "FixedBytes" /\ b.cat = "FixedBytes" ->
               IF b.bytes >= a.bytes THEN v * 2^(ByteBits * (b.bytes - a.bytes))
               ELSE v \div 2^(ByteBits * (a.bytes - b.bytes))
          [] b.cat \in {"Integer", "FixedBytes", "Contract"} -> Wrapped
          [] OTHER -> v

------------------------------------------------------------------------------
(* Storage.                                                                 *)

DataSlot(slot) == (WordSize \div 4 + slot * 37) % WordSize
AddAt(sto, slot, w) == StoreSlot(sto, slot, Read(sto, slot) + w)
\* the slot and byte offset of element i (from 0) of an array whose data starts at d
ElementPlace(base, d, i) ==
    LET n == StorageBytes(base)
    IN  IF n < WordBytes THEN <<d + (i \div (WordBytes \div n)), (i % (WordBytes \div n)) * n>>
        ELSE <<d + i * StorageSize(base), 0>>
\* the word whose bytes are v[from + 1], v[from + 2], ... from the left
PackedBytes(v, from) ==
    SumOf([j \in 1..WordBytes |->
        IF from + j <= Len(v) THEN v[from + j] * 2^(ByteBits * (WordBytes - j)) ELSE 0])
RECURSIVE PutStorage(_, _, _, _, _)
\* A value laid out in empty storage.
PutStorage(sto, t, v, slot, off) ==
    LET Elements(d) ==
            Accumulate(LAMBDA s, i : LET p == ElementPlace(t.base, d, i - 1)
                                   IN  PutStorage(s, t.base, v[i], p[1], p[2]),
                     sto, [i \in DOMAIN v |-> i])
        Bytes ==
            IF Len(v) < WordBytes THEN AddAt(sto, slot, PackedBytes(v, 0) + 2 * Len(v))
            ELSE Accumulate(LAMBDA s, k : AddAt(s, DataSlot(slot) + k - 1, PackedBytes(v, (k - 1) * WordBytes)),
                          AddAt(sto, slot, 2 * Len(v) + 1),
                          [k \in 1..((Len(v) + WordBytes - 1) \div WordBytes) |-> k])
        Members ==
            LET places == ComputeOffsets(MemberTypes(t.struct)).places
            IN  Accumulate(LAMBDA s, i : IF MemberTypes(t.struct)[i].cat = "Mapping" THEN s
                                       ELSE PutStorage(s, MemberTypes(t.struct)[i], v[i],
                                                       slot + places[i][1], places[i][2]),
                         sto, [i \in DOMAIN v |-> i])
    IN  CASE IsByteArray(t) -> Bytes
          [] t.cat = "Array" /\ ~IsByteArray(t) ->
               IF t.dyn
               THEN LET s == Elements(DataSlot(slot)) IN AddAt(s, slot, Len(v))
               ELSE Elements(slot)
          [] t.cat = "Struct" -> Members
          [] OTHER -> AddAt(sto, slot, (v % Modulus(t)) * 2^(ByteBits * off))

------------------------------------------------------------------------------
(* Memory.                                                                  *)

RECURSIVE ReadMemory(_, _, _)
\* The value the reference or word p stands for.
ReadMemory(t, m, p) ==
    LET At(base, q) == IF IsRef(base) THEN ReadMemory(base, m, WordAt(m, q))
                       ELSE Meaning(base, WordAt(m, q))
        len == IF t.dyn THEN WordAt(m, p) ELSE t.len
        data == IF t.dyn THEN p + WordBytes ELSE p
        members == MemoryMemberTypes(t.struct)
    IN  CASE IsByteArray(t) -> [i \in 1..len |-> Read(m, data + i - 1)]
          [] t.cat = "Array" /\ ~IsByteArray(t) ->
               [i \in 1..len |-> At(t.base, data + (i - 1) * WordBytes)]
          [] t.cat = "Struct" ->
               [i \in DOMAIN members |->
                   At(CopyForLocationIfReference(members[i], "Memory"), p + (i - 1) * WordBytes)]
          [] OTHER -> Meaning(t, p)

FreePointer(m) == WordAt(m, freeMemoryPointer)
WithFreePointer(m, p) == StoreWord(m, freeMemoryPointer, p)
FreshMemory == WithFreePointer(<<>>, generalPurposeMemoryStart)
\* An array of value type, or a struct of them, in memory at the free pointer.
PutInMemory(m, t, v) ==
    LET p == FreePointer(m)
        data == IF IsDynamicallySized(t) THEN p + WordBytes ELSE p
        size == IF IsByteArray(t) THEN PadToWord(Len(v)) ELSE Len(v) * WordBytes
        head == IF IsDynamicallySized(t) THEN StoreWord(m, p, Len(v)) ELSE m
        Type(i) == IF t.cat = "Array" THEN t.base ELSE MemberTypes(t.struct)[i]
        Store(mm, i) == IF IsByteArray(t) THEN StoreSlot(mm, data + i - 1, v[i])
                        ELSE StoreWord(mm, data + (i - 1) * WordBytes, StackWord(Type(i), v[i]))
    IN  WithFreePointer(Accumulate(Store, head, [i \in DOMAIN v |-> i]), data + size)

------------------------------------------------------------------------------
(* Linking: the routines are put in where they are called, and the jumps of *)
(* each pattern become relative.                                            *)

RoutineCode(name, args) ==
    CASE name = "retrieveLength" -> RetrieveLength(args[1], args[2])
      [] name = "convertLengthToSize" -> ConvertLengthToSize(args[1], args[2])
      [] name = "copyArrayToMemory" -> CopyArrayToMemory(args[1], args[2])
      [] name = "accessIndex" -> AccessIndex(args[1], args[2])
      [] name = "retrieveStorageItem" -> RetrieveStorageItem(args[1], args[2])
      [] name = "storeStorageItem" -> StoreStorageItem(args[1], args[2], args[3])
      [] name = "zeroStorageItem" -> ZeroStorageItem(args[1], args[2])
      [] name = "retrieveMemoryItem" -> RetrieveMemoryItem(args[1], args[2], args[3])
      [] name = "storeMemoryItem" -> StoreMemoryItem(args[1], args[2], args[3], args[4])
      [] name = "convertType" -> ConvertTypeFull(args[1], args[2], args[3], args[4], args[5])
      [] name = "storeInMemoryDynamic" -> StoreInMemoryDynamic(args[1], args[2])
      [] name = "loadFromMemoryDynamic" -> LoadFromMemoryDynamic(args[1], args[2], args[3], args[4])
      [] name = "pushZeroValue" -> PushZeroValue(args[1])
      [] name = "encodeToMemory" -> EncodeToMemory(args[1], args[2], args[3], args[4], args[5])
      [] name = "abiDecode" -> AbiDecode(args[1], args[2], args[3])
      [] name = "copyArrayToStorage" -> CopyArrayToStorage(args[1], args[2])
      [] name = "clearArray" -> ClearArray(args[1])
      [] name = "clearDynamicArray" -> ClearDynamicArray(args[1])
      [] name = "resizeDynamicArray" -> ResizeDynamicArray(args[1])

Tag == <<<<"TAG", "">>>>
\* The labels of a scope; those of the scopes inside are resolved already.
Resolve(flat) ==
    LET Place(name) == CHOOSE j \in DOMAIN flat : flat[j][1] = "TAG" /\ flat[j][2] = name
        One(i) == CASE flat[i][1] = "GOTO" -> <<"JUMP", Place(flat[i][2]) - i>>
                    [] flat[i][1] = "GOTOIF" -> <<"JUMPI", Place(flat[i][2]) - i>>
                    [] flat[i][1] = "TAG" -> <<"TAG", "">>
                    [] OTHER -> flat[i]
    IN  <<>> \o [i \in DOMAIN flat |-> One(i)]
Balance(code) == LET heights == Heights(code, 0) IN heights[Len(heights)]

RECURSIVE Link(_)
LinkNode(node) ==
    CASE node[1] = "SkipIf" ->
           LET body == Link(node[2]) IN N("JUMPI", Len(body) + 1) \o body \o Tag
      [] node[1] = "IfElse" ->
           LET skipped == Link(node[2])
               body == Link(node[3])
           IN  N("JUMPI", Len(skipped) + 2) \o skipped \o N("JUMP", Len(body) + 2) \o Tag \o body \o Tag
      [] node[1] = "Loop" ->
           LET test == Link(node[2])
               body == Link(node[3])
           IN  Tag \o test \o N("JUMPI", Len(body) + 2) \o body
               \o N("JUMP", -(Len(test) + Len(body) + 2)) \o Tag
      [] node[1] = "RepeatWhile" ->
           LET body == Link(node[2]) IN Tag \o body \o N("JUMPI", -(Len(body) + 1))
      [] node[1] = "Scope" -> Resolve(Link(node[2]))
      [] node[1] = "LowLevel" ->
           LET enter == MoveIntoStack(node[2], 1)
               body == Resolve(Link(node[4])) \o MoveToStackTop(node[3], 1)
           IN  N("PUSHTAG", Len(enter) + Len(body) + 2) \o enter \o body \o I("JUMPDYN") \o Tag
               \o Ensure(Balance(body) = node[3] - node[2])
      [] node[1] = "Routine" -> Link(RoutineCode(node[2], node[3]))
      [] OTHER -> <<node>>
Link(code) == All([i \in DOMAIN code |-> LinkNode(code[i])])

------------------------------------------------------------------------------
(* The experiments.                                                         *)

Markers == <<-1, -2>>
SourceSlot == 8
StorageWith(t, v) == PutStorage(<<>>, t, v, 1, 0)
Calldata(v) == CopyIn(<<>>, 0, Len(v) * WordBytes, LAMBDA a : ByteOf(v[(a \div WordBytes) + 1], a % WordBytes))
CalldataArray(t, v) ==
    IF IsByteArray(t) THEN CopyIn(<<>>, 0, Len(v), LAMBDA a : v[a + 1])
    ELSE Calldata([i \in DOMAIN v |-> StackWord(t.base, v[i])])
Elementwise(a, b, v) == [i \in DOMAIN v |-> Converted(a, b, v[i])]
\* the array v as the value of a longer or shorter array type
Extended(t, v) == IF t.dyn THEN v ELSE [i \in 1..t.len |-> IF i <= Len(v) THEN v[i] ELSE 0]

\* The code of an experiment, before it is linked.
CodeOf(e) ==
    CASE e.op = "convert" -> ConvertType(e.from, e.to, TRUE)
      [] e.op = "assign" ->
           ConvertType(e.from, e.to, TRUE) \o K(1) \o K(e.offset) \o Routine("storeStorageItem", <<e.to, e.to, TRUE>>)
           \o K(1) \o K(e.offset) \o Routine("retrieveStorageItem", <<e.to, TRUE>>)
      [] e.op = "zeroItem" -> K(1) \o K(e.offset) \o Routine("zeroStorageItem", <<e.to, TRUE>>)
      [] e.op = "copy" -> K(1) \o K(0) \o Routine("storeStorageItem", <<e.to, e.from, TRUE>>)
      [] e.op = "load" -> ConvertType(e.from, e.to, TRUE)
      [] e.op = "delete" -> K(1) \o K(0) \o Routine("zeroStorageItem", <<e.to, TRUE>>)
      [] e.op = "resize" -> K(e.len) \o K(1) \o StoreValue(StorageArrayLength(e.to), Word, 0, TRUE)
      [] e.op = "push" ->
           K(1) \o IncrementDynamicArraySize(e.to)
           \o K(1) \o Dup(2) \o K(1) \o Swap(1) \o I("SUB") \o Routine("accessIndex", <<e.to, TRUE>>)
           \o (IF IsByteArray(e.to) THEN K(StackWord(FixedBytes(1), e.last)) \o MoveIntoStack(2, 1) \o StoreByteElement(TRUE)
               ELSE K(StackWord(e.to.base, e.last)) \o MoveIntoStack(2, 1)
                    \o Routine("storeStorageItem", <<e.to.base, e.to.base, TRUE>>))
      [] e.op = "encode" ->
           FetchFreeMemoryPointer \o AbiEncode(e.types, e.types)
           \o FetchFreeMemoryPointer \o Swap(1) \o Dup(2) \o Swap(1) \o I("SUB")
           \* source_offset length; the encoding stays where it is
           \o Dup(2) \o Dup(2) \o I("ADD") \o StoreFreeMemoryPointer
           \o Routine("abiDecode", <<e.types, TRUE, TRUE>>)
      [] e.op = "decode" ->
           K(0) \o I("CALLDATASIZE") \o Routine("abiDecode", <<e.types, FALSE, TRUE>>)
      [] e.op = "zero" ->
           Routine("pushZeroValue", <<e.to>>) \o K(2 * WordBytes) \o AllocateMemory
           \o K(WordSize - 1) \o Dup(2) \o I("MSTORE") \o Pop
      [] e.op = "tuple" -> StoreValue(e.to, e.from, Len(e.stack), TRUE)

\* The operands a source array takes on the stack.
Operand(t, m, v) ==
    CASE t.loc = "Storage" -> <<SourceSlot>>
      [] t.loc = "Memory" -> <<FreePointer(m)>>
      [] t.loc = "CallData" -> IF IsDynamicallySized(t) THEN <<0, Len(v)>> ELSE <<0>>
\* memory arrays among the arguments of a call, one after the other
ArgumentMemory(types, x) ==
    Accumulate(LAMBDA s, i :
               IF types[i].cat = "Array"
               THEN [mem |-> PutInMemory(s.mem, types[i], x.values[i]),
                     stack |-> Append(s.stack, FreePointer(s.mem))]
               ELSE [s EXCEPT !.stack = Append(@, (StackWord(types[i], x.values[i]) + x.dirt[i]) % WordSize)],
             [mem |-> FreshMemory, stack |-> Markers], [i \in DOMAIN types |-> i])
\* The machine about to run the code of e on the input x.
Start(e, x) ==
    CASE e.op = "convert" -> Idle(Append(Markers, x), FreshMemory, <<>>, <<>>, 0)
      [] e.op = "assign" -> Idle(Append(Markers, x.word), FreshMemory, StoreSlot(<<>>, 1, x.slot), <<>>, 0)
      [] e.op = "zeroItem" -> Idle(Markers, FreshMemory, StoreSlot(<<>>, 1, x), <<>>, 0)
      [] e.op \in {"copy", "load"} ->
           LET target == IF e.op = "copy" THEN StorageWith(e.to, x.old) ELSE <<>>
               mem == IF e.from.loc = "Memory" THEN PutInMemory(FreshMemory, e.from, x.value) ELSE FreshMemory
           IN  Idle(Markers \o Operand(e.from, FreshMemory, x.value), mem,
                    IF e.from.loc = "Storage" THEN PutStorage(target, e.from, x.value, SourceSlot, 0) ELSE target,
                    IF e.from.loc = "CallData" THEN CalldataArray(e.from, x.value) ELSE <<>>,
                    Len(x.value) * (IF IsByteArray(e.from) THEN 1 ELSE WordBytes))
      [] e.op \in {"delete", "resize", "push"} ->
           Idle(Markers, FreshMemory, StoreSlot(StorageWith(e.to, x), 0, 5), <<>>, 0)
      [] e.op = "encode" -> LET a == ArgumentMemory(e.types, x) IN Idle(a.stack, a.mem, <<>>, <<>>, 0)
      [] e.op = "decode" -> Idle(Markers, FreshMemory, <<>>, Calldata(x), Len(x) * WordBytes)
      [] e.op = "zero" -> Idle(Markers, FreshMemory, <<>>, <<>>, 0)
      [] e.op = "tuple" -> Idle(e.stack, FreshMemory, x, <<>>, 0)

\* An item of a packed slot replaced.
WithItem(slot, t, offset, bits) ==
    LET unit == 2^(ByteBits * offset)
    IN  slot - (((slot \div unit) % Modulus(t)) * unit) + bits * unit

Source(e, x) == IF e.from.loc = "Storage" THEN PutStorage(<<>>, e.from, x.value, SourceSlot, 0) ELSE <<>>
\* The enums that are left out of range stop the program.
OutOfRange(e, word) ==
    LET v == Meaning(e.from, word)
    IN  \/ e.to.cat = "Enum" /\ v \notin Values(e.to)
        \/ e.from.cat = "Enum" /\ word \notin Values(e.from)

\* The value of type t whose head is the given word, as it was in the input.
DecodedFrom(t, words, head, mem, found) ==
    LET p == (head \div WordBytes) + 1
    IN  IF t.cat # "Array" THEN found = StackWord(t, Meaning(t, head))
        ELSE /\ p + words[p] <= Len(words)
             /\ ReadMemory(t, mem, found) = [j \in 1..words[p] |-> Meaning(t.base, words[p + j])]

(* What the operation means for the state the machine stops in.              *)
Right(e, x, s) ==
    LET result == [i \in 1..(Len(s.stack) - 2) |-> s.stack[i + 2]]
    IN  CASE e.op = "convert" ->
               LET v == Converted(e.from, e.to, Meaning(e.from, x))
               IN  /\ ~OutOfRange(e, x) /\ Len(result) = 1
                   /\ Meaning(e.to, result[1]) = v
                   \* only an explicit conversion may leave bits the type does not have
                   /\ ImplicitlyConvertible(e.from, e.to) => result[1] = StackWord(e.to, v)
          [] e.op = "assign" ->
               LET v == Converted(e.from, e.to, Meaning(e.from, x.word))
               IN  /\ result = <<StackWord(e.to, v)>>
                   /\ Read(s.sto, 1) = WithItem(x.slot, e.to, e.offset, v % Modulus(e.to))
          [] e.op = "zeroItem" -> result = <<>> /\ Read(s.sto, 1) = WithItem(x, e.to, e.offset, 0)
          [] e.op = "copy" ->
               LET wanted == IF e.to.cat = "Array" /\ ~IsByteArray(e.to)
                             THEN Extended(e.to, Elementwise(e.from.base, e.to.base, x.value))
                             ELSE x.value
               IN  result = <<>> /\ s.sto = PutStorage(Source(e, x), e.to, wanted, 1, 0)
          [] e.op = "load" ->
               /\ Len(result) = 1 /\ s.sto = Source(e, x)
               /\ ReadMemory(e.to, s.mem, result[1]) = x.value
          [] e.op = "delete" -> result = <<>> /\ s.sto = StoreSlot(<<>>, 0, 5)
          [] e.op = "resize" ->
               LET wanted == [i \in 1..e.len |-> IF i <= Len(x) THEN x[i] ELSE 0]
               IN  result = <<>> /\ s.sto = StoreSlot(StorageWith(e.to, wanted), 0, 5)
          [] e.op = "push" ->
               /\ result = <<Len(x) + 1>>
               /\ s.sto = StoreSlot(StorageWith(e.to, Append(x, e.last)), 0, 5)
          [] e.op = "encode" ->
               /\ Len(result) = Len(e.types)
               /\ \A i \in DOMAIN result : ReadMemory(e.types[i], s.mem, result[i]) = x.values[i]
          [] e.op = "decode" ->
               /\ Len(result) = Len(e.types)
               /\ \A i \in DOMAIN result : DecodedFrom(e.types[i], x, x[i], s.mem, result[i])
          [] e.op = "zero" -> Len(result) = 1 /\ ReadMemory(e.to, s.mem, result[1]) = x
          [] e.op = "tuple" -> s.stack = e.final /\ s.sto = e.after

------------------------------------------------------------------------------

Compiled(experiments) == <<>> \o [i \in DOMAIN experiments |-> Link(CodeOf(experiments[i]))]
Code == Compiled(Experiments)
HeightTable ==
    <<>> \o [i \in DOMAIN Experiments |->
                Heights(Code[i], Len(Start(Experiments[i], Experiments[i].inputs[1]).stack))]

VARIABLES exp,    \* the experiment
          input,  \* the one of its inputs
          vm      \* the state of the machine
vars == <<exp, input, vm>>

Init == \E experiments \in {Experiments} :
           /\ exp \in DOMAIN experiments
           /\ input \in DOMAIN experiments[exp].inputs
           /\ vm = Start(experiments[exp], experiments[exp].inputs[input])
Execute(code) == /\ vm.status = "run" /\ vm.pc <= Len(code)
                 /\ vm' = Exec(code, vm)
                 /\ UNCHANGED <<exp, input>>
Finish(code) == /\ vm.status = "run" /\ vm.pc > Len(code)
                /\ vm' = [vm EXCEPT !.status = "done"]
                /\ UNCHANGED <<exp, input>>
Next == \E code \in {Code[exp]} : Execute(code) \/ Finish(code)
Spec == Init /\ [][Next]_vars

(* CompilerContext::stackHeight: the height the generator counts while it    *)
(* appends code is the height the stack has when the code runs, on every     *)
(* path.  Variables are found by it (baseToCurrentStackOffset).              *)
HeightsAgree ==
    [][vm'.status \in {"run", "done"} => Len(vm'.stack) = HeightTable[exp][vm'.pc]]_vars

(* No assertion of the generator fails for what the type checker accepts,    *)
(* and the code computes only with its own operands: it neither consumes nor *)
(* changes what lies below them.                                             *)
CodeIsContained ==
    /\ vm.status \in {"run", "done", "revert", "invalid"}
    /\ Len(vm.stack) >= 2 /\ vm.stack[1] = -1 /\ vm.stack[2] = -2

(* CompilerUtils::convertType, ArrayUtils and LValue: what is on the stack,  *)
(* in storage and in memory afterwards is what the operation means, with the *)
(* rest of every slot and every other slot untouched.                        *)
Rightly(e) == Right(e, e.inputs[input], vm)
ResultsAreRight == [][(vm.status = "run" /\ vm'.status = "done") => Rightly(Experiments[exp])]_vars

(* ArrayUtils.h: resizeDynamicArray "clears the tail if it is shortened", and *)
(* copyArrayToStorage "also clears target if it was larger".                 *)
TailsAreCleared ==
    [][(vm.status = "run" /\ vm'.status = "done" /\ Experiments[exp].op \in {"resize", "copy"})
           => Rightly(Experiments[exp])]_vars
==============================================================================

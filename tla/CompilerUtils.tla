---------------------------- MODULE CompilerUtils ----------------------------
(****************************************************************************)
(* The helpers of the code generator (libsolidity/codegen/CompilerUtils):   *)
(* moves on the stack, memory, conversions between types, and the encoding  *)
(* of values for calls.  Every operator is the code the function of that    *)
(* name appends; the comments show the stack, its top at the right.         *)
(****************************************************************************)
EXTENDS StackCode

CONSTANT HasBitwiseShifting   \* EVMVersion::hasBitwiseShifting

freeMemoryPointer == 2 * WordBytes
zeroPointer == freeMemoryPointer + WordBytes
generalPurposeMemoryStart == zeroPointer + WordBytes

------------------------------------------------------------------------------
(* The stack.                                                               *)

SizesOnStack(types) == SumOf([i \in DOMAIN types |-> SizeOnStack(types[i])])
CopyToStackTop(depth, size) == Ensure(depth <= 16) \o Repeat(size, Dup(depth))
RotateStackUp(items) == All([i \in 1..(items - 1) |-> Swap(items - i)])
RotateStackDown(items) == All([i \in 1..(items - 1) |-> Swap(i)])
\* Mutant: rotates one slot too many.
MoveIntoStackTooDeep(depth, size) == Repeat(size, RotateStackUp(depth + size + 1))
MoveIntoStack(depth, size) ==
    IF depth <= size THEN Repeat(depth, RotateStackDown(depth + size))
    ELSE Repeat(size, RotateStackUp(depth + size))
MoveToStackTop(depth, size) == MoveIntoStack(size, depth)
PopStackSlots(n) == Repeat(n, Pop)
PopStackElement(t) == PopStackSlots(SizeOnStack(t))
\* depth is what baseToCurrentStackOffset gives for the variable
MoveToStackVariable(depth, size) ==
    Ensure(depth >= size) \o Repeat(size, Swap(depth - size + 1) \o Pop)

LeftShiftNumberOnStack(bits) ==
    Ensure(bits < WordBits) \o
    IF HasBitwiseShifting THEN K(bits) \o I("SHL") ELSE K(2^bits) \o I("MUL")
RightShiftNumberOnStack(bits) ==
    Ensure(bits < WordBits) \o
    IF HasBitwiseShifting THEN K(bits) \o I("SHR") ELSE K(2^bits) \o Swap(1) \o I("DIV")
CleanHigherOrderBits(t) ==
    CASE t.bytes = WordBytes -> <<>>
      [] IsSigned(t) -> K(t.bytes - 1) \o I("SIGNEXTEND")
      [] OTHER -> K(2^(t.bytes * ByteBits) - 1) \o I("AND")

------------------------------------------------------------------------------
(* Memory.                                                                  *)

FetchFreeMemoryPointer == K(freeMemoryPointer) \o I("MLOAD")
StoreFreeMemoryPointer == K(freeMemoryPointer) \o I("MSTORE")
InitialiseFreeMemoryPointer == K(generalPurposeMemoryStart) \o StoreFreeMemoryPointer
\* size -> mempos
AllocateMemory == FetchFreeMemoryPointer \o Swap(1) \o Dup(2) \o I("ADD") \o StoreFreeMemoryPointer
\* mem_end -> size mem_start
ToSizeAfterFreeMemoryPointer == FetchFreeMemoryPointer \o Dup(1) \o Swap(2) \o I("SUB") \o Swap(1)

AddressMask == 2^(AddressBytes * ByteBits) - 1
SelectorMask == 2^(SelectorBytes * ByteBits) - 1
SelectorBits == SelectorBytes * ByteBits
\* the bits to the right of a left-aligned external function
FunctionPadBits == WordBits - (AddressBytes + SelectorBytes) * ByteBits
\* function <-> address selector
SplitExternalFunctionType(leftAligned) ==
    (IF leftAligned
     THEN Dup(1) \o RightShiftNumberOnStack(FunctionPadBits + SelectorBits) \o Swap(1)
          \o RightShiftNumberOnStack(FunctionPadBits)
     ELSE Dup(1) \o RightShiftNumberOnStack(SelectorBits) \o K(AddressMask) \o I("AND") \o Swap(1))
    \o K(SelectorMask) \o I("AND")
CombineExternalFunctionType(leftAligned) ==
    K(SelectorMask) \o I("AND") \o Swap(1)
    \o (IF leftAligned THEN <<>> ELSE K(AddressMask) \o I("AND"))
    \o LeftShiftNumberOnStack(SelectorBits) \o I("OR")
    \o (IF leftAligned THEN LeftShiftNumberOnStack(FunctionPadBits) ELSE <<>>)

\* The words a string literal of n bytes is stored as.
StringWord(n, i) ==
    SumOf([j \in 1..WordBytes |->
        IF i + j <= n THEN (((i + j) % (2^ByteBits - 1)) + 1) * 2^(ByteBits * (WordBytes - j)) ELSE 0])

ConvertType(a, b, cleanup) == Routine("convertType", <<a, b, cleanup, FALSE, FALSE>>)

\* The value is brought into the form in which it is written to memory.
PrepareMemoryStore(t, padded) ==
    LET bytes == CalldataEncodedSize(t, padded)
    IN  IF bytes = 0 THEN Pop
        ELSE Ensure(bytes <= WordBytes) \o ConvertType(t, t, TRUE)
             \o (IF bytes # WordBytes /\ t.cat # "FixedBytes" /\ ~padded
                 THEN LeftShiftNumberOnStack((WordBytes - bytes) * ByteBits) ELSE <<>>)
StoreInMemory(offset) == PrepareMemoryStore(Word, TRUE) \o K(offset) \o I("MSTORE")
StoreStringData(n) ==
    IF n <= 4 * WordBytes
    THEN All([k \in 1..((n + WordBytes - 1) \div WordBytes) |->
                K(StringWord(n, (k - 1) * WordBytes)) \o Dup(2) \o I("MSTORE") \o K(WordBytes) \o I("ADD")])
         \o Pop
    ELSE K(n) \o Swap(2) \o I("CODECOPY")
\* mempos value -> mempos + size
StoreInMemoryDynamic(t, padded) ==
    CASE IsRef(t) ->
           Unimplemented(t.loc = "Memory") \o PrepareMemoryStore(Word, padded)
           \o Dup(2) \o I("MSTORE") \o K(WordBytes) \o I("ADD")
      [] t.cat = "StringLiteral" ->
           Dup(1) \o StoreStringData(t.size)
           \o K(IF padded THEN Max({WordBytes, PadToWord(t.size)}) ELSE t.size) \o I("ADD")
      [] t.cat = "Function" /\ t.kind = "External" ->
           CombineExternalFunctionType(TRUE) \o Dup(2) \o I("MSTORE")
           \o K(IF padded THEN WordBytes ELSE AddressBytes + SelectorBytes) \o I("ADD")
      [] OTHER ->
           LET bytes == CalldataEncodedSize(t, padded)
           IN  PrepareMemoryStore(t, padded)
               \o (IF bytes = 0 THEN <<>>
                   ELSE Unimplemented(SizeOnStack(t) = 1) \o Dup(2) \o I("MSTORE") \o K(bytes) \o I("ADD"))

\* mempos -> value
LoadFromMemoryHelper(t, calldata, padded) ==
    LET bytes == CalldataEncodedSize(t, padded)
        external == t.cat = "Function" /\ t.kind = "External"
        shift == (WordBytes - bytes) * ByteBits
    IN  IF bytes = 0 THEN Pop \o K(0)
        ELSE Ensure(bytes <= WordBytes) \o I(IF calldata THEN "CALLDATALOAD" ELSE "MLOAD")
             \o (CASE external -> SplitExternalFunctionType(TRUE)
                   [] ~external /\ bytes # WordBytes ->
                        RightShiftNumberOnStack(shift)
                        \o (IF t.cat = "FixedBytes" THEN LeftShiftNumberOnStack(shift) ELSE <<>>)
                   [] OTHER -> <<>>)
             \o (IF calldata THEN Routine("convertType", <<t, t, TRUE, FALSE, TRUE>>) ELSE <<>>)
LoadFromMemory(offset, t, calldata, padded) ==
    Ensure(t.cat # "Array") \o K(offset) \o LoadFromMemoryHelper(t, calldata, padded)
\* mempos -> value [mempos']
LoadFromMemoryDynamic(t, calldata, padded, keepOffset) ==
    (IF keepOffset THEN Dup(1) ELSE <<>>) \o
    IF t.cat = "Array"
    THEN Ensure(~IsDynamicallySized(t) /\ ~calldata /\ padded)
         \o (IF keepOffset THEN K(MemorySize(t)) \o I("ADD") ELSE <<>>)
    ELSE LoadFromMemoryHelper(t, calldata, padded)
         \o (IF keepOffset
             THEN MoveToStackTop(SizeOnStack(t), 1) \o K(CalldataEncodedSize(t, padded)) \o I("ADD")
             ELSE <<>>)

\* size target source ->   (whole words)
MemoryCopy32 ==
    K(0) \o Loop(Dup(4) \o Dup(2) \o I("LT") \o I("ISZERO"),
                 Dup(1) \o Dup(3) \o I("ADD") \o I("MLOAD")
                 \o Dup(2) \o Dup(5) \o I("ADD") \o I("MSTORE")
                 \o K(WordBytes) \o I("ADD"))
    \o Pop \o Pop \o Pop \o Pop
\* size target source ->   (the bytes behind the target survive)
MemoryCopy ==
    Loop(K(WordBytes) \o Dup(4) \o I("LT"),
         Dup(1) \o I("MLOAD") \o Dup(3) \o I("MSTORE")
         \o Swap(1) \o K(WordBytes) \o I("ADD") \o Swap(1) \o K(WordBytes) \o I("ADD")
         \o Swap(2) \o K(WordBytes) \o Swap(1) \o I("SUB") \o Swap(2))
    \o K(1) \o Dup(4) \o K(WordBytes) \o I("SUB") \o K(2^ByteBits) \o I("EXP") \o I("SUB")
    \o Dup(1) \o I("NOT") \o Dup(3) \o I("MLOAD") \o I("AND")
    \o Dup(2) \o Dup(5) \o I("MLOAD") \o I("AND")
    \o I("OR") \o Dup(4) \o I("MSTORE")
    \o Pop \o Pop \o Pop \o Pop

HasSimpleZeroValueInMemory(t) ==
    t.cat \in {"Integer", "FixedPoint", "FixedBytes", "Bool", "Contract", "Enum"}


\* length mempos -> mempos'
ZeroInitialiseMemoryArray(t) ==
    (IF HasSimpleZeroValueInMemory(t.base)
     THEN Ensure(IsValueType(t.base))
          \o K(MemoryHeadSize(t.base)) \o Dup(3) \o I("MUL")
          \o Dup(1) \o I("CODESIZE") \o Dup(4) \o I("CODECOPY")
          \o Dup(1) \o Dup(3) \o I("ADD") \o Swap(2) \o Pop \o Pop
     ELSE RepeatWhile(Routine("pushZeroValue", <<t.base>>) \o Routine("storeInMemoryDynamic", <<t.base, TRUE>>)
                      \o Swap(1) \o K(1) \o Swap(1) \o I("SUB") \o Swap(1) \o Dup(2)))
    \o Swap(1) \o Pop

PushZeroValue(t) ==
    CASE t.cat = "Function" /\ t.kind = "Internal" -> N("PUSH", 0)
      [] ~IsRef(t) \/ t.loc = "Storage" -> Repeat(SizeOnStack(t), K(0))
      [] IsRef(t) /\ t.loc # "Storage" /\ IsDynamicallySized(t) -> K(zeroPointer)
      [] OTHER ->
           LowLevel(0, 1,
               Ensure(t.loc = "Memory")
               \o K(Max({WordBytes, CalldataEncodedSize(t, TRUE)})) \o AllocateMemory \o Dup(1)
               \o (IF t.cat = "Struct"
                   THEN LET members == MemoryMemberTypes(t.struct)
                            Member(i) == CopyForLocationIfReference(members[i], "Memory")
                        IN  All([i \in DOMAIN members |->
                                Routine("pushZeroValue", <<Member(i)>>) \o Routine("storeInMemoryDynamic", <<Member(i), TRUE>>)])
                   ELSE IF t.len > 0 THEN K(t.len) \o Swap(1) \o ZeroInitialiseMemoryArray(t) ELSE <<>>)
               \o Pop)

------------------------------------------------------------------------------
(* Conversions.                                                             *)

\* value -> value, the enum's range checked
CheckEnumRange(e, decoding) ==
    Ensure(EnumMembers[e] > 0) \o K(EnumMembers[e] - 1) \o Dup(2) \o I("GT")
    \o (IF decoding THEN AppendConditionalRevert ELSE AppendConditionalInvalid)

ConvertFixedBytes(a, b, cleanup) ==
    IF b.cat = "Integer"
    THEN RightShiftNumberOnStack((WordBytes - a.bytes) * ByteBits)
         \o (IF b.bytes < a.bytes THEN ConvertType(UInt(a.bytes), b, cleanup) ELSE <<>>)
    ELSE Ensure(b.cat = "FixedBytes")
         \o (IF b.bytes > a.bytes \/ cleanup
             THEN K(2^(WordBits - Min({a.bytes, b.bytes}) * ByteBits) - 1) \o I("NOT") \o I("AND")
             ELSE <<>>)

\* Mutant: a value is taken for clean when its type becomes wider.
ConvertToIntegerWithoutCleanup(a, b, cleanup, chop) ==
    IF cleanup /\ b.cat = "Integer" /\ a.cat = "Integer" /\ b.bytes <= a.bytes
    THEN CleanHigherOrderBits(b) ELSE <<>>
(* Widening cleans up to the width of the source; otherwise, if asked to,    *)
(* to the width of the target.  A literal is known to be clean.              *)
ConvertToInteger(a, b, cleanup, chop) ==
    LET target == IF b.cat = "Integer" THEN b ELSE AddressType
        source == IF a.cat = "Integer" THEN a ELSE AddressType
    IN  Ensure(b.cat \in {"Integer", "Contract"}) \o
        IF a.cat = "RationalNumber"
        THEN Unimplemented(~IsFractional(a))
             \o (IF cleanup /\ target.bytes < IntegerTypeOf(a).bytes
                 THEN CleanHigherOrderBits(target) ELSE <<>>)
        ELSE (CASE target.bytes > source.bytes -> CleanHigherOrderBits(source)
                [] target.bytes <= source.bytes /\ cleanup -> CleanHigherOrderBits(target)
                [] OTHER -> <<>>)
             \o (IF chop /\ source.bytes < WordBytes
                 THEN K(2^(source.bytes * ByteBits) - 1) \o I("AND") ELSE <<>>)

ConvertNumber(a, b, cleanup, chop) ==
    CASE b.cat = "FixedBytes" ->
           Ensure(a.cat # "Contract")
           \o (IF a.cat = "Integer" /\ b.bytes > a.bytes THEN CleanHigherOrderBits(a) ELSE <<>>)
           \o LeftShiftNumberOnStack(WordBits - b.bytes * ByteBits)
      [] b.cat = "Enum" ->
           Ensure(MobileType(a) # NoType) \o ConvertType(a, MobileType(a), TRUE)
           \o CheckEnumRange(b.enum, FALSE)
      [] b.cat = "FixedPoint" -> I("UNIMPLEMENTED")
      [] OTHER -> ConvertToInteger(a, b, cleanup, chop)

ConvertStringLiteral(a, b) ==
    CASE b.cat = "FixedBytes" ->
           Ensure(a.size <= WordBytes)
           \o K(StringWord(Min({a.size, b.bytes}), 0))
      [] b.cat = "Array" ->
           Ensure(IsByteArray(b)) \o K(WordBytes + PadToWord(a.size)) \o AllocateMemory
           \o Dup(1) \o K(a.size) \o Routine("storeInMemoryDynamic", <<Word, TRUE>>) \o StoreStringData(a.size)
      [] OTHER -> I("ASSERT")

\* source_ref length mem_data_pos -> the same, with every element converted
ConvertElements(a, b, cleanup) ==
    LET size == SizeOnStack(a)
    IN  K(0) \o Swap(1)
        \o Loop(Dup(3) \o Dup(3) \o I("LT") \o I("ISZERO"),
                CopyToStackTop(3 + size, size) \o CopyToStackTop(2 + size, 1)
                \o Routine("accessIndex", <<a, FALSE>>)
                \o (IF a.loc = "Storage" THEN Routine("retrieveStorageItem", <<a.base, TRUE>>) ELSE <<>>)
                \o ConvertType(a.base, b.base, cleanup) \o Routine("storeInMemoryDynamic", <<b.base, TRUE>>)
                \o Swap(1) \o K(1) \o I("ADD") \o Swap(1))
        \o Pop
\* An array is copied to a free place in memory, unless it is there already.
ConvertArray(a, b, cleanup) ==
    LET size == SizeOnStack(a)
    IN  Ensure(b.cat = "Array") \o
        CASE b.loc = "Storage" ->
               Ensure((b.ptr \/ (IsByteArray(a) /\ IsByteArray(b))) /\ a.loc = "Storage")
          [] b.loc = "CallData" -> Ensure(IsByteArray(b) /\ IsByteArray(a) /\ a.loc = "CallData")
          [] b.loc = "Memory" /\ a.loc = "Memory" -> <<>>
          [] OTHER ->
               Routine("retrieveLength", <<a, 0>>)
               \o Dup(1) \o Routine("convertLengthToSize", <<b, TRUE>>)
               \o (IF IsDynamicallySized(b) THEN K(WordBytes) \o I("ADD") ELSE <<>>)
               \o AllocateMemory \o Dup(1) \o MoveIntoStack(2 + size, 1)
               \o (IF IsDynamicallySized(b) THEN Dup(2) \o Routine("storeInMemoryDynamic", <<Word, TRUE>>) ELSE <<>>)
               \o (IF IsValueType(b.base)
                   THEN Ensure(IsValueType(a.base)) \o CopyToStackTop(2 + size, size)
                        \o Routine("copyArrayToMemory", <<a, TRUE>>)
                   ELSE ConvertElements(a, b, cleanup))
               \o PopStackSlots(2 + size)
ConvertStruct(a, b) ==
    LET members == StructMembers[a.struct]
        places == ComputeOffsets(MemberTypes(a.struct)).places
        source(i) == CopyForLocationIfReference(members[i].type, "Storage")
        target(i) == CopyForLocationIfReference(members[i].type, "Memory")
    IN  Ensure(b.cat = "Struct" /\ a.loc # "CallData" /\ b.loc # "CallData") \o
        CASE b.loc = "Storage" -> Ensure(b.ptr /\ a.loc = "Storage")
          [] a.loc = "Storage" /\ b.loc = "Memory" ->
               K(MemorySize(a)) \o AllocateMemory \o Swap(1) \o Dup(2)
               \o All([i \in DOMAIN members |->
                      IF ~CanLiveOutsideStorage(members[i].type) THEN <<>>
                      ELSE K(places[i][1]) \o Dup(3) \o I("ADD") \o K(places[i][2])
                           \o Routine("retrieveStorageItem", <<source(i), TRUE>>)
                           \o ConvertType(source(i), target(i), TRUE)
                           \o Routine("storeInMemoryDynamic", <<target(i), TRUE>>)])
               \o Pop \o Pop
          [] OTHER -> <<>>

(* Each component is copied to the top, converted and moved back to its      *)
(* place; depth is the distance of the component from the top.               *)
ConvertTuple(a, b, cleanup) ==
    LET n == Len(a.comps)
        m == Len(b.comps)
        fillRight == m > 0 /\ (b.comps[m] = NoType \/ b.comps[1] # NoType)
        Target(i) == CASE fillRight /\ i <= m -> b.comps[i]
                       [] ~fillRight /\ m + i > n -> b.comps[m - n + i]
                       [] OTHER -> NoType
        Size(t) == IF t = NoType THEN 0 ELSE SizeOnStack(t)
        Depth(i) == SumOf([j \in 1..(n - i + 1) |-> Size(a.comps[i + j - 1])])
        One(i) ==
            LET source == a.comps[i]
                target == Target(i)
                from == Size(source)
                to == Size(target)
            IN  CASE source = NoType -> Ensure(target = NoType)
                  [] source = target /\ ~cleanup -> <<>>
                  [] OTHER ->
                       (IF target = NoType THEN <<>>
                        ELSE (IF from > 0 THEN CopyToStackTop(Depth(i), from) ELSE <<>>)
                             \o ConvertType(source, target, cleanup))
                       \o Repeat(Min({from, to}), Swap(Depth(i) + to - from) \o Pop)
                       \o Repeat(from - to, MoveToStackTop(Depth(i) - 1, 1) \o Pop)
                       \o (IF to > from THEN MoveIntoStack(Depth(i) + to - from - 1, to - from) ELSE <<>>)
    IN  All([i \in 1..n |-> One(i)])

ConvertTypeFull(a, b, cleanup, chopSigns, decoding) ==
    LET chop == chopSigns /\ b.cat = "Integer" /\ IsSigned(b)
        \* the checks at the end: enum ranges checked, sign bits chopped
        settled == /\ b.cat = "Enum" => a.cat \in {"Integer", "Contract", "RationalNumber", "Enum"}
                   /\ chop => a.cat \in {"Integer", "Contract"}
    IN  IF a = b /\ ~cleanup THEN <<>>
        ELSE Ensure(settled) \o
             CASE a.cat = "FixedBytes" -> ConvertFixedBytes(a, b, cleanup)
               [] a.cat = "Enum" -> Ensure(b = a \/ b.cat = "Integer") \o CheckEnumRange(a.enum, decoding)
               [] a.cat = "FixedPoint" -> I("UNIMPLEMENTED")
               [] a.cat \in {"Integer", "Contract", "RationalNumber"} -> ConvertNumber(a, b, cleanup, chop)
               [] a.cat = "StringLiteral" -> ConvertStringLiteral(a, b)
               [] a.cat = "Array" -> ConvertArray(a, b, cleanup)
               [] a.cat = "Struct" -> ConvertStruct(a, b)
               [] a.cat = "Tuple" -> ConvertTuple(a, b, cleanup)
               [] a.cat = "Bool" ->
                    Ensure(a = b) \o (IF cleanup THEN I("ISZERO") \o I("ISZERO") ELSE <<>>)
               [] a.cat = "Function" /\ b.cat = "Integer" ->
                    Ensure(IsAddress(b) /\ a.kind = "External") \o Pop
               [] OTHER ->
                    Ensure(a = b)
                    \o (IF cleanup /\ CanBeStored(b) /\ StorageBytes(b) < WordBytes
                        THEN K(2^(StorageBytes(b) * ByteBits) - 1) \o I("AND") ELSE <<>>)

------------------------------------------------------------------------------
(* Encoding and decoding of the values of a call.                           *)

EncodedAs(interface) == IF interface = NoType THEN NoType ELSE EncodingType(interface)
ExternalOf(mobile, library) == IF mobile = NoType THEN NoType ELSE EncodedAs(InterfaceType(mobile, library))
EncodingTypes(types, library) ==
    <<>> \o [i \in DOMAIN types |-> ExternalOf(MobileType(types[i]), library)]
\* v1 ... vn mem_start -> mem_end
EncodeAs(given, target, padded, inPlace, library) ==
    LET n == Len(given)
        argSize == SizesOnStack(given)
        Pos(i) == SizesOnStack(SubSeq(given, 1, i - 1))
        Dynamic(i) == IsDynamicallySized(target[i]) /\ ~inPlace
        Heads(i) == Cardinality({j \in 1..i : Dynamic(j)})
        heads == Heads(n)
        reference(i) == DataStoredIn(given[i], "Storage") /\ IsValueType(target[i])
        delayed(i) == /\ ~reference(i)
                      /\ \/ DataStoredIn(given[i], "Storage") \/ DataStoredIn(given[i], "CallData")
                         \/ given[i].cat \in {"StringLiteral", "Function"}
        Static(i) ==
            LET type == IF delayed(i) THEN given[i] ELSE target[i]
            IN  CopyToStackTop(argSize - Pos(i) + Heads(i) + 2, SizeOnStack(given[i]))
                \o (CASE reference(i) -> Ensure(library /\ SizeOnStack(given[i]) = 1)
                      [] delayed(i) -> <<>>
                      [] OTHER -> ConvertType(given[i], target[i], TRUE))
                \o (IF type.cat = "Array" THEN Routine("copyArrayToMemory", <<type, padded>>)
                    ELSE Routine("storeInMemoryDynamic", <<type, padded>>))
        HeadPart(i) == IF Dynamic(i)
                   THEN Dup(1) \o K(WordBytes) \o I("ADD") \o Ensure(argSize + Heads(i) < 16)
                   ELSE Static(i)
        TailPart(i) ==
            Dup(2 + heads) \o Dup(2) \o I("SUB") \o Dup(2 + heads - Heads(i - 1)) \o I("MSTORE") \o
            IF given[i].cat = "StringLiteral"
            THEN K(given[i].size) \o Routine("storeInMemoryDynamic", <<Word, TRUE>>)
                 \o Routine("storeInMemoryDynamic", <<given[i], padded>>)
            ELSE LET size == SizeOnStack(given[i])
                 IN  Ensure(given[i].cat = "Array")
                     \o CopyToStackTop(argSize - Pos(i) + heads + 2, size)
                     \o Dup(1 + size) \o Routine("retrieveLength", <<given[i], 1>>)
                     \o Routine("storeInMemoryDynamic", <<Word, TRUE>>) \o Swap(size + 1) \o Pop
                     \o Routine("copyArrayToMemory", <<given[i], padded>>)
    IN  IF NoType \in Range(target) THEN I("UNIMPLEMENTED")
        ELSE IF n = 0 THEN <<>>
        ELSE Dup(1) \o All([i \in 1..n |-> HeadPart(i)])
             \o All([i \in 1..n |-> IF Dynamic(i) THEN TailPart(i) ELSE <<>>])
             \o Swap(argSize + heads + 1) \o PopStackSlots(argSize + heads + 1)
EncodeToMemory(given, targets, padded, inPlace, library) ==
    EncodeAs(given, EncodingTypes(IF targets = <<>> THEN given ELSE targets, library),
             padded, inPlace, library)

\* the largest offset or length accepted in the input
OffsetLimit == WordSize \div 64

\* input_end base_offset offset -> v(k) input_end base_offset offset'
DecodeFromMemory(t, check) ==
    Unimplemented(IsValueType(t.base)) \o Ensure(t.loc = "Memory") \o
    IF IsDynamicallySized(t)
    THEN LET item == IF IsByteArray(t) THEN 1 ELSE CalldataEncodedSize(t.base, TRUE)
         IN  Dup(1) \o I("MLOAD")
             \o (IF ~check THEN Dup(3) \o I("ADD")
                 ELSE RevertIf(K(OffsetLimit) \o Dup(2) \o I("GT"))
                      \o Dup(3) \o Dup(2) \o I("ADD") \o Swap(1) \o Pop
                      \o K(WordBytes) \o Dup(2) \o I("ADD")
                      \o RevertIf(Dup(5) \o Dup(2) \o I("GT"))
                      \o Dup(2) \o I("MLOAD")
                      \o RevertIf(Dup(6) \o K(item) \o Dup(3) \o I("MUL") \o Dup(4) \o I("ADD")
                                  \o I("GT") \o K(OffsetLimit) \o Dup(3) \o I("GT") \o I("OR"))
                      \o Pop \o Pop)
             \o MoveIntoStack(3, 1) \o K(WordBytes) \o I("ADD")
    ELSE MoveIntoStack(2, 1) \o Dup(3) \o K(CalldataEncodedSize(t, TRUE)) \o I("ADD")

DecodeFromCalldata(t, check) ==
    LET source == CopyForLocation(t, "CallData", FALSE)
        item == IF IsByteArray(t) THEN 1 ELSE CalldataEncodedSize(t.base, TRUE)
        When(code) == IF check THEN code ELSE <<>>
    IN  (IF IsDynamicallySized(source)
         THEN Routine("loadFromMemoryDynamic", <<Word, TRUE, TRUE, TRUE>>) \o Swap(1)
              \o When(RevertIf(K(OffsetLimit) \o Dup(2) \o I("GT")))
              \o Dup(3) \o I("ADD")
              \o When(RevertIf(Dup(4) \o K(WordBytes) \o Dup(3) \o I("ADD") \o I("GT")))
              \o Routine("loadFromMemoryDynamic", <<Word, TRUE, TRUE, TRUE>>) \o Swap(2)
              \o When(RevertIf(Dup(5) \o K(item) \o Dup(4) \o I("MUL") \o Dup(5) \o I("ADD") \o I("GT")
                               \o K(OffsetLimit) \o Dup(4) \o I("GT") \o I("OR")))
         ELSE Dup(1) \o K(CalldataEncodedSize(source, TRUE)) \o I("ADD"))
        \o (IF t.loc = "Memory"
            THEN MoveIntoStack(SizeOnStack(source), 1)
                 \o Routine("convertType", <<source, t, FALSE, FALSE, TRUE>>) \o MoveToStackTop(SizeOnStack(t), 1)
            ELSE <<>>)
        \o MoveToStackTop(2 + SizeOnStack(t), 1) \o Swap(1)
        \o MoveToStackTop(2 + SizeOnStack(t), 1) \o Swap(1)

\* source_offset length -> v1 ... vn
AbiDecode(types, memory, check) ==
    LET decoded == [i \in DOMAIN types |-> DecodingType(types[i])]
        One(t) ==
            IF t.cat = "Array"
            THEN Unimplemented(~IsDynamicallyEncoded(t.base))
                 \o (IF memory THEN DecodeFromMemory(t, check) ELSE DecodeFromCalldata(t, check))
            ELSE Ensure(~IsDynamicallyEncoded(t))
                 \o Routine("loadFromMemoryDynamic", <<t, ~memory, TRUE, TRUE>>)
                 \o MoveToStackTop(1, SizeOnStack(t)) \o MoveIntoStack(3, SizeOnStack(t))
    IN  IF NoType \in Range(decoded) THEN I("UNIMPLEMENTED")
        ELSE (IF check
              THEN RevertIf(K(SumOf([i \in DOMAIN decoded |-> CalldataEncodedSize(decoded[i], TRUE)]))
                            \o Dup(2) \o I("LT"))
              ELSE <<>>)
             \o Dup(2) \o I("ADD") \o Swap(1) \o Dup(1)
             \o All([i \in DOMAIN decoded |-> One(decoded[i])]) \o PopStackSlots(3)

\* The pair a call and its result use.
AbiEncode(given, targets) == Routine("encodeToMemory", <<given, targets, TRUE, FALSE, FALSE>>)
\* Error(string) is put in front of the reason.
RevertWithStringData(t) ==
    Ensure(ImplicitlyConvertible(t, ByteArray("Memory", TRUE, "String")))
    \o FetchFreeMemoryPointer \o K((SelectorMask) * 2^(WordBits - SelectorBits)) \o Dup(2) \o I("MSTORE")
    \o K(SelectorBytes) \o I("ADD")
    \o AbiEncode(<<t>>, <<ByteArray("Memory", TRUE, "String")>>)
    \o ToSizeAfterFreeMemoryPointer \o I("REVERT")
ComputeHashStatic == StoreInMemory(0) \o K(WordBytes) \o K(0) \o I("SHA3")
==============================================================================

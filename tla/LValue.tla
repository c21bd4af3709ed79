-------------------------------- MODULE LValue -------------------------------
(****************************************************************************)
(* Places a value can be assigned to (libsolidity/codegen/LValue): a stack  *)
(* variable, a memory item, a storage item (possibly one of several in its  *)
(* slot), an element of a byte array, the length of an array, and tuples of *)
(* these.  An lvalue is a record with the field kind and the type it holds; *)
(* its reference is on the stack.                                           *)
(****************************************************************************)
EXTENDS ArrayUtils

\* A place of its own on the stack, base counted from the bottom.
StackVariable(t, base) == [kind |-> "Stack", type |-> t, base |-> base]
MemoryItem(t, padded) == [kind |-> "Memory", type |-> t, padded |-> padded]
StorageItem(t) == [kind |-> "Storage", type |-> t]
StorageByteArrayElement == [kind |-> "ByteElement", type |-> FixedBytes(1)]
StorageArrayLength(t) == [kind |-> "Length", type |-> Word, array |-> t]
TupleObject(lvs) == [kind |-> "Tuple", lvs |-> lvs]
NoLValue == [kind |-> "None"]

RECURSIVE LValueSize(_)
LValueSize(lv) ==
    CASE lv.kind = "Stack" -> 0
      [] lv.kind \in {"Memory", "Length"} -> 1
      [] lv.kind \in {"Storage", "ByteElement"} -> 2
      [] lv.kind = "Tuple" -> SumOf([i \in DOMAIN lv.lvs |-> LValueSize(lv.lvs[i])])
      [] lv.kind = "None" -> 0

------------------------------------------------------------------------------
(* Stack variables; height is the number of slots on the stack.             *)

RetrieveStackVariable(lv, height) ==
    LET pos == height - lv.base - 1
        size == SizeOnStack(lv.type)
    IN  Ensure(pos + 1 >= size) \o Repeat(size, Dup(pos + 1))
StoreStackVariable(lv, height, move) ==
    LET size == SizeOnStack(lv.type)
        diff == height - lv.base - 1 - size + 1
    IN  (IF diff > 0 THEN Repeat(size, Swap(diff) \o Pop) ELSE <<>>)
        \o (IF move THEN <<>> ELSE RetrieveStackVariable(lv, IF diff > 0 THEN height - size ELSE height))
ZeroStackVariable(lv, height) ==
    Routine("pushZeroValue", <<lv.type>>) \o StoreStackVariable(lv, height + SizeOnStack(lv.type), TRUE)

------------------------------------------------------------------------------
(* Memory items.                                                            *)

\* mempos -> [mempos] value
RetrieveMemoryItem(t, padded, remove) ==
    IF IsValueType(t)
    THEN (IF remove THEN <<>> ELSE Dup(1)) \o Routine("loadFromMemoryDynamic", <<t, FALSE, padded, FALSE>>)
    ELSE I("MLOAD")
\* value mempos -> [value]
StoreMemoryItem(t, padded, source, move) ==
    IF IsValueType(t)
    THEN Ensure(IsValueType(source))
         \o MoveIntoStack(SizeOnStack(source), 1) \o ConvertType(source, t, TRUE)
         \o (IF move THEN <<>>
             ELSE MoveToStackTop(SizeOnStack(t), 1) \o CopyToStackTop(1 + SizeOnStack(t), SizeOnStack(t)))
         \o (IF padded THEN Routine("storeInMemoryDynamic", <<t, TRUE>>) \o Pop
             ELSE Ensure(CalldataEncodedSize(t, FALSE) = 1)
                  \o (IF t.cat = "FixedBytes" THEN K(0) \o I("BYTE") ELSE <<>>)
                  \o Swap(1) \o I("MSTORE8"))
    ELSE Unimplemented(source = t) \o Ensure(SizeOnStack(t) = 1)
         \o (IF move THEN <<>> ELSE Dup(2) \o Swap(1)) \o I("MSTORE")
ZeroMemoryItem(t, padded, remove) ==
    (IF remove THEN <<>> ELSE Dup(1)) \o Routine("pushZeroValue", <<t>>) \o Routine("storeInMemoryDynamic", <<t, padded>>) \o Pop

------------------------------------------------------------------------------
(* Storage items: slot byte_offset.                                         *)

ValueMask(t) == 2^(StorageBytes(t) * ByteBits) - 1
RetrieveStorageItem(t, remove) ==
    IF ~IsValueType(t)
    THEN Ensure(SizeOnStack(t) = 1) \o (IF remove THEN Pop ELSE Dup(2))
    ELSE (IF remove THEN <<>> ELSE CopyToStackTop(2, 2)) \o
         IF StorageBytes(t) = WordBytes THEN Pop \o I("SLOAD")
         ELSE Swap(1) \o I("SLOAD") \o Swap(1) \o K(LowByte + 1) \o I("EXP") \o Swap(1) \o I("DIV") \o
              CASE t.cat = "FixedPoint" -> I("UNIMPLEMENTED")
                [] t.cat = "FixedBytes" -> LeftShiftNumberOnStack(WordBits - ByteBits * t.bytes)
                [] t.cat = "Integer" /\ IsSigned(t) -> K(StorageBytes(t) - 1) \o I("SIGNEXTEND")
                [] t.cat = "Function" /\ t.kind = "External" -> SplitExternalFunctionType(FALSE)
                [] OTHER -> Ensure(SizeOnStack(t) = 1) \o K(ValueMask(t)) \o I("AND")

\* value slot byte_offset -> [value]
StorePackedItem(t, source, move) ==
    K(LowByte + 1) \o I("EXP") \o Dup(2) \o I("SLOAD")
    \* value slot multiplier old: the bits of the item are cleared
    \o Dup(2) \o K(ValueMask(t)) \o I("MUL") \o I("NOT") \o I("AND") \o Swap(1)
    \o CopyToStackTop(3 + SizeOnStack(t), SizeOnStack(t))
    \o (CASE t.cat = "Function" ->
               Ensure(source = t)
               \o (IF t.kind = "External" THEN CombineExternalFunctionType(FALSE)
                   ELSE K(ValueMask(t)) \o I("AND"))
          [] t.cat = "FixedBytes" ->
               Ensure(source.cat = "FixedBytes") \o RightShiftNumberOnStack(WordBits - ByteBits * t.bytes)
          [] OTHER ->
               Ensure(SizeOnStack(t) = 1) \o Routine("convertType", <<source, t, TRUE, TRUE, FALSE>>))
    \o I("MUL") \o I("OR") \o Swap(1) \o I("SSTORE")
    \o (IF move THEN PopStackElement(t) ELSE <<>>)

\* source_ref target_ref target_offset -> [target_ref]
StoreStruct(t, source, move) ==
    LET members == StructMembers[t.struct]
        places == ComputeOffsets(MemberTypes(t.struct)).places
        memory == MemoryMemberTypes(t.struct)
        From(i) == CopyForLocationIfReference(members[i].type, source.loc)
        To(i) == CopyForLocationIfReference(members[i].type, "Storage")
        MemoryOffset(i) ==
            SumOf([j \in 1..(i - 1) |-> IF CanLiveOutsideStorage(members[j].type)
                                         THEN MemoryHeadSize(members[j].type) ELSE 0])
        One(i) ==
            (IF source.loc = "Storage"
             THEN K(places[i][1]) \o Dup(3) \o I("ADD") \o K(places[i][2])
                  \o Routine("retrieveStorageItem", <<From(i), TRUE>>)
             ELSE Ensure(source.loc = "Memory") \o K(MemoryOffset(i)) \o Dup(3) \o I("ADD")
                  \o Routine("retrieveMemoryItem", <<From(i), TRUE, TRUE>>))
            \o Dup(1 + SizeOnStack(From(i))) \o K(places[i][1]) \o I("ADD") \o K(places[i][2])
            \o Routine("storeStorageItem", <<To(i), From(i), TRUE>>)
    IN  Pop \o Ensure(t.struct = source.struct /\ source.loc # "CallData")
        \o All([i \in DOMAIN members |-> IF members[i].type.cat = "Mapping" THEN <<>> ELSE One(i)])
        \o (IF move THEN PopStackSlots(2) ELSE Swap(1) \o Pop)
StoreStorageItem(t, source, move) ==
    CASE IsValueType(t) /\ StorageBytes(t) = WordBytes ->
           Ensure(SizeOnStack(t) = 1) \o Pop \o (IF move THEN <<>> ELSE Dup(2) \o Swap(1))
           \o Swap(1) \o ConvertType(source, t, TRUE) \o Swap(1) \o I("SSTORE")
      [] IsValueType(t) /\ StorageBytes(t) # WordBytes -> StorePackedItem(t, source, move)
      [] t.cat = "Array" ->
           Ensure(source.cat = t.cat) \o Pop \o Routine("copyArrayToStorage", <<t, source>>)
           \o (IF move THEN Pop ELSE <<>>)
      [] t.cat = "Struct" -> Ensure(source.cat = t.cat) \o StoreStruct(t, source, move)
      [] OTHER -> I("ASSERT")

ZeroStorageItem(t, remove) ==
    LET copy == IF remove THEN <<>> ELSE CopyToStackTop(2, 2)
        members == StructMembers[t.struct]
        places == ComputeOffsets(MemberTypes(t.struct)).places
    IN  CASE t.cat = "Array" -> copy \o Routine("clearArray", <<t>>)
          [] t.cat = "Struct" ->
               All([i \in DOMAIN members |->
                      IF members[i].type.cat = "Mapping" THEN <<>>
                      ELSE K(places[i][1]) \o Dup(3) \o I("ADD") \o K(places[i][2])
                           \o Routine("zeroStorageItem", <<CopyForLocationIfReference(members[i].type, "Storage"), TRUE>>)])
               \o (IF remove THEN Pop \o Pop ELSE <<>>)
          [] OTHER ->
               Ensure(IsValueType(t)) \o copy \o
               IF StorageBytes(t) = WordBytes THEN Pop \o K(0) \o Swap(1) \o I("SSTORE")
               ELSE K(LowByte + 1) \o I("EXP") \o Dup(2) \o I("SLOAD")
                    \o Swap(1) \o K(ValueMask(t)) \o I("MUL") \o I("NOT") \o I("AND")
                    \o Swap(1) \o I("SSTORE")

------------------------------------------------------------------------------
(* Bytes of a byte array in storage: slot byte_number, from the left.       *)

ByteShift == 2^(WordBits - ByteBits)
BytePlace == K(WordBytes - 1) \o I("SUB") \o K(LowByte + 1) \o I("EXP")
RetrieveByteElement(remove) ==
    (IF remove THEN Swap(1) \o I("SLOAD") \o Swap(1) ELSE Dup(2) \o I("SLOAD") \o Dup(2))
    \o I("BYTE") \o K(ByteShift) \o I("MUL")
StoreByteElement(move) ==
    BytePlace \o Dup(2) \o I("SLOAD") \o Dup(2) \o K(LowByte) \o I("MUL") \o I("NOT") \o I("AND")
    \o Swap(1) \o K(ByteShift) \o Dup(5) \o I("DIV") \o I("MUL") \o I("OR")
    \o Swap(1) \o I("SSTORE") \o (IF move THEN Pop ELSE <<>>)
ZeroByteElement(remove) ==
    (IF remove THEN <<>> ELSE Dup(2) \o Dup(2))
    \o BytePlace \o Dup(2) \o I("SLOAD") \o Swap(1) \o K(LowByte) \o I("MUL") \o I("NOT") \o I("AND")
    \o Swap(1) \o I("SSTORE")

------------------------------------------------------------------------------
(* Any lvalue.                                                              *)

RECURSIVE RetrieveValue(_, _, _)
RECURSIVE StoreValue(_, _, _, _)
RECURSIVE SetToZero(_, _, _)
\* Each reference is brought to the top, in the order of the components.
RetrieveTuple(lv, height, remove) ==
    LET start == LValueSize(lv)
        Add(s, v) ==
            LET depth == start + s.height - height
                size == LValueSize(v)
                fetch == CASE size > 0 /\ remove /\ depth > size -> MoveToStackTop(depth, depth - size)
                           [] size > 0 /\ ~remove /\ depth > 0 -> CopyToStackTop(depth, size)
                           [] OTHER -> <<>>
                up == IF ~remove /\ size > 0 THEN size ELSE 0
            IN  IF v.kind = "None" THEN s
                ELSE [code |-> s.code \o fetch \o RetrieveValue(v, s.height + up, TRUE),
                      height |-> s.height + up - size + SizeOnStack(v.type)]
    IN  Accumulate(Add, [code |-> <<>>, height |-> height], lv.lvs).code
\* values... references... ->   assigned from the right to the left
StoreTuple(lv, source, height) ==
    LET n == Len(lv.lvs)
        Add(s, k) ==
            LET v == lv.lvs[n - k + 1]
                t == source.comps[Len(source.comps) - k + 1]
                pos == s.pos + SizeOnStack(t)
            IN  IF v.kind = "None" THEN [s EXCEPT !.code = @ \o Ensure(t = NoType)]
                ELSE [code |-> s.code \o CopyToStackTop(pos, SizeOnStack(t))
                               \o MoveToStackTop(SizeOnStack(t), LValueSize(v))
                               \o StoreValue(v, t, s.height + SizeOnStack(t), TRUE),
                      pos |-> pos - LValueSize(v), height |-> s.height - LValueSize(v)]
    IN  Ensure(Len(source.comps) = n)
        \o Accumulate(Add, [code |-> <<>>, pos |-> LValueSize(lv), height |-> height],
                    [k \in 1..n |-> k]).code
        \o PopStackElement(source)

RetrieveValue(lv, height, remove) ==
    CASE lv.kind = "Stack" -> RetrieveStackVariable(lv, height)
      [] lv.kind = "Memory" -> Routine("retrieveMemoryItem", <<lv.type, lv.padded, remove>>)
      [] lv.kind = "Storage" -> Routine("retrieveStorageItem", <<lv.type, remove>>)
      [] lv.kind = "ByteElement" -> RetrieveByteElement(remove)
      [] lv.kind = "Length" -> Routine("retrieveLength", <<lv.array, 0>>) \o (IF remove THEN Swap(1) \o Pop ELSE <<>>)
      [] lv.kind = "Tuple" -> RetrieveTuple(lv, height, remove)
StoreValue(lv, source, height, move) ==
    CASE lv.kind = "Stack" -> StoreStackVariable(lv, height, move)
      [] lv.kind = "Memory" -> Routine("storeMemoryItem", <<lv.type, lv.padded, source, move>>)
      [] lv.kind = "Storage" -> Routine("storeStorageItem", <<lv.type, source, move>>)
      [] lv.kind = "ByteElement" -> StoreByteElement(move)
      [] lv.kind = "Length" -> (IF move THEN Swap(1) ELSE Dup(2)) \o Routine("resizeDynamicArray", <<lv.array>>)
      [] lv.kind = "Tuple" -> StoreTuple(lv, source, height)
SetToZero(lv, height, remove) ==
    CASE lv.kind = "Stack" -> ZeroStackVariable(lv, height)
      [] lv.kind = "Memory" -> ZeroMemoryItem(lv.type, lv.padded, remove)
      [] lv.kind = "Storage" -> Routine("zeroStorageItem", <<lv.type, remove>>)
      [] lv.kind = "ByteElement" -> ZeroByteElement(remove)
      [] lv.kind = "Length" -> (IF remove THEN <<>> ELSE Dup(1)) \o Routine("clearDynamicArray", <<lv.array>>)
==============================================================================

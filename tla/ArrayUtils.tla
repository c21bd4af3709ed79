----------------------------- MODULE ArrayUtils ------------------------------
(****************************************************************************)
(* The code for arrays (libsolidity/codegen/ArrayUtils): element access,    *)
(* copies between storage, memory and call data, clearing and resizing.     *)
(*                                                                          *)
(* An array in storage keeps its length in its slot and its data at the     *)
(* hash of the slot; a byte array shorter than a word keeps both in the     *)
(* slot, its length doubled in the lowest byte (doubled plus one, and data  *)
(* at the hash, when it is longer).                                         *)
(****************************************************************************)
EXTENDS CompilerUtils

LowByte == 2^ByteBits - 1
HalfWord == WordBytes \div 2

\* ref [.. depth slots ..] -> ref [..] length
RetrieveLength(t, depth) ==
    IF ~IsDynamicallySized(t) THEN K(t.len)
    ELSE Dup(1 + depth)
         \o (CASE t.loc = "CallData" -> <<>>
               [] t.loc = "Memory" -> I("MLOAD")
               [] t.loc = "Storage" ->
                    I("SLOAD")
                    \o (IF IsByteArray(t)
                        THEN K(1) \o Dup(2) \o K(1) \o I("AND") \o I("ISZERO") \o K(LowByte + 1) \o I("MUL")
                             \o I("SUB") \o I("AND") \o K(2) \o Swap(1) \o I("DIV")
                        ELSE <<>>))
\* length -> number of slots in storage, of bytes elsewhere
ConvertLengthToSize(t, pad) ==
    CASE t.loc = "Storage" ->
           LET perSlot == WordBytes \div StorageBytes(t.base)
           IN  CASE StorageSize(t.base) > 1 -> K(StorageSize(t.base)) \o I("MUL")
                 [] StorageSize(t.base) <= 1 /\ StorageBytes(t.base) <= HalfWord ->
                      K(perSlot - 1) \o I("ADD") \o K(perSlot) \o Swap(1) \o I("DIV")
                 [] OTHER -> <<>>
      [] t.loc # "Storage" /\ ~IsByteArray(t) ->
           K(IF t.loc = "Memory" THEN MemoryHeadSize(t.base) ELSE CalldataEncodedSize(t.base, TRUE))
           \o I("MUL")
      [] t.loc # "Storage" /\ IsByteArray(t) /\ pad ->
           K(WordBytes - 1) \o I("ADD") \o K(WordBytes) \o Dup(1) \o Swap(2) \o I("DIV") \o I("MUL")
      [] OTHER -> <<>>

\* ref [length] index -> mempos, or slot byte_offset in storage
AccessIndex(t, check) ==
    LET size == StorageBytes(t.base)
        perSlot == WordBytes \div size
    IN  (IF check THEN Routine("retrieveLength", <<t, 1>>) \o Dup(2) \o I("LT") \o I("ISZERO") \o AppendConditionalInvalid
         ELSE <<>>)
        \o (IF t.loc = "CallData" /\ IsDynamicallySized(t) THEN Swap(1) \o Pop ELSE <<>>)
        \o Swap(1) \o
        IF t.loc # "Storage"
        THEN (IF t.loc = "Memory" /\ IsDynamicallySized(t) THEN K(WordBytes) \o I("ADD") ELSE <<>>)
             \o (IF IsByteArray(t) THEN <<>>
                 ELSE Swap(1)
                      \o K(IF t.loc = "CallData" THEN CalldataEncodedSize(t.base, TRUE) ELSE MemoryHeadSize(t))
                      \o I("MUL"))
             \o I("ADD")
        ELSE Scope(
             (IF IsByteArray(t)
              THEN Swap(1) \o Dup(2) \o I("SLOAD") \o K(1) \o I("AND") \o I("ISZERO") \o GoToIf("end") \o Swap(1)
              ELSE <<>>)
             \o (IF IsDynamicallySized(t) THEN ComputeHashStatic ELSE <<>>) \o Swap(1)
             \o (IF size <= HalfWord
                 THEN K(perSlot) \o Swap(2) \o Dup(3) \o Dup(3) \o I("DIV") \o I("ADD")
                      \o Swap(2) \o Swap(1) \o I("MOD")
                      \o (IF size # 1 THEN K(size) \o I("MUL") ELSE <<>>)
                 ELSE (IF StorageSize(t.base) # 1 THEN K(StorageSize(t.base)) \o I("MUL") ELSE <<>>)
                      \o I("ADD") \o K(0))
             \o Label("end"))

(* byteOffset += size, and on to the next slot if another element would not  *)
(* fit: X is 1 exactly then, and both are computed from it without a jump.   *)
IncrementByteOffset(size, bytePos, slotPos) ==
    LET Under(code) == IF bytePos > 1 THEN Swap(bytePos - 1) \o code \o Swap(bytePos - 1) ELSE code
    IN  Ensure(size < WordBytes) \o Under(K(size) \o I("ADD"))
        \o K(WordBytes) \o Dup(1 + bytePos) \o K(size - 1) \o I("ADD") \o I("DIV")
        \o Swap(slotPos) \o Dup(slotPos + 1) \o I("ADD") \o Swap(slotPos)
        \o K(1) \o I("SUB")
        \o (IF bytePos = 1 THEN I("MUL") ELSE Dup(bytePos + 1) \o I("MUL") \o Swap(bytePos) \o Pop)

------------------------------------------------------------------------------
(* Clearing and resizing.                                                   *)

\* end_pos pos -> end_pos
ClearStorageLoop(t) ==
    LowLevel(2, 1,
        IF t.cat = "Mapping" THEN Pop
        ELSE Loop(Dup(1) \o Dup(3) \o I("GT") \o I("ISZERO"),
                  K(0) \o Routine("zeroStorageItem", <<t, FALSE>>) \o Pop
                  \o K(StorageSize(t)) \o I("ADD"))
             \o Pop)
\* The loop runs over whole slots when several elements share one.
ClearSlots(t) ==
    ClearStorageLoop(IF IsByteArray(t) \/ StorageBytes(t.base) < WordBytes THEN Word ELSE t.base)

\* ref ->
ClearDynamicArray(t) ==
    Ensure(t.loc = "Storage" /\ IsDynamicallySized(t)) \o
    Scope(Routine("retrieveLength", <<t, 0>>) \o K(0) \o Dup(3) \o I("SSTORE")
        \o (IF IsByteArray(t)
            THEN Dup(1) \o K(WordBytes - 1) \o I("LT") \o GoToIf("longByteArray")
                 \o Pop \o GoTo("end") \o Adjust(1) \o Label("longByteArray")
            ELSE <<>>)
        \o Routine("convertLengthToSize", <<t, FALSE>>) \o Swap(1) \o ComputeHashStatic
        \o Swap(1) \o Dup(2) \o I("ADD") \o Swap(1) \o ClearSlots(t)
        \o Label("end") \o Pop)
\* ref byte_offset ->
ClearArray(t) ==
    LET value == IsValueType(t.base)
    IN  LowLevel(2, 0,
        Ensure(/\ t.loc = "Storage"
               /\ StorageBytes(t.base) < WordBytes => value /\ StorageSize(t.base) <= 1
               /\ value => StorageSize(t.base) <= 1)
        \o Pop \o
        CASE IsDynamicallySized(t) -> Routine("clearDynamicArray", <<t>>)
          [] ~t.dyn /\ (t.len = 0 \/ t.base.cat = "Mapping") -> Pop
          [] ~t.dyn /\ t.len > 0 /\ value /\ StorageSize(t) <= 5 ->
               Repeat(StorageSize(t) - 1, K(0) \o Dup(2) \o I("SSTORE") \o K(1) \o I("ADD"))
               \o K(0) \o Swap(1) \o I("SSTORE")
          [] ~t.dyn /\ t.len \in 1..4 /\ ~value /\ t.base.cat # "Mapping" ->
               Ensure(StorageBytes(t.base) >= WordBytes)
               \o Repeat(t.len - 1, K(0) \o Routine("zeroStorageItem", <<t.base, FALSE>>) \o Pop
                                   \o K(StorageSize(t.base)) \o I("ADD"))
               \o K(0) \o Routine("zeroStorageItem", <<t.base, TRUE>>)
          [] OTHER ->
               Dup(1) \o K(t.len) \o Routine("convertLengthToSize", <<t, FALSE>>) \o I("ADD") \o Swap(1)
               \o ClearStorageLoop(IF StorageBytes(t.base) < WordBytes THEN Word ELSE t.base) \o Pop)

\* ref new_length old_length -> the same when neither length is short
ResizeByteArray(t) ==
    LET IsLong(n) == Dup(n) \o K(WordBytes - 1) \o I("LT")
    IN  Dup(3) \o I("SLOAD")
        \o IsLong(2) \o GoToIf("currentIsLong")
        \o IsLong(3) \o GoToIf("newIsLong")
        \* short -> short: the bytes behind the new end are cleared
        \o Label("shortToShort")
        \o Dup(3) \o K(ByteBits) \o I("MUL") \o K(WordBits) \o I("SUB") \o K(2) \o I("EXP")
        \o Dup(1) \o Swap(2) \o I("DIV") \o I("MUL")
        \o Dup(3) \o Dup(1) \o I("ADD") \o I("OR") \o Dup(4) \o I("SSTORE")
        \o GoTo("resizeEnd") \o Adjust(1)
        \* short -> long: the data moves to its own slot
        \o Label("newIsLong")
        \o K(LowByte) \o I("NOT") \o I("AND") \o Dup(4) \o ComputeHashStatic \o I("SSTORE")
        \o Dup(2) \o Dup(1) \o I("ADD") \o K(1) \o I("ADD") \o Dup(4) \o I("SSTORE")
        \o GoTo("resizeEnd") \o Adjust(1)
        \o Label("currentIsLong")
        \o IsLong(3) \o GoToIf("regularPath")
        \* long -> short: the first word moves back, the data area is cleared
        \o Pop \o Dup(3) \o ComputeHashStatic \o Dup(1) \o I("SLOAD") \o Swap(1)
        \o Dup(3) \o Routine("convertLengthToSize", <<t, FALSE>>) \o Dup(2) \o I("ADD") \o Swap(1)
        \o ClearStorageLoop(Word) \o Pop
        \o GoTo("shortToShort")
        \o Label("regularPath") \o Pop
\* ref new_length ->
ResizeDynamicArray(t) ==
    LowLevel(2, 0,
        Ensure(t.loc = "Storage" /\ IsDynamicallySized(t)
               /\ (~IsByteArray(t) /\ StorageBytes(t.base) < WordBytes => IsValueType(t.base)))
        \o Routine("retrieveLength", <<t, 1>>)
        \o (IF IsByteArray(t) THEN ResizeByteArray(t) ELSE <<>>)
        \o Dup(2) \o (IF IsByteArray(t) THEN Dup(1) \o I("ADD") \o K(1) \o I("ADD") ELSE <<>>)
        \o Dup(4) \o I("SSTORE")
        \o Dup(2) \o Dup(2) \o I("GT") \o I("ISZERO") \o GoToIf("resizeEnd")
        \o Routine("convertLengthToSize", <<t, FALSE>>) \o Dup(2) \o Routine("convertLengthToSize", <<t, FALSE>>)
        \o Dup(4) \o ComputeHashStatic \o Swap(2) \o Dup(3) \o I("ADD") \o Swap(2) \o I("ADD")
        \o ClearSlots(t)
        \o Label("resizeEnd") \o Pop \o Pop \o Pop)
\* ref -> new_length
IncrementDynamicArraySize(t) ==
    Ensure(t.loc = "Storage" /\ IsDynamicallySized(t)) \o
    IF ~IsByteArray(t)
    THEN K(1) \o Dup(2) \o I("SLOAD") \o I("ADD") \o Dup(1) \o Dup(3) \o I("SSTORE") \o Swap(1) \o Pop
    ELSE Dup(1) \o I("SLOAD") \o K(2 * WordBytes - 1) \o Dup(2) \o I("AND")
         \* ref data shifted_length
         \o Dup(1) \o K(2 * (WordBytes - 1)) \o I("EQ")
         \o IfElse(
              K(2) \o Dup(3) \o I("ADD") \o Dup(4) \o I("SSTORE")
              \o Dup(2) \o K(1) \o I("AND") \o SkipIf(Dup(1) \o Swap(2) \o Pop)
              \o K(1) \o K(2) \o Dup(4) \o I("DIV") \o I("ADD") \o Swap(3) \o Pop,
              Dup(3) \o K(0) \o I("MSTORE") \o K(WordBytes) \o K(0) \o I("SHA3")
              \o K(LowByte) \o I("NOT") \o Dup(4) \o I("AND") \o Swap(1) \o I("SSTORE")
              \o K(2 * WordBytes + 1) \o Dup(4) \o I("SSTORE")
              \o K(WordBytes) \o Swap(3) \o Pop)
         \o Pop \o Pop

------------------------------------------------------------------------------
(* Copies.                                                                  *)

\* target source_offset [length] -> target'
CopyCalldataToMemory(t, baseSize) ==
    (IF IsDynamicallySized(t) THEN <<>> ELSE K(t.len))
    \o (IF baseSize > 1 THEN K(baseSize) \o I("MUL") ELSE <<>>)
    \o Dup(1) \o Dup(3) \o Dup(5) \o I("CALLDATACOPY") \o Dup(3) \o I("ADD") \o Swap(2) \o Pop \o Pop

\* an element that is on the stack is written to memory
StoreElement(t, pad) ==
    IF t.base.cat = "Array" THEN Routine("copyArrayToMemory", <<t.base, pad>>) ELSE Routine("storeInMemoryDynamic", <<t.base, TRUE>>)
\* target size -> the padded end, the bytes behind the data cleared
ClearPadding(t) ==
    Swap(1) \o Dup(2) \o I("ADD") \o Swap(1) \o K(WordBytes - 1) \o I("AND") \o
    Scope((IF IsDynamicallySized(t) THEN Dup(1) \o I("ISZERO") \o GoToIf("skip") ELSE <<>>)
        \o Dup(1) \o Dup(3) \o I("SUB") \o Dup(1) \o I("MLOAD")
        \o K(1) \o Dup(4) \o K(WordBytes) \o I("SUB") \o K(LowByte + 1) \o I("EXP") \o I("SUB")
        \o I("NOT") \o I("AND") \o Dup(2) \o I("MSTORE")
        \o K(WordBytes) \o I("ADD") \o Swap(2) \o Pop
        \o Label("skip") \o Pop)
CopyMemoryToMemory(t, baseSize, pad) ==
    LET padding == /\ pad
                   /\ IF IsDynamicallySized(t) THEN baseSize % WordBytes # 0
                      ELSE (t.len * baseSize) % WordBytes # 0
    IN  Routine("retrieveLength", <<t, 0>>) \o
        IF ~IsValueType(t.base)
        THEN K(0) \o Swap(3)
             \o Loop(Dup(2) \o Dup(5) \o I("LT") \o I("ISZERO"),
                     Dup(3) \o Dup(5) \o Routine("accessIndex", <<t, FALSE>>)
                     \o Routine("retrieveMemoryItem", <<t.base, TRUE, TRUE>>) \o StoreElement(t, pad)
                     \o Swap(3) \o K(1) \o I("ADD") \o Swap(3))
             \o Swap(3) \o PopStackSlots(3)
        ELSE (IF IsDynamicallySized(t) THEN Swap(1) \o K(WordBytes) \o I("ADD") \o Swap(1) ELSE <<>>)
             \o (IF baseSize > 1 THEN K(baseSize) \o I("MUL") ELSE <<>>)
             \o Dup(1) \o Dup(4) \o Dup(4)
             \o (IF baseSize % WordBytes = 0 \/ pad THEN MemoryCopy32 ELSE MemoryCopy)
             \o Swap(1) \o Pop
             \o (IF padding THEN ClearPadding(t) ELSE I("ADD"))
CopyStorageToMemory(t, baseSize, pad) ==
    LET bytes == StorageBytes(t.base)
        packed == ~IsByteArray(t) /\ bytes <= HalfWord
    IN  Scope(Routine("retrieveLength", <<t, 0>>) \o Dup(1) \o I("ISZERO") \o GoToIf("loopEnd")
        \o (IF IsByteArray(t)
            THEN Dup(1) \o K(WordBytes - 1) \o I("LT") \o GoToIf("longByteArray")
                 \o K(LowByte + 1) \o Dup(1) \o Dup(4) \o I("SLOAD") \o I("DIV") \o I("MUL")
                 \o Dup(4) \o I("MSTORE")
                 \o Swap(2) \o (IF pad THEN K(WordBytes) ELSE Dup(3)) \o I("ADD") \o Swap(2)
                 \o GoTo("loopEnd") \o Label("longByteArray")
            ELSE <<>>)
        \o (IF baseSize > 1 THEN K(baseSize) \o I("MUL") ELSE <<>>)
        \o Dup(3) \o I("ADD") \o Swap(2)
        \o (IF IsDynamicallySized(t) THEN Swap(1) \o ComputeHashStatic \o Swap(1) ELSE <<>>)
        \o (IF packed THEN K(0) \o Swap(1) ELSE <<>>)
        \* memory_end_offset storage_data_offset [storage_byte_offset] memory_offset
        \o RepeatWhile(
             (IF IsByteArray(t)
              THEN Dup(2) \o I("SLOAD") \o Dup(2) \o I("MSTORE")
                   \o Swap(1) \o K(1) \o I("ADD") \o Swap(1) \o K(WordBytes) \o I("ADD")
              ELSE (IF packed THEN Dup(3) \o Dup(3) ELSE Dup(2) \o K(0))
                   \o Routine("retrieveStorageItem", <<t.base, TRUE>>) \o StoreElement(t, pad)
                   \o (IF packed THEN IncrementByteOffset(bytes, 2, 3)
                       ELSE Swap(1) \o K(StorageSize(t.base)) \o I("ADD") \o Swap(1)))
             \o Dup(1) \o Dup(IF packed THEN 5 ELSE 4) \o I("GT"))
        \o (IF packed THEN Swap(1) \o Pop ELSE <<>>)
        \o (IF pad /\ baseSize % WordBytes # 0
            THEN Dup(3) \o Swap(1) \o I("SUB") \o K(WordBytes - 1) \o I("AND") \o Dup(3) \o I("ADD") \o Swap(2)
            ELSE <<>>)
        \o Label("loopEnd") \o Pop \o Pop)
\* target source [length] -> target'
CopyArrayToMemory(t, pad) ==
    LET baseSize == IF IsByteArray(t) THEN 1 ELSE CalldataEncodedSize(t.base, TRUE)
    IN  Unimplemented(~IsDynamicallySized(t.base)) \o Ensure(IsByteArray(t) \/ baseSize >= WordBytes) \o
        CASE t.loc = "CallData" -> CopyCalldataToMemory(t, baseSize)
          [] t.loc = "Memory" -> CopyMemoryToMemory(t, baseSize, pad)
          [] t.loc = "Storage" -> CopyStorageToMemory(t, baseSize, pad)

(* The body of the low-level function, on the stack                          *)
(* target_ref source_ref source_length -> target_ref.  What the target held  *)
(* behind the new end is cleared.                                            *)
CopyToStorageBody(target, source) ==
    LET targetBase == IF IsByteArray(target) THEN Word ELSE target.base
        sourceBase == IF IsByteArray(source) THEN Word ELSE source.base
        fromStorage == source.loc = "Storage"
        fromCalldata == source.loc = "CallData"
        direct == fromStorage /\ IsValueType(sourceBase) /\ sourceBase = targetBase
        sourceOffset == ~direct /\ fromStorage /\ StorageBytes(sourceBase) <= HalfWord
        targetOffset == ~direct /\ StorageBytes(targetBase) <= HalfWord
        offsets == (IF sourceOffset THEN 1 ELSE 0) + (IF targetOffset THEN 1 ELSE 0)
        size == SizeOnStack(sourceBase)
        step == CASE fromStorage -> StorageSize(sourceBase)
                  [] source.loc = "Memory" -> MemoryHeadSize(sourceBase)
                  [] OTHER -> CalldataEncodedSize(sourceBase, TRUE)
        ShortByteArray ==
            Dup(3) \o K(WordBytes - 1) \o I("LT") \o GoToIf("longByteArray")
            \o (IF fromStorage THEN Dup(1) \o I("SLOAD") \o Dup(6) \o I("SSTORE")
                ELSE Dup(1) \o Routine("loadFromMemoryDynamic", <<sourceBase, fromCalldata, TRUE, FALSE>>)
                     \o K(LowByte) \o I("NOT") \o I("AND") \o Dup(4) \o Dup(1) \o I("ADD")
                     \o I("OR") \o Dup(6) \o I("SSTORE"))
            \o GoTo("copyLoopEndWithoutByteOffset") \o Label("longByteArray")
            \o Dup(3) \o Dup(1) \o I("ADD") \o K(1) \o I("ADD") \o Dup(6) \o I("SSTORE")
        CopyElement ==
            CASE sourceBase.cat = "Array" ->
                   Ensure(offsets = 0) \o Dup(3)
                   \o (IF sourceBase.loc = "Memory" THEN I("MLOAD") ELSE <<>>)
                   \o Dup(3) \o Routine("copyArrayToStorage", <<targetBase, sourceBase>>) \o Pop
              [] direct -> Ensure(offsets = 0) \o Dup(3) \o I("SLOAD") \o Dup(3) \o I("SSTORE")
              [] OTHER ->
                   Dup(3 + offsets)
                   \o (CASE fromStorage -> (IF sourceOffset THEN Dup(2) ELSE K(0))
                                           \o Routine("retrieveStorageItem", <<sourceBase, TRUE>>)
                         [] ~fromStorage /\ IsValueType(sourceBase) ->
                              Routine("loadFromMemoryDynamic", <<sourceBase, fromCalldata, TRUE, FALSE>>)
                         [] OTHER -> I("UNIMPLEMENTED"))
                   \o Dup(2 + offsets + size) \o (IF targetOffset THEN Dup(1 + offsets + size) ELSE K(0))
                   \o Routine("storeStorageItem", <<targetBase, sourceBase, TRUE>>)
        NextTarget == IncrementByteOffset(StorageBytes(targetBase), offsets, offsets + 2)
        Advance ==
            (IF sourceOffset
             THEN IncrementByteOffset(StorageBytes(sourceBase), 1, IF targetOffset THEN 5 ELSE 4)
             ELSE Swap(2 + offsets) \o K(step) \o I("ADD") \o Swap(2 + offsets))
            \o (IF targetOffset THEN NextTarget
                ELSE Swap(1 + offsets) \o K(StorageSize(targetBase)) \o I("ADD") \o Swap(1 + offsets))
        ClearRestOfSlot ==
            Loop(Dup(offsets) \o I("ISZERO"),
                 Dup(2 + offsets) \o Dup(1 + offsets)
                 \o Routine("zeroStorageItem", <<targetBase, TRUE>>) \o NextTarget)
            \o Pop
    IN  Dup(3) \o Routine("retrieveLength", <<target, 0>>)
        \o (IF IsDynamicallySized(target) /\ ~IsByteArray(target)
            THEN Dup(3) \o Dup(3) \o I("SSTORE") ELSE <<>>) \o
        IF sourceBase.cat = "Mapping"
        THEN Ensure(targetBase.cat = "Mapping" /\ fromStorage) \o PopStackSlots(4)
        ELSE Swap(1) \o (IF IsDynamicallySized(target) THEN ComputeHashStatic ELSE <<>>)
             \o Swap(1) \o Routine("convertLengthToSize", <<target, FALSE>>) \o Dup(2) \o I("ADD") \o Swap(3)
             \* target_ref target_data_end source_length target_data_pos source_ref
             \o (IF IsByteArray(target) THEN ShortByteArray ELSE <<>>)
             \o Dup(3) \o I("ISZERO") \o GoToIf("copyLoopEndWithoutByteOffset")
             \o (IF fromStorage /\ IsDynamicallySized(source) THEN ComputeHashStatic ELSE <<>>)
             \o Swap(2) \o Routine("convertLengthToSize", <<source, FALSE>>) \o Dup(3) \o I("ADD")
             \o Repeat(offsets, K(0))
             \o Loop(Dup(3 + offsets) \o Dup(2 + offsets) \o I("GT") \o I("ISZERO"), CopyElement \o Advance)
             \o (IF targetOffset THEN ClearRestOfSlot ELSE <<>>)
             \o (IF sourceOffset THEN Pop ELSE <<>>)
             \o Label("copyLoopEndWithoutByteOffset")
             \o Pop \o Swap(1) \o Pop
             \o ClearStorageLoop(targetBase) \o Pop
\* source_ref [source_length] target_ref -> target_ref
CopyArrayToStorage(target, source) ==
    Ensure(target.loc = "Storage") \o MoveIntoStack(SizeOnStack(source), 1)
    \o (IF source.loc # "CallData" \/ ~IsDynamicallySized(source) THEN Routine("retrieveLength", <<source, 0>>) ELSE <<>>)
    \o (IF source.loc = "Memory" /\ IsDynamicallySized(source)
        THEN Swap(1) \o K(WordBytes) \o I("ADD") \o Swap(1) ELSE <<>>)
    \o LowLevel(3, 1, CopyToStorageBody(target, source))
==============================================================================

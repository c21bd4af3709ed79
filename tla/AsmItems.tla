------------------------------ MODULE AsmItems ------------------------------
(***************************************************************************)
(* Assembly items and what libevmasm knows about EVM instructions          *)
(* (AssemblyItem.h, AssemblyItem.cpp, Instruction.cpp,                     *)
(* SemanticInformation.cpp, JumpdestRemover.cpp).  One instruction stands  *)
(* for each group that the optimiser treats alike.                         *)
(***************************************************************************)
EXTENDS Integers, Sequences, FiniteSets, SequencesExt, FiniteSetsExt

CONSTANTS
  ByteBits,     \* bits of a byte (8 in the code)
  WordBytes,    \* bytes of a word (32 in the code)
  AddressBytes  \* bytes of an address (20 in the code)

ASSUME ItemsAssumption == {ByteBits, WordBytes, AddressBytes} \subseteq Nat \ {0}

ByteBase == 2 ^ ByteBits
WordSize == ByteBase ^ WordBytes   \* words are 0 .. WordSize - 1

\* The sub-assembly id of a tag of the assembly itself: size_t(-1) in the code.
NoSub == -1

\* data is the pushed value, the tag, or the id of the sub-assembly or data item.
Item(type, instruction, sub, data) ==
  [type |-> type, instruction |-> instruction, sub |-> sub, data |-> data]

Operation(i)    == Item("Operation", i, NoSub, 0)
Push(n)         == Item("Push", "none", NoSub, n)
PushTag(s, t)   == Item("PushTag", "none", s, t)
Tag(t)          == Item("Tag", "none", NoSub, t)
PushOther(k, d) == Item(k, "none", NoSub, d)

\* The remaining item types that push something.
OtherPushes == {"PushString", "PushSub", "PushSubSize", "PushProgramSize", "PushData",
                "PushLibraryAddress", "PushDeployTimeAddress"}

Is(item, i) == item.type = "Operation" /\ item.instruction = i

-----------------------------------------------------------------------------
Effect(args, ret, sideEffects) == [args |-> args, ret |-> ret, sideEffects |-> sideEffects]

\* The instructions that reach into the stack: four of each (16 in the code).
Dups  == <<"DUP1", "DUP2", "DUP3", "DUP4">>
Swaps == <<"SWAP1", "SWAP2", "SWAP3", "SWAP4">>

IndexOf(s, x) == CHOOSE k \in DOMAIN s : s[k] = x

\* c_instructionInfo
InstructionInfo ==
  [i \in {"ADD", "AND", "EQ", "LT", "GT", "SLT", "SGT", "SUB", "MUL", "DIV", "SDIV", "MOD", "SMOD",
          "EXP", "OR", "XOR", "BYTE", "SIGNEXTEND", "SHL", "SHR"} |-> Effect(2, 1, FALSE)]
  @@ [i \in {"NOT", "ISZERO", "CALLDATALOAD"} |-> Effect(1, 1, FALSE)]
  @@ [i \in {"ADDMOD", "MULMOD"} |-> Effect(3, 1, FALSE)]
  @@ [i \in {"CALLER", "MSIZE", "GAS"} |-> Effect(0, 1, FALSE)]
  @@ ("KECCAK256" :> Effect(2, 1, TRUE))
  @@ ("MLOAD"  :> Effect(1, 1, TRUE))
  @@ [i \in {"MSTORE", "MSTORE8"} |-> Effect(2, 0, TRUE)]
  @@ ("CODECOPY" :> Effect(3, 0, TRUE))
  @@ ("SLOAD"  :> Effect(1, 1, FALSE))
  @@ ("SSTORE" :> Effect(2, 0, TRUE))
  @@ ("POP"    :> Effect(1, 0, FALSE))
  @@ [i \in Range(Dups)  |-> Effect(IndexOf(Dups, i), IndexOf(Dups, i) + 1, FALSE)]
  @@ [i \in Range(Swaps) |-> Effect(IndexOf(Swaps, i) + 1, IndexOf(Swaps, i) + 1, FALSE)]
  @@ ("JUMP"   :> Effect(1, 0, TRUE))
  @@ ("JUMPI"  :> Effect(2, 0, TRUE))
  @@ ("STOP"   :> Effect(0, 0, TRUE))
  @@ ("INVALID" :> Effect(0, 0, TRUE))
  @@ ("SELFDESTRUCT" :> Effect(1, 0, TRUE))
  @@ [i \in {"RETURN", "REVERT"} |-> Effect(2, 0, TRUE)]

Instructions == DOMAIN InstructionInfo

IsDupInstruction(item)  == item.type = "Operation" /\ item.instruction \in Range(Dups)
IsSwapInstruction(item) == item.type = "Operation" /\ item.instruction \in Range(Swaps)

IsCommutativeOperation(item) ==
  item.type = "Operation" /\ item.instruction \in {"ADD", "MUL", "EQ", "AND", "OR", "XOR"}

AltersControlFlow(item) ==
  /\ item.type = "Operation"
  /\ item.instruction \in {"JUMP", "JUMPI", "RETURN", "SELFDESTRUCT", "STOP", "INVALID", "REVERT"}

\* AssemblyItem::deposit: how the item changes the stack height.
Deposit(item) ==
  CASE item.type = "Operation" -> InstructionInfo[item.instruction].ret
                                    - InstructionInfo[item.instruction].args
    [] item.type = "Tag"       -> 0
    [] OTHER                   -> 1

\* SemanticInformation::isDeterministic
IsDeterministic(item) == ~(item.type = "Operation" /\ item.instruction \in {"GAS", "MSIZE"})

\* SemanticInformation::invalidatesMemory; nothing else invalidates storage but SSTORE.
InvalidatesMemory(i) == i \in {"CODECOPY", "MSTORE", "MSTORE8"}
InvalidatesStorage(i) == i = "SSTORE"

\* SemanticInformation::breaksCSEAnalysisBlock
BreaksCSEAnalysisBlock(item, msizeImportant) ==
  LET i == item.instruction
      info == InstructionInfo[i] IN
  CASE item.type = "Operation" ->
         /\ ~IsDupInstruction(item) /\ ~IsSwapInstruction(item)
         /\ \/ i \in {"GAS", "MSIZE"}
            \/ /\ i \notin {"SSTORE", "MSTORE"}
               /\ ~(~msizeImportant /\ i \in {"MLOAD", "KECCAK256"})
               /\ info.sideEffects \/ info.args > 2
    [] OTHER -> item.type \in {"Tag", "PushDeployTimeAddress", "Undefined"}

-----------------------------------------------------------------------------
\* dev::bytesRequired: the number of bytes of n, none for 0.
BytesOf[n \in Nat] == IF n = 0 THEN 0 ELSE 1 + BytesOf[n \div ByteBase]

\* AssemblyItem::bytesRequired
ItemBytes(item, addressLength) ==
  CASE item.type \in {"Operation", "Tag"} -> 1
    [] item.type = "PushString" -> 1 + 32
    [] item.type = "Push" -> 1 + Max({1, BytesOf[item.data]})
    [] item.type \in {"PushSubSize", "PushProgramSize"} -> 1 + 4
    [] item.type \in {"PushTag", "PushData", "PushSub"} -> 1 + addressLength
    [] OTHER -> 1 + 20

\* The sum of a sequence of sizes.
Total(sizes) ==
  LET upTo[i \in 0 .. Len(sizes)] == IF i = 0 THEN 0 ELSE upTo[i - 1] + sizes[i]
  IN  upTo[Len(sizes)]

\* eth::bytesRequired(AssemblyItems)
BytesRequired(items, addressLength) ==
  Total([i \in 1 .. Len(items) |-> ItemBytes(items[i], addressLength)])

-----------------------------------------------------------------------------
\* JumpdestRemover::referencedTags: tags of sub-assembly s that are pushed.
ReferencedTags(items, s) ==
  {items[i].data : i \in {j \in DOMAIN items : items[j].type = "PushTag" /\ items[j].sub = s}}

\* Tags the items define.
Labels(items) == {items[i].data : i \in {j \in DOMAIN items : items[j].type = "Tag"}}

\* Mutant: tags that only a super-assembly refers to are not kept.
JumpdestRemoverLocal(items, outside) ==
  SelectSeq(items, LAMBDA item : item.type = "Tag" => item.data \in ReferencedTags(items, NoSub))

\* JumpdestRemover::optimise: what is left of the items.
JumpdestRemover(items, outside) ==
  LET references == ReferencedTags(items, NoSub) \cup outside IN
  SelectSeq(items, LAMBDA item : item.type = "Tag" => item.data \in references)

-----------------------------------------------------------------------------
(***************************************************************************)
(* PeepholeOptimiser (libevmasm/PeepholeOptimiser.cpp): rules that look at *)
(* a window of up to three items (UnreachableCode: at everything up to the *)
(* next tag), tried in a fixed order at each position of the program.      *)
(***************************************************************************)
\* A rule applied at a position consumes width items and emits out; width 0: no match.
NoMatch == [width |-> 0, out |-> <<>>]
Rewrite(condition, width, out) == IF condition THEN [width |-> width, out |-> out] ELSE NoMatch

\* The item at i; behind the end, one that no rule matches.
At(items, i) == IF i \in DOMAIN items THEN items[i] ELSE PushOther("End", 0)

Copies(item, n) == [j \in 1 .. n |-> item]

PushPop(items, i) ==
  LET push == At(items, i) IN
  Rewrite(/\ Is(At(items, i + 1), "POP")
          /\ \/ IsDupInstruction(push)
             \/ push.type \in {"Push", "PushTag"} \cup (OtherPushes \ {"PushDeployTimeAddress"}),
          2, <<>>)

OpPop(items, i) ==
  LET op == At(items, i)
      info == InstructionInfo[op.instruction] IN
  Rewrite(/\ Is(At(items, i + 1), "POP") /\ op.type = "Operation"
          /\ info.ret = 1 /\ ~info.sideEffects,
          2, Copies(Operation("POP"), info.args))

DoublePush(items, i) ==
  LET push1 == At(items, i)
      push2 == At(items, i + 1) IN
  Rewrite(push1.type = "Push" /\ push2.type = "Push" /\ push1.data = push2.data,
          2, <<push1, Operation("DUP1")>>)

DoubleSwap(items, i) ==
  Rewrite(IsSwapInstruction(At(items, i)) /\ At(items, i) = At(items, i + 1), 2, <<>>)

CommutativeSwap(items, i) ==
  Rewrite(Is(At(items, i), "SWAP1") /\ IsCommutativeOperation(At(items, i + 1)),
          2, <<At(items, i + 1)>>)

SwappableOps == [LT |-> "GT", GT |-> "LT", SLT |-> "SGT", SGT |-> "SLT"]

SwapComparison(items, i) ==
  LET op == At(items, i + 1) IN
  Rewrite(/\ Is(At(items, i), "SWAP1")
          /\ op.type = "Operation" /\ op.instruction \in DOMAIN SwappableOps,
          2, <<Operation(SwappableOps[op.instruction])>>)

JumpToNext(items, i) ==
  LET jump == At(items, i + 1)
      tag  == At(items, i + 2) IN
  Rewrite(/\ At(items, i).type = "PushTag" /\ tag.type = "Tag"
          /\ Is(jump, "JUMP") \/ Is(jump, "JUMPI")
          /\ At(items, i).sub = tag.sub /\ At(items, i).data = tag.data,
          3, IF Is(jump, "JUMPI") THEN <<Operation("POP"), tag>> ELSE <<tag>>)

\* Removes everything after a JUMP (or similar) until the next JUMPDEST.
UnreachableCode(items, i) ==
  LET end == CHOOSE j \in i + 1 .. Len(items) + 1 :
               /\ j = Len(items) + 1 \/ items[j].type = "Tag"
               /\ \A k \in i + 1 .. j - 1 : items[k].type # "Tag" IN
  Rewrite(/\ AltersControlFlow(At(items, i)) /\ ~Is(At(items, i), "JUMPI")
          /\ end > i + 1,
          end - i, <<items[i]>>)

\* A tag fits in 32 bits: a mask that has all of those set does not change it.
TagMask == WordSize - 1

TagConjunctions(items, i) ==
  LET mask == At(items, i + 1) IN
  Rewrite(/\ At(items, i).type = "PushTag"
          /\ Is(At(items, i + 2), "AND")
          /\ mask.type = "Push" /\ mask.data = TagMask,
          3, <<At(items, i)>>)

Identity(items, i) == Rewrite(TRUE, 1, <<items[i]>>)

\* applyMethods: the first rule that matches.
ApplyMethods(items, i) ==
  LET results == <<PushPop(items, i), OpPop(items, i), DoublePush(items, i),
                   DoubleSwap(items, i), CommutativeSwap(items, i), SwapComparison(items, i),
                   JumpToNext(items, i), UnreachableCode(items, i),
                   TagConjunctions(items, i), Identity(items, i)>> IN
  results[Min({r \in DOMAIN results : results[r].width > 0})]

\* One pass over the program.
OptimisedItems(items) ==
  LET from[i \in 1 .. Len(items) + 1] ==
        IF i > Len(items) THEN <<>>
        ELSE LET result == ApplyMethods(items, i) IN result.out \o from[i + result.width]
  IN from[1]

NumberOfPops(items) == Cardinality({i \in DOMAIN items : Is(items[i], "POP")})

\* Mutant: a pass that gains nothing is kept as well.
IsBetterOrEqual(new, old) == Len(new) <= Len(old)

\* optimise() keeps what a pass made of the program only if it is an improvement.
IsBetter(new, old) ==
  \/ Len(new) < Len(old)
  \/ /\ Len(new) = Len(old)
     /\ \/ BytesRequired(new, 3) < BytesRequired(old, 3)
        \/ NumberOfPops(new) > NumberOfPops(old)
=============================================================================

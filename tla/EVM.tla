--------------------------------- MODULE EVM ---------------------------------
(***************************************************************************)
(* What a sequence of assembly items does when the EVM runs it: the        *)
(* reference the optimiser is compared with.  The EVM is not part of the   *)
(* repository.  A tag is kept apart from words, because its value is only  *)
(* known after assembly: a program that computes with a tag (other than to *)
(* mask it with all of its bits) has no defined meaning here.  The program *)
(* counter is not observed.                                                *)
(***************************************************************************)
EXTENDS ConstantOptimiser

CONSTANT MemoryBytes   \* bytes of memory the machine can afford

ASSUME MachineAssumption == MemoryBytes \in Nat

Words == 0 .. WordSize - 1

Word(n)     == [kind |-> "word", value |-> n]
TagValue(t) == [kind |-> "tag", value |-> t]
DataRef(d)  == [kind |-> "data", value |-> d]

\* The first operand is the topmost word of the stack.
Signed(n) == IF 2 * n >= WordSize THEN n - WordSize ELSE n
Truth(b)  == IF b THEN 1 ELSE 0
Magnitude(n) == IF Signed(n) < 0 THEN -Signed(n) ELSE Signed(n)
Sign(n) == IF Signed(n) < 0 THEN -1 ELSE 1

Extended(n, bits) == IF 2 * n >= 2 ^ bits THEN n + WordSize - 2 ^ bits ELSE n

Compute(i, x) ==
  CASE i = "ADD" -> (x[1] + x[2]) % WordSize
    [] i = "SUB" -> (x[1] - x[2]) % WordSize
    [] i = "MUL" -> (x[1] * x[2]) % WordSize
    [] i = "DIV" -> IF x[2] = 0 THEN 0 ELSE x[1] \div x[2]
    [] i = "MOD" -> IF x[2] = 0 THEN 0 ELSE x[1] % x[2]
    [] i = "SDIV" -> IF x[2] = 0 THEN 0
                     ELSE (Sign(x[1]) * Sign(x[2]) * (Magnitude(x[1]) \div Magnitude(x[2]))) % WordSize
    [] i = "SMOD" -> IF x[2] = 0 THEN 0
                     ELSE (Sign(x[1]) * (Magnitude(x[1]) % Magnitude(x[2]))) % WordSize
    [] i = "EXP" -> FoldLeft(LAMBDA p, k : (p * x[1]) % WordSize, 1, [k \in 1 .. x[2] |-> k])
    [] i = "NOT" -> WordSize - 1 - x[1]
    [] i = "ISZERO" -> Truth(x[1] = 0)
    [] i = "AND" -> x[1] & x[2]
    [] i = "OR"  -> x[1] | x[2]
    [] i = "XOR" -> x[1] ^^ x[2]
    [] i = "BYTE" -> IF x[1] < WordBytes THEN BytesOfWord(x[2])[x[1] + 1] ELSE 0
    [] i = "SIGNEXTEND" -> IF x[1] >= WordBytes THEN x[2]
                           ELSE Extended(x[2] % ByteBase ^ (x[1] + 1), (x[1] + 1) * ByteBits)
    [] i = "SHL" -> IF x[1] >= WordBits THEN 0 ELSE (x[2] * 2 ^ x[1]) % WordSize
    [] i = "SHR" -> IF x[1] >= WordBits THEN 0 ELSE x[2] \div 2 ^ x[1]
    [] i = "EQ"  -> Truth(x[1] = x[2])
    [] i = "LT"  -> Truth(x[1] < x[2])
    [] i = "GT"  -> Truth(x[1] > x[2])
    [] i = "SLT" -> Truth(Signed(x[1]) < Signed(x[2]))
    [] i = "SGT" -> Truth(Signed(x[1]) > Signed(x[2]))
    [] i = "ADDMOD" -> IF x[3] = 0 THEN 0 ELSE (x[1] + x[2]) % x[3]
    [] i = "MULMOD" -> IF x[3] = 0 THEN 0 ELSE (x[1] * x[2]) % x[3]
    [] i = "CALLER" -> ByteBase ^ AddressBytes - 2
    [] i = "CALLDATALOAD" -> (3 * x[1] + 1) % WordSize

\* A machine about to execute items[pc]; the head of the stack is its top.
\* Storage holds what is not zero; size: bytes of memory in use; gas: gas used.
Machine(pc, stack) ==
  [status |-> "run", pc |-> pc, stack |-> stack, storage |-> Nothing,
   memory |-> [b \in 0 .. MemoryBytes - 1 |-> 0], size |-> 0, gas |-> 0, result |-> <<>>]

Halt(m, status, result) == [m EXCEPT !.status = status, !.result = result]

\* Continue behind the current item with n stack elements replaced by new ones.
Advance(m, n, new) ==
  [m EXCEPT !.pc = @ + 1, !.stack = new \o SubSeq(@, n + 1, Len(@))]

Jump(items, m, n, target) ==
  LET at == {j \in DOMAIN items : items[j] = Tag(target.value)} IN
  IF target.kind # "tag" \/ at = {} THEN Halt(m, "badJump", <<>>)
  ELSE [Advance(m, n, <<>>) EXCEPT !.pc = CHOOSE j \in at : TRUE]

\* Mask a tag with all ones: the one computation on tags that is defined.
MasksTag(i, x) ==
  i = "AND" /\ \E k \in 1 .. 2 : x[k].kind = "tag" /\ x[3 - k] = Word(WordSize - 1)

-----------------------------------------------------------------------------
\* The bytes of memory an instruction touches: the first and their number.
Touched(i, v) ==
  CASE i \in {"MLOAD", "MSTORE"} -> <<v[1], WordBytes>>
    [] i = "MSTORE8" -> <<v[1], 1>>
    [] i \in {"KECCAK256", "RETURN", "REVERT"} -> <<v[1], v[2]>>
    [] i = "CODECOPY" -> <<v[1], v[3]>>
    [] OTHER -> <<0, 0>>

Affordable(t) == t[2] = 0 \/ t[1] + t[2] <= MemoryBytes
WordsFor(n) == (n + WordBytes - 1) \div WordBytes
Grown(size, t) == IF t[2] = 0 THEN size ELSE Max({size, WordsFor(t[1] + t[2]) * WordBytes})
SizeGas(size) == LET w == size \div WordBytes IN MemoryGas * w + (w * w) \div QuadCoeffDiv

Slice(m, t) == [j \in 1 .. t[2] |-> m.memory[t[1] + j - 1]]
WordAt(m, p) == FoldLeft(LAMBDA w, b : w * ByteBase + b, 0, Slice(m, <<p, WordBytes>>))
Written(m, p, bytes) ==
  [m EXCEPT !.memory = [b \in DOMAIN @ |-> IF b \in p .. p + Len(bytes) - 1 THEN bytes[b - p + 1] ELSE @[b]]]

StorageAt(m, slot) == IF slot \in DOMAIN m.storage THEN m.storage[slot] ELSE 0
Stored(m, slot, v) ==
  [m EXCEPT !.storage = IF v = 0 THEN Without(@, {slot}) ELSE With(@, slot, v)]

\* What an instruction costs: the prices of the EVM, with the machine's own knowledge.
Cost(m, i, v) ==
  LET t == Touched(i, v) IN
  (CASE i = "SSTORE" -> IF StorageAt(m, v[1]) = 0 /\ v[2] # 0 THEN SstoreSetGas ELSE SstoreResetGas
     [] i = "SLOAD" -> SloadGas
     [] i = "EXP" -> ExpGas + ExpByteGas * BytesOf[v[2]]
     [] i = "KECCAK256" -> Keccak256Gas + Keccak256WordGas * WordsFor(v[2])
     [] i = "CODECOPY" -> RunGas(i) + CopyGas * WordsFor(v[3])
     [] i = "SELFDESTRUCT" -> SelfdestructGas
     [] OTHER -> RunGas(i))
  + SizeGas(Grown(m.size, t)) - SizeGas(m.size)

\* An instruction on words, after its gas was paid.
OperateOnWords(m, i, v) ==
  LET n == InstructionInfo[i].args
      t == Touched(i, v) IN
  CASE i = "SLOAD"  -> Advance(m, 1, <<Word(StorageAt(m, v[1]))>>)
    [] i = "SSTORE" -> Advance(Stored(m, v[1], v[2]), 2, <<>>)
    [] i = "MLOAD"  -> Advance(m, 1, <<Word(WordAt(m, v[1]))>>)
    [] i = "MSTORE" -> Advance(Written(m, v[1], BytesOfWord(v[2])), 2, <<>>)
    [] i = "MSTORE8" -> Advance(Written(m, v[1], <<v[2] % ByteBase>>), 2, <<>>)
    [] i = "KECCAK256" -> Advance(m, 2, <<Word(Keccak256(Slice(m, t)))>>)
    [] i = "MSIZE"  -> Advance(m, 0, <<Word(m.size % WordSize)>>)
    [] i \in {"RETURN", "REVERT"} -> Halt(m, IF i = "RETURN" /\ t[2] = 0 THEN "STOP" ELSE i, Slice(m, t))
    [] i = "SELFDESTRUCT" -> Halt(m, i, v)
    [] OTHER -> Advance(m, n, <<Word(Compute(i, v))>>)

Operate(items, old, i) ==
  LET n == InstructionInfo[i].args
      x == SubSeq(old.stack, 1, n)
      values == [k \in DOMAIN x |-> x[k].value]
      plain == \A k \in DOMAIN x : x[k].kind = "word"
      copies == i = "CODECOPY" /\ x[2].kind = "data" /\ x[1].kind = "word" /\ x[3] = Word(WordBytes)
      m == [old EXCEPT !.gas = @ + RunGas(i)]
      paid == [old EXCEPT !.gas = @ + Cost(old, i, values), !.size = Grown(@, Touched(i, values))] IN
  CASE Len(old.stack) < n -> Halt(old, "underflow", <<>>)
    [] i = "POP"   -> Advance(m, 1, <<>>)
    [] i \in Range(Dups)  -> Advance(m, 0, <<x[n]>>)
    [] i \in Range(Swaps) -> Advance(m, n, <<x[n]>> \o SubSeq(x, 2, n - 1) \o <<x[1]>>)
    [] i = "JUMP"  -> Jump(items, m, 1, x[1])
    [] i = "JUMPI" -> IF x[2] = Word(0) THEN Advance(m, 2, <<>>) ELSE Jump(items, m, 2, x[1])
    [] i \in {"STOP", "INVALID"} -> Halt(m, i, <<>>)
    [] MasksTag(i, x) -> Advance(m, 2, SelectSeq(x, LAMBDA v : v.kind = "tag"))
    [] copies /\ Affordable(<<values[1], WordBytes>>) ->
         Advance(Written(paid, values[1], BytesOfWord(values[2])), 3, <<>>)
    [] ~plain \/ i \in {"GAS", "CODECOPY"} \/ ~Affordable(Touched(i, values)) -> Halt(old, "undefined", <<>>)
    [] OTHER -> OperateOnWords(paid, i, values)

Execute(items, m) ==
  IF m.pc > Len(items) THEN Halt(m, "end", m.stack)
  ELSE LET item == items[m.pc]
           p == [m EXCEPT !.gas = @ + RunGas("PUSH1")] IN
       CASE item.type = "Operation" -> Operate(items, m, item.instruction)
         [] item.type = "Push"      -> Advance(p, 0, <<Word(item.data)>>)
         [] item.type = "PushTag" /\ item.sub = NoSub -> Advance(p, 0, <<TagValue(item.data)>>)
         [] item.type = "PushData"  -> Advance(p, 0, <<DataRef(item.data)>>)
         [] item.type = "Tag"       -> Advance([m EXCEPT !.gas = @ + JumpdestGas], 0, <<>>)
         [] OTHER                   -> Halt(m, "undefined", <<>>)

\* The machine after at most fuel steps.
Run(items, m, fuel) ==
  LET after[k \in 0 .. fuel] ==
        IF k = 0 THEN m
        ELSE LET n == after[k - 1] IN IF n.status = "run" THEN Execute(items, n) ELSE n
  IN after[fuel]

\* Storage changes survive only some ways to end; a tag is just a tag.
Outcome(m) ==
  [status  |-> m.status,
   storage |-> IF m.status \in {"end", "STOP", "RETURN", "SELFDESTRUCT"} THEN m.storage ELSE Nothing,
   memory  |-> IF m.status = "end" THEN m.memory ELSE Nothing,
   result  |-> IF m.status # "end" THEN m.result
               ELSE [k \in DOMAIN m.result |-> IF m.result[k].kind = "tag" THEN TagValue(0) ELSE m.result[k]]]

(***************************************************************************)
(* new, entered at newPc, does what old does when entered at oldPc, on     *)
(* every stack in stacks on which old has a meaning and ends in time.      *)
(***************************************************************************)
SameBehaviour(old, oldPc, new, newPc, stacks, fuel) ==
  \A stack \in stacks :
    LET was == Run(old, Machine(oldPc, stack), fuel) IN
    was.status \notin {"run", "underflow", "undefined"} =>
      Outcome(Run(new, Machine(newPc, stack), 6 * fuel)) = Outcome(was)
=============================================================================

------------------------------ MODULE StackCode ------------------------------
(****************************************************************************)
(* The code the generator appends (libsolidity/codegen/CompilerContext) and *)
(* a machine that runs it.                                                  *)
(*                                                                          *)
(* Code is a tree of nodes.  A leaf <<op, n>> is an instruction, an inner   *)
(* node stands for the tags and jumps of one pattern of the generator:      *)
(* SkipIf for appendConditionalJump, Loop for a loop with a tag at its      *)
(* start and one at its end, Scope, Label and GoTo for other patterns of    *)
(* jumps, LowLevel for callLowLevelFunction, Routine for a call of a        *)
(* generator function of another component.                                 *)
(*                                                                          *)
(* The machine is the one the code is made for, with small words (Types).   *)
(* Negative numbers on the stack mark what the code must leave alone.       *)
(****************************************************************************)
EXTENDS Types

CONSTANT MemoryBytes       \* size of the memory of an instance

I(op) == <<<<op, 0>>>>
N(op, n) == <<<<op, n>>>>
K(v) == N("PUSH", v % WordSize)
Dup(n) == IF n \in 1..16 THEN N("DUP", n) ELSE I("TOODEEP")
Swap(n) == IF n \in 1..16 THEN N("SWAP", n) ELSE I("TOODEEP")
Pop == I("POP")
RECURSIVE Joined(_, _, _)
Joined(codes, from, to) ==
    IF from > to THEN <<>>
    ELSE IF from = to THEN codes[from]
    ELSE LET middle == (from + to) \div 2 IN Joined(codes, from, middle) \o Joined(codes, middle + 1, to)
All(codes) == Joined(codes, 1, Len(codes))
Repeat(n, code) == All([i \in 1..n |-> code])
\* solAssert and solUnimplementedAssert: what they guard against shows in the code
Ensure(holds) == IF holds THEN <<>> ELSE I("ASSERT")
Unimplemented(holds) == IF holds THEN <<>> ELSE I("UNIMPLEMENTED")
\* Mutant: the count of the other branch is not undone.
AdjustForgotten(n) == <<>>
\* adjustStackOffset
Adjust(n) == N("ADJUST", n)

SkipIf(body) == <<<<"SkipIf", body>>>>
SkipUnless(body) == I("ISZERO") \o SkipIf(body)
IfElse(skipped, body) == <<<<"IfElse", skipped, body>>>>
Loop(test, body) == <<<<"Loop", test, body>>>>
RepeatWhile(body) == <<<<"RepeatWhile", body>>>>
Scope(body) == <<<<"Scope", body>>>>
Label(name) == N("TAG", name)
GoTo(name) == N("GOTO", name)
GoToIf(name) == N("GOTOIF", name)
LowLevel(inArgs, outArgs, body) == <<<<"LowLevel", inArgs, outArgs, body>>>>
Routine(name, args) == <<<<"Routine", name, args>>>>

AppendRevert == K(0) \o K(0) \o I("REVERT")
AppendConditionalInvalid == I("ISZERO") \o SkipIf(I("INVALID"))
\* an inline assembly block on a copy of the condition
AppendConditionalRevert == Dup(1) \o SkipUnless(AppendRevert) \o Pop
\* inline assembly: if <condition> { revert(0, 0) }
RevertIf(condition) == condition \o SkipUnless(AppendRevert)

------------------------------------------------------------------------------
(* The height of the stack as the generator counts it, instruction by       *)
(* instruction in the order of the code.                                    *)

Binary == {"ADD", "SUB", "MUL", "DIV", "SDIV", "MOD", "SMOD", "EXP", "AND", "OR", "XOR", "LT",
           "GT", "SLT", "SGT", "EQ", "SIGNEXTEND", "BYTE", "SHL", "SHR", "SHA3"}
Unary == {"NOT", "ISZERO", "MLOAD", "SLOAD", "CALLDATALOAD"}
Sources == {"PUSH", "DUP", "PUSHTAG", "CALLDATASIZE", "CODESIZE", "ADDRESS", "CALLER", "GAS",
            "CALLVALUE", "MSIZE", "RETURNDATASIZE"}
Deposit(ins) ==
    LET op == ins[1]
    IN  CASE op \in Sources -> 1
          [] op \in Binary \cup {"POP", "JUMPI", "GOTOIF", "JUMPDYN"} -> -1
          [] op \in {"MSTORE", "MSTORE8", "SSTORE", "REVERT", "RETURN"} -> -2
          [] op \in {"CALLDATACOPY", "CODECOPY", "RETURNDATACOPY"} -> -3
          [] op = "CREATE" -> -2
          [] op = "CALL" -> -6
          [] op \in {"DELEGATECALL", "STATICCALL"} -> -5
          [] op \in {"ADJUST", "LOG"} -> IF op = "ADJUST" THEN ins[2] ELSE -(ins[2] + 2)
          [] OTHER -> 0
RECURSIVE HeightsWithin(_, _, _, _)
\* the heights after each of the instructions from one place to another
HeightsWithin(code, from, to, start) ==
    IF from > to THEN <<>>
    ELSE IF from = to THEN <<start + Deposit(code[from])>>
    ELSE LET middle == (from + to) \div 2
             half == HeightsWithin(code, from, middle, start)
         IN  half \o HeightsWithin(code, middle + 1, to, half[Len(half)])
Heights(code, start) == <<start>> \o HeightsWithin(code, 1, Len(code), start)

------------------------------------------------------------------------------
(* The machine.                                                             *)

ToSigned(v) == IF v >= WordSize \div 2 THEN v - WordSize ELSE v
\* a * b modulo the word, without leaving the integers of the checker
RECURSIVE MulWord(_, _)
MulWord(a, b) == IF b = 0 THEN 0
                 ELSE ((IF b % 2 = 1 THEN a ELSE 0) + 2 * MulWord(a, b \div 2)) % WordSize
RECURSIVE ExpWord(_, _)
ExpWord(a, e) == IF e = 0 THEN 1 ELSE MulWord(a, ExpWord(a, e - 1))
RECURSIVE BitwiseWord(_, _, _)
BitwiseWord(op, a, b) ==
    IF a = 0 /\ b = 0 THEN 0
    ELSE LET x == a % 2
             y == b % 2
         IN  (CASE op = "AND" -> x * y
                [] op = "OR" -> x + y - x * y
                [] op = "XOR" -> (x + y) % 2) + 2 * BitwiseWord(op, a \div 2, b \div 2)
SignExtend(k, v) ==
    IF k >= WordBytes - 1 THEN v
    ELSE LET m == 2^(ByteBits * (k + 1)) IN IF v % m >= m \div 2 THEN (v % m) + WordSize - m ELSE v % m
Flag(b) == IF b THEN 1 ELSE 0
Alu(op, a, b) ==
    CASE op = "ADD" -> (a + b) % WordSize
      [] op = "SUB" -> (a - b) % WordSize
      [] op = "MUL" -> MulWord(a, b)
      [] op = "DIV" -> IF b = 0 THEN 0 ELSE a \div b
      [] op = "SDIV" -> IF b = 0 THEN 0 ELSE TruncDiv(ToSigned(a), ToSigned(b)) % WordSize
      [] op = "MOD" -> IF b = 0 THEN 0 ELSE a % b
      [] op = "SMOD" -> IF b = 0 THEN 0
                        ELSE (ToSigned(a) - TruncDiv(ToSigned(a), ToSigned(b)) * ToSigned(b)) % WordSize
      [] op = "EXP" -> ExpWord(a, b)
      [] op \in {"AND", "OR", "XOR"} -> BitwiseWord(op, a, b)
      [] op = "LT" -> Flag(a < b)
      [] op = "GT" -> Flag(a > b)
      [] op = "SLT" -> Flag(ToSigned(a) < ToSigned(b))
      [] op = "SGT" -> Flag(ToSigned(a) > ToSigned(b))
      [] op = "EQ" -> Flag(a = b)
      [] op = "SIGNEXTEND" -> SignExtend(a, b)
      [] op = "BYTE" -> IF a >= WordBytes THEN 0
                        ELSE (b \div 2^(ByteBits * (WordBytes - 1 - a))) % 2^ByteBits
      [] op = "SHL" -> IF a >= WordBits THEN 0 ELSE MulWord(b, 2^a)
      [] op = "SHR" -> IF a >= WordBits THEN 0 ELSE b \div 2^a

ByteOf(w, i) == (w \div 2^(ByteBits * (WordBytes - 1 - i))) % 2^ByteBits
\* Memory, storage and call data are kept as the places that are not zero.
Read(f, k) == IF k \in DOMAIN f THEN f[k] ELSE 0
WriteAll(f, places, New(_)) ==
    [x \in (DOMAIN f \ places) \cup {y \in places : New(y) # 0} |-> IF x \in places THEN New(x) ELSE f[x]]
StoreSlot(sto, k, v) == WriteAll(sto, {k}, LAMBDA x : v)
WordAt(m, p) == SumOf([i \in 1..WordBytes |-> Read(m, p + i - 1) * 2^(ByteBits * (WordBytes - i))])
CopyIn(m, to, n, Source(_)) == WriteAll(m, to..(to + n - 1), LAMBDA a : Source(a - to))
StoreWord(m, p, w) == CopyIn(m, p, WordBytes, LAMBDA i : ByteOf(w, i))
(* The hash function, on the inputs the generated code gives it: one word    *)
(* for the data of an array, two words for the slot of a mapping.            *)
Keccak(m, p, n) ==
    LET Hash(h, i) == (h * 5 + Read(m, p + i - 1) + 1) % WordSize
    IN  IF n = WordBytes THEN (WordSize \div 4 + WordAt(m, p) * 37) % WordSize
        ELSE Accumulate(Hash, WordSize \div 2, [i \in 1..n |-> i])

Idle(stack, mem, sto, cd, cdsize) ==
    [pc |-> 1, stack |-> stack, mem |-> mem, sto |-> sto, cd |-> cd, cdsize |-> cdsize, status |-> "run"]
Top(s, n) == s.stack[Len(s.stack) - n + 1]
Drop(s, n) == SubSeq(s.stack, 1, Len(s.stack) - n)
Operands(ins) ==
    LET op == ins[1]
    IN  CASE op \in Binary -> 2
          [] op \in Unary \cup {"JUMPI", "POP", "JUMPDYN"} -> 1
          [] op = "DUP" -> ins[2]
          [] op = "SWAP" -> ins[2] + 1
          [] op \in {"MSTORE", "MSTORE8", "SSTORE", "REVERT", "RETURN"} -> 2
          [] op \in {"CALLDATACOPY", "CODECOPY", "RETURNDATACOPY"} -> 3
          [] OTHER -> 0
\* the operands an instruction computes with, as opposed to moves around
Consumed(ins) == IF ins[1] \in {"DUP", "SWAP", "POP"} THEN 0 ELSE Operands(ins)
Reach(ins, s) ==
    CASE ins[1] \in {"MLOAD", "MSTORE"} -> Top(s, 1) + WordBytes
      [] ins[1] = "MSTORE8" -> Top(s, 1) + 1
      [] ins[1] = "SHA3" -> Top(s, 1) + Top(s, 2)
      [] ins[1] \in {"CALLDATACOPY", "CODECOPY"} -> Top(s, 1) + Top(s, 3)
      [] OTHER -> 0

Exec(code, s) ==
    LET ins == code[s.pc]
        op == ins[1]
        n == ins[2]
        a == Top(s, 1)
        b == Top(s, 2)
        Push(k, v) == [s EXCEPT !.stack = Append(Drop(s, k), v), !.pc = @ + 1]
        Done(k) == [s EXCEPT !.stack = Drop(s, k), !.pc = @ + 1]
        Stop(why) == [s EXCEPT !.status = why]
    IN  CASE Len(s.stack) < Operands(ins) -> Stop("underflow")
          [] \E i \in 1..Consumed(ins) : Top(s, i) < 0 -> Stop("touched")
          [] Reach(ins, s) > MemoryBytes -> Stop("memory")
          [] op = "PUSH" -> Push(0, n)
          [] op = "PUSHTAG" -> Push(0, s.pc + n)
          [] op = "DUP" -> Push(0, Top(s, n))
          [] op = "SWAP" ->
               [s EXCEPT !.pc = @ + 1,
                         !.stack = [@ EXCEPT ![Len(@)] = Top(s, n + 1), ![Len(@) - n] = a]]
          [] op = "POP" -> Done(1)
          [] op = "SHA3" -> Push(2, Keccak(s.mem, a, b))
          [] op \in Binary -> Push(2, Alu(op, a, b))
          [] op = "ISZERO" -> Push(1, Flag(a = 0))
          [] op = "NOT" -> Push(1, WordSize - 1 - a)
          [] op = "MLOAD" -> Push(1, WordAt(s.mem, a))
          [] op = "SLOAD" -> Push(1, Read(s.sto, a))
          [] op = "CALLDATALOAD" ->
               Push(1, WordAt(s.cd, a))
          [] op = "CALLDATASIZE" -> Push(0, s.cdsize)
          [] op = "CODESIZE" -> Push(0, WordSize - 1)
          [] op = "MSTORE" -> [Done(2) EXCEPT !.mem = StoreWord(@, a, b)]
          [] op = "MSTORE8" -> [Done(2) EXCEPT !.mem = CopyIn(@, a, 1, LAMBDA i : b % 2^ByteBits)]
          [] op = "SSTORE" -> [Done(2) EXCEPT !.sto = StoreSlot(@, a, b)]
          [] op = "CALLDATACOPY" ->
               [Done(3) EXCEPT !.mem = CopyIn(@, a, Top(s, 3), LAMBDA i : Read(s.cd, b + i))]
          [] op = "CODECOPY" -> [Done(3) EXCEPT !.mem = CopyIn(@, a, Top(s, 3), LAMBDA i : 0)]
          [] op = "JUMP" -> [s EXCEPT !.pc = @ + n]
          [] op = "JUMPI" -> [Done(1) EXCEPT !.pc = IF a # 0 THEN s.pc + n ELSE @]
          [] op = "JUMPDYN" -> [Done(1) EXCEPT !.pc = a]
          [] op \in {"TAG", "ADJUST"} -> Done(0)
          [] op = "REVERT" -> Stop("revert")
          [] op = "INVALID" -> Stop("invalid")
          [] OTHER -> Stop(op)
==============================================================================

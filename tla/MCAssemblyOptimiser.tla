------------------------ MODULE MCAssemblyOptimiser ------------------------
(* Small alphabets for AssemblyOptimiser: words of four bytes of two bits, at most two tags. *)
EXTENDS AssemblyOptimiser

Ops(names) == {<<Operation(n)>> : n \in names}
Pushes(numbers) == {<<Push(n)>> : n \in numbers}
Pair(a, b) == <<a, Operation(b)>>
PushOp(n, i) == Pair(Push(n), i)
DupOp(n, i) == Pair(Operation(Dups[n]), i)

Build(outer, inner, outerLength, innerLength, passes) ==
  [phrases |-> [outer |-> outer, inner |-> inner],
   maxItems |-> [outer |-> outerLength, inner |-> innerLength],
   deduplicate |-> "deduplicate" \in passes, cse |-> "cse" \in passes,
   constants |-> "constants" \in passes, runs |-> 1]

\* Computation: every peephole rule but those about jumps.
Arithmetic ==
  Build(Pushes({1, 3}) \cup Ops({"DUP1", "SWAP1", "ADD", "LT", "ADDMOD", "POP", "SSTORE"}),
        {}, 4, 0, {"cse"})

\* Simplification of expressions.
Expressions ==
  Build({PushOp(1, "ADD"), PushOp(255, "MUL"), PushOp(2, "XOR"), DupOp(1, "AND"), DupOp(2, "SUB"),
         DupOp(2, "XOR"), PushOp(0, "EQ"), PushOp(4, "MOD")}
          \cup Ops({"NOT", "ISZERO", "SUB", "OR"}),
        {}, 5, 0, {"cse"})

\* Stores and loads that may or may not overlap.
Storage ==
  Build({DupOp(1, "SLOAD"), DupOp(2, "SLOAD"), PushOp(1, "SLOAD"), PushOp(1, "SSTORE"), DupOp(3, "SSTORE"),
         PushOp(1, "ADD")} \cup Ops({"SSTORE", "SWAP1", "SLOAD"}),
        {}, 6, 0, {"cse"})

Memory ==
  Build({DupOp(1, "MLOAD"), PushOp(2, "MLOAD"), PushOp(0, "MSTORE"), PushOp(2, "MSTORE"), DupOp(2, "MSTORE"),
         <<Push(4), Push(0), Operation("KECCAK256")>>, PushOp(4, "ADD")}
           \cup Ops({"MSTORE", "RETURN"}),
        {}, 6, 0, {"cse"})

\* Jumps, blocks and what they leave unreachable.
Jumps ==
  Build({<<PushTag(NoSub, 1)>>, <<PushTag(NoSub, 2)>>, <<Tag(1)>>, <<Tag(2)>>, <<Push(1)>>}
          \cup Ops({"JUMP", "JUMPI", "STOP", "SSTORE"}),
        {}, 5, 0, {"deduplicate", "cse"})

\* A sub-assembly whose tags the outer assembly pushes.
Nested(deduplicate) ==
  Build({<<PushTag(0, 1)>>, <<PushTag(0, 2)>>},
        {<<PushTag(NoSub, 1)>>, <<PushTag(NoSub, 2)>>, <<Tag(1)>>, <<Tag(2)>>} \cup Ops({"JUMP", "POP", "STOP"}),
        1, 5, IF deduplicate THEN {"deduplicate"} ELSE {})

\* Every constant, in creation and in run time code.
Constants ==
  Build({<<Push(n), Push(n)>> : n \in {5, 240, 255}}, Pushes(0 .. WordSize - 1), 2, 1, {"constants"})

AllBuilds == [arithmetic |-> Arithmetic, expressions |-> Expressions, storage |-> Storage,
              memory |-> Memory, jumps |-> Jumps, nested |-> Nested(FALSE), constants |-> Constants]
NestedBuild == [nested |-> Nested(TRUE)]

\* The stack at the start: the first element is its top.
SomeStacks == {<<Word(1), Word(2), Word(3)>>, <<Word(0), Word(1), Word(1)>>, <<Word(4), Word(0), Word(2)>>}
=============================================================================

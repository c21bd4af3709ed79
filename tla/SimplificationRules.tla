------------------------- MODULE SimplificationRules -------------------------
(***************************************************************************)
(* The simplification rules of the optimiser (libevmasm/RuleList.h) and    *)
(* how they are matched (SimplificationRules.cpp).  A pattern is a tree of *)
(* operations over match groups: A, B and C match constants, X and Y       *)
(* anything, and a group that occurs twice matches the same class twice.   *)
(* A result is such a tree too; Fold marks constants computed by the rule. *)
(***************************************************************************)
EXTENDS AsmItems, Bitwise

AllOnes == WordSize - 1
WordBits == WordBytes * ByteBits

SignedValue(n) == IF 2 * n >= WordSize THEN n - WordSize ELSE n
Quotient(a, b) ==      \* C++ division rounds towards zero
  LET q == (IF a < 0 THEN -a ELSE a) \div (IF b < 0 THEN -b ELSE b) IN
  IF (a < 0) = (b < 0) THEN q ELSE -q
BoolWord(b) == IF b THEN 1 ELSE 0
PowerMod(a, n) ==
  LET p[k \in 0 .. n] == IF k = 0 THEN 1 ELSE (p[k - 1] * a) % WordSize IN p[n]

\* The lambdas of the "arithmetics on constants" rules.
FoldConstants(i, x) ==
  LET a == x[1]
      b == IF Len(x) > 1 THEN x[2] ELSE 0
      sa == SignedValue(a)
      sb == SignedValue(b) IN
  CASE i = "ADD"  -> (a + b) % WordSize
    [] i = "MUL"  -> (a * b) % WordSize
    [] i = "SUB"  -> (a - b) % WordSize
    [] i = "DIV"  -> IF b = 0 THEN 0 ELSE a \div b
    [] i = "SDIV" -> IF b = 0 THEN 0 ELSE Quotient(sa, sb) % WordSize
    [] i = "MOD"  -> IF b = 0 THEN 0 ELSE a % b
    [] i = "SMOD" -> IF b = 0 THEN 0 ELSE (sa - Quotient(sa, sb) * sb) % WordSize
    [] i = "EXP"  -> PowerMod(a, b)
    [] i = "NOT"  -> AllOnes - a
    [] i = "LT"   -> BoolWord(a < b)
    [] i = "GT"   -> BoolWord(a > b)
    [] i = "SLT"  -> BoolWord(sa < sb)
    [] i = "SGT"  -> BoolWord(sa > sb)
    [] i = "EQ"   -> BoolWord(a = b)
    [] i = "ISZERO" -> BoolWord(a = 0)
    [] i = "AND"  -> a & b
    [] i = "OR"   -> a | b
    [] i = "XOR"  -> a ^^ b
    [] i = "BYTE" -> IF a >= WordBytes THEN 0
                     ELSE (b \div 2 ^ (ByteBits * (WordBytes - 1 - a))) % ByteBase
    [] i = "SIGNEXTEND" -> IF a >= WordBytes - 1 THEN b
                           ELSE LET testBit == a * ByteBits + (ByteBits - 1)
                                    mask == 2 ^ testBit - 1 IN
                                IF (b \div 2 ^ testBit) % 2 = 1 THEN b | (AllOnes - mask) ELSE b & mask
    [] i = "SHL"  -> IF a > WordBits - 1 THEN 0 ELSE (b * 2 ^ a) % WordSize
    [] i = "SHR"  -> IF a > WordBits - 1 THEN 0 ELSE b \div 2 ^ a
    [] i = "ADDMOD" -> IF x[3] = 0 THEN 0 ELSE (a + b) % x[3]
    [] i = "MULMOD" -> IF x[3] = 0 THEN 0 ELSE (a * b) % x[3]

-----------------------------------------------------------------------------
ConstantGroup(g) == [p |-> "constant", g |-> g]
AnyGroup(g)      == [p |-> "any", g |-> g]
Num(n)           == [p |-> "number", n |-> n]
Op(i, args)      == [p |-> "operation", i |-> i, args |-> args]
Fold(i, args)    == [p |-> "fold", i |-> i, args |-> args]

A == ConstantGroup("A")
B == ConstantGroup("B")
C == ConstantGroup("C")
X == AnyGroup("X")
Y == AnyGroup("Y")

Rule(pattern, result) == [pattern |-> pattern, result |-> result]

ForEach(R(_), s) == FoldRight(LAMBDA i, rest : R(i) \o rest, s, <<>>)

UnaryRules == ForEach(LAMBDA i : <<Rule(Op(i, <<A>>), Fold(i, <<A>>))>>, <<"NOT", "ISZERO">>)
BinaryRules ==
  ForEach(LAMBDA i : <<Rule(Op(i, <<A, B>>), Fold(i, <<A, B>>))>>,
          <<"ADD", "MUL", "SUB", "DIV", "SDIV", "MOD", "SMOD", "EXP", "LT", "GT", "SLT", "SGT",
            "EQ", "AND", "OR", "XOR", "BYTE", "SIGNEXTEND", "SHL", "SHR">>)
ModuloRules ==
  ForEach(LAMBDA i : <<Rule(Op(i, <<A, B, C>>), Fold(i, <<A, B, C>>))>>, <<"ADDMOD", "MULMOD">>)

\* An operation with the constant n on either side.
BothSides(i, n, result) == <<Rule(Op(i, <<X, Num(n)>>), result), Rule(Op(i, <<Num(n), X>>), result)>>
RightSide(i, n, result) == <<Rule(Op(i, <<X, Num(n)>>), result)>>

\* "invariants involving known constants"
KnownConstantRules ==
  BothSides("ADD", 0, X) \o RightSide("SUB", 0, X)
  \o BothSides("MUL", 0, Num(0)) \o BothSides("MUL", 1, X)
  \o BothSides("MUL", AllOnes, Op("SUB", <<Num(0), X>>))
  \o BothSides("DIV", 0, Num(0)) \o RightSide("DIV", 1, X)
  \o BothSides("SDIV", 0, Num(0)) \o RightSide("SDIV", 1, X)
  \o BothSides("AND", AllOnes, X) \o BothSides("AND", 0, Num(0))
  \o BothSides("OR", 0, X) \o BothSides("OR", AllOnes, Num(AllOnes))
  \o BothSides("XOR", 0, X) \o BothSides("MOD", 0, Num(0))
  \o BothSides("EQ", 0, Op("ISZERO", <<X>>))

\* "operations involving an expression and itself"
SelfRules ==
  LET Itself(i, result) == <<Rule(Op(i, <<X, X>>), result)>> IN
  Itself("AND", X) \o Itself("OR", X) \o Itself("EQ", Num(1))
  \o ForEach(LAMBDA i : Itself(i, Num(0)), <<"XOR", "SUB", "LT", "SLT", "GT", "SGT", "MOD">>)

\* i over X and j over X and Y, in every order of operands.
Absorbing(i, j, result) ==
  ForEach(LAMBDA inner : <<Rule(Op(i, <<X, Op(j, inner)>>), result)>>, <<<<X, Y>>, <<Y, X>>>>)
  \o ForEach(LAMBDA inner : <<Rule(Op(i, <<Op(j, inner), X>>), result)>>, <<<<X, Y>>, <<Y, X>>>>)

\* "logical instruction combinations"
LogicalRules ==
  LET Negated(i, result) == <<Rule(Op(i, <<X, Op("NOT", <<X>>)>>), result),
                              Rule(Op(i, <<Op("NOT", <<X>>), X>>), result)>> IN
  <<Rule(Op("NOT", <<Op("NOT", <<X>>)>>), X)>>
  \o Absorbing("XOR", "XOR", Y) \o Absorbing("OR", "AND", X) \o Absorbing("AND", "OR", X)
  \o Negated("AND", Num(0)) \o Negated("OR", Num(AllOnes))

\* "Replace MOD X, <power-of-two> with AND X, <power-of-two> - 1"
ModulusRules ==
  [k \in 1 .. WordBits |-> Rule(Op("MOD", <<X, Num(2 ^ (k - 1))>>),
                                Op("AND", <<X, Num(2 ^ (k - 1) - 1)>>))]

\* Opcodes that are addresses, masked.
AddressRules ==
  LET mask == ByteBase ^ AddressBytes - 1 IN
  ForEach(LAMBDA i : <<Rule(Op("AND", <<Op(i, <<>>), Num(mask)>>), Op(i, <<>>)),
                       Rule(Op("AND", <<Num(mask), Op(i, <<>>)>>), Op(i, <<>>))>>,
          <<"CALLER">>)

\* "Double negation of opcodes with boolean result", and the two rules after it.
NegationRules ==
  LET Zero(x) == Op("ISZERO", <<x>>) IN
  ForEach(LAMBDA i : <<Rule(Zero(Zero(Op(i, <<X, Y>>))), Op(i, <<X, Y>>))>>,
          <<"EQ", "LT", "SLT", "GT", "SGT">>)
  \o <<Rule(Zero(Zero(Zero(X))), Zero(X)), Rule(Zero(Op("XOR", <<X, Y>>)), Op("EQ", <<X, Y>>))>>

\* "Moving constants to the outside"
AssociativeRules ==
  LET For(i, xa) ==
        LET sum == Op(i, <<X, Fold(i, <<A, B>>)>>) IN
        <<Rule(Op(i, <<Op(i, xa), B>>), sum),
          Rule(Op(i, <<Op(i, xa), Y>>), Op(i, <<Op(i, <<X, Y>>), A>>)),
          Rule(Op(i, <<B, Op(i, xa)>>), sum),
          Rule(Op(i, <<Y, Op(i, xa)>>), Op(i, <<Op(i, <<Y, X>>), A>>))>> IN
  ForEach(LAMBDA i : For(i, <<X, A>>) \o For(i, <<A, X>>), <<"ADD", "MUL", "AND", "OR", "XOR">>)

\* "move constants across subtractions"
SubtractionRules ==
  LET minusA == Fold("SUB", <<Num(0), A>>)
      Difference(c) == Op("ADD", <<Op("SUB", <<X, Y>>), c>>)
      Plus(x, y) == Op("ADD", <<x, y>>) IN
  <<Rule(Op("SUB", <<X, A>>), Op("ADD", <<X, minusA>>)),
    Rule(Op("SUB", <<Plus(X, A), Y>>), Difference(A)),
    Rule(Op("SUB", <<Plus(A, X), Y>>), Difference(A)),
    Rule(Op("SUB", <<X, Plus(Y, A)>>), Difference(minusA)),
    Rule(Op("SUB", <<X, Plus(A, Y)>>), Difference(minusA))>>

\* Rules::addRules: the rules for each instruction, in the order of the list.
Rules ==
  LET all == BinaryRules \o UnaryRules \o ModuloRules \o KnownConstantRules \o SelfRules
             \o LogicalRules \o ModulusRules \o AddressRules \o NegationRules
             \o AssociativeRules \o SubtractionRules IN
  [i \in Instructions |-> SelectSeq(all, LAMBDA r : r.pattern.i = i)]

-----------------------------------------------------------------------------
\* Match groups are a function from names to classes.
NoGroups == [g \in {} |-> 0]
Mismatch == [g \in {"mismatch"} |-> 0]

RECURSIVE Matches(_, _, _, _, _)
\* Pattern::matches, for the expression exp (of class id) over the classes reps.
Matches(pattern, exp, id, groups, reps) ==
  CASE pattern.p \in {"any", "constant"} ->
         IF \/ pattern.p = "constant" /\ exp.item.type # "Push"
            \/ pattern.g \in DOMAIN groups /\ groups[pattern.g] # id
         THEN Mismatch ELSE groups @@ (pattern.g :> id)
    [] pattern.p = "number" ->
         IF exp.item.type = "Push" /\ exp.item.data = pattern.n THEN groups ELSE Mismatch
    [] pattern.p = "operation" ->
         IF ~Is(exp.item, pattern.i) THEN Mismatch
         ELSE LET matched[k \in 0 .. Len(pattern.args)] ==
                    IF k = 0 THEN groups
                    ELSE IF matched[k - 1] = Mismatch THEN Mismatch
                    ELSE LET arg == exp.args[k] IN
                         Matches(pattern.args[k], reps[arg], arg, matched[k - 1], reps)
              IN matched[Len(pattern.args)]

NoRule == [pattern |-> Num(0), groups |-> Mismatch]

\* Rules::findFirstMatch: the first of the rules that matches, with its groups.
FindFirstMatch(rules, exp, reps) ==
  LET from[k \in 1 .. Len(rules) + 1] ==
        IF k > Len(rules) THEN NoRule
        ELSE LET groups == Matches(rules[k].pattern, exp, 0, NoGroups, reps) IN
             IF groups = Mismatch THEN from[k + 1] ELSE [result |-> rules[k].result, groups |-> groups]
  IN from[1]
=============================================================================

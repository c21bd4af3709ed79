-------------------------------- MODULE Types --------------------------------
(****************************************************************************)
(* The types of the language (libsolidity/ast/Types.h, Types.cpp): which    *)
(* conversions exist, what the operators yield, how much room a type needs  *)
(* on the stack, in storage, in memory and in call data, and how storage is *)
(* laid out.                                                                *)
(*                                                                          *)
(* A type is a record whose field cat is its Category.  NoType stands for   *)
(* the null TypePointer.  All widths are in bytes, and the width of a byte, *)
(* of a word and of an address are parameters, so that the values of every  *)
(* type can be enumerated on a small machine word.                          *)
(****************************************************************************)
EXTENDS Integers, Sequences, FiniteSets, SequencesExt, FiniteSetsExt

CONSTANTS ByteBits,        \* bits of a byte (8)
          WordBytes,       \* bytes of a machine word and of a storage slot (32)
          AddressBytes,    \* bytes of an address (20)
          SelectorBytes,   \* bytes of a function selector (4)
          FunctionTagBytes,\* bytes a stored internal function takes (8)
          MaxDigits,       \* most fractional digits of a fixed point type (80)
          PrecisionBits,   \* bits a constant may have (4096)
          StructMembers,   \* struct -> sequence of [name, type]
          EnumMembers,     \* enum -> number of its members
          Linearized,      \* contract -> its linearized bases, itself first
          Libraries        \* the contracts that are libraries

ASSUME WidthAssumption == /\ ByteBits \in Nat \ {0}
                          /\ WordBytes \in Nat \ {0}
                          /\ AddressBytes + SelectorBytes \in 1..WordBytes
                          /\ FunctionTagBytes \in 1..WordBytes

WordBits == ByteBits * WordBytes
WordSize == 2^WordBits

NoType == [cat |-> "none"]
Integer(n, mod) == [cat |-> "Integer", bytes |-> n, mod |-> mod]
UInt(n) == Integer(n, "Unsigned")
SInt(n) == Integer(n, "Signed")
AddressType == Integer(AddressBytes, "Address")
BoolType == [cat |-> "Bool"]
FixedBytes(n) == [cat |-> "FixedBytes", bytes |-> n]
FixedPoint(n, d, mod) ==
    [cat |-> "FixedPoint", bytes |-> n, digits |-> d, mod |-> mod]
StringLiteral(n, utf8) == [cat |-> "StringLiteral", size |-> n, utf8 |-> utf8]
Array(loc, ptr, kind, base, dyn, len) ==
    [cat |-> "Array", loc |-> loc, ptr |-> ptr, kind |-> kind, base |-> base,
     dyn |-> dyn, len |-> len]
ByteArray(loc, ptr, kind) == Array(loc, ptr, kind, FixedBytes(1), TRUE, 0)
Struct(s, loc, ptr) == [cat |-> "Struct", struct |-> s, loc |-> loc, ptr |-> ptr]
Contract(c, super) == [cat |-> "Contract", contract |-> c, super |-> super]
Enum(e) == [cat |-> "Enum", enum |-> e]
Mapping(k, v) == [cat |-> "Mapping", key |-> k, value |-> v]
Tuple(comps) == [cat |-> "Tuple", comps |-> comps]
TypeType(t) == [cat |-> "TypeType", actual |-> t]
Magic(m) == [cat |-> "Magic", magic |-> m]
InaccessibleDynamic == [cat |-> "InaccessibleDynamic"]
FunctionType(kind, params, rets, mut, arbitrary) ==
    [cat |-> "Function", kind |-> kind, params |-> params, rets |-> rets,
     mut |-> mut, arbitrary |-> arbitrary, gas |-> FALSE, value |-> FALSE,
     bound |-> FALSE]

(* A fold from the left in the order of the sequence, one step per element.  *)
Accumulate(Op(_, _), base, seq) ==
    LET acc[i \in 0..Len(seq)] == IF i = 0 THEN base ELSE Op(acc[i - 1], seq[i])
    IN  acc[Len(seq)]
SumOf(sizes) == Accumulate(LAMBDA a, b : a + b, 0, sizes)

IsRef(t) == t.cat \in {"Array", "Struct"}
DataStoredIn(t, loc) ==
    (IsRef(t) /\ t.loc = loc) \/ (t.cat = "Mapping" /\ loc = "Storage")
IsByteArray(t) == t.cat = "Array" /\ t.kind # "Ordinary"
IsAddress(t) == t.cat = "Integer" /\ t.mod = "Address"
IsSigned(t) == t.mod = "Signed"

(* A rational is kept in lowest terms with a positive denominator, as the    *)
(* boost type the code uses does.                                           *)
Abs(n) == IF n < 0 THEN -n ELSE n
Gcd(a, b) ==
    Max({d \in 1..Max({Abs(a), Abs(b), 1}) : Abs(a) % d = 0 /\ Abs(b) % d = 0})
Rational(n, d) ==
    LET g == IF n = 0 THEN Abs(d) ELSE Gcd(n, d)
        s == IF d < 0 THEN -1 ELSE 1
    IN  [cat |-> "RationalNumber", num |-> s * (Abs(n) \div g) *
            (IF n < 0 THEN -1 ELSE 1), den |-> Abs(d) \div g]
IsFractional(r) == r.den # 1

\* Division that rounds towards zero, as C++ and boost do it.
TruncDiv(a, b) ==
    IF (a < 0) = (b < 0) THEN Abs(a) \div Abs(b) ELSE -(Abs(a) \div Abs(b))

MinValue(t) == IF IsSigned(t) THEN -(2^(t.bytes * ByteBits - 1)) ELSE 0
MaxValue(t) == 2^(t.bytes * ByteBits - (IF IsSigned(t) THEN 1 ELSE 0)) - 1
MaxIntegerValue(t) == MaxValue(t) \div 10^t.digits
MinIntegerValue(t) ==
    IF IsSigned(t) THEN TruncDiv(MinValue(t), 10^t.digits) ELSE 0

(* dev::bytesRequired counts the shifts by a byte that reach zero.  The code *)
(* relies on a shift that leaves the sign of a bigint alone.                *)
BytesRequired(v) ==
    CHOOSE n \in 0..31 : /\ Abs(v) < 2^(n * ByteBits)
                         /\ n = 0 \/ Abs(v) >= 2^((n-1) * ByteBits)

------------------------------------------------------------------------------
(* Constants.                                                               *)

Msb(n) == CHOOSE k \in 0..30 : 2^k <= n /\ (k = 30 \/ n < 2^(k+1))
FitsPrecisionExp(base, exp) ==
    \/ base \in {0, 1}
    \/ Msb(base) <= PrecisionBits /\ exp * (Msb(base) + 1) <= PrecisionBits
\* log2 is the logarithm of the base in ten-thousandths
FitsPrecisionBaseX(mantissa, log2, exp) ==
    \/ mantissa = 0
    \/ /\ Msb(mantissa) <= PrecisionBits
       /\ Msb(mantissa) + (exp * log2) \div 10000 + 1 <= PrecisionBits
FitsPrecisionBase10(mantissa, exp) == FitsPrecisionBaseX(mantissa, 33219, exp)
FitsPrecisionBase2(mantissa, exp) == FitsPrecisionBaseX(mantissa, 10000, exp)

\* The type of a number literal: mantissa, exponent and sub-denomination.
LiteralType(mantissa, exp, factor) ==
    LET scaled ==
        CASE exp = 0 -> mantissa
          [] exp < 0 -> IF FitsPrecisionBase10(mantissa.den, -exp)
                        THEN Rational(mantissa.num, mantissa.den * 10^(-exp))
                        ELSE NoType
          [] exp > 0 -> IF FitsPrecisionBase10(Abs(mantissa.num), exp)
                        THEN Rational(mantissa.num * 10^exp, mantissa.den)
                        ELSE NoType
    IN  IF scaled = NoType THEN NoType
        ELSE Rational(scaled.num * factor, scaled.den)

IntegerTypeOf(r) ==
    LET v == IF r.num < 0 THEN 2 * (-r.num - 1) ELSE r.num
    IN  IF v >= WordSize THEN NoType
        ELSE Integer(Max({BytesRequired(v), 1}),
                     IF r.num < 0 THEN "Signed" ELSE "Unsigned")

(* The number of fractional digits is the first at which the value is an    *)
(* integer, or cannot be multiplied by ten any more.                        *)
Grown(r, digits) == Rational(Abs(r.num) * 10^digits, r.den)
StopsGrowing(value, most) == value.den = 1 \/ value.num * 10 > most * value.den
SignedWidth(w, negative) == IF negative THEN 2 * (w - 1) ELSE w
FixedPointWith(value, width, digits, most, negative) ==
    IF value.num > most * value.den \/ width >= WordSize THEN NoType
    ELSE FixedPoint(Max({BytesRequired(width), 1}), digits, IF negative THEN "Signed" ELSE "Unsigned")
WithDigits(value, digits, most, negative) ==
    FixedPointWith(value, SignedWidth(value.num \div value.den, negative), digits, most, negative)
FirstStop(r, most) ==
    CHOOSE d \in 0..MaxDigits : /\ d = MaxDigits \/ StopsGrowing(Grown(r, d), most)
                                /\ \A e \in 0..d-1 : ~StopsGrowing(Grown(r, e), most)
FixedPointUpTo(r, digits, most) == WithDigits(Grown(r, digits), digits, most, r.num < 0)
FixedPointBelow(r, most) == FixedPointUpTo(r, FirstStop(r, most), most)
FixedPointTypeOf(r) == FixedPointBelow(r, IF r.num < 0 THEN WordSize \div 2 ELSE WordSize - 1)

\* The word a constant is pushed as, and its two assertions.
LiteralFits(r) ==
    LET d == IF IsFractional(r) THEN FixedPointTypeOf(r).digits ELSE 0
        v == TruncDiv(r.num * 10^d, r.den)
    IN  v \in -(WordSize \div 2)..(WordSize - 1)
LiteralValue(r) ==
    LET d == IF IsFractional(r) THEN FixedPointTypeOf(r).digits ELSE 0
    IN  TruncDiv(r.num * 10^d, r.den) % WordSize

RationalMobileType(r) == IF IsFractional(r) THEN FixedPointTypeOf(r) ELSE IntegerTypeOf(r)

RECURSIVE MobileType(_)
\* The type a value takes when it is stored in a variable declared with var.
MobileType(t) ==
    CASE t.cat = "RationalNumber" -> RationalMobileType(t)
      [] t.cat = "StringLiteral" -> ByteArray("Memory", TRUE, "String")
      [] IsRef(t) -> [t EXCEPT !.ptr = TRUE]
      [] t.cat = "Tuple" ->
           LET mobiles == [i \in DOMAIN t.comps |->
                             IF t.comps[i] = NoType THEN NoType ELSE MobileType(t.comps[i])]
           IN  IF \E i \in DOMAIN mobiles : mobiles[i] = NoType /\ t.comps[i] # NoType
               THEN NoType ELSE Tuple(mobiles)
      [] OTHER -> t

RECURSIVE CopyForLocation(_, _, _)
\* A reference type moved to another data location; its base type moves along.
CopyForLocation(t, loc, ptr) ==
    IF t.cat = "Struct" THEN [t EXCEPT !.loc = loc, !.ptr = ptr]
    ELSE [t EXCEPT !.loc = loc, !.ptr = ptr,
                   !.base = IF IsRef(@) THEN CopyForLocation(@, loc, FALSE) ELSE @]
CopyForLocationIfReference(t, loc) == IF IsRef(t) THEN CopyForLocation(t, loc, FALSE) ELSE t

------------------------------------------------------------------------------
(* Conversions.                                                             *)

IntegerConvertsTo(a, b) ==
    CASE b.cat = "Integer" ->
           /\ b.bytes >= a.bytes
           /\ CASE IsAddress(a) -> IsAddress(b)
                [] IsSigned(a) -> IsSigned(b)
                [] OTHER -> ~IsSigned(b) \/ b.bytes > a.bytes
      [] b.cat = "FixedPoint" ->
           /\ ~IsAddress(a)
           /\ MaxValue(a) <= MaxIntegerValue(b) /\ MinValue(a) >= MinIntegerValue(b)
      [] OTHER -> FALSE

FixedPointConvertsTo(a, b) ==
    /\ b.cat = "FixedPoint"
    /\ b.bytes >= a.bytes /\ b.digits >= a.digits
    /\ MaxIntegerValue(b) >= MaxIntegerValue(a)
    /\ MinIntegerValue(b) <= MinIntegerValue(a)

RationalConvertsTo(a, b) ==
    CASE b.cat = "Integer" ->
           \/ a.num = 0
           \/ /\ ~IsFractional(a)
              /\ IF a.num > 0 THEN a.num <= MaxValue(b)
                 ELSE IsSigned(b) /\ -a.num <= 2^(b.bytes * ByteBits - 1)
      [] b.cat = "FixedPoint" ->
           \E fixed \in {FixedPointTypeOf(a)} : fixed # NoType /\ FixedPointConvertsTo(fixed, b)
      [] b.cat = "FixedBytes" ->
           /\ ~IsFractional(a)
           /\ \E integer \in {IntegerTypeOf(a)} : integer # NoType /\ b.bytes >= integer.bytes
      [] OTHER -> FALSE

StringLiteralConvertsTo(a, b) ==
    \/ b.cat = "FixedBytes" /\ b.bytes >= a.size
    \/ /\ IsByteArray(b)
       /\ ~(b.loc = "Storage" /\ b.ptr)
       /\ ~(b.kind = "String" /\ ~a.utf8)

ContractConvertsTo(a, b) ==
    \/ a = b
    \/ IsAddress(b)
    \/ /\ b.cat = "Contract"
       /\ b.contract \in Range(IF a.super THEN Tail(Linearized[a.contract])
                               ELSE Linearized[a.contract])

\* From memory or call data into storage only by copying, never by reference.
ReferenceMayMove(a, b) ==
    /\ ~(b.loc = "Storage" /\ a.loc # "Storage" /\ b.ptr)
    /\ ~(b.loc = "CallData" /\ a.loc # "CallData")

RECURSIVE ImplicitlyConvertible(_, _)

ArrayConvertsTo(a, b) ==
    /\ b.cat = "Array" /\ a.kind = b.kind
    /\ ReferenceMayMove(a, b)
    /\ IF b.loc = "Storage" /\ ~b.ptr
       THEN /\ ImplicitlyConvertible(a.base, b.base)
            /\ b.dyn \/ (~a.dyn /\ b.len >= a.len)
       ELSE /\ CopyForLocationIfReference(a.base, a.loc) =
                  CopyForLocationIfReference(b.base, a.loc)
            /\ a.dyn = b.dyn
            /\ ~a.dyn => a.len = b.len

(* A target tuple may leave out its first or its last component to swallow   *)
(* any number of values there.                                               *)
TupleConvertsTo(a, b) ==
    /\ b.cat = "Tuple"
    /\ LET n == Len(a.comps)
           m == Len(b.comps)
           wildFront == b.comps[1] = NoType
           wildBack == b.comps[m] = NoType
           fillRight == wildBack \/ ~wildFront
           At(s, i) == s[IF fillRight THEN i ELSE Len(s) - i + 1]
       IN  IF m = 0 THEN n = 0
           ELSE /\ ~(n # m /\ wildFront /\ wildBack)
                /\ n >= m - (IF wildFront \/ wildBack THEN 1 ELSE 0)
                /\ n > m => wildFront \/ wildBack
                /\ \A i \in 1..Min({n, m}) :
                      \/ At(b.comps, i) = NoType
                      \/ /\ At(a.comps, i) # NoType
                         /\ ImplicitlyConvertible(At(a.comps, i), At(b.comps, i))

ImplicitlyConvertible(a, b) ==
    CASE a.cat = "Integer" -> IntegerConvertsTo(a, b)
      [] a.cat = "FixedPoint" -> FixedPointConvertsTo(a, b)
      [] a.cat = "RationalNumber" -> RationalConvertsTo(a, b)
      [] a.cat = "StringLiteral" -> StringLiteralConvertsTo(a, b)
      [] a.cat = "FixedBytes" -> b.cat = "FixedBytes" /\ b.bytes >= a.bytes
      [] a.cat = "Contract" -> ContractConvertsTo(a, b)
      [] a.cat = "Array" -> ArrayConvertsTo(a, b)
      [] a.cat = "Struct" -> b.cat = "Struct" /\ ReferenceMayMove(a, b) /\ a.struct = b.struct
      [] a.cat = "Tuple" -> TupleConvertsTo(a, b)
      [] OTHER -> a = b

RECURSIVE ExplicitlyConvertible(_, _)
ExplicitlyConvertible(a, b) ==
    CASE a.cat = "Integer" ->
           b.cat \in {"Integer", "Contract", "Enum", "FixedBytes", "FixedPoint"}
      [] a.cat = "FixedPoint" -> b.cat = "FixedPoint" \/ (b.cat = "Integer" /\ ~IsAddress(b))
      [] a.cat = "RationalNumber" ->
           \E mobile \in {MobileType(a)} : mobile # NoType /\ ExplicitlyConvertible(mobile, b)
      [] a.cat = "FixedBytes" -> b.cat \in {"Integer", "FixedPoint", "FixedBytes"}
      [] a.cat = "Contract" ->
           ImplicitlyConvertible(a, b) \/ b.cat \in {"Integer", "Contract"}
      [] a.cat = "Array" ->
           \/ ImplicitlyConvertible(a, b)
           \/ b.cat = "Array" /\ b.loc = a.loc /\ IsByteArray(a) /\ IsByteArray(b)
      [] a.cat = "Enum" -> b = a \/ b.cat = "Integer"
      [] a.cat = "Function" -> (a.kind = "External" /\ IsAddress(b)) \/ b.cat = "Function"
      [] OTHER -> ImplicitlyConvertible(a, b)

\* The type both operands are brought to.
CommonType(a, b) ==
    CASE a = NoType \/ b = NoType -> NoType
      [] MobileType(a) # NoType /\ ImplicitlyConvertible(b, MobileType(a)) -> MobileType(a)
      [] MobileType(b) # NoType /\ ImplicitlyConvertible(a, MobileType(b)) -> MobileType(b)
      [] OTHER -> NoType

RECURSIVE ClosestTemporaryType(_, _)
\* The type the value of an expression is given before it is assigned.
ClosestTemporaryType(t, target) ==
    IF t.cat # "Tuple"
    THEN IF DataStoredIn(target, "Storage") THEN MobileType(t) ELSE target
    ELSE LET n == Len(t.comps)
             m == Len(target.comps)
             fillRight == m > 0 /\ (target.comps[m] = NoType \/ target.comps[1] # NoType)
             Source(i) == IF fillRight THEN i ELSE n - m + i
         IN  Tuple([i \in 1..m |->
                IF /\ Source(i) \in 1..n
                   /\ t.comps[Source(i)] # NoType /\ target.comps[i] # NoType
                THEN ClosestTemporaryType(t.comps[Source(i)], target.comps[i])
                ELSE NoType])

------------------------------------------------------------------------------
(* Operators.                                                               *)

CompareOps == {"Equal", "NotEqual", "LessThan", "GreaterThan", "LessThanOrEqual",
               "GreaterThanOrEqual"}
BooleanOps == {"And", "Or"}
ShiftOps == {"SHL", "SAR", "SHR"}
BitOps == {"BitOr", "BitXor", "BitAnd"}
ArithmeticOps == {"Add", "Sub", "Mul", "Div", "Mod", "Exp"}
BinaryOps == CompareOps \cup BooleanOps \cup BitOps \cup ShiftOps \cup ArithmeticOps
UnaryOps == {"Not", "BitNot", "Delete", "Inc", "Dec", "Add", "Sub"}

\* Only an unsigned amount of an integer type shifts, and >>> is disabled.
ValidShiftAmount(op, t) ==
    /\ op # "SHR"
    /\ CASE t.cat = "Integer" -> ~IsAddress(t)
         [] t.cat = "RationalNumber" ->
              /\ ~IsFractional(t) /\ IntegerTypeOf(t) # NoType
              /\ ~IsSigned(IntegerTypeOf(t))
         [] OTHER -> FALSE

RationalUnaryResult(op, t) ==
    CASE op = "BitNot" -> IF IsFractional(t) THEN NoType ELSE Rational(-t.num - 1, 1)
      [] op = "Add" -> t
      [] op = "Sub" -> Rational(-t.num, t.den)
      [] OTHER -> NoType

\* delete empties its operand and yields no value.
UnaryOperatorResult(op, t) ==
    CASE t.cat = "Integer" ->
           IF op = "Delete" THEN Tuple(<<>>)
           ELSE IF ~IsAddress(t) /\ op \in {"Add", "Sub", "Inc", "Dec", "BitNot"}
                THEN t ELSE NoType
      [] t.cat = "FixedPoint" ->
           IF op = "Delete" THEN Tuple(<<>>)
           ELSE IF op \in {"Add", "Sub", "Inc", "Dec"} THEN t ELSE NoType
      [] t.cat = "RationalNumber" -> RationalUnaryResult(op, t)
      [] t.cat = "FixedBytes" ->
           IF op = "Delete" THEN Tuple(<<>>) ELSE IF op = "BitNot" THEN t ELSE NoType
      [] t.cat = "Bool" ->
           IF op = "Delete" THEN Tuple(<<>>) ELSE IF op = "Not" THEN t ELSE NoType
      [] IsRef(t) ->
           IF op = "Delete" /\ t.loc # "CallData" /\ ~(t.loc = "Storage" /\ t.ptr)
           THEN Tuple(<<>>) ELSE NoType
      [] \/ t.cat \in {"Enum", "Function"}
         \/ t.cat = "Contract" /\ ~t.super ->
           IF op = "Delete" THEN Tuple(<<>>) ELSE NoType
      [] OTHER -> NoType

\* Two's complement bit operations on numbers of any sign.
Bits(n) == [k \in 0..15 |-> (n \div 2^k) % 2]
FromBits(b) == LET u == FoldFunctionOnSet(LAMBDA x, y : x + y, 0,
                                          [k \in 0..15 |-> b[k] * 2^k], 0..15)
               IN  IF b[15] = 1 THEN u - 65536 ELSE u
BitOperation(op, a, b) ==
    FromBits([k \in 0..15 |->
        CASE op = "BitAnd" -> Bits(a)[k] * Bits(b)[k]
          [] op = "BitOr" -> Max({Bits(a)[k], Bits(b)[k]})
          [] op = "BitXor" -> (Bits(a)[k] + Bits(b)[k]) % 2])

\* Powers of constants: the size of the result is bounded before it is computed.
RationalExp(a, e) ==
    CASE e.den # 1 -> NoType
      [] e.num = 0 -> Rational(1, 1)
      [] a.num = 0 \/ a = Rational(1, 1) -> a
      [] a = Rational(-1, 1) -> Rational(IF e.num % 2 = 0 THEN 1 ELSE -1, 1)
      [] OTHER ->
           IF /\ FitsPrecisionExp(Abs(a.num), Abs(e.num))
              /\ FitsPrecisionExp(a.den, Abs(e.num))
           THEN IF e.num > 0 THEN Rational(a.num^e.num, a.den^e.num)
                ELSE Rational(a.den^(-e.num), a.num^(-e.num))
           ELSE NoType

RationalShift(op, a, s) ==
    CASE s.num < 0 -> NoType
      [] a.num = 0 -> a
      [] op = "SHL" -> IF FitsPrecisionBase2(Abs(a.num), s.num)
                       THEN Rational(a.num * 2^s.num, 1) ELSE NoType
      [] op = "SAR" -> IF s.num > Msb(Abs(a.num)) THEN Rational(0, 1)
                       ELSE Rational(TruncDiv(a.num, 2^s.num), 1)
      [] OTHER -> NoType

\* Arithmetic on constants is done while the program is compiled.
RationalArithmetic(op, a, b) ==
    LET fractional == IsFractional(a) \/ IsFractional(b)
        result ==
          CASE op \in {"BitOr", "BitXor", "BitAnd"} ->
                 IF fractional THEN NoType ELSE Rational(BitOperation(op, a.num, b.num), 1)
            [] op = "Add" -> Rational(a.num * b.den + b.num * a.den, a.den * b.den)
            [] op = "Sub" -> Rational(a.num * b.den - b.num * a.den, a.den * b.den)
            [] op = "Mul" -> Rational(a.num * b.num, a.den * b.den)
            [] op = "Div" ->
                 IF b.num = 0 THEN NoType ELSE Rational(a.num * b.den, a.den * b.num)
            [] op = "Mod" ->
                 IF b.num = 0 THEN NoType
                 ELSE LET q == TruncDiv(a.num * b.den, a.den * b.num)
                      IN  Rational(a.num * b.den - q * b.num * a.den, a.den * b.den)
            [] op = "Exp" -> RationalExp(a, b)
            [] op \in {"SHL", "SAR"} -> IF fractional THEN NoType ELSE RationalShift(op, a, b)
            [] OTHER -> NoType
    IN  IF /\ result # NoType /\ result.num # 0
           /\ Max({Msb(Abs(result.num)), Msb(result.den)}) > PrecisionBits
        THEN NoType ELSE result

RECURSIVE BinaryOperatorResult(_, _, _)

IntegerBinaryResult(op, a, b) ==
    LET common == CommonType(a, b)
    IN  CASE b.cat \notin {"RationalNumber", "FixedPoint", "Integer"} -> NoType
          [] op \in ShiftOps ->
               IF ~IsAddress(a) /\ ValidShiftAmount(op, b) THEN a ELSE NoType
          [] common = NoType -> NoType
          [] op \in CompareOps -> common
          [] op \in BooleanOps -> NoType
          [] common.cat = "Integer" /\ IsAddress(common) -> NoType
          [] op = "Exp" /\ (common.cat = "FixedPoint" \/ IsSigned(common)) -> NoType
          [] OTHER -> common

RationalBinaryResult(op, a, b) ==
    CASE b.cat \in {"Integer", "FixedPoint"} ->
           IF CommonType(a, b) = NoType THEN NoType
           ELSE BinaryOperatorResult(op, CommonType(a, b), b)
      [] b.cat # "RationalNumber" -> NoType
      [] op \in CompareOps ->
           IF MobileType(a) = NoType \/ MobileType(b) = NoType THEN NoType
           ELSE BinaryOperatorResult(op, MobileType(a), MobileType(b))
      [] OTHER -> RationalArithmetic(op, a, b)

FixedBytesBinaryResult(op, a, b) ==
    IF op \in ShiftOps THEN IF ValidShiftAmount(op, b) THEN a ELSE NoType
    ELSE LET common == CommonType(a, b)
         IN  IF common.cat = "FixedBytes" /\ op \in CompareOps \cup BitOps
             THEN common ELSE NoType

FixedPointBinaryResult(op, a, b) ==
    IF op \in BitOps \cup BooleanOps \cup {"Exp"} THEN NoType ELSE CommonType(a, b)

RECURSIVE SizeOnStack(_)

(* An external function is an address and a selector, an internal one a tag. *)
(* Gas, value and the object a function is bound to lie on top.              *)
FunctionSizeOnStack(t) ==
    LET kind == IF t.kind \in {"SetGas", "SetValue"} THEN t.rets[1].kind ELSE t.kind
    IN  (CASE kind \in {"External", "CallCode", "DelegateCall"} -> 2
           [] kind \in {"BareCall", "BareCallCode", "BareDelegateCall", "Internal",
                        "ArrayPush", "ByteArrayPush"} -> 1
           [] OTHER -> 0)
        + (IF t.gas THEN 1 ELSE 0) + (IF t.value THEN 1 ELSE 0)
        + (IF t.bound THEN SizeOnStack(t.params[1]) ELSE 0)

SizeOnStack(t) ==
    CASE t.cat \in {"StringLiteral", "Magic", "Modifier", "Module"} -> 0
      [] t.cat = "Array" -> IF t.loc = "CallData" /\ t.dyn THEN 2 ELSE 1
      [] t.cat = "Contract" -> IF t.super THEN 0 ELSE 1
      [] t.cat = "Function" -> FunctionSizeOnStack(t)
      [] t.cat = "TypeType" ->
           IF t.actual.cat = "Contract" /\ t.actual.contract \in Libraries THEN 1 ELSE 0
      [] t.cat = "Tuple" -> Accumulate(LAMBDA n, c : n + (IF c = NoType THEN 0 ELSE SizeOnStack(c)),
                                     0, t.comps)
      [] OTHER -> 1

FunctionBinaryResult(op, a, b) ==
    IF /\ b.cat = "Function" /\ op \in {"Equal", "NotEqual"}
       /\ a.kind = "Internal" /\ b.kind = "Internal"
       /\ FunctionSizeOnStack(a) = 1 /\ FunctionSizeOnStack(b) = 1
    THEN CommonType(a, b) ELSE NoType

\* The type the operands are brought to before the operator is applied.
BinaryOperatorResult(op, a, b) ==
    CASE a.cat = "Integer" -> IntegerBinaryResult(op, a, b)
      [] a.cat = "RationalNumber" -> RationalBinaryResult(op, a, b)
      [] a.cat = "FixedPoint" -> FixedPointBinaryResult(op, a, b)
      [] a.cat = "FixedBytes" -> FixedBytesBinaryResult(op, a, b)
      [] a.cat = "Bool" ->
           IF b.cat = "Bool" /\ op \in CompareOps \cup BooleanOps THEN b ELSE NoType
      [] a.cat = "Function" -> FunctionBinaryResult(op, a, b)
      [] a.cat \in {"Contract", "Enum"} ->
           IF op \in CompareOps THEN CommonType(a, b) ELSE NoType
      [] OTHER -> NoType

------------------------------------------------------------------------------
(* Room in storage, memory and call data.                                   *)

IsValueType(t) ==
    \/ t.cat \in {"Integer", "FixedPoint", "FixedBytes", "Bool", "Enum", "Function",
                  "InaccessibleDynamic"}
    \/ t.cat = "Contract" /\ ~t.super
IsDynamicallySized(t) == t.cat = "InaccessibleDynamic" \/ (t.cat = "Array" /\ t.dyn)
CanBeStored(t) ==
    CASE t.cat = "Function" -> t.kind \in {"Internal", "External"}
      [] t.cat \in {"RationalNumber", "StringLiteral", "Tuple", "TypeType", "Modifier",
                    "Module", "Magic", "InaccessibleDynamic"} -> FALSE
      [] OTHER -> TRUE
RECURSIVE CanLiveOutsideStorage(_)
CanLiveOutsideStorage(t) ==
    CASE t.cat = "Array" -> CanLiveOutsideStorage(t.base)
      [] t.cat = "Contract" -> ~t.super
      [] t.cat = "Function" -> t.kind \in {"Internal", "External"}
      [] t.cat \in {"RationalNumber", "StringLiteral", "Tuple", "TypeType", "Modifier",
                    "Mapping", "InaccessibleDynamic"} -> FALSE
      [] OTHER -> TRUE

EnumBytes(e) == IF EnumMembers[e] <= 1 THEN 1 ELSE BytesRequired(EnumMembers[e] - 1)
StorageBytes(t) ==
    CASE t.cat \in {"Integer", "FixedPoint", "FixedBytes"} -> t.bytes
      [] t.cat = "Bool" -> 1
      [] t.cat = "Contract" -> AddressBytes
      [] t.cat = "Enum" -> EnumBytes(t.enum)
      [] t.cat = "Function" -> IF t.kind = "External" THEN AddressBytes + SelectorBytes
                               ELSE FunctionTagBytes
      [] OTHER -> WordBytes

RECURSIVE StorageSize(_)

PlaceAt(places, size, bytes, slot, byte) ==
    [places |-> Append(places, <<slot, byte>>),
     slot |-> IF size = 1 /\ byte + bytes <= WordBytes THEN slot ELSE slot + size,
     byte |-> IF size = 1 /\ byte + bytes <= WordBytes THEN byte + bytes ELSE 0]
PlaceSized(s, size, bytes) ==
    IF s.byte + bytes > WordBytes THEN PlaceAt(s.places, size, bytes, s.slot + 1, 0)
    ELSE PlaceAt(s.places, size, bytes, s.slot, s.byte)
PlaceNext(s, t) == IF CanBeStored(t) THEN PlaceSized(s, StorageSize(t), StorageBytes(t))
                   ELSE [s EXCEPT !.places = Append(@, <<>>)]
AllPlaced(end) ==
    [places |-> end.places, size |-> IF end.byte > 0 THEN end.slot + 1 ELSE end.slot]
(* StorageOffsets::computeOffsets.  Small values are packed into a slot as   *)
(* long as they fit; everything else starts a slot of its own.  The result   *)
(* is the place of each type and the number of slots in all.                 *)
ComputeOffsets(types) ==
    AllPlaced(Accumulate(PlaceNext, [slot |-> 0, byte |-> 0, places |-> <<>>], types))

MemberTypes(s) == [i \in DOMAIN StructMembers[s] |-> StructMembers[s][i].type]
ArrayStorageSize(t) ==
    LET bytes == StorageBytes(t.base)
        perSlot == WordBytes \div bytes
    IN  IF t.dyn THEN 1
        ELSE Max({1, IF bytes < WordBytes THEN (t.len + perSlot - 1) \div perSlot
                     ELSE t.len * StorageSize(t.base)})
StorageSize(t) ==
    CASE t.cat = "Array" -> ArrayStorageSize(t)
      [] t.cat = "Struct" -> Max({1, ComputeOffsets(MemberTypes(t.struct)).size})
      [] OTHER -> 1

\* The members of a struct that exist outside storage.
MemoryMemberTypes(s) == SelectSeq(MemberTypes(s), CanLiveOutsideStorage)
StructMember(t, name) ==
    LET i == CHOOSE i \in DOMAIN StructMembers[t.struct] : StructMembers[t.struct][i].name = name
    IN  CopyForLocationIfReference(StructMembers[t.struct][i].type, t.loc)
MembersMissingInMemory(s) ==
    {StructMembers[s][i].name : i \in {j \in DOMAIN StructMembers[s] :
        ~CanLiveOutsideStorage(StructMembers[s][j].type)}}
RECURSIVE ReachesStruct(_, _, _)
\* A struct that contains itself, directly or through arrays and other structs.
ReachesStruct(s, target, seen) ==
    \E i \in DOMAIN StructMembers[s] :
        LET t == StructMembers[s][i].type
            inner == IF t.cat = "Array" THEN t.base ELSE t
        IN  inner.cat = "Struct" /\ (inner.struct = target \/
              (inner.struct \notin seen /\ ReachesStruct(inner.struct, target, seen \cup {inner.struct})))
RecursiveStruct(s) == ReachesStruct(s, s, {s})

PadToWord(n) == ((n + WordBytes - 1) \div WordBytes) * WordBytes

RECURSIVE CalldataEncodedSize(_, _)
SumUnlessZero(sizes) == IF \E i \in DOMAIN sizes : sizes[i] = 0 THEN 0 ELSE SumOf(sizes)
MembersSize(members, loc, padded) ==
    SumUnlessZero([i \in DOMAIN members |->
        IF CanLiveOutsideStorage(members[i])
        THEN CalldataEncodedSize(CopyForLocationIfReference(members[i], loc), padded) ELSE 0])
CalldataEncodedSize(t, padded) ==
    CASE t.cat \in {"Integer", "FixedPoint", "FixedBytes", "Bool"} ->
           IF padded THEN WordBytes ELSE StorageBytes(t)
      [] t.cat = "Contract" -> CalldataEncodedSize(AddressType, padded)
      [] t.cat = "Enum" -> CalldataEncodedSize(UInt(EnumBytes(t.enum)), padded)
      [] t.cat = "Function" -> IF padded THEN PadToWord(StorageBytes(t)) ELSE StorageBytes(t)
      [] t.cat = "Array" ->
           IF t.dyn THEN WordBytes
           ELSE PadToWord(t.len * (IF IsByteArray(t) THEN 1 ELSE CalldataEncodedSize(t.base, padded)))
      [] t.cat = "Struct" ->
           MembersSize(IF t.loc = "Storage" THEN MemberTypes(t.struct) ELSE MemoryMemberTypes(t.struct),
                       t.loc, padded)
      [] t.cat = "InaccessibleDynamic" -> WordBytes
      [] OTHER -> 0
MemoryHeadSize(t) == IF IsRef(t) THEN WordBytes ELSE CalldataEncodedSize(t, TRUE)
MemorySize(t) ==
    IF t.cat = "Array" THEN t.len * MemoryHeadSize(t.base)
    ELSE LET members == MemoryMemberTypes(t.struct)
         IN  SumOf([i \in DOMAIN members |-> MemoryHeadSize(members[i])])

(* The type that is encoded when a value leaves the contract, and the type a *)
(* function shows of it in the contract's interface.                         *)
EncodingType(t) ==
    CASE t.cat \in {"Integer", "FixedPoint", "FixedBytes", "Bool"} -> t
      [] t.cat = "Array" ->
           IF t.loc = "Storage" THEN UInt(WordBytes) ELSE CopyForLocation(t, "Memory", TRUE)
      [] t.cat = "Struct" -> IF t.loc = "Storage" THEN UInt(WordBytes) ELSE t
      [] t.cat = "Contract" -> IF t.super THEN NoType ELSE AddressType
      [] t.cat = "Enum" -> UInt(EnumBytes(t.enum))
      [] t.cat = "Function" -> IF t.kind = "External" THEN t ELSE NoType
      [] t.cat = "Mapping" -> UInt(WordBytes)
      [] OTHER -> NoType
DecodingType(t) ==
    CASE t.cat = "Array" -> IF t.loc = "Storage" THEN UInt(WordBytes) ELSE t
      [] t.cat = "InaccessibleDynamic" -> UInt(WordBytes)
      [] OTHER -> EncodingType(t)

RECURSIVE CanBeUsedExternally(_, _)
CanBeUsedExternally(t, inLibrary) ==
    CASE t.cat \in {"Integer", "FixedPoint", "FixedBytes", "Bool", "Enum"} -> TRUE
      [] t.cat = "Contract" -> ~t.super
      [] t.cat = "Function" -> t.kind = "External"
      [] t.cat = "Mapping" -> inLibrary
      [] IsRef(t) /\ inLibrary /\ t.loc = "Storage" -> TRUE
      [] t.cat = "Array" -> IsByteArray(t) \/ CanBeUsedExternally(t.base, inLibrary)
      [] t.cat = "Struct" ->
           /\ ~RecursiveStruct(t.struct)
           /\ \A i \in DOMAIN MemberTypes(t.struct) :
                 CanBeUsedExternally(MemberTypes(t.struct)[i], FALSE)
      [] OTHER -> FALSE

RECURSIVE InterfaceType(_, _)
InterfaceType(t, inLibrary) ==
    CASE t.cat \in {"Integer", "FixedPoint", "FixedBytes", "Bool"} -> t
      [] t.cat \in {"Contract", "Enum"} -> IF inLibrary /\ EncodingType(t) # NoType THEN t
                                          ELSE EncodingType(t)
      [] t.cat = "Function" -> EncodingType(t)
      [] t.cat = "Mapping" -> IF inLibrary THEN t ELSE NoType
      [] IsRef(t) /\ inLibrary /\ t.loc = "Storage" -> t
      [] t.cat = "Array" ->
           IF IsByteArray(t) THEN CopyForLocation(t, "Memory", TRUE)
           ELSE LET base == InterfaceType(t.base, inLibrary)
                IN  IF base = NoType THEN NoType
                    ELSE Array("Memory", TRUE, "Ordinary", base, t.dyn, t.len)
      [] t.cat = "Struct" -> IF CanBeUsedExternally(t, inLibrary)
                             THEN CopyForLocation(t, "Memory", TRUE) ELSE NoType
      [] OTHER -> NoType

RECURSIVE IsDynamicallyEncoded(_)
IsDynamicallyEncoded(t) ==
    CASE t.cat = "Array" -> t.dyn \/ IsDynamicallyEncoded(t.base)
      [] t.cat = "Struct" ->
           \E i \in DOMAIN MemoryMemberTypes(t.struct) :
              IsDynamicallyEncoded(InterfaceType(MemoryMemberTypes(t.struct)[i], FALSE))
      [] OTHER -> FALSE

------------------------------------------------------------------------------
(* Functions and members.                                                   *)

ParameterTypes(f) == IF f.bound THEN Tail(f.params) ELSE f.params
\* Dynamic data cannot be returned from another contract.
ReturnTypesWithoutDynamic(f) ==
    [i \in DOMAIN f.rets |->
        IF /\ f.kind \in {"External", "CallCode", "DelegateCall"}
           /\ IsDynamicallySized(f.rets[i]) /\ ~DataStoredIn(f.rets[i], "Storage")
        THEN InaccessibleDynamic ELSE f.rets[i]]
CanTakeArguments(f, args, self) ==
    /\ f.bound => ImplicitlyConvertible(self, f.params[1])
    /\ \/ f.arbitrary
       \/ /\ Len(args) = Len(ParameterTypes(f))
          /\ \A i \in DOMAIN args : ImplicitlyConvertible(args[i], ParameterTypes(f)[i])
IsBareCall(f) == f.kind \in {"BareCall", "BareCallCode", "BareDelegateCall", "ECRecover",
                             "SHA256", "RIPEMD160"}
IsPureFunction(f) ==
    f.kind \in {"SHA3", "ECRecover", "SHA256", "RIPEMD160", "AddMod", "MulMod",
                "ObjectCreation", "ABIEncode", "ABIEncodePacked", "ABIEncodeWithSelector",
                "ABIEncodeWithSignature"}
CopyAndSetGasOrValue(f, gas, value) ==
    [f EXCEPT !.gas = @ \/ gas, !.value = @ \/ value]
AsMemberFunction(f, inLibrary, public, bound) ==
    IF bound /\ f.params = <<>> THEN NoType
    ELSE [f EXCEPT !.kind = IF ~inLibrary THEN @ ELSE IF public THEN "DelegateCall" ELSE "Internal",
                   !.bound = bound,
                   !.params = [i \in DOMAIN @ |->
                       IF IsRef(@[i]) /\ @[i].loc = "CallData"
                       THEN CopyForLocation(@[i], "Memory", TRUE) ELSE @[i]]]
InterfaceFunctionType(f, inLibrary, isVariable) ==
    LET Ext(ts) == [i \in DOMAIN ts |-> InterfaceType(ts[i], inLibrary)]
    IN  IF \/ NoType \in Range(Ext(f.params)) \cup Range(Ext(f.rets))
           \/ isVariable /\ f.rets = <<>>
        THEN NoType
        ELSE FunctionType(f.kind, Ext(f.params), Ext(f.rets), f.mut, f.arbitrary)

RECURSIVE AccessorParameters(_)
RECURSIVE AccessedType(_)
AccessorParameters(t) ==
    CASE t.cat = "Mapping" -> <<t.key>> \o AccessorParameters(t.value)
      [] t.cat = "Array" /\ ~IsByteArray(t) -> <<UInt(WordBytes)>> \o AccessorParameters(t.base)
      [] OTHER -> <<>>
AccessedType(t) ==
    CASE t.cat = "Mapping" -> AccessedType(t.value)
      [] t.cat = "Array" /\ ~IsByteArray(t) -> AccessedType(t.base)
      [] OTHER -> t
(* The function that reads a public state variable: one argument for each    *)
(* mapping or array on the way; of a struct it leaves out the mappings and   *)
(* the arrays.                                                               *)
AccessorType(t) ==
    LET end == AccessedType(t)
        Kept(m) == m.cat # "Mapping" /\ ~(m.cat = "Array" /\ ~IsByteArray(m))
        InMemory(m) == CopyForLocationIfReference(m, "Memory")
        members == IF end.cat = "Struct" THEN SelectSeq(MemberTypes(end.struct), Kept) ELSE <<end>>
    IN  FunctionType("External", AccessorParameters(t),
                     [i \in DOMAIN members |-> InMemory(members[i])], "View", FALSE)

Word == UInt(WordBytes)
AddressMembers ==
    [balance |-> Word,
     call |-> FunctionType("BareCall", <<>>, <<BoolType>>, "Payable", TRUE),
     callcode |-> FunctionType("BareCallCode", <<>>, <<BoolType>>, "Payable", TRUE),
     delegatecall |-> FunctionType("BareDelegateCall", <<>>, <<BoolType>>, "NonPayable", TRUE),
     send |-> FunctionType("Send", <<Word>>, <<BoolType>>, "NonPayable", FALSE),
     transfer |-> FunctionType("Transfer", <<Word>>, <<>>, "NonPayable", FALSE)]
BlockMembers ==
    [coinbase |-> AddressType, timestamp |-> Word, difficulty |-> Word, number |-> Word,
     gaslimit |-> Word,
     blockhash |-> FunctionType("BlockHash", <<Word>>, <<FixedBytes(WordBytes)>>, "View", FALSE)]
MessageMembers ==
    [sender |-> AddressType, gas |-> Word, value |-> Word, sig |-> FixedBytes(SelectorBytes),
     data |-> ByteArray("CallData", TRUE, "Bytes")]
ABIMembers ==
    LET Encoder(kind, params) ==
            FunctionType(kind, params, <<ByteArray("Memory", TRUE, "Bytes")>>, "Pure", TRUE)
    IN  [encode |-> Encoder("ABIEncode", <<>>),
         encodePacked |-> Encoder("ABIEncodePacked", <<>>),
         encodeWithSelector |-> Encoder("ABIEncodeWithSelector", <<FixedBytes(SelectorBytes)>>),
         encodeWithSignature |-> Encoder("ABIEncodeWithSignature",
                                         <<ByteArray("Memory", TRUE, "String")>>)]
FunctionMember(f, name) ==
    LET Setter(kind, gas, value) ==
            [FunctionType(kind, <<Word>>, <<CopyAndSetGasOrValue(f, gas, value)>>, "NonPayable", FALSE)
             EXCEPT !.gas = f.gas, !.value = f.value]
    IN  CASE name = "selector" /\ f.kind = "External" -> FixedBytes(SelectorBytes)
          [] /\ name = "value" /\ f.mut = "Payable"
             /\ f.kind \in {"External", "Creation", "BareCall", "BareCallCode"} ->
               Setter("SetValue", FALSE, TRUE)
          [] /\ name = "gas"
             /\ f.kind \in {"External", "BareCall", "BareCallCode", "BareDelegateCall"} ->
               Setter("SetGas", TRUE, FALSE)
          [] OTHER -> NoType
ArrayMember(t, name) ==
    CASE name = "length" /\ t.kind # "String" -> Word
      [] name = "push" /\ t.kind # "String" /\ t.dyn /\ t.loc = "Storage" ->
           FunctionType(IF IsByteArray(t) THEN "ByteArrayPush" ELSE "ArrayPush",
                        <<t.base>>, <<Word>>, "NonPayable", FALSE)
      [] OTHER -> NoType
Lookup(members, name) == IF name \in DOMAIN members THEN members[name] ELSE NoType

\* The type of a member, NoType if there is none of that name.
MemberType(t, name) ==
    CASE IsAddress(t) -> Lookup(AddressMembers, name)
      [] t.cat = "Contract" /\ ~t.super -> Lookup(AddressMembers, name)
      [] t.cat = "FixedBytes" -> IF name = "length" THEN UInt(1) ELSE NoType
      [] t.cat = "Array" -> ArrayMember(t, name)
      [] t.cat = "Struct" ->
           IF /\ \E i \in DOMAIN StructMembers[t.struct] : StructMembers[t.struct][i].name = name
              /\ t.loc = "Storage" \/ CanLiveOutsideStorage(StructMember(t, name))
           THEN StructMember(t, name) ELSE NoType
      [] t.cat = "Function" -> FunctionMember(t, name)
      [] t.cat = "Magic" ->
           Lookup(CASE t.magic = "Block" -> BlockMembers
                    [] t.magic = "Message" -> MessageMembers
                    [] t.magic = "Transaction" -> [origin |-> AddressType, gasprice |-> Word]
                    [] t.magic = "ABI" -> ABIMembers, name)
      [] t.cat = "TypeType" /\ t.actual.cat = "Enum" ->
           IF name = "member" THEN t.actual ELSE NoType
      [] OTHER -> NoType
==============================================================================

-------------------------- MODULE MCGeneratedCode ----------------------------
(* Small instances of GeneratedCode: a word of four bytes of three bits.     *)
EXTENDS GeneratedCode

MCStructMembers ==
    [S |-> <<[name |-> "a", type |-> SInt(1)], [name |-> "b", type |-> UInt(2)],
             [name |-> "c", type |-> UInt(4)]>>,
     M |-> <<[name |-> "m", type |-> [cat |-> "Mapping"]], [name |-> "x", type |-> UInt(1)]>>]
MCEnumMembers == [E |-> 3]
MCLinearized == [C |-> <<"C">>]

ValueTypes == <<UInt(1), UInt(2), UInt(4), SInt(1), SInt(2), SInt(4), AddressType, BoolType,
                FixedBytes(1), FixedBytes(3), FixedBytes(4), Enum("E"), Contract("C", FALSE)>>
Words == <<0, 1, 2, 5, 7, 8, 37, 63, 64, 511, 512, 2048, 2730, 4095>>

\* Every combination of two or three items of sequences, made into an experiment.
Pick(A, k, n) == A[((k \div n) % Len(A)) + 1]
Combine2(A, B, E(_, _)) ==
    <<>> \o [k \in 1..(Len(A) * Len(B)) |-> E(Pick(A, k - 1, Len(B)), Pick(B, k - 1, 1))]
Combine3(A, B, C, E(_, _, _)) ==
    <<>> \o [k \in 1..(Len(A) * Len(B) * Len(C)) |->
        E(Pick(A, k - 1, Len(B) * Len(C)), Pick(B, k - 1, Len(C)), Pick(C, k - 1, 1))]

Conversions ==
    SelectSeq(Combine2(ValueTypes, ValueTypes,
                       LAMBDA a, b : [op |-> "convert", from |-> a, to |-> b, inputs |-> Words]),
              LAMBDA e : ExplicitlyConvertible(e.from, e.to))

\* Some words of each value type, clean on the stack.
Samples(t) ==
    CASE t.cat = "Integer" /\ IsSigned(t) -> <<0, 1, -1, MinValue(t), MaxValue(t)>>
      [] t.cat = "Bool" -> <<0, 1>>
      [] t.cat = "Enum" -> <<0, 2>>
      [] OTHER -> <<0, 1, 5, 2^(ByteBits * StorageBytes(t)) - 1>>
CleanWords(t) == [i \in DOMAIN Samples(t) |-> StackWord(t, Samples(t)[i])]

\* The items of a sequence, each made into something else, one after the other.
Each(seq, E(_)) == <<>> \o [i \in DOMAIN seq |-> E(seq[i])]
Places ==
    SelectSeq(Combine3(ValueTypes, ValueTypes, <<0, 1, 2, 3>>, LAMBDA a, b, off : <<a, b, off>>),
              LAMBDA p : ImplicitlyConvertible(p[1], p[2]) /\ p[3] + StorageBytes(p[2]) <= WordBytes)
Assignments ==
    Each(Places, LAMBDA p :
        [op |-> "assign", from |-> p[1], to |-> p[2], offset |-> p[3],
         inputs |-> Combine2(CleanWords(p[1]), <<0, 2730, 4095>>,
                             LAMBDA w, s : [word |-> w, slot |-> s])])
Clearings ==
    SelectSeq(Combine2(ValueTypes, <<0, 1, 2, 3>>,
                       LAMBDA t, off : [op |-> "zeroItem", to |-> t, offset |-> off,
                                        inputs |-> <<0, 2730, 4095>>]),
              LAMBDA e : e.offset + StorageBytes(e.to) <= WordBytes)

\* Values of array types: the i-th element of an array of n.
ElementAt(t, i) == Pick(Samples(t), i, 1)
Filled(t, n) == <<>> \o [i \in 1..n |-> ElementAt(t, i)]
Dyn(loc, base) == Array(loc, FALSE, "Ordinary", base, TRUE, 0)
Fix(loc, base, n) == Array(loc, FALSE, "Ordinary", base, FALSE, n)
LengthsOf(t, most) == IF t.cat = "Array" /\ ~t.dyn THEN <<t.len>> ELSE [i \in 1..(most + 1) |-> i - 1]

Bytes == ByteArray("Storage", FALSE, "Bytes")
FilledBytes(n) == <<>> \o [i \in 1..n |-> (i % 7) + 1]
Contents(t, n) == IF IsByteArray(t) THEN FilledBytes(n) ELSE Filled(t.base, n)


(* Left out of the passing run are the copies and the changes of length that *)
(* leave elements of the old tail in a slot (Tails below), and copies of     *)
(* signed elements to wider ones, whose sign is cut off.                     *)
SlotsFor(t, n) ==
    IF IsByteArray(t) THEN 0
    ELSE LET per == WordBytes \div StorageBytes(t.base) IN (n + per - 1) \div per
Cleans(b, n, k) == (~IsByteArray(b) /\ StorageBytes(b.base) <= WordBytes \div 2)
                       => SlotsFor(b, n) >= SlotsFor(b, k)
Copy(a, b, most) ==
    [op |-> "copy", from |-> a, to |-> b,
     inputs |-> SelectSeq(Combine2(LengthsOf(a, most), LengthsOf(b, most),
                              LAMBDA n, k : [value |-> Contents(a, n), old |-> Contents(b, k)]),
                          LAMBDA x : Cleans(b, Len(x.value), Len(x.old)))]
Locations == <<"Memory", "Storage", "CallData">>
Bases == <<UInt(1), SInt(1), UInt(2), FixedBytes(3), BoolType, UInt(4)>>
Copies ==
    Combine2(Locations, Bases, LAMBDA loc, t : Copy(Dyn(loc, t), Dyn("Storage", t), 5))
    \o <<Copy(Fix("Memory", UInt(1), 3), Dyn("Storage", UInt(2)), 4),
         Copy(Fix("Storage", UInt(2), 3), Fix("Storage", UInt(2), 4), 0),
         Copy(Fix("CallData", UInt(1), 5), Fix("Storage", UInt(1), 6), 0)>>
    \o Combine2(Locations, <<Bytes>>, LAMBDA loc, t : Copy(CopyForLocation(t, loc, FALSE), t, 9))

Loads ==
    Combine2(<<"Storage", "CallData">>, <<UInt(1), SInt(2), FixedBytes(3), UInt(4)>>, LAMBDA loc, t :
        [op |-> "load", from |-> Dyn(loc, t), to |-> Dyn("Memory", t),
         inputs |-> Each(<<0, 1, 3, 5>>, LAMBDA n : [value |-> Filled(t, n)])])
    \o Combine2(<<"Storage", "CallData">>, <<Bytes>>, LAMBDA loc, t :
        [op |-> "load", from |-> CopyForLocation(t, loc, FALSE), to |-> CopyForLocation(t, "Memory", FALSE),
         inputs |-> Each(<<0, 1, 3, 4, 5, 9>>, LAMBDA n : [value |-> FilledBytes(n)])])
    \o <<[op |-> "load", from |-> Struct("S", "Storage", FALSE), to |-> Struct("S", "Memory", FALSE),
          inputs |-> <<[value |-> <<-1, 37, 4095>>]>>],
         [op |-> "load", from |-> Fix("Storage", Fix("Storage", UInt(1), 2), 2),
          to |-> Fix("Memory", Fix("Memory", UInt(1), 2), 2), inputs |-> <<[value |-> <<<<1, 2>>, <<3, 7>>>>]>>]>>

Nested == Dyn("Storage", Dyn("Storage", UInt(2)))
NestedValues == <<<<>>, <<<<>>>>, <<<<1, 2, 63>>>>, <<<<1>>, <<>>, <<5, 6>>>>>>
StructCopies ==
    <<[op |-> "copy", from |-> Struct("S", "Storage", FALSE), to |-> Struct("S", "Storage", FALSE),
       inputs |-> <<[value |-> <<-1, 37, 4095>>, old |-> <<2, 63, 1>>]>>],
      [op |-> "copy", from |-> Struct("S", "Memory", FALSE), to |-> Struct("S", "Storage", FALSE),
       inputs |-> <<[value |-> <<-4, 63, 7>>, old |-> <<3, 63, 1>>]>>],
      [op |-> "copy", from |-> Struct("M", "Storage", FALSE), to |-> Struct("M", "Storage", FALSE),
       inputs |-> <<[value |-> <<0, 7>>, old |-> <<0, 5>>]>>]>>
Deletions ==
    Each(<<UInt(1), UInt(2), FixedBytes(3), UInt(4)>>, LAMBDA t :
        [op |-> "delete", to |-> Dyn("Storage", t), inputs |-> Each(<<0, 1, 3, 5, 9>>, LAMBDA n : Filled(t, n))])
    \o Each(<<1, 3, 4, 7>>, LAMBDA n :
        [op |-> "delete", to |-> Fix("Storage", UInt(4), n), inputs |-> <<Filled(UInt(4), n)>>])
    \o <<[op |-> "delete", to |-> Bytes, inputs |-> Each(<<0, 1, 3, 4, 5, 9>>, LAMBDA n : FilledBytes(n))],
         [op |-> "delete", to |-> Struct("S", "Storage", FALSE), inputs |-> <<<<-1, 63, 4095>>>>],
         [op |-> "delete", to |-> Nested, inputs |-> NestedValues],
         [op |-> "delete", to |-> Fix("Storage", Fix("Storage", UInt(2), 3), 2),
          inputs |-> <<<<<<1, 2, 3>>, <<4, 5, 6>>>>>>],
         [op |-> "delete", to |-> Fix("Storage", Dyn("Storage", UInt(1)), 5),
          inputs |-> <<<<<<1>>, <<>>, <<2, 3, 4, 5, 6>>, <<>>, <<7>>>>>>]>>
Resizes ==
    Combine2(<<Dyn("Storage", UInt(1)), Dyn("Storage", UInt(2)), Dyn("Storage", UInt(4))>>,
             <<0, 1, 4, 8>>, LAMBDA t, n : [op |-> "resize", to |-> t, len |-> n,
                  inputs |-> SelectSeq(Each(<<0, 1, 4, 8, 9>>, LAMBDA k : Filled(t.base, k)),
                                       LAMBDA x : Len(x) <= n \/ n % (WordBytes \div StorageBytes(t.base)) = 0)])
    \o Each(<<0, 1, 3, 4, 5, 8, 9>>, LAMBDA n :
        [op |-> "resize", to |-> Bytes, len |-> n,
         inputs |-> SelectSeq(Each(<<0, 1, 3, 4, 5, 8, 9>>, LAMBDA k : FilledBytes(k)),
                              LAMBDA x : Len(x) <= n \/ n < WordBytes \/ n % WordBytes = 0)])
\* A packed array cut in the middle of a slot, and one copied over a longer one.
Tails ==
    <<[op |-> "resize", to |-> Dyn("Storage", UInt(1)), len |-> 2, inputs |-> <<<<1, 2, 3>>>>],
      [op |-> "resize", to |-> Bytes, len |-> 5, inputs |-> <<FilledBytes(8)>>],
      [op |-> "copy", from |-> Dyn("Memory", UInt(1)), to |-> Dyn("Storage", UInt(1)),
       inputs |-> <<[value |-> <<1>>, old |-> Filled(UInt(1), 8)]>>]>>
Pushes ==
    Each(<<UInt(1), UInt(2), SInt(2), FixedBytes(3), UInt(4)>>, LAMBDA t :
        [op |-> "push", to |-> Dyn("Storage", t), last |-> 1,
         inputs |-> Each(<<0, 1, 3, 4>>, LAMBDA n : Filled(t, n))])
    \o <<[op |-> "push", to |-> Bytes, last |-> 6,
          inputs |-> Each(<<0, 1, 2, 3, 4, 7, 8>>, LAMBDA n : FilledBytes(n))]>>

MemBytes == ByteArray("Memory", TRUE, "Bytes")
Encodings ==
    <<[op |-> "encode", types |-> <<UInt(1), SInt(2), FixedBytes(1)>>,
       inputs |-> <<[values |-> <<7, -3, 5>>, dirt |-> <<0, 0, 0>>],
                    [values |-> <<7, -3, 5>>, dirt |-> <<2048, 64, 1>>]>>],
      [op |-> "encode", types |-> <<Dyn("Memory", UInt(1)), UInt(2), MemBytes>>,
       inputs |-> <<[values |-> <<<<1, 2, 3>>, 63, <<1, 2, 3, 4, 5>>>>, dirt |-> <<0, 0, 0>>],
                    [values |-> <<<<>>, 0, <<>>>>, dirt |-> <<0, 0, 0>>],
                    [values |-> <<<<7>>, 1, <<7, 7, 7, 7>>>>, dirt |-> <<0, 0, 0>>]>>]>>
Decodings ==
    <<[op |-> "decode", types |-> <<UInt(1), SInt(2), FixedBytes(1)>>,
       inputs |-> <<<<7, 3, 512>>, <<15, 4095, 5>>, <<1, 2, 3, 4>>, <<1, 2>>>>],
      [op |-> "decode", types |-> <<UInt(2), Dyn("Memory", UInt(1))>>,
       inputs |-> Combine3(<<0, 4, 8, 12, 16, 20, 64, 68>>, <<0, 1, 2, 3, 5, 8, 60, 64, 68, 1024, 4095>>,
                           <<0, 7, 8>>, LAMBDA p, n, v : <<5, p, n, v, 3>>)]>>
Zeroes ==
    <<[op |-> "zero", to |-> UInt(2), inputs |-> <<0>>],
      [op |-> "zero", to |-> Dyn("Memory", UInt(1)), inputs |-> <<<<>>>>],
      [op |-> "zero", to |-> Fix("Memory", UInt(1), 3), inputs |-> <<<<0, 0, 0>>>>],
      [op |-> "zero", to |-> Fix("Memory", Fix("Memory", UInt(2), 2), 2), inputs |-> <<<<<<0, 0>>, <<0, 0>>>>>>],
      [op |-> "zero", to |-> Struct("S", "Memory", FALSE), inputs |-> <<<<0, 0, 0>>>>]>>
(* A tuple is assigned from the right to the left: the values, then the      *)
(* references of the storage items.                                          *)
Tuples ==
    <<[op |-> "tuple", to |-> TupleObject(<<StackVariable(Word, 2), StorageItem(UInt(2))>>),
       from |-> Tuple(<<Word, UInt(2)>>), stack |-> Markers \o <<7, 8, 9, 1, 1>>,
       final |-> Markers \o <<8>>, after |-> StoreSlot(<<>>, 1, 9 * 8), inputs |-> <<<<>>>>],
      [op |-> "tuple", to |-> TupleObject(<<StorageItem(Word), NoLValue, StorageItem(UInt(1))>>),
       from |-> Tuple(<<Word, NoType, UInt(1)>>), stack |-> Markers \o <<4, 6, 1, 0, 2, 3>>,
       final |-> Markers, after |-> StoreSlot(StoreSlot(<<>>, 1, 4), 2, 6 * 512), inputs |-> <<<<>>>>]>>

MCExperiments ==
    <<>> \o Conversions \o Assignments \o Clearings \o Copies \o StructCopies \o Loads \o Deletions
    \o Resizes \o Pushes \o Encodings \o Decodings \o Zeroes \o Tuples
==============================================================================

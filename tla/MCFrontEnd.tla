------------------------------ MODULE MCFrontEnd ------------------------------
(****************************************************************************)
(* The programs FrontEnd is checked with.  A program is written down as the *)
(* tokens of its texts; each family puts one part of the front end through  *)
(* all the cases that are short enough.                                     *)
(****************************************************************************)
EXTENDS FrontEnd

(* A program of one unit; a program of several, in the order given.         *)
Closed(order, texts) ==
    [open |-> FALSE, order |-> order, texts |-> texts, alphabet |-> {}, limit |-> 0]
Single(text) == Closed(<<"u">>, "u" :> text)
Line(texts) == Joined(texts)
Braces(text) == <<"{">> \o text \o <<"}">>
Contract(name, text) == <<"contract", name>> \o Braces(text)
Function(name, attributes, returned, text) ==
    <<"function", name, "(", ")">> \o attributes \o returned \o Braces(text)

V050Pragma == <<"pragma", "experimental", "v0.5.0", ";">>
UpTo(S, n) == UNION {[1..k -> S] : k \in 0..n}
Texts(S, n) == {Line(ts) : ts \in UpTo(S, n)}

----------------------------------------------------------------------------
(* Texts: statements in the body of a modifier, typed word by word; the     *)
(* last is completed with a semicolon, or needs none.                       *)
Typed(ending, words, limit) ==
    [open |-> TRUE, order |-> <<>>, alphabet |-> words, limit |-> limit,
     texts |-> [before |-> <<"contract", "A", "{", "modifier", "m", "{">>,
                after |-> ending \o <<"}", "}">>]]
Tokens(S) == {<<t>> : t \in S}
TextPrograms ==
    {Typed(<<";">>, Tokens({"x", "1", "+", "*", "**", "=", "?", ":", "(", ")", "++", "-",
                            "<"}), 5),
     Typed(<<";">>, Tokens({"x", "+", "*", "=", "?", ":"}), 7),
     Typed(<<";">>, Tokens({"x", "uint", "[", "]", ".", "=", "(", ")", ",", "memory", "1",
                            "new", "var"}), 5),
     Typed(<<>>, {<<"if", "(", "x", ")">>, <<"while", "(", "x", ")">>, <<"else">>,
                  <<"x", ";">>, <<"{", "}">>}, 12),
     Typed(<<";">>, Tokens({"do", "while", "(", "x", ")", ";", "return"}), 6),
     Typed(<<";">>, Tokens({"x", ";", "uint", "=", "_", "emit", ",", ":", "{", "}", ")", "("})
                    \cup {<<"for", "(">>}, 6)}

----------------------------------------------------------------------------
(* Scopes: declarations and uses of x in nested blocks and loops, under     *)
(* both rules of scoping.                                                   *)
Declared == <<"uint", "x", ";">>
Used == <<"x", ";">>
Simple == {Declared, Used}
Nested == {Braces(t) : t \in Texts(Simple, 2)}
          \cup {<<"for", "(", "uint", "x", "=", "x", ";", "x", ";", ")">> \o b :
                   b \in {<<"{", "}">>, Used, Braces(Declared \o Used)}}
ScopePrograms ==
    {Single(Line(<<pragma,
                   Contract("A", state
                     \o <<"function", "f", "(">> \o parameter \o <<")", "public">>
                     \o Braces(body)
                     \o Function("g", <<"public">>, <<>>, Used))>>)) :
        pragma \in {<<>>, V050Pragma},
        state \in {<<>>, <<"uint", "x", ";">>},
        parameter \in {<<>>, <<"uint", "x">>},
        body \in Texts(Simple \cup Nested, 2)}

----------------------------------------------------------------------------
(* Inheritance: the lists of up to two bases for four contracts, and those  *)
(* of the fourth and another for a fifth; some declare x and f.  Also bases *)
(* that are defined later.                                                  *)
Lists(S, n) == {l \in UpTo(S, n) : \A j, k \in DOMAIN l : j # k => l[j] # l[k]}
Is(list) == IF list = <<>> THEN <<>>
            ELSE <<"is">> \o Separated([k \in DOMAIN list |-> <<list[k]>>], ",")
Heir(name, list, text) == <<"contract", name>> \o Is(list) \o Braces(text)
Calling(name, text) == Function(name, <<"public">>, <<>>, text)
InheritancePrograms ==
    {Single(Line(<<Heir("A", <<>>, <<"uint", "x", ";">> \o Calling("f", <<>>)),
                   Heir("B", b, <<"uint", "private", "x", ";">> \o Calling("f", <<>>)),
                   Heir("C", c, <<"uint", "x", ";">>),
                   Heir("D", d, Calling("f", Used)),
                   Heir("E", e, Calling("g", Used \o <<"f", "(", ")", ";">>))>>)) :
        b \in Lists({"A"}, 1), c \in Lists({"A", "B"}, 2),
        d \in Lists({"A", "B", "C"}, 2),
        e \in {l \in Lists({"A", "B", "C", "D"}, 2) : Len(l) = 2 /\ "D" \in ToSet(l)}}
    \cup {Single(Line(<<Heir("A", a, <<>>), Heir("B", b, <<>>), Heir("C", <<>>, <<>>)>>)) :
             a \in Lists({"A", "B", "C"}, 2), b \in Lists({"A", "B", "C"}, 2)}

----------------------------------------------------------------------------
(* Imports: u imports v and perhaps w, v imports w, in every form, and u    *)
(* uses a name; w may import v in its turn.                                 *)
Import(form, unit) ==
    CASE form = "none" -> <<>>
      [] form = "all" -> <<"import", unit, ";">>
      [] form = "unit" -> <<"import", unit, "as", "M", ";">>
      [] form = "alias" -> <<"import", "{", "A", "as", "D", "}", "from", unit, ";">>
      [] form = "back" -> <<"import", "{", "D", "as", "A", "}", "from", unit, ";">>
      [] form = "one" -> <<"import", "{", "A", "}", "from", unit, ";">>
ImportPrograms ==
    {Closed(<<"w", "v", "u">>,
            [u |-> Import(direct, "w") \o Import(first, "v")
                   \o Contract("C", use \o <<"y", ";">>),
             v |-> Import(second, "w") \o Contract("B", <<>>),
             w |-> Import(back, "v") \o Contract("A", <<>>)]) :
        direct \in {"none", "all"},
        first \in {"none", "all", "unit", "alias", "back", "one"},
        second \in {"none", "all", "unit", "alias", "one"},
        back \in {"none", "all"},
        use \in {<<"A">>, <<"D">>, <<"M", ".", "A">>, <<"M", ".", "B">>}}

----------------------------------------------------------------------------
(* Flow: a function that returns a storage pointer, with a branch or a loop *)
(* in it, and with modifiers.                                               *)
Assign == <<"s", "=", "q", ";">>
If(text) == <<"if", "(", "y", ")">> \o text
Leaves == {Assign, If(<<"break", ";">>), If(<<"continue", ";">>), <<"continue", ";">>,
           <<"return", ";">>, <<"revert", "(", ")", ";">>}
Branches == {Braces(t) : t \in Texts(Leaves, 1)}
Bodies == {Braces(t) : t \in Texts(Leaves, 2)}
Loops == {<<"while", "(", "y", ")">> \o b : b \in Bodies}
         \cup {<<"do">> \o b \o <<"while", "(", "y", ")", ";">> : b \in Bodies}
         \cup {<<"for", "(", ";">> \o h \o <<")">> \o b :
                  h \in {<<";">>, <<"y", ";">>, <<"y", ";", "s", "=", "q">>}, b \in Bodies}
Straight == Leaves \cup {<<"throw", ";">>, <<"require", "(", "y", ")", ";">>,
                         <<"return", "q", ";">>,
                         <<"y", "&&", "h", "(", "s", "=", "q", ")", ";">>,
                         <<"y", "?", "h", "(", "s", "=", "q", ")", ":", "y", ";">>}
FlowBodies == Texts(Straight, 2)
              \cup {If(b) \o <<"else">> \o c \o e :
                       b \in Branches, c \in Branches, e \in {<<>>, Assign}}
              \cup {l \o e : l \in Loops, e \in {<<>>, <<"return", "q", ";">>}}
(* Two pointers: a path that leaves fewer of them open is walked first.      *)
AssignEither == {<<>>, Assign, <<"t", "=", "q", ";">>}
TwoPointers == {If(Braces(b)) \o <<"else">> \o Braces(c) \o e :
                   b \in AssignEither, c \in AssignEither, e \in AssignEither}
               \cup {<<"while", "(", "y", ")">> \o Braces(If(<<"break", ";">>) \o b) \o e :
                        b \in AssignEither, e \in AssignEither}
FlowContract(modifiers, invoked, more, body) ==
    Contract("A", Line(<<<<"struct", "S", "{", "uint", "x", ";", "}">>,
                         <<"S", "q", ";", "bool", "y", ";">>,
                         <<"function", "h", "(", "S", "storage", "p", ")", "internal",
                           "returns", "(", "bool", ")", ";">>,
                         modifiers,
                         Function("f", <<"internal">> \o invoked,
                                  <<"returns", "(", "S", "storage", "s">> \o more \o <<")">>,
                                  body)>>))
Modifier(name, text) == <<"modifier", name>> \o Braces(text)
FlowPrograms ==
    {Single(FlowContract(<<>>, <<>>, <<>>, body)) : body \in FlowBodies}
    \cup {Single(FlowContract(<<>>, <<>>, <<",", "S", "storage", "t">>, body)) :
             body \in TwoPointers}
    \cup {Single(FlowContract(Modifier("m", first) \o Modifier("t", second), invoked,
                              <<>>, body)) :
             first \in {<<"_", ";">>, If(<<"_", ";">>), <<"_", ";", "_", ";">>},
             second \in {<<"_", ";">>, If(<<"return", ";">>) \o <<"_", ";">>},
             invoked \in {<<"m">>, <<"t">>, <<"m", "t">>},
             body \in {<<>>, Assign, If(Assign)}}

----------------------------------------------------------------------------
(* Mutability: what f and its modifier do, and what g, which it calls,      *)
(* declares and does.                                                       *)
Effect == {<<"x", ";">>, <<"x", "=", "1", ";">>}
StateStatements == Effect \cup
    {<<"x", "++", ";">>, <<"delete", "x", ";">>, <<"(", "x", ",", ")", "=", "(", "1", ",", "1", ")", ";">>,
     <<"p", "[", "1", "]", ";">>, <<"p", "[", "1", "]", "=", "1", ";">>,
     <<"p", ".", "length", ";">>, <<"p", ".", "push", "(", "1", ")", ";">>,
     <<"uint", "[", "]", "storage", "q", "=", "p", ";", "q", "[", "1", "]", "=", "1", ";">>,
     <<"s", ".", "x", ";">>, <<"s", ".", "x", "=", "1", ";">>,
     <<"msg", ".", "sender", ";">>, <<"msg", ".", "data", ";">>, <<"y", ";">>,
     <<"msg", ".", "sender", ".", "transfer", "(", "1", ")", ";">>,
     <<"block", ".", "blockhash", "(", "1", ")", ";">>,
     <<"h", "(", "1", ")", ";">>, <<"emit", "t", "(", ")", ";">>, <<"assembly", "{asm}">>}
Called == {<<"g", "(", ")", ";">>, <<"this", ".", "g", "(", ")", ";">>}
Promises == {<<>>, <<"view">>, <<"pure">>}
MutabilityContract(pragma, modified, f, body, g, callee) ==
    Single(pragma \o Contract("A", Line(<<
        <<"struct", "S", "{", "uint", "x", ";", "}", "S", "s", ";">>,
        <<"uint", "x", ";", "uint", "[", "]", "p", ";">>,
        <<"uint", "constant", "y", "=", "1", ";">>,
        <<"event", "t", "(", ")", ";">>,
        Modifier("m", modified \o <<"_", ";">>),
        <<"function", "h", "(", "uint", "q", ")", "public", "pure", "{", "q", ";", "}">>,
        Function("f", <<"public">> \o f \o <<"m">>, <<>>, body),
        Function("g", <<"public">> \o g, <<>>, callee)>>)))
MutabilityPrograms ==
    {MutabilityContract(pragma, modified, f, body, g, callee) :
        pragma \in {<<>>, V050Pragma}, modified \in Effect \cup {<<>>}, f \in Promises,
        body \in Called, g \in Promises, callee \in Effect \cup {<<>>}}
    \cup {MutabilityContract(pragma, modified, f, body, <<>>, <<>>) :
             pragma \in {<<>>, V050Pragma}, modified \in Effect \cup {<<>>}, f \in Promises,
             body \in StateStatements}
    \cup {MutabilityContract(<<>>, <<>>, f, <<"this", ".", "send", "(", "1", ")", ";">>, <<>>, <<>>) :
             f \in Promises}

----------------------------------------------------------------------------
(* Constants: three that refer to each other.                               *)
Values == {<<"1">>, <<"x">>, <<"y">>, <<"s">>, <<"x", "+", "y">>, <<"y", "*", "s">>}
Constant(name, value) == <<"uint", "constant", name, "=">> \o value \o <<";">>
ConstantPrograms ==
    {Single(Contract("A", Line(<<Constant("x", a), Constant("y", b), Constant("s", c)>>))) :
        a \in Values, b \in Values, c \in Values}

(* Overriding: what A, B and C declare under the name f, and how they are   *)
(* derived from each other.                                                 *)
Body == <<"{", "}">>
Open == <<";">>
Named(parameters, attributes, body) ==
    <<"function", "f", "(">> \o parameters \o <<")">> \o attributes \o body
Overrides ==
    {<<>>} \cup {Named(<<>>, a, b) : a \in {<<"public">>, <<"external">>}, b \in {Body, Open}}
    \cup {Named(<<>>, <<"public", "view">>, Body), Named(<<"uint", "x">>, <<"public">>, Body),
          Named(<<>>, <<"external", "returns", "(", "uint", ")">>, Open)}
Kind(kind, name, list, text) == <<kind, name>> \o Is(list) \o Braces(text)
OverridePrograms ==
    {Single(Line(<<Kind(kind, "A", <<>>, a), Heir("B", bases[1], b), Heir("C", bases[2], c)>>)) :
        kind \in {"interface", "contract"}, a \in Overrides, b \in Overrides,
        c \in {<<>>, Named(<<>>, <<"public">>, Body)},
        bases \in {<<<<"A">>, <<"B">>>>, <<<<>>, <<"A", "B">>>>, <<<<>>, <<"B", "A">>>>}}

(* Constructors: what the one of A takes, and who gives it.                 *)
Constructor(parameters, modifiers) ==
    <<"constructor", "(">> \o parameters \o <<")", "public">> \o modifiers \o Body
Taken == {<<>>, Constructor(<<>>, <<>>), Constructor(<<"uint", "x">>, <<>>)}
Given == {<<>>, <<"(", ")">>, <<"(", "1", ")">>}
ConstructorPrograms ==
    {Single(pragma \o Line(<<Contract("A", a),
                             <<"contract", "B", "is", "A">> \o b \o Braces(Modifier("m", <<"_", ";">>) \o d),
                             <<"contract", "C", "is">> \o c>>)) :
        pragma \in {<<>>, V050Pragma}, a \in Taken, b \in Given,
        d \in {<<>>} \cup {Constructor(<<>>, <<"A">> \o g) : g \in Given}
              \cup {Constructor(<<>>, <<"m">>)},
        c \in {<<"B">> \o Body, <<"A", "(", "1", ")", ",", "B">> \o Body,
               <<"B">> \o Braces(Constructor(<<>>, <<"A", "(", "1", ")">>))}}

(* Declarations: two in a contract, one in an interface or a library; and   *)
(* what else is wrong with bases and constructors.                          *)
Declarations ==
    {<<>>, Named(<<>>, <<"public">>, Body), Named(<<>>, <<"private">>, Open),
     Named(<<"uint", "x">>, <<"public">>, Body), Named(<<"A", "x">>, <<"external">>, Open),
     Named(<<"address", "x">>, <<"external">>, Open),
     Named(<<"uint", "[", "]", "x">>, <<"external">>, Open),
     Named(<<"uint", "[", "]", "x">>, <<"public">>, Body),
     Named(<<"mapping", "(", "uint", "=>", "uint", ")", "x">>, <<"internal">>, Body),
     Named(<<>>, <<"internal", "payable">>, Body), Named(<<>>, <<"external", "payable">>, Open),
     <<"function", "(", ")", "public", "view">> \o Body,
     <<"function", "(", ")", "external">> \o Body,
     Constructor(<<>>, <<"f">>), <<"constructor", "(", ")", "external">> \o Open,
     <<"struct", "S", "{", "S", "s", ";", "}">>, <<"enum", "E", "{", "x", "}">>,
     <<"event", "f", "(", "uint", "indexed", "x", ")", ";">>,
     <<"uint", "f", ";">>, <<"uint", "public", "constant", "y", "=", "1", ";">>,
     Modifier("f", <<"_", ";">>)}
DeclarationPrograms ==
    {Single(Line(<<Contract("A", <<>>), Contract("B", d \o e)>>)) :
        d \in Declarations, e \in Declarations}
    \cup {Single(Line(<<Contract("A", <<>>), Kind(kind, "B", <<>>, d)>>)) :
             kind \in {"interface", "library"}, d \in Declarations}
    \cup {Single(Line(ts)) : ts \in
             {<<Contract("A", <<>>), Kind("interface", "B", <<"A">>, <<>>)>>,
              <<Kind("library", "A", <<>>, <<>>), Heir("B", <<"A">>, <<>>)>>,
              <<Contract("A", <<>>), Kind("library", "B", <<"A">>, <<"uint", "y", ";">>)>>,
              <<Contract("A", Constructor(<<"uint", "x">>, <<>>)),
                Heir("B", <<"A">>, Constructor(<<>>, <<"A", "(", "1", ")", "A", "(", "1", ")">>))>>,
              <<Contract("A", Named(<<>>, <<"public">>, Body)
                              \o Named(<<"uint", "x">>, <<"public">>, Body)
                              \o Constructor(<<>>, <<"f">>))>>,
              <<Contract("A", <<"uint", "constant", "y", ";">>)>>}
             \cup {<<Kind(kind, "A", <<>>, <<>>),
                     Contract("B", <<"using", "A", "for", "uint", ";">>)>> :
                      kind \in {"contract", "library"}}}

MCAssemblyUses == ("{asm}" :> {"x"})
MCAssemblyEffects == ("{asm}" :> "nonpayable")
MCPrograms == TextPrograms \cup ScopePrograms \cup InheritancePrograms
              \cup ImportPrograms \cup FlowPrograms \cup MutabilityPrograms
              \cup ConstantPrograms \cup OverridePrograms
              \cup ConstructorPrograms \cup DeclarationPrograms
=============================================================================

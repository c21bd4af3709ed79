------------------------- MODULE MCStandardCompiler -------------------------
(***************************************************************************)
(* Requests for StandardCompiler.                                          *)
(***************************************************************************)
EXTENDS StandardCompiler

CONSTANTS a, b

NoReports == [p \in PassNames \cup {"parse"} |-> "nothing"]

Text(imports, creates) ==
  [imports |-> imports, contract |-> "concrete", creates |-> creates, reports |-> NoReports]

Plain   == Text(<<>>, {})
UsesB   == Text(<<b>>, {b})
UsesA   == Text(<<a>>, {})
Broken  == [Plain EXCEPT !.reports["parse"] = "error"]
Warned  == [Plain EXCEPT !.reports["secbit"] = "secbit"]
Wrong   == [Warned EXCEPT !.reports["typeCheck"] = "error"]

MCTexts == {Plain, UsesA, UsesB, Broken, Warned, Wrong}
TwoNames == <<a, b>>

Content(t, hash) == [content |-> t, urls |-> None, hash |-> hash]
Urls(us, hash)   == [content |-> None, urls |-> us, hash |-> hash]
Invalid          == [content |-> None, urls |-> None, hash |-> None]

All == {<<"*", "*", "bytecode">>, <<"*", "", "ast">>}

Req(entries) ==
  [wellFormed |-> TRUE, entries |-> entries, evmVersion |-> "unset", libraries |-> "unset",
   optimize |-> FALSE, secbit |-> FALSE, noSMT |-> TRUE, tagsWanted |-> TRUE,
   selection |-> All]

Sources(x, y) == [n \in Names |-> IF n = a THEN x ELSE y]

\* What a client can ask for, as changes to a request for two sound sources.
SettingRequests ==
  LET r == Req(Sources(Content(UsesB, None), Content(Plain, Plain))) IN
  {r, [r EXCEPT !.wellFormed = FALSE], [r EXCEPT !.evmVersion = "invalid"],
   [r EXCEPT !.evmVersion = "homestead", !.libraries = "given", !.optimize = TRUE],
   [r EXCEPT !.libraries = "invalid"], [r EXCEPT !.secbit = TRUE],
   [r EXCEPT !.selection = {<<a, a, "bytecode">>}],
   [r EXCEPT !.selection = {<<b, b, "*">>, <<a, a, "abi">>}, !.optimize = TRUE],
   [r EXCEPT !.selection = {<<a, "*", "bytecode">>}]}

\* The ways sources are given, with texts that fail; some import what only the callback has.
SourceRequests ==
  {Req(Sources(x, None)) :
     x \in {Invalid, Content(UsesB, None), Content(Broken, None), Content(Plain, Broken),
            Content(Wrong, Wrong), Urls(<<>>, None), Urls(<<Broken, None, Plain>>, Plain)}}
  \cup {Req(Sources(Content(UsesB, None), Content(UsesA, None))),
        Req(Sources(Content(Warned, None), Urls(<<None, Broken>>, None))),
        [Req(Sources(Content(Wrong, None), None)) EXCEPT !.secbit = TRUE],
        [Req(Sources(Content(Warned, None), None)) EXCEPT !.secbit = TRUE],
        [Req(Sources(Content(Warned, None), None)) EXCEPT !.secbit = TRUE, !.tagsWanted = FALSE]}

AllRequests == SettingRequests \cup SourceRequests

\* What the callback may answer.
MCSessions ==
  [requests |-> [names |-> {}, texts |-> {Plain, Broken, UsesA}, versions |-> {}, maxCalls |-> 40]]
=============================================================================

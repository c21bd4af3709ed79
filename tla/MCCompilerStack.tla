--------------------------- MODULE MCCompilerStack ---------------------------
(***************************************************************************)
(* Texts and instances for CompilerStack.                                  *)
(***************************************************************************)
EXTENDS CompilerStack

CONSTANTS a, b, c

Nothing == [p \in PassNames \cup {"parse"} |-> "nothing"]

Text(imports, contract, creates) ==
  [imports |-> imports, contract |-> contract, creates |-> creates, reports |-> Nothing]

With(text, p, severity) == [text EXCEPT !.reports[p] = severity]

Plain == Text(<<>>, "concrete", {})

ThreeNames == <<a, b, c>>

\* One text for each error each pass can report, and warnings; some without a contract.
DefectTexts ==
  {Plain, Text(<<b>>, "concrete", {b}), Text(<<>>, "none", {}),
   With(Plain, "syntax", "warning"), With(Plain, "secbit", "secbit"),
   With(Text(<<>>, "none", {}), "register", "quiet")}
  \cup UNION {{With(Plain, p, s) : s \in SeveritiesOf(p) \cap ErrorSeverities} :
               p \in PassNames \cup {"parse"}}

\* Creation and import structure only.
CreationTexts ==
  {Plain, Text(<<>>, "abstract", {}),
   Text(<<b>>, "abstract", {b}),
   Text(<<a, b>>, "concrete", {b}), Text(<<b, c>>, "concrete", {b, c}),
   Text(<<a>>, "concrete", {a}), Text(<<c>>, "concrete", {})}

\* A little of everything, for long sequences of calls.
ReuseTexts ==
  {Plain, With(Plain, "parse", "fatal"), With(Plain, "typeCheck", "error"),
   With(Plain, "syntax", "warning")}

MCTexts == DefectTexts \cup CreationTexts \cup ReuseTexts

(***************************************************************************)
(* Four kinds of sessions: anything a pass can report, in two sources;     *)
(* imports and creations among three sources; many calls with one source;  *)
(* errors without end, beyond c_maxErrorsAllowed.                          *)
(***************************************************************************)
Session(names, texts, versions, max) ==
  [names |-> names, texts |-> texts, versions |-> versions, maxCalls |-> max]

MCSessions ==
  [defects  |-> Session({a, b}, DefectTexts, {DefaultEVM}, 3),
   creation |-> Session({a, b, c}, CreationTexts, {DefaultEVM}, 2),
   reuse    |-> Session({a}, ReuseTexts, EVMVersions, 7),
   limit    |-> Session({a}, {With(Plain, "syntax", "error")}, {DefaultEVM}, 6)]
=============================================================================

------------------------- MODULE CompilerStackProofs -------------------------
(***************************************************************************)
(* What CompilerStack promises holds for any number of sources, any texts, *)
(* any sequence of calls and any limits of the error reporter.             *)
(***************************************************************************)
EXTENDS CompilerStack, ErrorReporterProofs, WellFoundedInduction

OrderProofs == INSTANCE ImportOrderProofs
                 WITH Sources <- Names, Imports <- Seq(Names), Entries <- Seq(Names),
                      imports <- AstImports, entries <- Roots, dfs <- search

Elements(s) == {s[i] : i \in DOMAIN s}

-----------------------------------------------------------------------------
(***************************************************************************)
(* Numbers and sequences.                                                  *)
(***************************************************************************)
\* A set of numbers that is not empty has a least element.
LEMMA NatMin ==
  ASSUME NEW T \in SUBSET Nat, T # {}
  PROVE  \E x \in T : \A y \in T : x <= y
<1> DEFINE R == {ss \in Nat \X Nat : ss[1] < ss[2]}
<1>1. IsWellFoundedOn(R, Nat)
  BY NatLessThanWellFounded DEF OpToRel
<1>2. \A x, y \in Nat : y < x => <<y, x>> \in R
  <2> SUFFICES ASSUME NEW x \in Nat, NEW y \in Nat, y < x PROVE <<y, x>> \in R
    OBVIOUS
  <2>1. <<y, x>> \in Nat \X Nat /\ <<y, x>>[1] = y /\ <<y, x>>[2] = x
    OBVIOUS
  <2> QED
    BY <2>1
<1> HIDE DEF R
<1>3. PICK x \in T : \A y \in T : ~(<<y, x>> \in R)
  BY <1>1, WFMin
<1>4. \A y \in T : ~(y < x)
  BY <1>2, <1>3
<1> QED
  BY <1>4

\* Induction, for a property given as the set of the numbers that have it.
LEMMA SetInduction ==
  ASSUME NEW S, 0 \in S, \A n \in Nat : n \in S => n + 1 \in S
  PROVE  Nat \subseteq S
<1> SUFFICES ASSUME Nat \ S # {} PROVE FALSE
  OBVIOUS
<1>1. PICK x \in Nat \ S : \A y \in Nat \ S : x <= y
  BY NatMin
<1>2. x # 0 /\ x - 1 \in Nat /\ x - 1 \in S
  BY <1>1
<1> QED
  BY <1>1, <1>2

\* What the ends, the extension and the concatenation of a sequence contain.
LEMMA ElementsFacts ==
  ASSUME NEW S, NEW s \in Seq(S)
  PROVE  /\ Elements(s) \subseteq S
         /\ s # <<>> => /\ Head(s) \in Elements(s) /\ Tail(s) \in Seq(S)
                        /\ Elements(s) = {Head(s)} \cup Elements(Tail(s))
         /\ Elements(<<>>) = {}
         /\ Elements(s) = {} => s = <<>>
         /\ \A t \in Seq(S) : s \o t \in Seq(S) /\ Elements(s \o t) = Elements(s) \cup Elements(t)
         /\ \A x \in S : Append(s, x) \in Seq(S) /\ Elements(Append(s, x)) = Elements(s) \cup {x}
<1>1. Elements(s) \subseteq S /\ Elements(<<>>) = {} /\ (Elements(s) = {} => s = <<>>)
  <2>1. \A i \in DOMAIN s : s[i] \in S
    OBVIOUS
  <2>2. Elements(s) \subseteq S
    BY <2>1 DEF Elements
  <2>3. Elements(<<>>) = {}
    BY DEF Elements
  <2>4. ASSUME s # <<>> PROVE Elements(s) # {}
    <3>1. 1 \in DOMAIN s
      BY <2>4
    <3> QED
      BY <3>1 DEF Elements
  <2> QED
    BY <2>2, <2>3, <2>4
<1>2. ASSUME s # <<>>
      PROVE  /\ Head(s) \in Elements(s) /\ Tail(s) \in Seq(S)
             /\ Elements(s) = {Head(s)} \cup Elements(Tail(s))
  <2>1. /\ Head(s) = s[1] /\ 1 \in DOMAIN s /\ Tail(s) \in Seq(S)
        /\ Len(Tail(s)) = Len(s) - 1 /\ Len(s) \in Nat \ {0}
        /\ \A i \in 1 .. Len(s) - 1 : Tail(s)[i] = s[i + 1]
    BY <1>2
  <2>2. ASSUME NEW x \in Elements(s), x # Head(s) PROVE x \in Elements(Tail(s))
    <3>1. PICK i \in DOMAIN s : x = s[i]
      BY DEF Elements
    <3>2. i # 1 /\ i - 1 \in 1 .. Len(s) - 1 /\ i - 1 \in DOMAIN Tail(s)
      BY <2>1, <2>2, <3>1
    <3>3. Tail(s)[i - 1] = s[i]
      BY <2>1, <3>1, <3>2
    <3> QED
      BY <3>1, <3>2, <3>3 DEF Elements
  <2>3. ASSUME NEW x \in Elements(Tail(s)) PROVE x \in Elements(s)
    <3>1. PICK i \in DOMAIN Tail(s) : x = Tail(s)[i]
      BY DEF Elements
    <3>2. i \in 1 .. Len(s) - 1 /\ i + 1 \in DOMAIN s
      BY <2>1, <3>1
    <3>3. Tail(s)[i] = s[i + 1]
      BY <2>1, <3>2
    <3> QED
      BY <3>1, <3>2, <3>3 DEF Elements
  <2>4. Head(s) \in Elements(s)
    BY <2>1 DEF Elements
  <2> QED
    BY <2>1, <2>2, <2>3, <2>4
<1>3. ASSUME NEW t \in Seq(S)
      PROVE  s \o t \in Seq(S) /\ Elements(s \o t) = Elements(s) \cup Elements(t)
  <2>1. /\ s \o t \in Seq(S) /\ Len(s \o t) = Len(s) + Len(t)
        /\ DOMAIN (s \o t) = 1 .. Len(s) + Len(t)
        /\ \A i \in 1 .. Len(s) + Len(t) : (s \o t)[i] = IF i <= Len(s) THEN s[i] ELSE t[i - Len(s)]
        /\ DOMAIN s = 1 .. Len(s) /\ DOMAIN t = 1 .. Len(t) /\ Len(s) \in Nat /\ Len(t) \in Nat
    OBVIOUS
  <2>2. ASSUME NEW x \in Elements(s \o t) PROVE x \in Elements(s) \cup Elements(t)
    <3>1. PICK i \in 1 .. Len(s) + Len(t) : x = (s \o t)[i]
      BY <2>1 DEF Elements
    <3>2. CASE i <= Len(s)
      BY <2>1, <3>1, <3>2 DEF Elements
    <3>3. CASE ~(i <= Len(s))
      <4>1. i - Len(s) \in DOMAIN t /\ x = t[i - Len(s)]
        BY <2>1, <3>1, <3>3
      <4> QED
        BY <4>1 DEF Elements
    <3> QED
      BY <3>2, <3>3
  <2>3. ASSUME NEW x \in Elements(s) PROVE x \in Elements(s \o t)
    <3>1. PICK i \in DOMAIN s : x = s[i]
      BY DEF Elements
    <3>2. i \in DOMAIN (s \o t) /\ (s \o t)[i] = s[i]
      BY <2>1, <3>1
    <3> QED
      BY <3>1, <3>2 DEF Elements
  <2>4. ASSUME NEW x \in Elements(t) PROVE x \in Elements(s \o t)
    <3>1. PICK i \in DOMAIN t : x = t[i]
      BY DEF Elements
    <3>2. i + Len(s) \in DOMAIN (s \o t) /\ (s \o t)[i + Len(s)] = t[i]
      BY <2>1, <3>1
    <3> QED
      BY <3>1, <3>2 DEF Elements
  <2> QED
    BY <2>1, <2>2, <2>3, <2>4
<1>4. ASSUME NEW x \in S
      PROVE  Append(s, x) \in Seq(S) /\ Elements(Append(s, x)) = Elements(s) \cup {x}
  <2>1. /\ Append(s, x) \in Seq(S) /\ DOMAIN Append(s, x) = DOMAIN s \cup {Len(s) + 1}
        /\ \A i \in DOMAIN s : Append(s, x)[i] = s[i]
        /\ Append(s, x)[Len(s) + 1] = x
    OBVIOUS
  <2> QED
    BY <2>1 DEF Elements
<1> QED
  BY <1>1, <1>2, <1>3, <1>4

-----------------------------------------------------------------------------
(***************************************************************************)
(* The loops over m_sources.  g holds what InNameOrder has selected after  *)
(* each of the first k names.                                              *)
(***************************************************************************)
SelectsUpTo(g, k, S) ==
  g = [i \in 0 .. k |->
         IF i = 0 THEN <<>>
         ELSE IF NameOrder[i] \in S THEN Append(g[i - 1], NameOrder[i]) ELSE g[i - 1]]

LEMMA SelectionStep ==
  ASSUME NEW g, NEW k \in Nat, NEW S, SelectsUpTo(g, k, S), NEW i \in 0 .. k
  PROVE  g[i] = IF i = 0 THEN <<>>
                ELSE IF NameOrder[i] \in S THEN Append(g[i - 1], NameOrder[i]) ELSE g[i - 1]
<1> DEFINE F(j) == IF j = 0 THEN <<>>
                   ELSE IF NameOrder[j] \in S THEN Append(g[j - 1], NameOrder[j]) ELSE g[j - 1]
<1>1. g = [j \in 0 .. k |-> F(j)]
  BY DEF SelectsUpTo
<1> HIDE DEF F
<1>2. g[i] = F(i)
  BY <1>1
<1> QED
  BY <1>2 DEF F

LEMMA SelectionExists ==
  ASSUME NEW S, NEW k \in Nat
  PROVE  \E g : SelectsUpTo(g, k, S)
<1> DEFINE K == {n \in Nat : \E g : SelectsUpTo(g, n, S)}
<1>1. 0 \in K
  <2>1. SelectsUpTo([i \in 0 .. 0 |-> <<>>], 0, S)
    BY DEF SelectsUpTo
  <2> QED
    BY <2>1
<1>2. ASSUME NEW n \in Nat, n \in K PROVE n + 1 \in K
  <2>1. PICK g : SelectsUpTo(g, n, S)
    BY <1>2
  <2> DEFINE h == [i \in 0 .. n + 1 |->
                     IF i <= n THEN g[i]
                     ELSE IF NameOrder[i] \in S THEN Append(g[i - 1], NameOrder[i]) ELSE g[i - 1]]
  <2>2. h = [i \in 0 .. n + 1 |->
               IF i = 0 THEN <<>>
               ELSE IF NameOrder[i] \in S THEN Append(h[i - 1], NameOrder[i]) ELSE h[i - 1]]
    <3> SUFFICES ASSUME NEW i \in 0 .. n + 1
                 PROVE  h[i] = IF i = 0 THEN <<>>
                               ELSE IF NameOrder[i] \in S THEN Append(h[i - 1], NameOrder[i])
                               ELSE h[i - 1]
      OBVIOUS
    <3>1. CASE i = 0
      <4>1. g[0] = <<>>
        BY <2>1, SelectionStep
      <4> QED
        BY <3>1, <4>1
    <3>2. CASE i # 0
      <4>1. i - 1 \in 0 .. n + 1 /\ i - 1 <= n /\ h[i - 1] = g[i - 1]
        BY <3>2
      <4>2. CASE i <= n
        <5>0. i \in 0 .. n
          BY <4>2
        <5>1. g[i] = IF NameOrder[i] \in S THEN Append(g[i - 1], NameOrder[i]) ELSE g[i - 1]
          BY <2>1, <3>2, <5>0, SelectionStep
        <5> QED
          BY <3>2, <4>1, <4>2, <5>1
      <4>3. CASE ~(i <= n)
        BY <3>2, <4>1, <4>3
      <4> QED
        BY <4>2, <4>3
    <3> QED
      BY <3>1, <3>2
  <2>3. SelectsUpTo(h, n + 1, S)
    BY <2>2 DEF SelectsUpTo
  <2> QED
    BY <2>3
<1> HIDE DEF K
<1>3. Nat \subseteq K
  BY <1>1, <1>2, SetInduction
<1> QED
  BY <1>3 DEF K

\* A loop over m_sources that picks the names in S visits exactly these.
LEMMA InNameOrderFacts ==
  ASSUME NEW S \in SUBSET Names
  PROVE  InNameOrder(S) \in Seq(Names) /\ Elements(InNameOrder(S)) = S
<1> DEFINE L == Len(NameOrder)
           g == CHOOSE h : SelectsUpTo(h, L, S)
<1>1. /\ L \in Nat /\ NameOrder \in Seq(Names)
      /\ \A i \in 1 .. L : NameOrder[i] \in Names
      /\ \A n \in Names : \E i \in 1 .. L : NameOrder[i] = n
  BY StackAssumption
<1>2. SelectsUpTo(g, L, S)
  BY <1>1, SelectionExists
<1>3. InNameOrder(S) = g[L]
  BY DEF InNameOrder, SelectsUpTo
<1> HIDE DEF L, g
<1> DEFINE Taken(i) == {n \in S : \E j \in 1 .. i : NameOrder[j] = n}
           K == {i \in Nat : i <= L => g[i] \in Seq(Names) /\ Elements(g[i]) = Taken(i)}
<1>4. 0 \in K
  <2>1. g[0] = <<>>
    BY <1>1, <1>2, SelectionStep
  <2>2. Taken(0) = {}
    OBVIOUS
  <2>3. <<>> \in Seq(Names) /\ Elements(<<>>) = {}
    BY DEF Elements
  <2> QED
    BY <2>1, <2>2, <2>3
<1>5. ASSUME NEW i \in Nat, i \in K PROVE i + 1 \in K
  <2> SUFFICES ASSUME i + 1 <= L
               PROVE  g[i + 1] \in Seq(Names) /\ Elements(g[i + 1]) = Taken(i + 1)
    OBVIOUS
  <2>1. i <= L /\ i + 1 \in 0 .. L /\ i + 1 \in 1 .. L /\ (i + 1) - 1 = i /\ i + 1 # 0
    BY <1>1
  <2>2. g[i] \in Seq(Names) /\ Elements(g[i]) = Taken(i)
    BY <1>5, <2>1
  <2>3. g[i + 1] = IF NameOrder[i + 1] \in S THEN Append(g[i], NameOrder[i + 1]) ELSE g[i]
    <3> HIDE DEF Taken, K
    <3> QED
      BY <1>1, <1>2, <2>1, SelectionStep
  <2>4. NameOrder[i + 1] \in Names
    BY <1>1, <2>1
  <2>5. \A j : j \in 1 .. i + 1 <=> j \in 1 .. i \/ j = i + 1
    OBVIOUS
  <2>6. Taken(i + 1) = Taken(i) \cup ({NameOrder[i + 1]} \cap S)
    BY <2>5
  <2> HIDE DEF Taken
  <2>7. CASE NameOrder[i + 1] \in S
    <3> DEFINE x == NameOrder[i + 1]
               e == g[i]
    <3>1. x \in Names /\ e \in Seq(Names)
      BY <2>2, <2>4
    <3> HIDE DEF x, e
    <3>2. Append(e, x) \in Seq(Names) /\ Elements(Append(e, x)) = Elements(e) \cup {x}
      BY <3>1, ElementsFacts
    <3> QED
      BY <2>2, <2>3, <2>6, <2>7, <3>2 DEF x, e
  <2>8. CASE NameOrder[i + 1] \notin S
    BY <2>2, <2>3, <2>6, <2>8
  <2> QED
    BY <2>7, <2>8
<1>6. L \in K
  <2> HIDE DEF K
  <2> QED
    BY <1>1, <1>4, <1>5, SetInduction
<1>7. Taken(L) = S
  BY <1>1
<1>8. g[L] \in Seq(Names) /\ Elements(g[L]) = Taken(L)
  BY <1>1, <1>6
<1> QED
  BY <1>3, <1>7, <1>8

-----------------------------------------------------------------------------
(***************************************************************************)
(* Texts, passes and severities.                                           *)
(***************************************************************************)
LEMMA TextFacts ==
  ASSUME NEW t \in Texts
  PROVE  /\ t # None
         /\ t.imports \in Seq(Names) /\ Elements(t.imports) \subseteq Names
         /\ t.creates \subseteq Elements(t.imports) /\ t.creates \subseteq Names
         /\ t.contract \in {"none", "abstract", "concrete"}
         /\ t.contract = "none" => t.creates = {}
         /\ \A p \in PassNames \cup {"parse"} : t.reports[p] \in SeveritiesOf(p)
<1>1. t \in TextType /\ t # None
  BY StackAssumption
<1>2. /\ t.imports \in Seq(Names) /\ t.creates \in SUBSET Names
      /\ t.contract \in {"none", "abstract", "concrete"}
  BY <1>1 DEF TextType
<1>3. Elements(t.imports) \subseteq Names
  BY <1>2, ElementsFacts
<1>4. t.creates \subseteq Elements(t.imports)
  BY StackAssumption DEF Elements
<1> QED
  BY <1>1, <1>2, <1>3, <1>4, StackAssumption

LEMMA PassFacts ==
  /\ DOMAIN Passes = 1 .. 13 /\ Len(Passes) = 13
  /\ Passes[1] = "syntax" /\ Passes[2] = "docString" /\ Passes[3] = "register"
  /\ Passes[4] = "performImports" /\ Passes[5] = "resolve" /\ Passes[6] = "typeCheck"
  /\ Passes[7] = "postTypeCheck" /\ Passes[8] = "cfg" /\ Passes[9] = "flow"
  /\ Passes[10] = "static" /\ Passes[11] = "viewPure" /\ Passes[12] = "secbit"
  /\ Passes[13] = "smt"
  /\ \A q \in 1 .. 13 : Passes[q] \in PassNames
  /\ \A p \in PassNames : \E q \in 1 .. 13 : p = Passes[q]
<1>1. /\ DOMAIN Passes = 1 .. 13 /\ Len(Passes) = 13
      /\ Passes[1] = "syntax" /\ Passes[2] = "docString" /\ Passes[3] = "register"
      /\ Passes[4] = "performImports" /\ Passes[5] = "resolve" /\ Passes[6] = "typeCheck"
      /\ Passes[7] = "postTypeCheck" /\ Passes[8] = "cfg" /\ Passes[9] = "flow"
      /\ Passes[10] = "static" /\ Passes[11] = "viewPure" /\ Passes[12] = "secbit"
      /\ Passes[13] = "smt"
  BY DEF Passes
<1> QED
  BY <1>1 DEF PassNames

Severities == {"nothing", "warning", "secbit", "quiet", "error", "fatal"}

LEMMA SeverityFacts ==
  /\ \A p \in PassNames \cup {"parse"} : SeveritiesOf(p) \subseteq Severities
  /\ SeveritiesOf("parse") = {"nothing", "warning", "error", "fatal"}
  /\ SeveritiesOf("register") = {"nothing", "warning", "quiet", "fatal"}
  /\ \A p \in {"secbit", "smt", "cfg", "flow"} : SeveritiesOf(p) \cap ErrorSeverities = {}
  /\ \A p \in PassNames : "quiet" \in SeveritiesOf(p) => p \in {"register", "resolve"}
<1>1. PassNames = {"syntax", "docString", "register", "performImports", "resolve",
                   "typeCheck", "postTypeCheck", "cfg", "flow", "static", "viewPure",
                   "secbit", "smt"}
  <2>1. \A q \in 1 .. 13 : \/ q = 1 \/ q = 2 \/ q = 3 \/ q = 4 \/ q = 5 \/ q = 6 \/ q = 7
                           \/ q = 8 \/ q = 9 \/ q = 10 \/ q = 11 \/ q = 12 \/ q = 13
    OBVIOUS
  <2> QED
    BY <2>1, PassFacts
<1>2. \A p \in PassNames \cup {"parse"} : SeveritiesOf(p) \subseteq Severities
  BY <1>1 DEF SeveritiesOf, Severities
<1>3. /\ SeveritiesOf("parse") = {"nothing", "warning", "error", "fatal"}
      /\ SeveritiesOf("register") = {"nothing", "warning", "quiet", "fatal"}
      /\ \A p \in {"secbit", "smt", "cfg", "flow"} : SeveritiesOf(p) \cap ErrorSeverities = {}
  BY DEF SeveritiesOf, ErrorSeverities
<1>4. \A p \in PassNames : "quiet" \in SeveritiesOf(p) => p \in {"register", "resolve"}
  BY <1>1 DEF SeveritiesOf
<1> QED
  BY <1>2, <1>3, <1>4

(***************************************************************************)
(* What reporting a finding and catching its FatalError does.              *)
(***************************************************************************)
LEMMA ReportFacts ==
  ASSUME NEW r, InvOf(r), ~r.fatal, NEW severity \in Severities
  PROVE  LET q == Report(r, severity) IN
         /\ InvOf(Caught(q)) /\ Caught(q).fatal = FALSE /\ q.fatal \in BOOLEAN
         /\ Caught(q).list = q.list /\ Caught(q).errors = q.errors
         /\ r.errors \in Nat /\ q.errors \in Nat /\ q.errors >= r.errors
         /\ ~ContainsOnlyWarnings(r.list) => ~ContainsOnlyWarnings(q.list)
         /\ severity \notin ErrorSeverities =>
              ~q.fatal /\ (ContainsOnlyWarnings(r.list) => ContainsOnlyWarnings(q.list))
         /\ severity \in {"quiet", "error"} /\ ~q.fatal => ~ContainsOnlyWarnings(q.list)
         /\ severity \in {"quiet", "error"} /\ q.fatal => q.errors > c_maxErrorsAllowed
         /\ severity = "fatal" => q.fatal
         /\ severity \in ErrorSeverities =>
              ~ContainsOnlyWarnings(q.list) \/ q.errors > c_maxErrorsAllowed
<1> DEFINE q == Report(r, severity)
<1>1. r \in ReporterType /\ r.errors \in Nat /\ r.fatal \in BOOLEAN
  BY DEF InvOf, ReporterType
<1>2. InvOf(q) => InvOf(Caught(q)) /\ Caught(q).fatal = FALSE
                   /\ Caught(q).list = q.list /\ Caught(q).errors = q.errors
  BY CatchKeepsInv DEF Caught
<1>3. InvOf(q) => q.errors \in Nat /\ q.fatal \in BOOLEAN
  BY DEF InvOf, ReporterType
<1>4. CASE severity = "nothing"
  <2>1. q = r
    BY <1>4 DEF Report
  <2> QED
    BY <1>1, <1>2, <1>3, <1>4, <2>1 DEF ErrorSeverities
<1>5. CASE severity = "warning"
  <2>1. q = ReportWarning(r)
    BY <1>5 DEF Report
  <2>2. InvOf(q) /\ q.errors = r.errors /\ q.fatal = r.fatal
        /\ (ContainsOnlyWarnings(q.list) <=> ContainsOnlyWarnings(r.list))
    BY <1>1, <2>1, WarningKeepsInv, WarningEffect
  <2> QED
    BY <1>1, <1>2, <1>3, <1>5, <2>2 DEF ErrorSeverities
<1>6. CASE severity = "secbit"
  <2>1. q = ReportSECBITWarning(r)
    BY <1>6 DEF Report
  <2>2. InvOf(q) /\ q.errors = r.errors /\ q.fatal = r.fatal
        /\ (ContainsOnlyWarnings(q.list) <=> ContainsOnlyWarnings(r.list))
    BY <1>1, <2>1, SECBITWarningKeepsInv, SECBITWarningEffect
  <2> QED
    BY <1>1, <1>2, <1>3, <1>6, <2>2 DEF ErrorSeverities
<1>7. CASE severity \in {"quiet", "error"}
  <2>1. q = ReportError(r)
    BY <1>7 DEF Report
  <2>2. InvOf(q)
    BY <2>1, ErrorKeepsInv
  <2>3. /\ q.errors = r.errors + 1
        /\ ~ContainsOnlyWarnings(r.list) => ~ContainsOnlyWarnings(q.list)
        /\ \/ q.errors <= c_maxErrorsAllowed /\ q.fatal = r.fatal
                                             /\ ~ContainsOnlyWarnings(q.list)
           \/ q.errors > c_maxErrorsAllowed /\ q.fatal = TRUE
    BY <1>1, <2>1, ErrorEffect
  <2> QED
    BY <1>1, <1>2, <1>3, <1>7, <2>2, <2>3 DEF ErrorSeverities
<1>8. CASE severity = "fatal"
  <2> DEFINE e == ReportError(r)
  <2>1. q = Throw(e)
    BY <1>8 DEF Report, ReportFatalError
  <2>2. InvOf(q)
    BY <1>8, FatalErrorKeepsInv DEF Report
  <2>3. /\ e \in ReporterType /\ e.errors = r.errors + 1
        /\ ~ContainsOnlyWarnings(r.list) => ~ContainsOnlyWarnings(e.list)
        /\ ~ContainsOnlyWarnings(e.list) \/ e.errors > c_maxErrorsAllowed
    BY <1>1, ErrorEffect
  <2> HIDE DEF e
  <2>4. q.fatal = TRUE /\ q.list = e.list /\ q.errors = e.errors
    BY <2>1, <2>3, ThrowFields
  <2> QED
    BY <1>1, <1>2, <1>3, <1>8, <2>2, <2>3, <2>4 DEF ErrorSeverities
<1> QED
  BY <1>4, <1>5, <1>6, <1>7, <1>8 DEF Severities

-----------------------------------------------------------------------------
(***************************************************************************)
(* The inductive invariant.                                                *)
(***************************************************************************)
\* The types of TypeOK that do not depend on the rest of the invariant.
TypeInv ==
  /\ session \in DOMAIN Sessions
  /\ stackState \in Empty .. CompilationSuccessful
  /\ sources \in [Names -> SourceType \cup {None}]
  /\ settings \in [evmVersion : EVMVersions, optimize : BOOLEAN, libraries : BOOLEAN,
                  requested : SUBSET RequestNames]
  /\ sourceOrder \in Seq(Names)
  /\ scopes \in SUBSET Names
  /\ contracts \in [Names -> ContractType \cup {None}]
  /\ call \in CallType
  /\ result \in Results
  /\ calls \in 0 .. Sessions[session].maxCalls

ReportInv == InvOf(reporter) /\ ~reporter.fatal

\* In which state of the stack each part of a call runs.
PhaseInv ==
  /\ call.phase = "idle" <=> result # "running"
  /\ call.phase \in {"parse", "load"} => stackState = SourcesSet
  /\ call.phase \in {"order", "pass"} => stackState = ParsingSuccessful
  /\ call.phase = "codegen" => stackState >= AnalysisSuccessful
  /\ call.phase # "order" => search = Order!StartSearch(<<>>)

\* An import that is there, has been fetched or is still to be looked at.
Known(n) ==
  \/ sources[n] # None
  \/ call.phase = "load" /\ (call.fetched[n] # None \/ n \in Elements(call.imports))

Parsed(n) ==
  Ast(n) = sources[n].text /\ Ast(n).reports["parse"] \notin ErrorSeverities

\* While parse() runs: unless an error is in the list, what is not queued is parsed.
ParseInv ==
  call.phase \in {"parse", "load"} =>
    /\ Elements(call.work) \subseteq Present
    /\ \A n \in Names : call.fetched[n] # None => call.phase = "load" /\ sources[n] = None
    /\ ContainsOnlyWarnings(reporter.list) =>
         \A n \in Present \ Elements(call.work) :
           Parsed(n) /\ \A m \in Elements(Ast(n).imports) : Known(m)

\* After parse() has succeeded.
CompleteInv ==
  stackState >= ParsingSuccessful =>
    \A n \in Present : Parsed(n) /\ Elements(Ast(n).imports) \subseteq Present

\* resolveImports runs its search on the ASTs as they are.
OrderInv == call.phase = "order" => OrderProofs!IInv

RootSet == {n \in Names : sources[n] # None /\ ~sources[n].isLibrary}

(***************************************************************************)
(* The sources analyze() looks at are closed under imports; there are some *)
(* if there is a non-library source, and an error in the list of a parsed  *)
(* program has been found in one of them.                                  *)
(***************************************************************************)
AnalysedInv ==
  /\ \A n \in Analysed : Elements(Ast(n).imports) \subseteq Analysed
  /\ Analysed # {} => RootSet # {}
  /\ call.phase = "pass" => RootSet \subseteq Analysed
  /\ stackState = ParsingSuccessful /\ ~ContainsOnlyWarnings(reporter.list) => RootSet # {}

Skipped(p, n) == p \in PerContract /\ Ast(n).contract = "none"

\* The q-th pass has looked at n, or will not.
Done(q, n) == q < call.pass \/ (q = call.pass /\ n \notin Elements(call.work))

\* m_contracts has an entry, with the version, for what the passes have been through.
PassContracts ==
  \A n \in Analysed : Ast(n).contract # "none" =>
    /\ Done(5, n) => contracts[n] # None
    /\ Done(6, n) => contracts[n].evmVersion = settings.evmVersion

\* As long as no pass has failed, none has found anything but what a later one will see.
PassFindings ==
  \A n \in Analysed, q \in DOMAIN Passes :
    Done(q, n) /\ ~Skipped(Passes[q], n) =>
      /\ Finding(Passes[q], n) \notin {"error", "fatal"}
      /\ Finding(Passes[q], n) = "quiet" => ~ContainsOnlyWarnings(reporter.list)

\* The post-type check sees what earlier passes have reported and still returned true.
PassClean == \A n \in Analysed : Done(7, n) => ContainsOnlyWarnings(reporter.list)

PassInv ==
  call.phase = "pass" =>
    /\ Elements(call.work) \subseteq Analysed
    /\ ~call.noErrors => ~ContainsOnlyWarnings(reporter.list) \/ LimitUsedUp
    /\ PassContracts
    /\ call.noErrors => PassFindings /\ PassClean

\* After analyze() has succeeded.
AcceptedInv ==
  stackState >= AnalysisSuccessful =>
    /\ ContainsOnlyWarnings(reporter.list)
    /\ \A n \in Analysed, p \in PassNames :
         ~Skipped(p, n) => Finding(p, n) \notin ErrorSeverities
    /\ \A n \in Analysed : Ast(n).contract # "none" =>
         contracts[n] # None /\ contracts[n].evmVersion = settings.evmVersion

CurrentCode == [evmVersion |-> settings.evmVersion, optimize |-> settings.optimize]

\* A contract compileContract has gone on from is done, or has no code, or is the next frame.
FrameInv(i) ==
  LET n == call.stack[i].name IN
  /\ n \in Analysed /\ Ast(n).contract = "concrete"
  /\ call.stack[i].left \subseteq Ast(n).creates
  /\ i + 1 \in DOMAIN call.stack => call.stack[i + 1].name \in Ast(n).creates
  /\ \A c \in Ast(n).creates \ call.stack[i].left :
       \/ c \in call.compiled
       \/ Ast(c).contract # "concrete"
       \/ i + 1 \in DOMAIN call.stack /\ call.stack[i + 1].name = c

CompiledInv ==
  \A n \in call.compiled :
    /\ n \in Analysed /\ Ast(n).contract = "concrete"
    /\ Ast(n).creates \subseteq call.compiled
    /\ contracts[n].code = CurrentCode
    /\ ~contracts[n].linked

\* The loop of compile() has seen to what is no longer in its work.
TakenInv ==
  \A n \in Analysed \ Elements(call.work) :
    Ast(n).contract = "concrete" /\ IsRequested(n) =>
      n \in call.compiled \/ (call.stack # <<>> /\ call.stack[1].name = n)

CodegenInv ==
  call.phase = "codegen" =>
    /\ Elements(call.work) \subseteq Analysed
    /\ \A i \in DOMAIN call.stack : FrameInv(i)
    /\ RecursionEnds
    /\ CompiledInv
    /\ TakenInv

IInv ==
  /\ TypeInv /\ ReportInv /\ PhaseInv /\ NothingDangles
  /\ ParseInv /\ CompleteInv /\ OrderInv
  /\ AnalysedInv /\ PassInv /\ AcceptedInv /\ CodegenInv /\ FailuresAreExplained

-----------------------------------------------------------------------------
(***************************************************************************)
(* What the types say.                                                     *)
(***************************************************************************)
LEMMA SessionFacts ==
  ASSUME TypeInv
  PROVE  /\ Sessions[session].names \subseteq Names
         /\ Sessions[session].texts \subseteq Texts
         /\ Sessions[session].versions \subseteq EVMVersions
         /\ Sessions[session].maxCalls \in Nat
<1>1. Sessions[session] \in SessionType
  BY StackAssumption DEF TypeInv
<1> QED
  BY <1>1 DEF SessionType

LEMMA CallFacts ==
  ASSUME TypeInv
  PROVE  /\ call.phase = "idle" => call = Idle
         /\ call.phase \in {"parse", "load"} => call \in ParseCall
         /\ call.phase = "order" => call \in OrderCall
         /\ call.phase = "pass" => call \in PassCall
         /\ call.phase = "codegen" => call \in CodegenCall
         /\ call.phase \in {"idle", "parse", "load", "order", "pass", "codegen"}
         /\ Idle.phase = "idle" /\ Idle \in CallType
<1>1. call \in {Idle} \cup ParseCall \cup OrderCall \cup PassCall \cup CodegenCall
  BY DEF TypeInv, CallType
<1>2. call \in ParseCall => call.phase \in {"parse", "load"}
  BY DEF ParseCall
<1>3. call \in OrderCall => call.phase = "order"
  BY DEF OrderCall
<1>4. call \in PassCall => call.phase = "pass"
  BY DEF PassCall
<1>5. call \in CodegenCall => call.phase = "codegen"
  BY DEF CodegenCall
<1>6. Idle.phase = "idle" /\ Idle \in CallType
  BY DEF Idle, CallType
<1> QED
  BY <1>1, <1>2, <1>3, <1>4, <1>5, <1>6

LEMMA SourceFacts ==
  ASSUME TypeInv, NEW n \in Names, sources[n] # None
  PROVE  /\ sources[n] \in SourceType
         /\ sources[n].text \in Texts /\ sources[n].isLibrary \in BOOLEAN
         /\ Ast(n) \in Texts \cup {None}
         /\ HasAst(n) => Ast(n) \in Texts
<1>1. sources[n] \in SourceType
  BY DEF TypeInv
<1> QED
  BY <1>1 DEF SourceType, Ast, HasAst

LEMMA AnalysedFacts ==
  ASSUME TypeInv, NothingDangles
  PROVE  /\ Analysed \subseteq Names /\ Analysed = Elements(sourceOrder)
         /\ \A n \in Analysed : HasAst(n) /\ sources[n] # None /\ Ast(n) \in Texts
<1>1. Analysed \subseteq Names /\ Analysed = Elements(sourceOrder)
  BY ElementsFacts DEF TypeInv, Analysed, Elements
<1>2. \A n \in Analysed : HasAst(n)
  BY DEF NothingDangles
<1> QED
  BY <1>1, <1>2, SourceFacts DEF HasAst

(***************************************************************************)
(* What does not change as long as the sources and their order do not.     *)
(***************************************************************************)
LEMMA SameSources ==
  ASSUME UNCHANGED sources
  PROVE  /\ Present' = Present /\ RootSet' = RootSet
         /\ \A n : Ast(n)' = Ast(n)
         /\ \A n : HasAst(n)' <=> HasAst(n)
         /\ \A n : Parsed(n)' <=> Parsed(n)
  BY DEF Present, RootSet, Ast, HasAst, Parsed

LEMMA SameFindings ==
  ASSUME UNCHANGED <<sources, sourceOrder>>
  PROVE  /\ Analysed' = Analysed
         /\ \A n : CheckedUpTo(n)' = CheckedUpTo(n)
         /\ \A p, n : Finding(p, n)' = Finding(p, n)
         /\ \A p, n : Skipped(p, n)' <=> Skipped(p, n)
<1>1. Analysed' = Analysed
  BY DEF Analysed
<1>2. \A n : CheckedUpTo(n)' = CheckedUpTo(n)
  BY DEF CheckedUpTo
<1>3. \A n : CreationIsWrong(n)' <=> CreationIsWrong(n)
  BY <1>2 DEF CreationIsWrong, CreationIsCyclic, Ast
<1>4. \A n : CreatesNoContract(n)' <=> CreatesNoContract(n)
  BY DEF CreatesNoContract, Ast
<1>5. \A p, n : Finding(p, n)' = Finding(p, n)
  BY <1>3, <1>4 DEF Finding, Ast
<1> QED
  BY <1>1, <1>2, <1>5 DEF Skipped, Ast

\* Nothing is claimed of the parts of a call that is over.
LEMMA NoCall ==
  ASSUME call'.phase = "idle"
  PROVE  ParseInv' /\ OrderInv' /\ PassInv' /\ CodegenInv'
  BY DEF ParseInv, OrderInv, PassInv, CodegenInv

LEMMA NoFailure ==
  ASSUME result' \notin {"false", "assertParserError", "FatalError", "assertCompiledContract",
                         "assertNewScope", "crash"}
  PROVE  FailuresAreExplained'
  BY DEF FailuresAreExplained

\* A step that leaves the program and what is known about it alone.
LEMMA ProgramKept ==
  ASSUME IInv, UNCHANGED <<stackState, sources, sourceOrder, scopes, contracts, reporter>>,
         settings'.evmVersion = settings.evmVersion \/ stackState < AnalysisSuccessful,
         call'.phase = "pass" => call.phase = "pass"
  PROVE  ReportInv' /\ NothingDangles' /\ CompleteInv' /\ AnalysedInv' /\ AcceptedInv'
<1> USE DEF IInv
<1>1. ReportInv'
  BY DEF ReportInv
<1>2. NothingDangles'
  BY SameSources, SameFindings DEF NothingDangles
<1>3. CompleteInv'
  BY SameSources DEF CompleteInv
<1>4. AnalysedInv'
  BY SameSources, SameFindings DEF AnalysedInv
<1>5. AcceptedInv'
  <2> SUFFICES ASSUME stackState >= AnalysisSuccessful PROVE AcceptedInv'
    BY DEF AcceptedInv
  <2>1. settings'.evmVersion = settings.evmVersion
    BY DEF TypeInv, Empty, CompilationSuccessful, AnalysisSuccessful
  <2> QED
    BY <2>1, SameSources, SameFindings DEF AcceptedInv
<1> QED
  BY <1>1, <1>2, <1>3, <1>4, <1>5

\* A step that forgets what is known about the program.
LEMMA ProgramForgotten ==
  ASSUME stackState' \in Empty .. SourcesSet, scopes' = {}, sourceOrder' = <<>>,
         contracts' = NoContracts, call'.phase # "pass"
  PROVE  NothingDangles' /\ CompleteInv' /\ AnalysedInv' /\ AcceptedInv'
<1>1. Analysed' = {}
  BY DEF Analysed
<1>2. /\ ~(stackState' >= ParsingSuccessful) /\ ~(stackState' = ParsingSuccessful)
      /\ ~(stackState' >= AnalysisSuccessful)
  BY DEF Empty, SourcesSet, ParsingSuccessful, AnalysisSuccessful
<1>3. NothingDangles'
  BY <1>1 DEF NothingDangles, NoContracts
<1>4. CompleteInv' /\ AcceptedInv'
  BY <1>2 DEF CompleteInv, AcceptedInv
<1>5. AnalysedInv'
  BY <1>1, <1>2 DEF AnalysedInv
<1> QED
  BY <1>3, <1>4, <1>5

LEMMA CallingFacts ==
  ASSUME TypeInv, Calling
  PROVE  /\ calls' \in 0 .. Sessions[session].maxCalls
         /\ call = Idle /\ call.phase = "idle"
<1>1. Sessions[session].maxCalls \in Nat
  BY SessionFacts
<1>2. call.phase = "idle" /\ calls < Sessions[session].maxCalls /\ calls' = calls + 1
  BY DEF Calling
<1>3. calls \in 0 .. Sessions[session].maxCalls
  BY DEF TypeInv
<1> QED
  BY <1>1, <1>2, <1>3, CallFacts

-----------------------------------------------------------------------------
(***************************************************************************)
(* Settings, sources and reset.                                            *)
(***************************************************************************)
\* A call that only changes settings the accepted program does not depend on.
LEMMA SettingsIInv ==
  ASSUME IInv, Calling,
         UNCHANGED <<session, reporter, stackState, sources, sourceOrder, scopes, contracts,
                     call, search>>,
         settings' \in [evmVersion : EVMVersions, optimize : BOOLEAN, libraries : BOOLEAN,
                        requested : SUBSET RequestNames],
         settings'.evmVersion = settings.evmVersion \/ stackState < AnalysisSuccessful,
         result' \in {"void", "value", "CompilerError", "assertEVMVersion"}
  PROVE  IInv'
<1> USE DEF IInv
<1>1. call = Idle /\ call.phase = "idle" /\ call'.phase = "idle" /\ call'.phase # "pass"
  BY CallingFacts
<1>2. TypeInv'
  BY CallingFacts DEF TypeInv, Results
<1>3. PhaseInv'
  BY <1>1 DEF PhaseInv
<1>4. ReportInv' /\ NothingDangles' /\ CompleteInv' /\ AnalysedInv' /\ AcceptedInv'
  BY <1>1, ProgramKept
<1>5. ParseInv' /\ OrderInv' /\ PassInv' /\ CodegenInv' /\ FailuresAreExplained'
  BY <1>1, NoCall, NoFailure
<1> QED
  BY <1>2, <1>3, <1>4, <1>5

LEMMA SetEVMVersionIInv ==
  ASSUME IInv, NEW v \in EVMVersions, SetEVMVersion(v)
  PROVE  IInv'
<1>1. CASE stackState < ParsingSuccessful
  <2>1. /\ settings' = [settings EXCEPT !.evmVersion = v] /\ result' = "void"
        /\ stackState < AnalysisSuccessful
    BY <1>1 DEF SetEVMVersion, ParsingSuccessful, AnalysisSuccessful, IInv, TypeInv, Empty,
                CompilationSuccessful
  <2> QED
    BY <2>1, SettingsIInv DEF SetEVMVersion, IInv, TypeInv
<1>2. CASE ~(stackState < ParsingSuccessful)
  BY <1>2, SettingsIInv DEF SetEVMVersion, IInv, TypeInv
<1> QED
  BY <1>1, <1>2

LEMMA SetOptimiserSettingsIInv ==
  ASSUME IInv, NEW o \in BOOLEAN, SetOptimiserSettings(o)
  PROVE  IInv'
<1>1. /\ settings' \in [evmVersion : EVMVersions, optimize : BOOLEAN, libraries : BOOLEAN,
                        requested : SUBSET RequestNames]
      /\ settings'.evmVersion = settings.evmVersion
  BY DEF SetOptimiserSettings, IInv, TypeInv
<1> QED
  BY <1>1, SettingsIInv DEF SetOptimiserSettings

LEMMA SetLibrariesIInv ==
  ASSUME IInv, NEW l \in BOOLEAN, SetLibraries(l)
  PROVE  IInv'
<1>1. /\ settings' \in [evmVersion : EVMVersions, optimize : BOOLEAN, libraries : BOOLEAN,
                        requested : SUBSET RequestNames]
      /\ settings'.evmVersion = settings.evmVersion
  BY DEF SetLibraries, IInv, TypeInv
<1> QED
  BY <1>1, SettingsIInv DEF SetLibraries

LEMMA SetRequestedContractNamesIInv ==
  ASSUME IInv, NEW S \in SUBSET RequestNames, SetRequestedContractNames(S)
  PROVE  IInv'
<1>1. /\ settings' \in [evmVersion : EVMVersions, optimize : BOOLEAN, libraries : BOOLEAN,
                        requested : SUBSET RequestNames]
      /\ settings'.evmVersion = settings.evmVersion
  BY DEF SetRequestedContractNames, IInv, TypeInv
<1> QED
  BY <1>1, SettingsIInv DEF SetRequestedContractNames

\* What every reset does to what is known about the program.
LEMMA ResetRestFacts ==
  ASSUME TypeInv, ReportInv, ResetRest
  PROVE  /\ ReportInv'
         /\ settings' \in [evmVersion : EVMVersions, optimize : BOOLEAN, libraries : BOOLEAN,
                           requested : SUBSET RequestNames]
         /\ scopes' = {} /\ sourceOrder' = <<>> /\ contracts' = NoContracts
         /\ contracts' \in [Names -> ContractType \cup {None}] /\ sourceOrder' \in Seq(Names)
<1>1. ReportInv'
  <2>1. Clear(reporter) = [Clear(reporter) EXCEPT !.fatal = FALSE]
    BY DEF ReportInv, InvOf, ReporterType, Clear
  <2> QED
    BY <2>1, RestartKeepsInv, ClearFields DEF ReportInv, ResetRest, InvOf
<1>2. settings' \in [evmVersion : EVMVersions, optimize : BOOLEAN, libraries : BOOLEAN,
                     requested : SUBSET RequestNames]
  BY StackAssumption DEF ResetRest, ResetSettings, TypeInv
<1>3. /\ scopes' = {} /\ sourceOrder' = <<>> /\ contracts' = NoContracts
      /\ contracts' \in [Names -> ContractType \cup {None}] /\ sourceOrder' \in Seq(Names)
  BY DEF ResetRest, NoContracts
<1> QED
  BY <1>1, <1>2, <1>3

\* A call that changes the sources resets the rest.
LEMMA ChangedSourcesIInv ==
  ASSUME IInv, Calling, ResetRest, UNCHANGED <<session, call, search>>,
         stackState' \in Empty .. SourcesSet,
         sources' \in [Names -> SourceType \cup {None}],
         result' \in {"void", "added", "replaced"}
  PROVE  IInv'
<1> USE DEF IInv
<1>1. call = Idle /\ call.phase = "idle" /\ call'.phase = "idle" /\ call'.phase # "pass"
  BY CallingFacts
<1>2. stackState' \in Empty .. CompilationSuccessful
  BY DEF Empty, SourcesSet, CompilationSuccessful
<1>3. TypeInv'
  BY <1>2, CallingFacts, ResetRestFacts DEF TypeInv, Results
<1>4. PhaseInv'
  BY <1>1 DEF PhaseInv
<1>5. ReportInv' /\ NothingDangles' /\ CompleteInv' /\ AnalysedInv' /\ AcceptedInv'
  BY <1>1, ResetRestFacts, ProgramForgotten
<1>6. ParseInv' /\ OrderInv' /\ PassInv' /\ CodegenInv' /\ FailuresAreExplained'
  BY <1>1, NoCall, NoFailure
<1> QED
  BY <1>3, <1>4, <1>5, <1>6

LEMMA ResetIInv ==
  ASSUME IInv, NEW keepSources \in BOOLEAN, Reset(keepSources)
  PROVE  IInv'
<1>1. stackState' \in Empty .. SourcesSet /\ sources' \in [Names -> SourceType \cup {None}]
  BY DEF Reset, IInv, TypeInv, Empty, SourcesSet
<1> QED
  BY <1>1, ChangedSourcesIInv DEF Reset

LEMMA AddSourceIInv ==
  ASSUME IInv, NEW n \in Names, NEW text \in Texts, NEW isLibrary \in BOOLEAN,
         AddSource(n, text, isLibrary)
  PROVE  IInv'
<1> DEFINE ast == IF sources[n] = None THEN None ELSE sources[n].ast
           new == [text |-> text, isLibrary |-> isLibrary, ast |-> ast]
<1>1. ast \in Texts \cup {None}
  BY SourceFacts DEF IInv, Ast
<1> HIDE DEF ast
<1>2. new \in SourceType
  BY <1>1 DEF SourceType
<1> HIDE DEF new
<1>3. sources' = [sources EXCEPT ![n] = new]
  BY DEF AddSource, new, ast
<1>4. sources' \in [Names -> SourceType \cup {None}]
  BY <1>2, <1>3 DEF IInv, TypeInv
<1>5. stackState' \in Empty .. SourcesSet /\ result' \in {"added", "replaced"}
  BY DEF AddSource, Empty, SourcesSet
<1> QED
  BY <1>4, <1>5, ChangedSourcesIInv DEF AddSource

-----------------------------------------------------------------------------
(***************************************************************************)
(* How the calls that run for several steps start.                         *)
(***************************************************************************)
LEMMA ClearForParseFacts ==
  ASSUME ReportInv, NEW secbit \in BOOLEAN
  PROVE  LET r == ClearForParse(reporter, secbit) IN
         InvOf(r) /\ ~r.fatal /\ ContainsOnlyWarnings(r.list)
<1> DEFINE c == Clear(reporter)
<1>1. c = [Clear(reporter) EXCEPT !.fatal = FALSE]
  BY DEF ReportInv, InvOf, ReporterType, Clear
<1>2. InvOf(c) /\ c.fatal = FALSE /\ c.list = <<>>
  BY <1>1, RestartKeepsInv, ClearFields DEF ReportInv, InvOf
<1> HIDE DEF c
<1>3. c \in ReporterType /\ ContainsOnlyWarnings(c.list)
  BY <1>2, OnlyWarningsEmpty DEF InvOf
<1>4. /\ InvOf(ReportWarning(c)) /\ ReportWarning(c).fatal = FALSE
      /\ ContainsOnlyWarnings(ReportWarning(c).list)
  BY <1>2, <1>3, WarningKeepsInv, WarningEffect
<1> QED
  BY <1>2, <1>3, <1>4 DEF ClearForParse, c

\* A call that is refused or throws because of the state leaves everything as it is.
LEMMA RefusedIInv ==
  ASSUME IInv, call = Idle, calls' \in 0 .. Sessions[session].maxCalls,
         UNCHANGED <<session, reporter, stackState, sources, settings, sourceOrder, scopes,
                     contracts, search>>,
         call' = Idle, result' \in {"refused", "compileRefused", "CompilerError"}
  PROVE  IInv'
<1> USE DEF IInv
<1>1. call.phase = "idle" /\ call'.phase = "idle" /\ call'.phase # "pass"
  BY DEF Idle
<1>2. TypeInv'
  BY DEF TypeInv, Results
<1>3. PhaseInv'
  BY <1>1 DEF PhaseInv
<1>4. ReportInv' /\ NothingDangles' /\ CompleteInv' /\ AnalysedInv' /\ AcceptedInv'
  BY <1>1, ProgramKept
<1>5. ParseInv' /\ OrderInv' /\ PassInv' /\ CodegenInv' /\ FailuresAreExplained'
  BY <1>1, NoCall, NoFailure
<1> QED
  BY <1>2, <1>3, <1>4, <1>5

LEMMA StartParseIInv ==
  ASSUME IInv, call = Idle, calls' \in 0 .. Sessions[session].maxCalls,
         NEW goal \in {"parse", "analyze", "compile"}, NEW secbit \in BOOLEAN,
         NEW noSMT \in BOOLEAN, StartParse(goal, secbit, noSMT),
         UNCHANGED <<session, stackState, sources, settings, sourceOrder, scopes, contracts,
                     search>>
  PROVE  IInv'
<1> USE DEF IInv
<1>1. CASE stackState # SourcesSet
  <2>1. call' = Idle /\ UNCHANGED reporter /\ result' \in {"refused", "compileRefused"}
    BY <1>1 DEF StartParse, Return
  <2> QED
    BY <2>1, RefusedIInv
<1>2. CASE stackState = SourcesSet
  <2> DEFINE w == InNameOrder(Present)
             none == [n \in Names |-> None]
  <2>1. /\ reporter' = ClearForParse(reporter, secbit)
        /\ call' = [phase |-> "parse", goal |-> goal, secbit |-> secbit, noSMT |-> noSMT,
                     work |-> w, imports |-> <<>>, fetched |-> none]
        /\ result' = "running"
    BY <1>2 DEF StartParse
  <2>2. w \in Seq(Names) /\ Elements(w) = Present
    BY InNameOrderFacts DEF Present
  <2>3. none \in [Names -> Texts \cup {None}] /\ \A n \in Names : none[n] = None
    OBVIOUS
  <2> HIDE DEF w, none
  <2>4. call' \in ParseCall /\ call'.phase = "parse" /\ call'.work = w /\ call'.fetched = none
    BY <2>1, <2>2, <2>3 DEF ParseCall
  <2>5. TypeInv'
    BY <2>1, <2>4 DEF TypeInv, Results, CallType
  <2>6. ReportInv'
    BY <2>1, ClearForParseFacts DEF ReportInv
  <2>7. PhaseInv'
    BY <1>2, <2>1, <2>4, CallFacts DEF PhaseInv
  <2>8. scopes' = {} /\ sourceOrder' = <<>> /\ contracts' = NoContracts
    BY <1>2 DEF NothingDangles, SourcesSet
  <2>9. NothingDangles' /\ CompleteInv' /\ AnalysedInv' /\ AcceptedInv'
    BY <1>2, <2>4, <2>8, ProgramForgotten DEF Empty, SourcesSet
  <2>10. ParseInv'
    BY <2>2, <2>3, <2>4, SameSources DEF ParseInv
  <2>11. OrderInv' /\ PassInv' /\ CodegenInv'
    BY <2>4 DEF OrderInv, PassInv, CodegenInv
  <2> QED
    BY <2>1, <2>5, <2>6, <2>7, <2>9, <2>10, <2>11, NoFailure
<1> QED
  BY <1>1, <1>2

LEMMA ImportGraphFacts ==
  ASSUME TypeInv
  PROVE  /\ AstImports \in [Names -> Seq(Names)]
         /\ Roots \in Seq(Names) /\ Elements(Roots) = RootSet
<1>1. ASSUME NEW n \in Names PROVE (IF HasAst(n) THEN Ast(n).imports ELSE <<>>) \in Seq(Names)
  <2>1. HasAst(n) => Ast(n) \in Texts
    BY SourceFacts DEF HasAst
  <2> QED
    BY <2>1, TextFacts
<1>2. AstImports \in [Names -> Seq(Names)]
  BY <1>1 DEF AstImports
<1>3. Roots = InNameOrder(RootSet)
  BY DEF Roots, RootSet
<1> QED
  BY <1>2, <1>3, InNameOrderFacts DEF RootSet

LEMMA SearchInit == OrderProofs!Init => OrderProofs!IInv
  BY OrderProofs!InitIInv

LEMMA SearchInitInv == OrderProofs!Init' => OrderProofs!IInv'
  BY SearchInit, PTL

\* The search starts in an initial state of ImportOrder.
LEMMA SearchStarts ==
  ASSUME TypeInv, UNCHANGED sources, search' = Order!StartSearch(Roots)
  PROVE  OrderProofs!IInv'
<1>1. AstImports' = AstImports /\ Roots' = Roots
  BY DEF AstImports, Roots, HasAst, Ast
<1>2. OrderProofs!Init'
  BY <1>1, ImportGraphFacts DEF OrderProofs!Init, OrderProofs!StartSearch, Order!StartSearch
<1> QED
  BY <1>2, SearchInitInv

LEMMA AnalyzeIInv ==
  ASSUME IInv, NEW secbit \in BOOLEAN, NEW noSMT \in BOOLEAN, Analyze(secbit, noSMT)
  PROVE  IInv'
<1> USE DEF IInv
<1>0. call = Idle /\ calls' \in 0 .. Sessions[session].maxCalls
  BY CallingFacts DEF Analyze
<1>1. CASE stackState # ParsingSuccessful
  BY <1>0, <1>1, RefusedIInv DEF Analyze, Return
<1>2. CASE stackState = ParsingSuccessful
  <2>1. /\ call' = [phase |-> "order", goal |-> "analyze", secbit |-> secbit, noSMT |-> noSMT]
        /\ search' = Order!StartSearch(Roots) /\ result' = "running"
        /\ UNCHANGED <<session, reporter, stackState, sources, settings, sourceOrder, scopes,
                       contracts>>
    BY <1>2 DEF Analyze, StartAnalyze
  <2>2. call' \in OrderCall /\ call'.phase = "order"
    BY <2>1 DEF OrderCall
  <2>3. TypeInv'
    BY <1>0, <2>1, <2>2 DEF TypeInv, CallType, Results
  <2>4. PhaseInv'
    BY <1>2, <2>1, <2>2 DEF PhaseInv
  <2>5. ReportInv' /\ NothingDangles' /\ CompleteInv' /\ AnalysedInv' /\ AcceptedInv'
    BY <2>1, <2>2, ProgramKept
  <2>6. OrderInv'
    BY <2>1, SearchStarts DEF OrderInv
  <2>7. ParseInv' /\ PassInv' /\ CodegenInv'
    BY <2>2 DEF ParseInv, PassInv, CodegenInv
  <2> QED
    BY <2>1, <2>3, <2>4, <2>5, <2>6, <2>7, NoFailure
<1> QED
  BY <1>1, <1>2

\* The backend starts with nothing compiled.
LEMMA BackendStarts ==
  ASSUME TypeInv, UNCHANGED <<sources, sourceOrder, contracts>>,
         call' = [phase |-> "codegen", work |-> sourceOrder, compiled |-> {}, stack |-> <<>>]
  PROVE  call' \in CodegenCall /\ call'.phase = "codegen" /\ CodegenInv'
<1>1. /\ call' \in CodegenCall /\ call'.phase = "codegen" /\ call'.work = sourceOrder
      /\ call'.stack = <<>> /\ call'.compiled = {}
  BY DEF CodegenCall, TypeInv
<1>2. Analysed' = Elements(sourceOrder)
  BY DEF Analysed, Elements
<1>3. RecursionEnds' /\ CompiledInv' /\ TakenInv' /\ \A i \in DOMAIN call'.stack : FrameInv(i)'
  BY <1>1, <1>2 DEF RecursionEnds, CompiledInv, TakenInv
<1> QED
  BY <1>1, <1>2, <1>3 DEF CodegenInv

LEMMA CompileIInv ==
  ASSUME IInv, NEW secbit \in BOOLEAN, NEW noSMT \in BOOLEAN, Compile(secbit, noSMT)
  PROVE  IInv'
<1> USE DEF IInv
<1>0. call = Idle /\ calls' \in 0 .. Sessions[session].maxCalls
  BY CallingFacts DEF Compile
<1>1. CASE stackState < AnalysisSuccessful
  <2>1. StartParse("compile", secbit, noSMT)
    BY <1>1 DEF Compile
  <2> QED
    BY <1>0, <1>1, <2>1, StartParseIInv DEF Compile
<1>2. CASE ~(stackState < AnalysisSuccessful)
  <2>0. /\ stackState >= AnalysisSuccessful /\ stackState # SourcesSet
        /\ stackState # ParsingSuccessful
        /\ AnalysisSuccessful <= CompilationSuccessful
        /\ CompilationSuccessful \in Empty .. CompilationSuccessful
    BY <1>2 DEF TypeInv, Empty, SourcesSet, ParsingSuccessful, CompilationSuccessful,
                AnalysisSuccessful
  <2>1. /\ StartBackend(secbit, stackState)
        /\ UNCHANGED <<session, reporter, sources, settings, sourceOrder, scopes, contracts,
                       search>>
    BY <1>2 DEF Compile
  <2>2. CASE secbit
    <3>1. stackState' = CompilationSuccessful /\ call' = Idle /\ result' = "true"
      BY <2>1, <2>2 DEF StartBackend, Return
    <3>2. call'.phase = "idle" /\ call.phase = "idle" /\ call' \in CallType
      BY <1>0, <3>1, CallFacts
    <3>3. TypeInv'
      BY <1>0, <2>0, <2>1, <3>1, <3>2 DEF TypeInv, Results
    <3>4. PhaseInv'
      BY <2>1, <3>1, <3>2 DEF PhaseInv
    <3>5. ReportInv'
      BY <2>1 DEF ReportInv
    <3>6. NothingDangles'
      BY <2>1, <3>1, SameSources, SameFindings
         DEF NothingDangles, CompilationSuccessful, SourcesSet
    <3>7. CompleteInv'
      BY <2>0, <2>1, SameSources
         DEF CompleteInv, ParsingSuccessful, AnalysisSuccessful, TypeInv, Empty,
             CompilationSuccessful
    <3>8. AnalysedInv'
      BY <2>1, <3>1, <3>2, SameSources, SameFindings
         DEF AnalysedInv, CompilationSuccessful, ParsingSuccessful
    <3>9. AcceptedInv'
      BY <2>0, <2>1, SameSources, SameFindings DEF AcceptedInv
    <3> QED
      BY <3>1, <3>2, <3>3, <3>4, <3>5, <3>6, <3>7, <3>8, <3>9, NoCall, NoFailure
  <2>3. CASE ~secbit
    <3>1. /\ call' = [phase |-> "codegen", work |-> sourceOrder, compiled |-> {},
                      stack |-> <<>>]
          /\ stackState' = stackState /\ result' = "running"
      BY <2>1, <2>3 DEF StartBackend
    <3>2. call' \in CodegenCall /\ call'.phase = "codegen" /\ CodegenInv'
      BY <2>1, <3>1, BackendStarts
    <3>3. TypeInv'
      BY <1>0, <2>1, <3>1, <3>2 DEF TypeInv, CallType, Results
    <3>4. PhaseInv'
      BY <1>0, <2>0, <2>1, <3>1, <3>2, CallFacts DEF PhaseInv
    <3>5. ReportInv' /\ NothingDangles' /\ CompleteInv' /\ AnalysedInv' /\ AcceptedInv'
      BY <2>1, <3>1, <3>2, ProgramKept
    <3>6. ParseInv' /\ PassInv' /\ OrderInv'
      BY <3>2 DEF ParseInv, PassInv, OrderInv
    <3> QED
      BY <3>1, <3>2, <3>3, <3>4, <3>5, <3>6, NoFailure
  <2> QED
    BY <2>2, <2>3
<1> QED
  BY <1>1, <1>2

LEMMA ParseCallsIInv ==
  ASSUME IInv, NEW secbit \in BOOLEAN, NEW noSMT \in BOOLEAN,
         Parse(secbit) \/ ParseAndAnalyze(secbit, noSMT)
  PROVE  IInv'
<1>1. CASE Parse(secbit)
  BY <1>1, CallingFacts, StartParseIInv DEF Parse, IInv
<1>2. CASE ParseAndAnalyze(secbit, noSMT)
  BY <1>2, CallingFacts, StartParseIInv DEF ParseAndAnalyze, IInv
<1> QED
  BY <1>1, <1>2

\* sourceMapping() only fills in a field nothing else depends on.
LEMMA SourceMappingIInv ==
  ASSUME IInv, NEW n \in Names, SourceMapping(n)
  PROVE  IInv'
<1> USE DEF IInv
<1>0. call = Idle /\ calls' \in 0 .. Sessions[session].maxCalls
      /\ UNCHANGED <<session, reporter, stackState, sources, settings, sourceOrder, scopes,
                     call, search>>
      /\ result' \in {"value", "CompilerError"}
  BY CallingFacts DEF SourceMapping
<1>1. CASE UNCHANGED contracts
  <2>1. CASE result' = "CompilerError"
    BY <1>0, <1>1, <2>1, RefusedIInv
  <2>2. CASE result' = "value"
    BY <1>1, SettingsIInv DEF SourceMapping, TypeInv
  <2> QED
    BY <1>0, <2>1, <2>2
<1>2. CASE contracts[n] # None /\ contracts' = [contracts EXCEPT ![n].sourceMapping = contracts[n].code]
  <2>1. contracts[n] \in ContractType
    BY <1>2 DEF TypeInv
  <2>2. [contracts[n] EXCEPT !.sourceMapping = contracts[n].code] \in ContractType
    BY <2>1 DEF ContractType
  <2>3. /\ contracts' \in [Names -> ContractType \cup {None}]
        /\ \A m \in Names : (contracts'[m] = None) <=> (contracts[m] = None)
    BY <1>2, <2>1, <2>2, StackAssumption DEF TypeInv
  <2>4. \A m \in Names : contracts[m] # None =>
          contracts'[m].ast = contracts[m].ast /\ contracts'[m].evmVersion = contracts[m].evmVersion
    BY <1>2, <2>1 DEF TypeInv, ContractType
  <2>5. TypeInv'
    BY <1>0, <2>3 DEF TypeInv, Results
  <2>6. PhaseInv'
    BY <1>0, CallFacts DEF PhaseInv
  <2>7. NothingDangles'
    <3>1. contracts # NoContracts
      BY <1>2 DEF NoContracts
    <3>2. ~(stackState <= SourcesSet)
      BY <3>1 DEF NothingDangles
    <3> QED
      BY <1>0, <2>3, <2>4, <3>2, SameSources, SameFindings DEF NothingDangles
  <2>8. ReportInv' /\ CompleteInv' /\ AnalysedInv'
    BY <1>0, SameSources, SameFindings DEF ReportInv, CompleteInv, AnalysedInv
  <2>9. AcceptedInv'
    BY <1>0, <2>3, <2>4, AnalysedFacts, SameSources, SameFindings DEF AcceptedInv
  <2>10. call'.phase = "idle"
    BY <1>0, CallFacts
  <2> QED
    BY <1>0, <2>5, <2>6, <2>7, <2>8, <2>9, <2>10, NoCall, NoFailure
<1> QED
  BY <1>1, <1>2 DEF SourceMapping

-----------------------------------------------------------------------------
(***************************************************************************)
(* The steps of parse().                                                   *)
(***************************************************************************)
\* While parse() runs, nothing is known about the program.
LEMMA ParsingFacts ==
  ASSUME IInv, call.phase \in {"parse", "load"}
  PROVE  /\ call \in ParseCall /\ stackState = SourcesSet /\ result = "running"
         /\ scopes = {} /\ sourceOrder = <<>> /\ contracts = NoContracts
         /\ call.work \in Seq(Names) /\ call.imports \in Seq(Names)
         /\ call.fetched \in [Names -> Texts \cup {None}]
         /\ Elements(call.work) \subseteq Present
<1> USE DEF IInv
<1>1. call \in ParseCall
  BY CallFacts
<1>2. stackState = SourcesSet /\ result = "running"
  BY DEF PhaseInv
<1>3. scopes = {} /\ sourceOrder = <<>> /\ contracts = NoContracts
  BY <1>2 DEF NothingDangles, SourcesSet
<1> QED
  BY <1>1, <1>2, <1>3 DEF ParseCall, ParseInv

\* A step of parse() that goes on, or ends without success.
LEMMA ParseStepIInv ==
  ASSUME IInv, call.phase \in {"parse", "load"},
         UNCHANGED <<session, stackState, settings, sourceOrder, scopes, contracts, search,
                     calls>>,
         sources' \in [Names -> SourceType \cup {None}], ReportInv',
         \/ call' \in ParseCall /\ UNCHANGED result /\ ParseInv'
         \/ call' = Idle /\ result' \in {"false", "assertParserError", "FatalError"}
              /\ FailuresAreExplained'
  PROVE  IInv'
<1> USE DEF IInv
<1>1. /\ stackState = SourcesSet /\ result = "running"
      /\ scopes = {} /\ sourceOrder = <<>> /\ contracts = NoContracts
  BY ParsingFacts
<1>2. call' \in ParseCall => call'.phase \in {"parse", "load"}
  BY DEF ParseCall
<1>3. Idle.phase = "idle"
  BY DEF Idle
<1>4. TypeInv'
  BY DEF TypeInv, CallType, Results
<1>5. PhaseInv'
  BY <1>1, <1>2, <1>3 DEF PhaseInv
<1>6. call'.phase # "pass" /\ call'.phase \in {"idle", "parse", "load"}
  BY <1>2, <1>3
<1>7. NothingDangles' /\ CompleteInv' /\ AnalysedInv' /\ AcceptedInv'
  BY <1>1, <1>6, ProgramForgotten DEF Empty, SourcesSet
<1>8. OrderInv' /\ PassInv' /\ CodegenInv'
  BY <1>6 DEF OrderInv, PassInv, CodegenInv
<1>9. ParseInv' /\ FailuresAreExplained'
  BY <1>1, <1>3, NoCall, NoFailure
<1> QED
  BY <1>4, <1>5, <1>7, <1>8, <1>9

LEMMA ParseSourceIInv ==
  ASSUME IInv, ParseSource
  PROVE  IInv'
<1> USE DEF IInv
<1> DEFINE n == Head(call.work)
           text == sources[n].text
           severity == text.reports["parse"]
           r == Report(reporter, severity)
           ast == IF r.fatal THEN None ELSE text
<1>1. call.phase = "parse" /\ call.work # <<>>
  BY DEF ParseSource
<1>2. /\ call \in ParseCall /\ call.work \in Seq(Names) /\ Elements(call.work) \subseteq Present
      /\ result = "running" /\ call.fetched \in [Names -> Texts \cup {None}]
  BY <1>1, ParsingFacts
<1>3. /\ n \in Elements(call.work) /\ Tail(call.work) \in Seq(Names)
      /\ Elements(call.work) = {n} \cup Elements(Tail(call.work))
  BY <1>1, <1>2, ElementsFacts
<1>4. n \in Names /\ sources[n] # None /\ sources[n] \in SourceType /\ text \in Texts
  BY <1>2, <1>3, SourceFacts DEF Present
<1>5. severity \in {"nothing", "warning", "error", "fatal"} /\ severity \in Severities
  BY <1>4, TextFacts, SeverityFacts DEF Severities
<1>6. /\ InvOf(Caught(r)) /\ Caught(r).fatal = FALSE /\ r.fatal \in BOOLEAN
      /\ Caught(r).list = r.list /\ Caught(r).errors = r.errors
      /\ ~ContainsOnlyWarnings(reporter.list) => ~ContainsOnlyWarnings(r.list)
      /\ severity \notin ErrorSeverities => ~r.fatal
      /\ severity \in {"quiet", "error"} /\ ~r.fatal => ~ContainsOnlyWarnings(r.list)
      /\ severity = "fatal" => r.fatal
      /\ severity \in ErrorSeverities => ~ContainsOnlyWarnings(r.list) \/ r.errors > c_maxErrorsAllowed
  BY <1>5, ReportFacts DEF ReportInv
<1>7. /\ reporter' = Caught(r)
      /\ sources' = [sources EXCEPT ![n].ast = ast]
      /\ IF r.fatal /\ ContainsOnlyWarnings(r.list)
           THEN Return("assertParserError")
           ELSE /\ call' = [call EXCEPT
                               !.phase = IF r.fatal THEN "parse" ELSE "load",
                               !.work = Tail(@),
                               !.imports = IF r.fatal THEN <<>> ELSE text.imports]
                /\ UNCHANGED result
      /\ UNCHANGED <<session, stackState, settings, sourceOrder, scopes, contracts, search, calls>>
  BY DEF ParseSource
<1>8. text.imports \in Seq(Names) /\ ast \in Texts \cup {None} /\ (~r.fatal => ast = text)
  BY <1>4, TextFacts
<1> HIDE DEF r, text, severity, n, ast
<1>9. [sources[n] EXCEPT !.ast = ast] \in SourceType
  BY <1>4, <1>8 DEF SourceType
<1>10. /\ sources' \in [Names -> SourceType \cup {None}]
       /\ \A m \in Names : m # n => sources'[m] = sources[m]
       /\ sources'[n] = [sources[n] EXCEPT !.ast = ast]
  BY <1>4, <1>7, <1>9 DEF TypeInv
<1>11. /\ sources'[n] # None /\ sources'[n].ast = ast /\ sources'[n].text = text
       /\ Present' = Present
  <2>1. sources'[n] # None
    BY <1>9, <1>10, StackAssumption
  <2>2. sources'[n].ast = ast /\ sources'[n].text = sources[n].text
    BY <1>4, <1>10 DEF SourceType
  <2>3. Present' = Present
    BY <1>4, <1>10, <2>1 DEF Present
  <2> QED
    BY <2>1, <2>2, <2>3 DEF text
<1>12. ReportInv'
  BY <1>6, <1>7 DEF ReportInv
<1>13. CASE r.fatal /\ ContainsOnlyWarnings(r.list)
  <2>1. call' = Idle /\ result' = "assertParserError"
    BY <1>7, <1>13 DEF Return
  <2>2. r.errors > c_maxErrorsAllowed
    BY <1>5, <1>6, <1>13 DEF ErrorSeverities
  <2>3. FailuresAreExplained'
    BY <1>6, <1>7, <2>1, <2>2 DEF FailuresAreExplained, LimitUsedUp
  <2> QED
    BY <1>1, <1>7, <1>10, <1>12, <2>1, <2>3, ParseStepIInv
<1>14. CASE ~(r.fatal /\ ContainsOnlyWarnings(r.list))
  <2> DEFINE ph == IF r.fatal THEN "parse" ELSE "load"
             im == IF r.fatal THEN <<>> ELSE text.imports
  <2>1. call' = [call EXCEPT !.phase = ph, !.work = Tail(@), !.imports = im] /\ UNCHANGED result
    BY <1>7, <1>14
  <2>2. ph \in {"parse", "load"} /\ im \in Seq(Names)
        /\ (~r.fatal => ph = "load" /\ im = text.imports)
    BY <1>8
  <2> HIDE DEF ph, im
  <2>3. /\ call' \in ParseCall /\ call'.phase = ph /\ call'.work = Tail(call.work)
        /\ call'.imports = im /\ call'.fetched = call.fetched
    BY <1>2, <1>3, <2>1, <2>2 DEF ParseCall
  <2>4. \A m \in Names : call.fetched[m] = None
    BY <1>1 DEF ParseInv
  <2>5. ASSUME ContainsOnlyWarnings(r.list), NEW m \in Present, m \notin Elements(Tail(call.work))
        PROVE  Parsed(m)' /\ \A k \in Elements(sources'[m].ast.imports) : Known(k)'
    <3>1. severity \notin ErrorSeverities /\ ~r.fatal /\ ContainsOnlyWarnings(reporter.list)
      BY <1>5, <1>6, <1>14, <2>5 DEF ErrorSeverities
    <3>2. CASE m = n
      <4>1. sources'[m].ast = text /\ sources'[m].text = text
        BY <1>8, <1>11, <3>1, <3>2
      <4>2. Parsed(m)'
        BY <3>1, <4>1 DEF Parsed, Ast, severity
      <4>3. call'.phase = "load" /\ call'.imports = text.imports
        BY <2>2, <2>3, <3>1
      <4> QED
        BY <4>1, <4>2, <4>3 DEF Known
    <3>3. CASE m # n
      <4>1. m \in Present \ Elements(call.work) /\ m \in Names
        BY <1>3, <2>5, <3>3 DEF Present
      <4>2. Parsed(m) /\ \A k \in Elements(Ast(m).imports) : Known(k)
        BY <1>1, <3>1, <4>1 DEF ParseInv
      <4>3. sources'[m] = sources[m]
        BY <1>10, <3>3, <4>1
      <4>4. sources[m].ast \in Texts /\ Elements(sources[m].ast.imports) \subseteq Names
        BY <4>1, <4>2, SourceFacts, TextFacts DEF Parsed, Ast, Present
      <4>5. \A k \in Elements(sources[m].ast.imports) : sources[k] # None
        BY <1>1, <4>2 DEF Known, Ast
      <4>6. \A k \in Elements(sources[m].ast.imports) : sources'[k] # None
        BY <1>10, <1>11, <4>4, <4>5
      <4> QED
        BY <4>2, <4>3, <4>6 DEF Known, Parsed, Ast
    <3> QED
      BY <3>2, <3>3
  <2>6. ParseInv'
    <3>1. Elements(Tail(call.work)) \subseteq Present
      BY <1>2, <1>3
    <3>2. reporter'.list = r.list
      BY <1>6, <1>7
    <3> QED
      BY <1>11, <2>3, <2>4, <2>5, <3>1, <3>2 DEF ParseInv, Ast
  <2> QED
    BY <1>1, <1>7, <1>10, <1>12, <2>1, <2>3, <2>6, ParseStepIInv
<1> QED
  BY <1>13, <1>14

\* loadMissingSources goes on to the next import, having dealt with this one.
LEMMA LoadStepIInv ==
  ASSUME IInv, Loading,
         UNCHANGED <<session, stackState, sources, settings, sourceOrder, scopes, contracts,
                     search, result, calls>>,
         NEW fetched \in [Names -> Texts \cup {None}],
         call' = [call EXCEPT !.imports = Tail(@), !.fetched = fetched],
         ReportInv',
         ~ContainsOnlyWarnings(reporter.list) => ~ContainsOnlyWarnings(reporter'.list),
         \A n \in Names : call.fetched[n] # None => fetched[n] # None,
         \A n \in Names : fetched[n] # None => sources[n] = None,
         ContainsOnlyWarnings(reporter'.list) =>
           sources[Head(call.imports)] # None \/ fetched[Head(call.imports)] # None
  PROVE  IInv'
<1> USE DEF IInv
<1>1. call.phase = "load" /\ call.imports # <<>>
  BY DEF Loading
<1>2. /\ call \in ParseCall /\ call.imports \in Seq(Names)
      /\ Elements(call.work) \subseteq Present
  BY <1>1, ParsingFacts
<1>3. /\ Head(call.imports) \in Elements(call.imports) /\ Tail(call.imports) \in Seq(Names)
      /\ Elements(call.imports) = {Head(call.imports)} \cup Elements(Tail(call.imports))
  BY <1>1, <1>2, ElementsFacts
<1>4. /\ call' \in ParseCall /\ call'.phase = "load" /\ call'.work = call.work
      /\ call'.imports = Tail(call.imports) /\ call'.fetched = fetched
  BY <1>1, <1>2, <1>3 DEF ParseCall
<1>5. Present' = Present /\ \A n : Ast(n)' = Ast(n) /\ (Parsed(n)' <=> Parsed(n))
  BY SameSources
<1>6. ASSUME ContainsOnlyWarnings(reporter'.list), NEW n \in Present \ Elements(call.work)
      PROVE  Parsed(n) /\ \A m \in Elements(Ast(n).imports) : Known(m)'
  <2>1. ContainsOnlyWarnings(reporter.list)
    BY <1>6
  <2>2. Parsed(n) /\ \A m \in Elements(Ast(n).imports) : Known(m)
    BY <1>1, <1>6, <2>1 DEF ParseInv
  <2>3. n \in Names /\ Ast(n) \in Texts /\ Elements(Ast(n).imports) \subseteq Names
    BY <1>6, <2>2, SourceFacts, TextFacts DEF Parsed, Present
  <2>4. ASSUME NEW m \in Elements(Ast(n).imports) PROVE Known(m)'
    <3>1. Known(m) /\ m \in Names
      BY <2>2, <2>3, <2>4
    <3>2. CASE m = Head(call.imports)
      BY <1>4, <1>6, <3>2 DEF Known
    <3>3. CASE m # Head(call.imports)
      BY <1>3, <1>4, <3>1, <3>3 DEF Known
    <3> QED
      BY <3>2, <3>3
  <2> QED
    BY <2>2, <2>4
<1>7. ParseInv'
  BY <1>2, <1>4, <1>5, <1>6 DEF ParseInv
<1> QED
  BY <1>1, <1>4, <1>7, ParseStepIInv DEF TypeInv

LEMMA SkipImportIInv ==
  ASSUME IInv, SkipImport
  PROVE  IInv'
<1> USE DEF IInv
<1>1. Loading /\ call.phase = "load" /\ UNCHANGED reporter
  BY DEF SkipImport, Loading
<1>2. call \in ParseCall /\ call.fetched \in [Names -> Texts \cup {None}]
  BY <1>1, ParsingFacts
<1>3. call' = [call EXCEPT !.imports = Tail(@), !.fetched = call.fetched]
  BY <1>2 DEF SkipImport, ParseCall
<1>4. ReportInv' /\ \A n \in Names : call.fetched[n] # None => sources[n] = None
  BY <1>1 DEF ReportInv, ParseInv
<1> QED
  BY <1>1, <1>2, <1>3, <1>4, LoadStepIInv DEF SkipImport

LEMMA FetchImportIInv ==
  ASSUME IInv, NEW text \in Texts, FetchImport(text)
  PROVE  IInv'
<1> USE DEF IInv
<1> DEFINE h == Head(call.imports)
           fetched == [call.fetched EXCEPT ![h] = text]
<1>1. Loading /\ call.phase = "load" /\ UNCHANGED reporter /\ call.imports # <<>>
  BY DEF FetchImport, Loading
<1>2. /\ call \in ParseCall /\ call.fetched \in [Names -> Texts \cup {None}]
      /\ call.imports \in Seq(Names)
  BY <1>1, ParsingFacts
<1>3. h \in Names /\ text # None
  BY <1>1, <1>2, ElementsFacts, TextFacts
<1>4. call' = [call EXCEPT !.imports = Tail(@), !.fetched = fetched]
  BY <1>2 DEF FetchImport, ParseCall
<1>5. /\ ReportInv' /\ fetched \in [Names -> Texts \cup {None}]
      /\ fetched[h] # None /\ sources[h] = None
      /\ \A n \in Names : n # h => fetched[n] = call.fetched[n]
  BY <1>1, <1>2, <1>3 DEF ReportInv, FetchImport
<1>6. \A n \in Names : call.fetched[n] # None => sources[n] = None
  BY <1>1 DEF ParseInv
<1> HIDE DEF fetched, h
<1>7. /\ \A n \in Names : call.fetched[n] # None => fetched[n] # None
      /\ \A n \in Names : fetched[n] # None => sources[n] = None
  BY <1>5, <1>6
<1> QED
  BY <1>1, <1>4, <1>5, <1>7, LoadStepIInv DEF FetchImport, h

LEMMA MissImportIInv ==
  ASSUME IInv, MissImport
  PROVE  IInv'
<1> USE DEF IInv
<1> DEFINE r == Report(reporter, "error")
<1>1. Loading /\ call.phase = "load" /\ r = ReportError(reporter)
  BY DEF MissImport, Loading, Report
<1>2. call \in ParseCall /\ call.fetched \in [Names -> Texts \cup {None}]
  BY <1>1, ParsingFacts
<1>3. /\ InvOf(Caught(r)) /\ Caught(r).fatal = FALSE /\ r.fatal \in BOOLEAN
      /\ Caught(r).list = r.list /\ Caught(r).errors = r.errors
      /\ ~r.fatal => ~ContainsOnlyWarnings(r.list)
      /\ r.fatal => r.errors > c_maxErrorsAllowed
  BY ReportFacts DEF ReportInv, Severities
<1>4. /\ reporter' = Caught(r)
      /\ IF r.fatal THEN Return("FatalError")
         ELSE call' = [call EXCEPT !.imports = Tail(@)] /\ UNCHANGED result
      /\ UNCHANGED <<session, stackState, sources, settings, sourceOrder, scopes, contracts,
                     search, calls>>
  BY <1>1 DEF MissImport
<1> HIDE DEF r
<1>5. ReportInv'
  BY <1>3, <1>4 DEF ReportInv
<1>6. CASE r.fatal
  <2>1. call' = Idle /\ result' = "FatalError"
    BY <1>4, <1>6 DEF Return
  <2>2. FailuresAreExplained'
    BY <1>3, <1>4, <1>6, <2>1 DEF FailuresAreExplained, LimitUsedUp
  <2> QED
    BY <1>1, <1>4, <1>5, <2>1, <2>2, ParseStepIInv DEF TypeInv
<1>7. CASE ~r.fatal
  <2>1. call' = [call EXCEPT !.imports = Tail(@), !.fetched = call.fetched]
    BY <1>2, <1>4, <1>7 DEF ParseCall
  <2>2. ~ContainsOnlyWarnings(reporter'.list) /\ UNCHANGED result
    BY <1>3, <1>4, <1>7
  <2>3. \A n \in Names : call.fetched[n] # None => sources[n] = None
    BY <1>1 DEF ParseInv
  <2> QED
    BY <1>1, <1>2, <1>4, <1>5, <2>1, <2>2, <2>3, LoadStepIInv
<1> QED
  BY <1>6, <1>7

LEMMA AddFetchedIInv ==
  ASSUME IInv, AddFetched
  PROVE  IInv'
<1> USE DEF IInv
<1> DEFINE N == {n \in Names : call.fetched[n] # None}
           new == InNameOrder(N)
           none == [n \in Names |-> None]
<1>1. /\ call.phase = "load" /\ call.imports = <<>>
      /\ sources' = [n \in Names |->
                       IF call.fetched[n] = None THEN sources[n]
                       ELSE [text |-> call.fetched[n], isLibrary |-> FALSE, ast |-> None]]
      /\ call' = [call EXCEPT !.phase = "parse", !.work = @ \o new, !.fetched = none]
      /\ UNCHANGED <<session, reporter, stackState, settings, sourceOrder, scopes,
                     contracts, search, result, calls>>
  BY DEF AddFetched
<1>2. /\ call \in ParseCall /\ call.fetched \in [Names -> Texts \cup {None}]
      /\ call.work \in Seq(Names) /\ Elements(call.work) \subseteq Present
  BY <1>1, ParsingFacts
<1>3. new \in Seq(Names) /\ Elements(new) = N
  BY InNameOrderFacts
<1>4. none \in [Names -> Texts \cup {None}] /\ \A n \in Names : none[n] = None
  OBVIOUS
<1>5. /\ \A n \in Names \ N : sources'[n] = sources[n]
      /\ \A n \in N : sources'[n] = [text |-> call.fetched[n], isLibrary |-> FALSE, ast |-> None]
  BY <1>1
<1>6. \A n \in N : n \in Names /\ sources[n] = None
  BY <1>1 DEF ParseInv
<1> HIDE DEF new, none
<1>7. ASSUME NEW n \in N PROVE sources'[n] \in SourceType
  <2> DEFINE t == call.fetched[n]
  <2>1. t \in Texts
    BY <1>2, <1>7
  <2>2. sources'[n] = [text |-> t, isLibrary |-> FALSE, ast |-> None]
    BY <1>5, <1>7
  <2> HIDE DEF t
  <2> QED
    BY <2>1, <2>2 DEF SourceType
<1>8. sources' \in [Names -> SourceType \cup {None}]
  <2>1. \A n \in Names : sources'[n] \in SourceType \cup {None}
    BY <1>5, <1>7 DEF TypeInv
  <2> QED
    BY <1>1, <2>1
<1> HIDE DEF N
<1>9. Present' = Present \cup N
  BY <1>5, <1>6, <1>7, StackAssumption DEF Present
<1>10. call.work \o new \in Seq(Names) /\ Elements(call.work \o new) = Elements(call.work) \cup N
  BY <1>2, <1>3, ElementsFacts
<1>11. /\ call' \in ParseCall /\ call'.phase = "parse" /\ call'.fetched = none
       /\ call'.work = call.work \o new
  BY <1>1, <1>2, <1>4, <1>10 DEF ParseCall
<1>12. ASSUME ContainsOnlyWarnings(reporter.list), NEW n \in Present, n \notin N,
              n \notin Elements(call.work)
       PROVE  Parsed(n)' /\ \A m \in Elements(sources'[n].ast.imports) : Known(m)'
  <2>1. Parsed(n) /\ \A m \in Elements(Ast(n).imports) : Known(m)
    BY <1>1, <1>12 DEF ParseInv
  <2>2. /\ n \in Names /\ sources'[n] = sources[n]
        /\ Ast(n) \in Texts /\ Elements(Ast(n).imports) \subseteq Names
    BY <1>5, <1>12, <2>1, SourceFacts, TextFacts DEF Parsed, Present
  <2>3. \A m \in Elements(Ast(n).imports) : sources[m] # None \/ call.fetched[m] # None
    BY <1>1, <2>1 DEF Known, Elements
  <2>4. \A m \in Elements(Ast(n).imports) : m \in Present'
    BY <1>9, <2>2, <2>3 DEF Present, N
  <2> QED
    BY <2>1, <2>2, <2>4 DEF Parsed, Known, Ast, Present
<1>13. ParseInv'
  BY <1>1, <1>2, <1>4, <1>9, <1>10, <1>11, <1>12 DEF ParseInv, Ast
<1>14. ReportInv'
  BY <1>1 DEF ReportInv
<1> QED
  BY <1>1, <1>8, <1>11, <1>13, <1>14, ParseStepIInv

LEMMA EndParseIInv ==
  ASSUME IInv, EndParse
  PROVE  IInv'
<1> USE DEF IInv
<1>1. /\ call.phase = "parse" /\ call.work = <<>>
      /\ UNCHANGED <<session, reporter, sources, settings, sourceOrder, scopes, contracts, calls>>
  BY DEF EndParse
<1>2. /\ call \in ParseCall /\ stackState = SourcesSet /\ scopes = {} /\ sourceOrder = <<>>
      /\ contracts = NoContracts
  BY <1>1, ParsingFacts
<1>3. ReportInv'
  BY <1>1 DEF ReportInv
<1>4. CASE ~ContainsOnlyWarnings(reporter.list)
  <2>1. call' = Idle /\ result' = "false" /\ UNCHANGED <<stackState, search>>
    BY <1>4 DEF EndParse, Return
  <2>2. FailuresAreExplained'
    BY <1>1, <1>4, <2>1 DEF FailuresAreExplained
  <2> QED
    BY <1>1, <1>3, <2>1, <2>2, ParseStepIInv DEF TypeInv
<1>5. CASE ContainsOnlyWarnings(reporter.list)
  <2>1. /\ stackState' = ParsingSuccessful
        /\ IF call.goal = "parse"
             THEN Return("true") /\ UNCHANGED search
             ELSE StartAnalyze(call.goal, call.secbit, call.noSMT)
    BY <1>5 DEF EndParse
  <2>2. \/ call' = Idle /\ result' = "true" /\ UNCHANGED search
        \/ /\ call' \in OrderCall /\ result' = "running"
           /\ search' = Order!StartSearch(Roots)
    BY <1>2, <2>1 DEF Return, StartAnalyze, ParseCall, OrderCall
  <2>3. Idle.phase = "idle" /\ (call' \in OrderCall => call'.phase = "order")
    BY DEF Idle, OrderCall
  <2>4. TypeInv'
    BY <1>1, <2>1, <2>2
       DEF TypeInv, CallType, Results, ParsingSuccessful, Empty, CompilationSuccessful
  <2>5. PhaseInv'
    BY <1>1, <2>1, <2>2, <2>3 DEF PhaseInv
  <2>6. Analysed' = {}
    BY <1>1, <1>2 DEF Analysed
  <2>7. NothingDangles'
    BY <1>1, <1>2, <2>1, <2>6 DEF NothingDangles, NoContracts
  <2>8. CompleteInv'
    <3> SUFFICES ASSUME NEW n \in Present
                 PROVE  Parsed(n) /\ Elements(Ast(n).imports) \subseteq Present
      BY <1>1, SameSources DEF CompleteInv
    <3>1. n \notin Elements(call.work)
      BY <1>1 DEF Elements
    <3>2. Parsed(n) /\ \A m \in Elements(Ast(n).imports) : Known(m)
      BY <1>1, <1>5, <3>1 DEF ParseInv
    <3>3. Elements(Ast(n).imports) \subseteq Names
      BY <3>2, SourceFacts, TextFacts DEF Parsed, Present
    <3> QED
      BY <1>1, <3>2, <3>3 DEF Known, Present
  <2>9. AnalysedInv' /\ AcceptedInv'
    BY <1>1, <1>5, <2>1, <2>2, <2>3, <2>6
       DEF AnalysedInv, AcceptedInv, ParsingSuccessful, AnalysisSuccessful
  <2>10. OrderInv'
    BY <1>1, <2>2, <2>3, SearchStarts DEF OrderInv
  <2>11. ParseInv' /\ PassInv' /\ CodegenInv'
    BY <2>2, <2>3 DEF ParseInv, PassInv, CodegenInv
  <2> QED
    BY <1>3, <2>2, <2>4, <2>5, <2>7, <2>8, <2>9, <2>10, <2>11, NoFailure
<1> QED
  BY <1>4, <1>5

-----------------------------------------------------------------------------
(***************************************************************************)
(* The steps of analyze().  resolveImports takes steps of ImportOrder.     *)
(***************************************************************************)
LEMMA ResolveImportsRefines ==
  ASSUME IInv, ResolveImports
  PROVE  OrderProofs!Next
<1>1. /\ ~Order!Finished(search) /\ UNCHANGED sources
      /\ \/ search.path = <<>> /\ search' = Order!NextRoot(search)
         \/ /\ search.path # <<>>
            /\ search' = LET f == Order!Top(search) IN
                         IF f.next <= Len(AstImports[f.source])
                           THEN Order!Follow(search, AstImports) ELSE Order!Leave(search)
  BY DEF ResolveImports
<1>2. AstImports' = AstImports /\ Roots' = Roots
  BY <1>1 DEF AstImports, Roots, HasAst, Ast
<1>3. CASE search.path = <<>>
  <2>1. search.roots # <<>> /\ search' = Order!NextRoot(search)
    BY <1>1, <1>3 DEF Order!Finished
  <2>2. OrderProofs!TakeRoot
    BY <1>2, <1>3, <2>1
       DEF OrderProofs!TakeRoot, Order!NextRoot, OrderProofs!NextRoot, Order!Enter, OrderProofs!Enter
  <2> QED
    BY <2>2 DEF OrderProofs!Next
<1>4. CASE search.path # <<>>
  <2> DEFINE f == Order!Top(search)
  <2>1. f = OrderProofs!Top(search)
    BY DEF Order!Top, OrderProofs!Top
  <2>2. CASE f.next <= Len(AstImports[f.source])
    <3>1. search' = Order!Follow(search, AstImports)
      BY <1>1, <1>4, <2>2
    <3>2. OrderProofs!FollowImport
      BY <1>2, <1>4, <2>1, <2>2, <3>1
         DEF OrderProofs!FollowImport, Order!Follow, OrderProofs!Follow, Order!Enter,
             OrderProofs!Enter
    <3> QED
      BY <3>2 DEF OrderProofs!Next
  <2>3. CASE ~(f.next <= Len(AstImports[f.source]))
    <3>1. search' = Order!Leave(search)
      BY <1>1, <1>4, <2>3
    <3>2. search.path \in Seq(OrderProofs!Frame) /\ AstImports \in [Names -> Seq(Names)]
      BY DEF IInv, OrderInv, ResolveImports, OrderProofs!IInv, OrderProofs!TypeOK,
             OrderProofs!SearchType
    <3>3. f \in OrderProofs!Frame
      BY <1>4, <3>2 DEF Order!Top
    <3>4. f.next > Len(AstImports[f.source])
      BY <2>3, <3>2, <3>3 DEF OrderProofs!Frame
    <3>5. OrderProofs!LeaveSource
      BY <1>2, <1>4, <2>1, <3>1, <3>4
         DEF OrderProofs!LeaveSource, Order!Leave, OrderProofs!Leave
    <3> QED
      BY <3>5 DEF OrderProofs!Next
  <2> QED
    BY <2>2, <2>3
<1> QED
  BY <1>3, <1>4

LEMMA ResolveImportsIInv ==
  ASSUME IInv, ResolveImports
  PROVE  IInv'
<1> USE DEF IInv
<1>1. call.phase = "order" /\ UNCHANGED <<session, reporter, stackState, sources, settings,
        sourceOrder, scopes, contracts, call, result, calls>>
  BY DEF ResolveImports
<1>2. OrderProofs!IInv'
  BY <1>1, ResolveImportsRefines, OrderProofs!TakeRootIInv, OrderProofs!FollowImportIInv,
     OrderProofs!LeaveSourceIInv DEF OrderInv, OrderProofs!Next
<1>3. TypeInv' /\ PhaseInv'
  BY <1>1 DEF TypeInv, PhaseInv
<1>4. ReportInv' /\ NothingDangles' /\ CompleteInv' /\ AnalysedInv' /\ AcceptedInv'
  BY <1>1, ProgramKept
<1>5. OrderInv' /\ ParseInv' /\ PassInv' /\ CodegenInv'
  BY <1>1, <1>2 DEF OrderInv, ParseInv, PassInv, CodegenInv
<1>6. FailuresAreExplained'
  BY <1>1, NoFailure DEF PhaseInv
<1> QED
  BY <1>3, <1>4, <1>5, <1>6

\* What resolveImports returns.
LEMMA OrderFacts ==
  ASSUME TypeInv, CompleteInv, stackState = ParsingSuccessful, OrderProofs!IInv,
         Order!Finished(search)
  PROVE  /\ search.order \in Seq(Names)
         /\ Elements(search.order) \subseteq Present
         /\ \A n \in Elements(search.order) : Elements(Ast(n).imports) \subseteq Elements(search.order)
         /\ RootSet \subseteq Elements(search.order)
         /\ Elements(search.order) # {} => RootSet # {}
<1> DEFINE E == Elements(search.order)
<1>1. search \in OrderProofs!SearchType /\ search.path = <<>> /\ search.roots = <<>>
  BY DEF OrderProofs!IInv, OrderProofs!TypeOK, Order!Finished
<1>2. search.order \in Seq(Names) /\ search.seen \in SUBSET Names
  BY <1>1 DEF OrderProofs!SearchType
<1>3. search.seen = E
  BY <1>1 DEF OrderProofs!IInv, OrderProofs!SeenSplit, OrderProofs!OnPath,
              OrderProofs!Emitted, Elements
<1>4. /\ Roots \in Seq(Names) /\ Elements(Roots) = RootSet /\ RootSet \subseteq Present
      /\ \A i \in DOMAIN Roots : Roots[i] \in RootSet
  BY ImportGraphFacts DEF RootSet, Present, Elements
<1>5. ASSUME NEW n \in Present
      PROVE  /\ OrderProofs!ImportsOf(AstImports, n) = Elements(Ast(n).imports)
             /\ Elements(Ast(n).imports) \subseteq Present
  <2>1. Parsed(n) /\ Elements(Ast(n).imports) \subseteq Present
    BY DEF CompleteInv, ParsingSuccessful
  <2>2. n \in Names /\ HasAst(n)
    BY <2>1, SourceFacts, TextFacts DEF Present, Parsed, HasAst, Ast
  <2>3. AstImports[n] = Ast(n).imports
    BY <2>2 DEF AstImports
  <2> QED
    BY <2>1, <2>3 DEF OrderProofs!ImportsOf, Elements
<1>6. E \subseteq Present
  <2> SUFFICES ASSUME NEW n \in E PROVE n \in Present
    OBVIOUS
  <2>1. PICK i \in DOMAIN Roots : OrderProofs!Reaches(AstImports, Roots[i], n)
    BY <1>3 DEF OrderProofs!IInv, OrderProofs!SeenReachable
  <2>2. OrderProofs!Closed(AstImports, Present)
    BY <1>5 DEF OrderProofs!Closed
  <2>3. Present \in SUBSET Names
    BY DEF Present
  <2> QED
    BY <1>4, <2>1, <2>2, <2>3 DEF OrderProofs!Reaches
<1>7. \A n \in E : Elements(Ast(n).imports) \subseteq E
  BY <1>3, <1>5, <1>6
     DEF OrderProofs!IInv, OrderProofs!EmittedFollowed, OrderProofs!Emitted, Elements
<1>8. RootSet \subseteq E
  <2>1. \A i \in DOMAIN Roots : Roots[i] \in E
    BY <1>1, <1>3 DEF OrderProofs!IInv, OrderProofs!EntriesKept
  <2> QED
    BY <1>4, <2>1 DEF Elements
<1>9. E # {} => RootSet # {}
  BY <1>3, <1>4 DEF OrderProofs!IInv, OrderProofs!SeenReachable
<1> QED
  BY <1>2, <1>6, <1>7, <1>8, <1>9

LEMMA EndResolveImportsIInv ==
  ASSUME IInv, EndResolveImports
  PROVE  IInv'
<1> USE DEF IInv
<1> DEFINE order == search.order
<1>1. /\ call.phase = "order" /\ Order!Finished(search)
      /\ sourceOrder' = order /\ search' = Order!StartSearch(<<>>)
      /\ call' = [phase |-> "pass", goal |-> call.goal, secbit |-> call.secbit,
                  noSMT |-> call.noSMT, pass |-> 1, work |-> order, noErrors |-> TRUE]
      /\ UNCHANGED <<session, reporter, stackState, sources, settings, scopes, contracts,
                     result, calls>>
  BY DEF EndResolveImports
<1>2. call \in OrderCall /\ stackState = ParsingSuccessful /\ OrderProofs!IInv /\ result = "running"
  BY <1>1, CallFacts DEF PhaseInv, OrderInv
<1>3. /\ order \in Seq(Names) /\ Elements(order) \subseteq Present
      /\ \A n \in Elements(order) : Elements(Ast(n).imports) \subseteq Elements(order)
      /\ RootSet \subseteq Elements(order) /\ (Elements(order) # {} => RootSet # {})
  BY <1>1, <1>2, OrderFacts
<1> HIDE DEF order
<1>4. /\ call' \in PassCall /\ call'.phase = "pass" /\ call'.pass = 1 /\ call'.work = order
      /\ call'.noErrors = TRUE
  BY <1>1, <1>2, <1>3, PassFacts DEF OrderCall, PassCall
<1>5. Analysed' = Elements(order)
  BY <1>1 DEF Analysed, Elements
<1>6. TypeInv'
  BY <1>1, <1>3, <1>4 DEF TypeInv, CallType
<1>7. PhaseInv'
  BY <1>1, <1>2, <1>4 DEF PhaseInv
<1>8. ReportInv' /\ CompleteInv'
  BY <1>1, SameSources DEF ReportInv, CompleteInv
<1>9. \A n \in Elements(order) : HasAst(n)
  <2> SUFFICES ASSUME NEW n \in Elements(order) PROVE HasAst(n)
    OBVIOUS
  <2>1. n \in Present /\ Parsed(n)
    BY <1>2, <1>3 DEF CompleteInv, ParsingSuccessful
  <2> QED
    BY <2>1, SourceFacts, TextFacts DEF Present, Parsed, HasAst, Ast
<1>10. NothingDangles'
  BY <1>1, <1>2, <1>5, <1>9, SameSources DEF NothingDangles, ParsingSuccessful, SourcesSet
<1>11. AnalysedInv'
  BY <1>1, <1>3, <1>5, SameSources DEF AnalysedInv
<1>12. AcceptedInv' /\ OrderInv' /\ ParseInv' /\ CodegenInv'
  BY <1>1, <1>2, <1>4
     DEF AcceptedInv, OrderInv, ParseInv, CodegenInv, ParsingSuccessful, AnalysisSuccessful
<1>13. PassInv'
  <2>1. \A q \in 1 .. 13, n \in Elements(order) : ~Done(q, n)'
    BY <1>4 DEF Done
  <2>2. PassContracts' /\ PassFindings' /\ PassClean'
    BY <1>5, <2>1, PassFacts DEF PassContracts, PassFindings, PassClean
  <2> QED
    BY <1>4, <1>5, <2>2 DEF PassInv
<1> QED
  BY <1>1, <1>2, <1>6, <1>7, <1>8, <1>10, <1>11, <1>12, <1>13, NoFailure

(***************************************************************************)
(* The passes.                                                             *)
(***************************************************************************)
LEMMA FindingFacts ==
  ASSUME NEW p \in PassNames, NEW n, Ast(n) \in Texts
  PROVE  /\ Finding(p, n) \in Severities
         /\ Finding(p, n) = "error" => p \notin {"register", "secbit", "smt"}
         /\ Finding(p, n) = "quiet" => p \in {"register", "resolve"}
         /\ p \in {"secbit", "smt"} => Finding(p, n) \notin ErrorSeverities
         /\ Finding(p, n) \notin ErrorSeverities => Ast(n).reports[p] \notin ErrorSeverities
<1> DEFINE s == Ast(n).reports[p]
<1>1. s \in SeveritiesOf(p) /\ s \in Severities
  BY TextFacts, SeverityFacts
<1> HIDE DEF s
<1>2. \/ Finding(p, n) = s
      \/ Finding(p, n) = "error" /\ p \in {"resolve", "typeCheck"}
  BY DEF Finding, s
<1>3. "error" \in Severities /\ "error" \in ErrorSeverities /\ "fatal" \in ErrorSeverities
  BY DEF Severities, ErrorSeverities
<1>4. CASE Finding(p, n) = s
  <2>1. s = "error" => p # "register" /\ p # "secbit" /\ p # "smt"
    <3>1. p = "register" => s \in {"nothing", "warning", "quiet", "fatal"}
      BY <1>1, SeverityFacts
    <3>2. p \in {"secbit", "smt"} => s \notin ErrorSeverities
      BY <1>1, SeverityFacts
    <3> QED
      BY <1>3, <3>1, <3>2
  <2>2. s = "quiet" => p \in {"register", "resolve"}
    BY <1>1, SeverityFacts
  <2>3. p \in {"secbit", "smt"} => s \notin ErrorSeverities
    BY <1>1, SeverityFacts
  <2> QED
    BY <1>1, <1>4, <2>1, <2>2, <2>3 DEF s
<1>5. CASE Finding(p, n) = "error" /\ p \in {"resolve", "typeCheck"}
  BY <1>3, <1>5
<1> QED
  BY <1>2, <1>4, <1>5

\* What a pass has found when it neither throws nor fails.
LEMMA SuccessFacts ==
  ASSUME NEW p \in PassNames, NEW finding \in Severities, NEW list,
         finding = "error" => ~ContainsOnlyWarnings(list),
         finding = "error" => p \notin {"register", "secbit", "smt"}
  PROVE  /\ PassSucceeds(p, finding, list) => finding # "error"
         /\ ~PassSucceeds(p, finding, list) =>
              ~ContainsOnlyWarnings(list) \/ finding = "error"
         /\ p \in Aborting /\ ~PassSucceeds(p, finding, list) => finding = "error"
         /\ p = "postTypeCheck" /\ PassSucceeds(p, finding, list) => ContainsOnlyWarnings(list)
<1>1. PassNames \subseteq {"syntax", "docString", "register", "performImports", "resolve",
                   "typeCheck", "postTypeCheck", "cfg", "flow", "static", "viewPure",
                   "secbit", "smt"}
  <2>1. \A q \in 1 .. 13 : \/ q = 1 \/ q = 2 \/ q = 3 \/ q = 4 \/ q = 5 \/ q = 6 \/ q = 7
                           \/ q = 8 \/ q = 9 \/ q = 10 \/ q = 11 \/ q = 12 \/ q = 13
    OBVIOUS
  <2> QED
    BY <2>1, PassFacts
<1>2. CASE p \in {"syntax", "typeCheck", "postTypeCheck", "cfg", "flow", "static"}
  <2>1. PassSucceeds(p, finding, list) = ContainsOnlyWarnings(list)
    BY <1>2 DEF PassSucceeds
  <2> QED
    BY <1>2, <2>1 DEF Aborting
<1>3. CASE p \in {"docString", "performImports", "resolve", "viewPure"}
  <2>1. PassSucceeds(p, finding, list) = (finding # "error")
    BY <1>3 DEF PassSucceeds
  <2> QED
    BY <1>3, <2>1
<1>4. CASE p \in {"register", "secbit", "smt"}
  <2>1. PassSucceeds(p, finding, list) = TRUE
    BY <1>4 DEF PassSucceeds
  <2> QED
    BY <1>4, <2>1
<1> QED
  BY <1>1, <1>2, <1>3, <1>4

\* While analyze() runs its passes.
LEMMA PassPhaseFacts ==
  ASSUME IInv, call.phase = "pass"
  PROVE  /\ call \in PassCall /\ stackState = ParsingSuccessful /\ result = "running"
         /\ call.work \in Seq(Names) /\ call.pass \in 1 .. 13 /\ call.noErrors \in BOOLEAN
         /\ Elements(call.work) \subseteq Analysed
         /\ search = Order!StartSearch(<<>>)
<1> USE DEF IInv
<1>1. call \in PassCall
  BY CallFacts
<1>2. call.work \in Seq(Names) /\ call.pass \in 1 .. 13 /\ call.noErrors \in BOOLEAN
  BY <1>1, PassFacts DEF PassCall
<1> QED
  BY <1>1, <1>2 DEF PhaseInv, PassInv

\* What a pass over a source does to the list of errors.
LEMMA PassReportFacts ==
  ASSUME ReportInv, NEW p \in PassNames, NEW n, Ast(n) \in Texts, NEW skip \in BOOLEAN,
         NEW r, r = IF skip THEN reporter ELSE Report(reporter, Finding(p, n))
  PROVE  /\ InvOf(Caught(r)) /\ Caught(r).fatal = FALSE /\ r.fatal \in BOOLEAN
         /\ Caught(r).list = r.list /\ Caught(r).errors = r.errors
         /\ reporter.errors \in Nat /\ r.errors \in Nat /\ r.errors >= reporter.errors
         /\ ~ContainsOnlyWarnings(reporter.list) => ~ContainsOnlyWarnings(r.list)
         /\ r.fatal => ~ContainsOnlyWarnings(r.list) \/ r.errors > c_maxErrorsAllowed
         /\ skip \/ Finding(p, n) \notin ErrorSeverities =>
              ~r.fatal /\ (ContainsOnlyWarnings(reporter.list) => ContainsOnlyWarnings(r.list))
         /\ ~skip /\ ~r.fatal =>
              /\ Finding(p, n) # "fatal"
              /\ Finding(p, n) \in {"quiet", "error"} => ~ContainsOnlyWarnings(r.list)
<1>1. CASE skip
  <2>1. r = reporter /\ InvOf(r) /\ ~r.fatal
    BY <1>1 DEF ReportInv
  <2>2. /\ InvOf(Caught(r)) /\ Caught(r).fatal = FALSE
        /\ Caught(r).list = r.list /\ Caught(r).errors = r.errors
    BY <2>1, CatchKeepsInv DEF Caught
  <2>3. r.errors \in Nat /\ r.fatal \in BOOLEAN
    BY <2>1 DEF InvOf, ReporterType
  <2> QED
    BY <1>1, <2>1, <2>2, <2>3
<1>2. CASE ~skip
  <2> DEFINE s == Finding(p, n)
  <2>1. s \in Severities
    BY FindingFacts
  <2> DEFINE q == Report(reporter, s)
  <2>2. r = q
    BY <1>2
  <2> HIDE DEF s
  <2>3. /\ InvOf(Caught(q)) /\ Caught(q).fatal = FALSE /\ q.fatal \in BOOLEAN
        /\ Caught(q).list = q.list /\ Caught(q).errors = q.errors
        /\ reporter.errors \in Nat /\ q.errors \in Nat /\ q.errors >= reporter.errors
        /\ ~ContainsOnlyWarnings(reporter.list) => ~ContainsOnlyWarnings(q.list)
        /\ s \notin ErrorSeverities =>
             ~q.fatal /\ (ContainsOnlyWarnings(reporter.list) => ContainsOnlyWarnings(q.list))
        /\ s \in {"quiet", "error"} /\ ~q.fatal => ~ContainsOnlyWarnings(q.list)
        /\ s = "fatal" => q.fatal
        /\ s \in ErrorSeverities => ~ContainsOnlyWarnings(q.list) \/ q.errors > c_maxErrorsAllowed
    BY <2>1, ReportFacts DEF ReportInv
  <2> HIDE DEF q
  <2> QED
    BY <1>2, <2>2, <2>3 DEF s
<1> QED
  BY <1>1, <1>2

\* What a pass over a source does to m_contracts.
LEMMA PassContractFacts ==
  ASSUME IInv, call.phase = "pass", NEW p, p = Passes[call.pass], NEW n \in Analysed,
         NEW skip, skip => p \in PerContract /\ Ast(n).contract = "none",
         p = "typeCheck" /\ Ast(n).contract = "none" => skip, NEW made,
         p = "resolve" /\ ~skip /\ made /\ contracts[n] = None =>
           contracts' = [contracts EXCEPT ![n] =
                           [ast |-> Ast(n), evmVersion |-> None, code |-> None,
                            linked |-> FALSE, sourceMapping |-> None]],
         p = "typeCheck" /\ ~skip =>
           contracts' = [contracts EXCEPT ![n].evmVersion = settings.evmVersion],
         /\ ~(p = "resolve" /\ ~skip /\ made /\ contracts[n] = None)
         /\ ~(p = "typeCheck" /\ ~skip)
         => contracts' = contracts
  PROVE  /\ contracts' \in [Names -> ContractType \cup {None}]
         /\ \A m \in Names : m # n => contracts'[m] = contracts[m]
         /\ contracts[n] # None => contracts'[n] # None
         /\ contracts'[n] # None => contracts'[n].ast = Ast(n)
         /\ p = "resolve" /\ ~skip /\ made => contracts'[n] # None
         /\ p = "typeCheck" /\ ~skip => contracts'[n].evmVersion = settings.evmVersion
         /\ p # "typeCheck" /\ contracts[n] # None =>
              contracts'[n].evmVersion = contracts[n].evmVersion
         /\ contracts[n] = None \/ contracts[n].sourceMapping = None =>
              contracts'[n] = None \/ contracts'[n].sourceMapping = None
<1> USE DEF IInv
<1>0. None \notin ContractType
  BY StackAssumption
<1>1. n \in Names /\ Ast(n) \in Texts
  BY AnalysedFacts
<1>2. contracts \in [Names -> ContractType \cup {None}] /\ settings.evmVersion \in EVMVersions
  BY DEF TypeInv
<1>3. contracts[n] # None => contracts[n] \in ContractType /\ contracts[n].ast = Ast(n)
  BY <1>1, <1>2 DEF NothingDangles
<1>4. CASE p = "resolve" /\ ~skip /\ made /\ contracts[n] = None
  <2> DEFINE new == [ast |-> Ast(n), evmVersion |-> None, code |-> None, linked |-> FALSE,
                     sourceMapping |-> None]
  <2>1. new \in ContractType /\ new.ast = Ast(n) /\ new.sourceMapping = None
    BY <1>1 DEF ContractType
  <2>2. contracts' = [contracts EXCEPT ![n] = new]
    BY <1>4
  <2> HIDE DEF new
  <2>3. /\ contracts' \in [Names -> ContractType \cup {None}] /\ contracts'[n] = new
        /\ \A m \in Names : m # n => contracts'[m] = contracts[m]
    BY <1>1, <1>2, <2>1, <2>2
  <2> QED
    BY <1>0, <1>4, <2>1, <2>3
<1>5. CASE p = "typeCheck" /\ ~skip
  <2>1. contracts' = [contracts EXCEPT ![n].evmVersion = settings.evmVersion]
    BY <1>5
  <2>2. call.pass \in 1 .. 13 /\ call.pass = 6
    <3>1. call.pass \in 1 .. 13
      BY PassPhaseFacts
    <3>2. \A q \in 1 .. 13 : \/ q = 1 \/ q = 2 \/ q = 3 \/ q = 4 \/ q = 5 \/ q = 6 \/ q = 7
                             \/ q = 8 \/ q = 9 \/ q = 10 \/ q = 11 \/ q = 12 \/ q = 13
      OBVIOUS
    <3> QED
      BY <1>5, <3>1, <3>2, PassFacts
  <2>3. Ast(n).contract # "none"
    BY <1>5 DEF PerContract
  <2>4. contracts[n] # None
    BY <2>2, <2>3 DEF PassInv, PassContracts, Done
  <2> DEFINE new == [contracts[n] EXCEPT !.evmVersion = settings.evmVersion]
  <2>5. /\ new \in ContractType /\ new.ast = Ast(n) /\ new.evmVersion = settings.evmVersion
        /\ new.sourceMapping = contracts[n].sourceMapping
    BY <1>2, <1>3, <2>4 DEF ContractType
  <2>6. contracts' = [contracts EXCEPT ![n] = new]
    BY <2>1
  <2> HIDE DEF new
  <2>7. /\ contracts' \in [Names -> ContractType \cup {None}] /\ contracts'[n] = new
        /\ \A m \in Names : m # n => contracts'[m] = contracts[m]
    BY <1>1, <1>2, <2>5, <2>6
  <2> QED
    BY <1>0, <1>5, <2>4, <2>5, <2>7
<1>6. CASE ~(p = "resolve" /\ ~skip /\ made /\ contracts[n] = None) /\ ~(p = "typeCheck" /\ ~skip)
  <2>1. contracts' = contracts
    BY <1>6
  <2> QED
    BY <1>2, <1>3, <1>6, <2>1
<1> QED
  BY <1>4, <1>5, <1>6

\* A step of the passes leaves the program as it is, whatever it reports.
LEMMA PassStepIInv ==
  ASSUME IInv, call.phase = "pass", NEW n \in Analysed,
         UNCHANGED <<session, stackState, sources, settings, sourceOrder, search, calls>>,
         ReportInv', scopes' \in {scopes, scopes \cup {n}},
         contracts' \in [Names -> ContractType \cup {None}],
         \A m \in Names : m # n => contracts'[m] = contracts[m],
         contracts'[n] # None => contracts'[n].ast = Ast(n),
         \/ call' \in PassCall /\ UNCHANGED result /\ PassInv'
         \/ call' = Idle /\ result' \in {"false", "assertNewScope", "crash"}
                        /\ FailuresAreExplained'
  PROVE  IInv'
<1> USE DEF IInv
<1>1. stackState = ParsingSuccessful /\ result = "running" /\ search = Order!StartSearch(<<>>)
  BY PassPhaseFacts
<1>2. n \in Names /\ HasAst(n)
  BY AnalysedFacts
<1>3. Idle.phase = "idle" /\ (call' \in PassCall => call'.phase = "pass")
  BY DEF Idle, PassCall
<1>4. TypeInv'
  BY <1>2 DEF TypeInv, CallType, Results
<1>5. PhaseInv'
  BY <1>1, <1>3 DEF PhaseInv
<1>6. NothingDangles'
  <2>1. ~(stackState' <= SourcesSet)
    BY <1>1 DEF ParsingSuccessful, SourcesSet
  <2>2. \A m \in scopes' \cup Analysed' : HasAst(m)'
    BY <1>2, SameSources, SameFindings DEF NothingDangles
  <2>3. \A m \in Names : contracts'[m] # None => HasAst(m) /\ contracts'[m].ast = Ast(m)
    BY <1>2 DEF NothingDangles
  <2> QED
    BY <2>1, <2>2, <2>3, SameSources DEF NothingDangles
<1>7. CompleteInv'
  BY SameSources DEF CompleteInv
<1>8. AnalysedInv'
  BY SameSources, SameFindings DEF AnalysedInv
<1>9. AcceptedInv' /\ OrderInv' /\ ParseInv' /\ CodegenInv'
  BY <1>1, <1>3
     DEF AcceptedInv, OrderInv, ParseInv, CodegenInv, ParsingSuccessful, AnalysisSuccessful
<1>10. PassInv' /\ FailuresAreExplained'
  BY <1>1, <1>3, NoCall, NoFailure
<1> QED
  BY <1>4, <1>5, <1>6, <1>7, <1>8, <1>9, <1>10

LEMMA AnalyzeSourceIInv ==
  ASSUME IInv, AnalyzeSource
  PROVE  IInv'
<1> USE DEF IInv
<1> DEFINE p == Passes[call.pass]
           n == Head(call.work)
           skip == p \in PerContract /\ Ast(n).contract = "none"
           r == IF skip THEN reporter ELSE Report(reporter, Finding(p, n))
           ok == skip \/ PassSucceeds(p, Finding(p, n), r.list)
           twice == p = "register" /\ n \in scopes
           made == ok /\ ~r.fatal
<1>1. call.phase = "pass" /\ call.work # <<>>
  BY DEF AnalyzeSource
<1>2. /\ call \in PassCall /\ stackState = ParsingSuccessful /\ result = "running"
      /\ call.work \in Seq(Names) /\ call.pass \in 1 .. 13 /\ call.noErrors \in BOOLEAN
      /\ Elements(call.work) \subseteq Analysed
  BY <1>1, PassPhaseFacts
<1>3. /\ n \in Elements(call.work) /\ Tail(call.work) \in Seq(Names)
      /\ Elements(call.work) = {n} \cup Elements(Tail(call.work))
  BY <1>1, <1>2, ElementsFacts
<1>4. n \in Analysed /\ n \in Names /\ Ast(n) \in Texts /\ p \in PassNames
  BY <1>2, <1>3, AnalysedFacts, PassFacts
<1>5. /\ reporter' = IF twice THEN reporter ELSE Caught(r)
      /\ scopes' = IF p = "register" THEN scopes \cup {n} ELSE scopes
      /\ contracts' =
           CASE p = "resolve" /\ ~skip /\ made /\ contracts[n] = None ->
                  [contracts EXCEPT ![n] =
                     [ast |-> Ast(n), evmVersion |-> None, code |-> None, linked |-> FALSE,
                      sourceMapping |-> None]]
             [] p = "typeCheck" /\ ~skip ->
                  [contracts EXCEPT ![n].evmVersion = settings.evmVersion]
             [] OTHER -> contracts
      /\ UNCHANGED <<session, stackState, sources, settings, sourceOrder, search, calls>>
  BY DEF AnalyzeSource
<1>6. \/ twice /\ call' = Idle /\ result' \in {"assertNewScope", "crash"}
      \/ ~twice /\ (r.fatal \/ (~ok /\ p \in Aborting)) /\ call' = Idle /\ result' = "false"
      \/ /\ ~twice /\ ~r.fatal /\ ~(~ok /\ p \in Aborting)
         /\ call' = [call EXCEPT !.work = Tail(@), !.noErrors = @ /\ ok]
         /\ UNCHANGED result
  BY DEF AnalyzeSource, Return
<1>7. /\ InvOf(Caught(r)) /\ Caught(r).fatal = FALSE /\ r.fatal \in BOOLEAN
      /\ Caught(r).list = r.list /\ Caught(r).errors = r.errors
      /\ reporter.errors \in Nat /\ r.errors \in Nat /\ r.errors >= reporter.errors
      /\ ~ContainsOnlyWarnings(reporter.list) => ~ContainsOnlyWarnings(r.list)
      /\ r.fatal => ~ContainsOnlyWarnings(r.list) \/ r.errors > c_maxErrorsAllowed
      /\ skip \/ Finding(p, n) \notin ErrorSeverities =>
           ~r.fatal /\ (ContainsOnlyWarnings(reporter.list) => ContainsOnlyWarnings(r.list))
      /\ ~skip /\ ~r.fatal =>
           /\ Finding(p, n) # "fatal"
           /\ Finding(p, n) \in {"quiet", "error"} => ~ContainsOnlyWarnings(r.list)
  <2> HIDE DEF p, n
  <2> QED
    BY <1>4, PassReportFacts
<1>8. /\ Finding(p, n) \in Severities
      /\ Finding(p, n) = "error" => p \notin {"register", "secbit", "smt"}
      /\ Finding(p, n) = "quiet" => p \in {"register", "resolve"}
  <2> HIDE DEF p, n
  <2> QED
    BY <1>4, FindingFacts
<1>9. ~skip /\ ~r.fatal =>
        /\ ok => Finding(p, n) # "error"
        /\ ~ok => ~ContainsOnlyWarnings(r.list) \/ Finding(p, n) = "error"
        /\ p = "postTypeCheck" /\ ok => ContainsOnlyWarnings(r.list)
  <2> DEFINE finding == Finding(p, n)
             list == r.list
  <2>1. ASSUME ~skip, ~r.fatal
        PROVE  /\ finding \in Severities /\ p \in PassNames
               /\ finding = "error" => ~ContainsOnlyWarnings(list)
               /\ finding = "error" => p \notin {"register", "secbit", "smt"}
    BY <1>4, <1>7, <1>8, <2>1
  <2>2. ~skip => (ok <=> PassSucceeds(p, finding, list))
    OBVIOUS
  <2> HIDE DEF finding, list, p, r, ok, skip
  <2> QED
    BY <2>1, <2>2, SuccessFacts DEF finding, list
<1>10. /\ contracts' \in [Names -> ContractType \cup {None}]
       /\ \A m \in Names : m # n => contracts'[m] = contracts[m]
       /\ contracts[n] # None => contracts'[n] # None
       /\ contracts'[n] # None => contracts'[n].ast = Ast(n)
       /\ p = "resolve" /\ ~skip /\ made => contracts'[n] # None
       /\ p = "typeCheck" /\ ~skip => contracts'[n].evmVersion = settings.evmVersion
       /\ p # "typeCheck" /\ contracts[n] # None =>
            contracts'[n].evmVersion = contracts[n].evmVersion
  <2>1. /\ p = Passes[call.pass]
        /\ skip => p \in PerContract /\ Ast(n).contract = "none"
        /\ p = "typeCheck" /\ Ast(n).contract = "none" => skip
    BY DEF PerContract
  <2> HIDE DEF p, n, skip, made
  <2>2. p = "resolve" /\ ~skip /\ made /\ contracts[n] = None =>
          contracts' = [contracts EXCEPT ![n] =
                          [ast |-> Ast(n), evmVersion |-> None, code |-> None,
                           linked |-> FALSE, sourceMapping |-> None]]
    BY <1>5
  <2>3. p = "typeCheck" /\ ~skip =>
          contracts' = [contracts EXCEPT ![n].evmVersion = settings.evmVersion]
    BY <1>5
  <2>4. /\ ~(p = "resolve" /\ ~skip /\ made /\ contracts[n] = None)
        /\ ~(p = "typeCheck" /\ ~skip)
        => contracts' = contracts
    BY <1>5
  <2> QED
    BY <1>1, <1>4, <2>1, <2>2, <2>3, <2>4, PassContractFacts
<1>11. scopes' \in {scopes, scopes \cup {n}}
  BY <1>5
<1>12. ReportInv'
  BY <1>5, <1>7 DEF ReportInv
<1>13. CASE twice /\ call' = Idle /\ result' \in {"assertNewScope", "crash"}
  <2>1. FailuresAreExplained'
    <3>1. stackState' = ParsingSuccessful /\ n \in scopes'
      BY <1>2, <1>5, <1>13
    <3> HIDE DEF n, p, r, skip, ok, twice, made
    <3> QED
      BY <1>13, <3>1 DEF FailuresAreExplained
  <2> HIDE DEF n, p, r, skip, ok, twice, made
  <2> QED
    BY <1>1, <1>4, <1>5, <1>10, <1>11, <1>12, <1>13, <2>1, PassStepIInv
<1>14. CASE ~twice /\ (r.fatal \/ (~ok /\ p \in Aborting)) /\ call' = Idle /\ result' = "false"
  <2>1. reporter' = Caught(r)
    BY <1>5, <1>14
  <2>2. ~ContainsOnlyWarnings(r.list) \/ r.errors > c_maxErrorsAllowed
    <3>1. ~r.fatal => ~ok /\ ~skip
      BY <1>14
    <3> HIDE DEF n, p, r, skip, ok, twice, made
    <3> QED
      BY <1>7, <1>9, <3>1
  <2> HIDE DEF n, p, r, skip, ok, twice, made
  <2>3. FailuresAreExplained'
    BY <1>7, <1>14, <2>1, <2>2 DEF FailuresAreExplained, LimitUsedUp
  <2> QED
    BY <1>1, <1>4, <1>5, <1>10, <1>11, <1>12, <1>14, <2>3, PassStepIInv
<1>15. CASE /\ ~twice /\ ~r.fatal /\ ~(~ok /\ p \in Aborting)
            /\ call' = [call EXCEPT !.work = Tail(@), !.noErrors = @ /\ ok]
            /\ UNCHANGED result
  <2>1. reporter' = Caught(r) /\ skip \in BOOLEAN /\ ok \in BOOLEAN /\ (skip => ok)
        /\ (skip <=> Skipped(p, n)) /\ made = ok
    BY <1>5, <1>15 DEF Skipped
  <2>2. p = "resolve" => ok
    BY <1>15 DEF Aborting
  <2>p. p = Passes[call.pass]
    OBVIOUS
  <2> HIDE DEF n, p, r, skip, ok, twice, made
  <2>3. /\ call' \in PassCall /\ call'.phase = "pass" /\ call'.work = Tail(call.work)
        /\ call'.pass = call.pass /\ call'.noErrors = (call.noErrors /\ ok)
    BY <1>1, <1>2, <1>3, <1>15, <2>1 DEF PassCall
  <2>4. /\ Analysed' = Analysed /\ \A m : Ast(m)' = Ast(m)
        /\ \A q, m : Finding(q, m)' = Finding(q, m)
        /\ \A q, m : Skipped(q, m)' <=> Skipped(q, m)
    BY <1>5, SameSources, SameFindings
  <2>5. \A q, m : Done(q, m)' => Done(q, m) \/ (q = call.pass /\ m = n)
    BY <1>3, <2>3 DEF Done
  <2>6. reporter'.list = r.list /\ reporter'.errors = r.errors
    BY <1>7, <2>1
  <2>q. \A q \in 1 .. 13 : \/ q = 1 \/ q = 2 \/ q = 3 \/ q = 4 \/ q = 5 \/ q = 6 \/ q = 7
                           \/ q = 8 \/ q = 9 \/ q = 10 \/ q = 11 \/ q = 12 \/ q = 13
    OBVIOUS
  <2>7. /\ call.pass = 5 => p = "resolve"
        /\ call.pass = 6 => p = "typeCheck"
        /\ call.pass = 7 => p = "postTypeCheck"
        /\ p = "typeCheck" => call.pass = 6
        /\ p \in {"register", "resolve"} => call.pass \in {3, 5}
    BY <1>2, <2>p, <2>q, PassFacts
  <2>8. ~call'.noErrors => ~ContainsOnlyWarnings(r.list) \/ LimitUsedUp'
    <3>1. CASE ~call.noErrors
      <4>1. ~ContainsOnlyWarnings(reporter.list) \/ reporter.errors > c_maxErrorsAllowed
        BY <1>1, <3>1 DEF PassInv, LimitUsedUp
      <4>2. c_maxErrorsAllowed \in Nat
        BY LimitsAssumption
      <4>3. reporter.errors > c_maxErrorsAllowed => r.errors > c_maxErrorsAllowed
        BY <1>7, <4>2
      <4> QED
        BY <1>7, <2>6, <4>1, <4>3 DEF LimitUsedUp
    <3>2. CASE ~ok
      <4>1. ~skip /\ ~r.fatal
        BY <1>15, <2>1, <3>2
      <4> QED
        BY <1>7, <1>9, <3>2, <4>1
    <3> QED
      BY <2>3, <3>1, <3>2
  <2>9. PassContracts'
    <3> SUFFICES ASSUME NEW m \in Analysed, Ast(m).contract # "none"
                 PROVE  /\ Done(5, m)' => contracts'[m] # None
                        /\ Done(6, m)' => contracts'[m].evmVersion = settings'.evmVersion
      BY <2>4 DEF PassContracts
    <3>1. /\ Done(5, m) => contracts[m] # None
          /\ Done(6, m) => contracts[m].evmVersion = settings.evmVersion
      BY <1>1 DEF PassInv, PassContracts
    <3>2. m \in Names /\ settings' = settings
      BY <1>5, AnalysedFacts
    <3>3. CASE m # n
      BY <1>10, <2>5, <3>1, <3>2, <3>3
    <3>4. CASE m = n
      <4>1. ~skip
        BY <2>1, <3>4 DEF Skipped
      <4>2. Done(5, m)' => contracts'[m] # None
        BY <1>10, <2>1, <2>2, <2>5, <2>7, <3>1, <3>4, <4>1
      <4>3. Done(6, m)' => contracts'[m].evmVersion = settings.evmVersion
        <5>1. CASE call.pass = 6
          BY <1>10, <2>7, <3>4, <4>1, <5>1
        <5>2. CASE call.pass # 6
          <6>1. p # "typeCheck"
            BY <2>7, <5>2
          <6>2. Done(6, m)' => Done(6, m)
            BY <2>5, <5>2
          <6>3. Done(6, m) => Done(5, m)
            BY <1>2, <5>2 DEF Done
          <6> QED
            BY <1>10, <3>1, <3>4, <6>1, <6>2, <6>3
        <5> QED
          BY <5>1, <5>2
      <4> QED
        BY <3>2, <4>2, <4>3
    <3> QED
      BY <3>3, <3>4
  <2>10. ASSUME call'.noErrors PROVE PassFindings'
    <3>1. call.noErrors /\ ok /\ PassFindings
      BY <1>1, <2>3, <2>10 DEF PassInv
    <3> SUFFICES ASSUME NEW m \in Analysed, NEW q \in DOMAIN Passes, Done(q, m)',
                        ~Skipped(Passes[q], m)
                 PROVE  /\ Finding(Passes[q], m) \notin {"error", "fatal"}
                        /\ Finding(Passes[q], m) = "quiet" => ~ContainsOnlyWarnings(r.list)
      BY <2>4, <2>6 DEF PassFindings
    <3>2. CASE Done(q, m)
      BY <1>7, <3>1, <3>2 DEF PassFindings
    <3>3. CASE q = call.pass /\ m = n
      <4>1. ~skip /\ Passes[q] = p
        BY <2>1, <2>p, <3>3
      <4> QED
        BY <1>7, <1>9, <1>15, <3>1, <3>3, <4>1
    <3> QED
      BY <2>5, <3>2, <3>3
  <2>11. ASSUME call'.noErrors PROVE PassClean'
    <3>1. call.noErrors /\ ok /\ PassClean
      BY <1>1, <2>3, <2>11 DEF PassInv
    <3> SUFFICES ASSUME NEW m \in Analysed, Done(7, m)' PROVE ContainsOnlyWarnings(r.list)
      BY <2>4, <2>6 DEF PassClean
    <3>2. CASE Done(7, m)
      <4>1. ContainsOnlyWarnings(reporter.list) /\ call.pass >= 7
        BY <1>2, <3>1, <3>2 DEF PassClean, Done
      <4>2. skip \/ Finding(p, n) \notin ErrorSeverities
        <5>1. p \notin {"register", "resolve"}
          BY <2>7, <4>1
        <5> QED
          BY <1>7, <1>8, <1>9, <1>15, <3>1, <5>1 DEF ErrorSeverities
      <4> QED
        BY <1>7, <4>1, <4>2
    <3>3. CASE 7 = call.pass
      <4>1. p = "postTypeCheck" /\ ~skip
        BY <2>1, <2>7, <3>3 DEF Skipped, PerContract
      <4> QED
        BY <1>9, <1>15, <3>1, <4>1
    <3> QED
      BY <2>5, <3>2, <3>3
  <2>12. PassInv'
    <3>1. Elements(Tail(call.work)) \subseteq Analysed
      BY <1>2, <1>3
    <3> QED
      BY <2>3, <2>4, <2>6, <2>8, <2>9, <2>10, <2>11, <3>1 DEF PassInv
  <2> QED
    BY <1>1, <1>4, <1>5, <1>10, <1>11, <1>12, <1>15, <2>3, <2>12, PassStepIInv
<1> QED
  BY <1>6, <1>13, <1>14, <1>15

LEMMA NextPassIInv ==
  ASSUME IInv, NextPass
  PROVE  IInv'
<1> USE DEF IInv
<1> DEFINE k == call.pass + 1
           p == Passes[k]
           runs == Runs(p, call.noErrors, call.secbit, call.noSMT)
           w == IF runs THEN sourceOrder ELSE <<>>
<1>1. /\ call.phase = "pass" /\ call.work = <<>> /\ call.pass < 13
      /\ call' = [call EXCEPT !.pass = k, !.work = w]
      /\ UNCHANGED <<session, reporter, stackState, sources, settings, sourceOrder, scopes,
                     contracts, search, result, calls>>
  BY PassFacts DEF NextPass
<1>2. /\ call \in PassCall /\ call.pass \in 1 .. 13 /\ call.noErrors \in BOOLEAN
      /\ stackState = ParsingSuccessful /\ result = "running"
  BY <1>1, PassPhaseFacts
<1>3. k \in 1 .. 13 /\ k = call.pass + 1 /\ p = Passes[k] /\ p \in PassNames
  BY <1>1, <1>2, PassFacts
<1>4. w \in Seq(Names) /\ Elements(w) \subseteq Analysed /\ (runs => Elements(w) = Analysed)
  BY AnalysedFacts DEF TypeInv, Elements
<1>5. /\ ~runs /\ call.noErrors => p \in {"secbit", "smt"}
      /\ p \in {"resolve", "typeCheck"} => runs
      /\ p = "postTypeCheck" /\ call.noErrors => runs
  BY <1>2 DEF Runs
<1> HIDE DEF k, w, p, runs
<1>6. /\ call' \in PassCall /\ call'.phase = "pass" /\ call'.pass = k /\ call'.work = w
      /\ call'.noErrors = call.noErrors
  BY <1>1, <1>2, <1>3, <1>4, PassFacts DEF PassCall
<1>7. /\ Analysed' = Analysed /\ \A m : Ast(m)' = Ast(m)
      /\ \A q, m : Finding(q, m)' = Finding(q, m)
      /\ \A q, m : Skipped(q, m)' <=> Skipped(q, m)
  BY <1>1, SameSources, SameFindings
<1>8. \A q \in 1 .. 13, m \in Analysed : Done(q, m)' => Done(q, m) \/ (q = k /\ ~runs)
  BY <1>1, <1>2, <1>3, <1>4, <1>6 DEF Done, Elements
<1>9. PassContracts'
  <2>1. PassContracts
    BY <1>1 DEF PassInv
  <2>2. \A m \in Analysed : (Done(5, m)' => Done(5, m)) /\ (Done(6, m)' => Done(6, m))
    BY <1>3, <1>5, <1>8, PassFacts
  <2> QED
    BY <1>1, <1>7, <2>1, <2>2 DEF PassContracts
<1>10. ASSUME call.noErrors PROVE PassFindings' /\ PassClean'
  <2>1. PassFindings /\ PassClean
    BY <1>1, <1>10 DEF PassInv
  <2>2. \A m \in Analysed : Done(7, m)' => Done(7, m)
    BY <1>3, <1>5, <1>8, <1>10, PassFacts
  <2>3. PassClean'
    BY <1>1, <1>7, <2>1, <2>2 DEF PassClean
  <2>4. ASSUME NEW m \in Analysed, NEW q \in DOMAIN Passes, Done(q, m)', ~Skipped(Passes[q], m)
        PROVE  /\ Finding(Passes[q], m) \notin {"error", "fatal"}
               /\ Finding(Passes[q], m) = "quiet" => ~ContainsOnlyWarnings(reporter.list)
    <3>1. CASE Done(q, m)
      BY <2>1, <2>4, <3>1 DEF PassFindings
    <3>2. CASE q = k /\ ~runs
      <4>1. p \in {"secbit", "smt"} /\ Passes[q] = p /\ Ast(m) \in Texts
        BY <1>3, <1>5, <1>10, <3>2, AnalysedFacts
      <4>2. Finding(p, m) \notin ErrorSeverities
        BY <1>3, <4>1, FindingFacts
      <4> QED
        BY <4>1, <4>2 DEF ErrorSeverities
    <3> QED
      BY <1>8, <2>4, <3>1, <3>2, PassFacts
  <2>5. PassFindings'
    BY <1>1, <1>7, <2>4 DEF PassFindings
  <2> QED
    BY <2>3, <2>5
<1>11. PassInv'
  BY <1>1, <1>4, <1>6, <1>7, <1>9, <1>10 DEF PassInv, LimitUsedUp
<1>12. TypeInv' /\ PhaseInv'
  BY <1>1, <1>6 DEF TypeInv, CallType, PhaseInv
<1>13. ReportInv' /\ NothingDangles' /\ CompleteInv' /\ AnalysedInv' /\ AcceptedInv'
  BY <1>1, ProgramKept
<1>14. OrderInv' /\ ParseInv' /\ CodegenInv'
  BY <1>6 DEF OrderInv, ParseInv, CodegenInv
<1> QED
  BY <1>1, <1>2, <1>11, <1>12, <1>13, <1>14, NoFailure


\* A program whose passes are all done without a failure has nothing against it.
LEMMA NothingFound ==
  ASSUME IInv, call.phase = "pass", call.work = <<>>, call.pass = 13, call.noErrors
  PROVE  /\ ContainsOnlyWarnings(reporter.list)
         /\ \A n \in Analysed, p \in PassNames :
              ~Skipped(p, n) => Finding(p, n) \notin ErrorSeverities
         /\ \A n \in Analysed : Ast(n).contract # "none" =>
              contracts[n] # None /\ contracts[n].evmVersion = settings.evmVersion
<1> USE DEF IInv
<1>1. \A q \in 1 .. 13, n \in Analysed : Done(q, n)
  BY DEF Done, Elements
<1>2. PassContracts /\ PassFindings /\ PassClean
  BY DEF PassInv
<1>3. ContainsOnlyWarnings(reporter.list)
  <2>1. CASE Analysed # {}
    BY <1>1, <1>2, <2>1 DEF PassClean
  <2>2. CASE Analysed = {}
    <3>1. RootSet = {} /\ stackState = ParsingSuccessful
      BY <2>2, PassPhaseFacts DEF AnalysedInv
    <3> QED
      BY <3>1 DEF AnalysedInv
  <2> QED
    BY <2>1, <2>2
<1>4. ASSUME NEW n \in Analysed, NEW p \in PassNames, ~Skipped(p, n)
      PROVE  Finding(p, n) \notin ErrorSeverities
  <2>1. PICK q \in 1 .. 13 : p = Passes[q]
    BY PassFacts
  <2>2. /\ Finding(p, n) \notin {"error", "fatal"}
        /\ Finding(p, n) = "quiet" => ~ContainsOnlyWarnings(reporter.list)
    BY <1>1, <1>2, <1>4, <2>1, PassFacts DEF PassFindings
  <2> QED
    BY <1>3, <2>2 DEF ErrorSeverities
<1>5. \A n \in Analysed : Ast(n).contract # "none" =>
        contracts[n] # None /\ contracts[n].evmVersion = settings.evmVersion
  BY <1>1, <1>2 DEF PassContracts
<1> QED
  BY <1>3, <1>4, <1>5

\* analyze() accepts the program, and compile() goes on to the backend.
LEMMA AcceptIInv ==
  ASSUME IInv, call.phase = "pass", call.work = <<>>, call.pass = 13, call.noErrors,
         stackState' \in {AnalysisSuccessful, CompilationSuccessful},
         UNCHANGED <<session, reporter, sources, settings, sourceOrder, scopes, contracts,
                     search, calls>>,
         \/ call' = Idle /\ result' = "true"
         \/ /\ call' = [phase |-> "codegen", work |-> sourceOrder, compiled |-> {},
                        stack |-> <<>>]
            /\ result' = "running"
  PROVE  IInv'
<1> USE DEF IInv
<1>1. /\ stackState' \in Empty .. CompilationSuccessful /\ stackState' >= AnalysisSuccessful
      /\ ~(stackState' <= SourcesSet) /\ stackState' # ParsingSuccessful
      /\ stackState >= ParsingSuccessful
  BY PassPhaseFacts DEF Empty, SourcesSet, ParsingSuccessful, AnalysisSuccessful,
                        CompilationSuccessful
<1>2. search = Order!StartSearch(<<>>)
  BY PassPhaseFacts
<1>3. \/ call' = Idle /\ call'.phase = "idle" /\ CodegenInv'
      \/ call' \in CodegenCall /\ call'.phase = "codegen" /\ CodegenInv'
  BY BackendStarts, CallFacts, NoCall
<1>4. TypeInv'
  BY <1>1, <1>3 DEF TypeInv, CallType, Results
<1>5. PhaseInv'
  BY <1>1, <1>2, <1>3, CallFacts DEF PhaseInv, Idle
<1>6. ReportInv' /\ CompleteInv'
  BY <1>1, SameSources DEF ReportInv, CompleteInv
<1>7. NothingDangles'
  BY <1>1, SameSources, SameFindings DEF NothingDangles
<1>8. AnalysedInv'
  BY <1>1, <1>3, SameSources, SameFindings DEF AnalysedInv
<1>9. AcceptedInv'
  BY NothingFound, SameSources, SameFindings DEF AcceptedInv
<1>10. ParseInv' /\ OrderInv' /\ PassInv'
  BY <1>3 DEF ParseInv, OrderInv, PassInv
<1> QED
  BY <1>3, <1>4, <1>5, <1>6, <1>7, <1>8, <1>9, <1>10, NoFailure

LEMMA EndAnalyzeIInv ==
  ASSUME IInv, EndAnalyze
  PROVE  IInv'
<1> USE DEF IInv
<1>1. /\ call.phase = "pass" /\ call.work = <<>> /\ call.pass = 13
      /\ UNCHANGED <<session, reporter, sources, settings, sourceOrder, scopes, contracts,
                     search, calls>>
  BY PassFacts DEF EndAnalyze
<1>2. CASE ~call.noErrors
  <2>1. UNCHANGED stackState /\ call' = Idle /\ result' = "false" /\ call'.phase = "idle"
    BY <1>2, CallFacts DEF EndAnalyze, Return
  <2>2. TypeInv'
    BY <1>1, <2>1, CallFacts DEF TypeInv, Results
  <2>3. PhaseInv'
    BY <1>1, <2>1 DEF PhaseInv
  <2>4. ReportInv' /\ NothingDangles' /\ CompleteInv' /\ AnalysedInv' /\ AcceptedInv'
    BY <1>1, <2>1, ProgramKept
  <2>5. FailuresAreExplained'
    BY <1>1, <1>2, <2>1 DEF PassInv, FailuresAreExplained, LimitUsedUp
  <2> QED
    BY <2>1, <2>2, <2>3, <2>4, <2>5, NoCall
<1>3. CASE call.noErrors
  BY <1>1, <1>3, AcceptIInv DEF EndAnalyze, StartBackend, Return
<1> QED
  BY <1>2, <1>3

-----------------------------------------------------------------------------
(***************************************************************************)
(* The backend.                                                            *)
(***************************************************************************)
\* While the backend runs, on an accepted program.
LEMMA CodegenFacts ==
  ASSUME IInv, call.phase = "codegen"
  PROVE  /\ call \in CodegenCall /\ result = "running" /\ search = Order!StartSearch(<<>>)
         /\ call.work \in Seq(Names) /\ call.compiled \in SUBSET Names
         /\ call.stack \in Seq(FrameType)
         /\ stackState \in {AnalysisSuccessful, CompilationSuccessful}
         /\ \A n \in Analysed :
              /\ n \in Names /\ HasAst(n) /\ Ast(n) \in Texts
              /\ Ast(n).creates \subseteq Analysed
         /\ \A n \in Analysed : Ast(n).contract # "none" =>
              /\ contracts[n] # None /\ contracts[n] \in ContractType
              /\ contracts[n].evmVersion = settings.evmVersion
<1> USE DEF IInv
<1>1. call \in CodegenCall
  BY CallFacts
<1>2. /\ call.work \in Seq(Names) /\ call.compiled \in SUBSET Names
      /\ call.stack \in Seq(FrameType)
  BY <1>1 DEF CodegenCall
<1>3. /\ stackState >= AnalysisSuccessful /\ result = "running"
      /\ search = Order!StartSearch(<<>>)
  BY DEF PhaseInv
<1>4. stackState \in {AnalysisSuccessful, CompilationSuccessful}
  BY <1>3 DEF TypeInv, AnalysisSuccessful, CompilationSuccessful, Empty
<1>5. \A n \in Analysed : n \in Names /\ HasAst(n) /\ Ast(n) \in Texts
  BY AnalysedFacts
<1>6. \A n \in Analysed : Ast(n).creates \subseteq Analysed
  BY <1>5, TextFacts DEF AnalysedInv
<1>7. \A n \in Analysed : Ast(n).contract # "none" =>
        contracts[n] # None /\ contracts[n].evmVersion = settings.evmVersion
  BY <1>3 DEF AcceptedInv
<1>8. \A n \in Names : contracts[n] # None => contracts[n] \in ContractType
  BY DEF TypeInv
<1> QED
  BY <1>1, <1>2, <1>3, <1>4, <1>5, <1>6, <1>7, <1>8

\* A step of the backend changes the code of contracts and nothing else of the program.
LEMMA CodegenStepIInv ==
  ASSUME IInv, call.phase = "codegen",
         UNCHANGED <<session, reporter, sources, settings, sourceOrder, scopes, search, calls>>,
         stackState' \in {stackState, CompilationSuccessful},
         contracts' \in [Names -> ContractType \cup {None}],
         \A n \in Names : contracts'[n] = None <=> contracts[n] = None,
         \A n \in Names : contracts[n] # None =>
           /\ contracts'[n].ast = contracts[n].ast
           /\ contracts'[n].evmVersion = contracts[n].evmVersion,
         \/ call' \in CodegenCall /\ CodegenInv' /\ UNCHANGED result
         \/ call' = Idle /\ result' \in {"true", "assertCompiledContract"}
                        /\ FailuresAreExplained'
  PROVE  IInv'
<1> USE DEF IInv
<1>1. /\ stackState' \in Empty .. CompilationSuccessful /\ stackState' >= AnalysisSuccessful
      /\ ~(stackState' <= SourcesSet) /\ stackState' # ParsingSuccessful
      /\ stackState >= ParsingSuccessful /\ stackState >= AnalysisSuccessful
  BY CodegenFacts DEF Empty, SourcesSet, ParsingSuccessful, AnalysisSuccessful,
                      CompilationSuccessful
<1>2. search = Order!StartSearch(<<>>) /\ result = "running"
  BY CodegenFacts
<1>3. /\ call' \in {Idle} \cup CodegenCall
      /\ call' = Idle => call'.phase = "idle"
      /\ call' \in CodegenCall => call'.phase = "codegen"
  BY DEF Idle, CodegenCall
<1>4. TypeInv'
  BY <1>1, <1>3 DEF TypeInv, CallType, Results
<1>5. PhaseInv'
  BY <1>1, <1>2, <1>3 DEF PhaseInv
<1>6. ReportInv' /\ CompleteInv'
  BY <1>1, SameSources DEF ReportInv, CompleteInv
<1>7. NothingDangles'
  BY <1>1, SameSources, SameFindings DEF NothingDangles
<1>8. AnalysedInv'
  BY <1>1, <1>3, SameSources, SameFindings DEF AnalysedInv
<1>9. AcceptedInv'
  BY <1>1, AnalysedFacts, SameSources, SameFindings DEF AcceptedInv
<1>10. ParseInv' /\ OrderInv' /\ PassInv'
  BY <1>3 DEF ParseInv, OrderInv, PassInv
<1>11. CodegenInv' /\ FailuresAreExplained'
  BY <1>2, <1>3, NoCall, NoFailure
<1> QED
  BY <1>4, <1>5, <1>6, <1>7, <1>8, <1>9, <1>10, <1>11

LEMMA TakeContractIInv ==
  ASSUME IInv, TakeContract
  PROVE  IInv'
<1> USE DEF IInv
<1> DEFINE n == Head(call.work)
           new == [name |-> n, left |-> Ast(n).creates]
           takes == Ast(n).contract = "concrete" /\ IsRequested(n) /\ n \notin call.compiled
<1>1. /\ call.phase = "codegen" /\ call.stack = <<>> /\ call.work # <<>>
      /\ UNCHANGED <<session, reporter, stackState, sources, settings, sourceOrder, scopes,
                     contracts, search, result, calls>>
  BY DEF TakeContract
<1>2. /\ n \in Elements(call.work) /\ Tail(call.work) \in Seq(Names)
      /\ Elements(call.work) = {n} \cup Elements(Tail(call.work))
  BY <1>1, CodegenFacts, ElementsFacts
<1>3. Elements(call.work) \subseteq Analysed /\ CompiledInv /\ TakenInv
  BY <1>1 DEF CodegenInv
<1>4. n \in Analysed /\ n \in Names /\ Ast(n) \in Texts /\ Ast(n).creates \subseteq Names
  BY <1>1, <1>2, <1>3, CodegenFacts, TextFacts
<1>5. call' = [call EXCEPT !.work = Tail(@), !.stack = IF takes THEN <<new>> ELSE <<>>]
  <2>1. Append(<<>>, new) = <<new>>
    OBVIOUS
  <2> QED
    BY <1>1, <2>1 DEF TakeContract, CallCompileContract, NeedsCode
<1>6. new \in FrameType /\ new.name = n /\ new.left = Ast(n).creates
  BY <1>4 DEF FrameType
<1>t. takes => Ast(n).contract = "concrete" /\ n \notin call.compiled
  OBVIOUS
<1>u. ~takes /\ Ast(n).contract = "concrete" /\ IsRequested(n) => n \in call.compiled
  OBVIOUS
<1> HIDE DEF n, new, takes
<1>7. /\ call' \in CodegenCall /\ call'.work = Tail(call.work)
      /\ call'.compiled = call.compiled
      /\ call'.stack = IF takes THEN <<new>> ELSE <<>>
      /\ call'.phase = "codegen"
  <2>1. <<>> \in Seq(FrameType) /\ <<new>> \in Seq(FrameType)
    BY <1>6
  <2> QED
    BY <1>1, <1>2, <1>5, <2>1, CodegenFacts DEF CodegenCall
<1>8. Analysed' = Analysed /\ \A m : Ast(m)' = Ast(m) /\ (IsRequested(m)' <=> IsRequested(m))
  BY <1>1, SameSources, SameFindings DEF IsRequested
<1>9. CompiledInv'
  BY <1>1, <1>3, <1>7, <1>8 DEF CompiledInv, CurrentCode
<1>10. \A i \in DOMAIN call'.stack : i = 1 /\ takes /\ call'.stack[i] = new
  BY <1>7
<1>11. ASSUME NEW i \in DOMAIN call'.stack PROVE FrameInv(i)'
  <2>1. i = 1 /\ takes /\ call'.stack[i] = new /\ i + 1 \notin DOMAIN call'.stack
    BY <1>10
  <2> QED
    BY <1>4, <1>6, <1>8, <1>t, <2>1 DEF FrameInv
<1>12. RecursionEnds'
  BY <1>10 DEF RecursionEnds
<1>13. TakenInv'
  <2> SUFFICES ASSUME NEW m \in Analysed, m \notin Elements(Tail(call.work)),
                      Ast(m).contract = "concrete", IsRequested(m)
               PROVE  \/ m \in call.compiled
                      \/ call'.stack # <<>> /\ call'.stack[1].name = m
    BY <1>7, <1>8 DEF TakenInv
  <2>1. CASE m = n
    BY <1>6, <1>7, <1>u, <2>1
  <2>2. CASE m # n
    BY <1>1, <1>2, <1>3, <2>2 DEF TakenInv
  <2> QED
    BY <2>1, <2>2
<1>14. CodegenInv'
  BY <1>2, <1>3, <1>7, <1>8, <1>9, <1>11, <1>12, <1>13 DEF CodegenInv
<1> QED
  BY <1>1, <1>7, <1>14, CodegenStepIInv DEF TypeInv

\* Among sources that have been ordered, one is type-checked last.
LEMMA LastChecked ==
  ASSUME TypeInv, NEW C, C \subseteq Analysed, C # {}
  PROVE  \E n \in C : C \subseteq CheckedUpTo(n)
<1> DEFINE T == {i \in DOMAIN sourceOrder : sourceOrder[i] \in C}
           D == {Len(sourceOrder) - i : i \in T}
<1>1. sourceOrder \in Seq(Names) /\ Len(sourceOrder) \in Nat
      /\ DOMAIN sourceOrder = 1 .. Len(sourceOrder)
  BY DEF TypeInv
<1>2. \A c \in C : \E i \in T : sourceOrder[i] = c
  BY DEF Analysed
<1>3. D \in SUBSET Nat /\ D # {}
  BY <1>1, <1>2
<1>4. PICK d \in D : \A e \in D : d <= e
  BY <1>3, NatMin
<1>5. PICK m \in T : d = Len(sourceOrder) - m
  BY <1>4
<1>6. \A i \in T : i <= m
  <2> SUFFICES ASSUME NEW i \in T PROVE i <= m
    OBVIOUS
  <2>1. Len(sourceOrder) - i \in D
    OBVIOUS
  <2>2. Len(sourceOrder) - m <= Len(sourceOrder) - i
    BY <1>4, <1>5, <2>1
  <2>3. i \in 1 .. Len(sourceOrder) /\ m \in 1 .. Len(sourceOrder)
    BY <1>1
  <2> QED
    BY <1>1, <2>2, <2>3
<1>7. sourceOrder[m] \in C /\ m \in 1 .. Len(sourceOrder)
  BY <1>1
<1>8. ASSUME NEW c \in C PROVE c \in CheckedUpTo(sourceOrder[m])
  <2>1. PICK i \in T : sourceOrder[i] = c
    BY <1>2
  <2>2. m \in i .. Len(sourceOrder) /\ i \in DOMAIN sourceOrder
    BY <1>1, <1>6, <1>7
  <2> QED
    BY <2>1, <2>2 DEF CheckedUpTo
<1> QED
  BY <1>7, <1>8

\* In an accepted program nothing is created that the type checker objects to.
LEMMA AcceptedCreations ==
  ASSUME IInv, call.phase = "codegen", NEW n \in Analysed, Ast(n).contract # "none"
  PROVE  /\ ~CreationIsCyclic(n) /\ ~CreatesNoContract(n)
         /\ \A c \in Ast(n).creates : Ast(c).contract = "abstract" => c \notin CheckedUpTo(n)
<1> USE DEF IInv
<1>1. stackState >= AnalysisSuccessful
  BY DEF PhaseInv
<1>2. "resolve" \in PassNames /\ "typeCheck" \in PassNames
  BY PassFacts
<1>3. ~Skipped("resolve", n) /\ ~Skipped("typeCheck", n)
  BY DEF Skipped
<1>4. Finding("resolve", n) \notin ErrorSeverities /\ Finding("typeCheck", n) \notin ErrorSeverities
  BY <1>1, <1>2, <1>3 DEF AcceptedInv
<1>5. CreatesNoContract(n) => Finding("resolve", n) \in ErrorSeverities
  BY DEF Finding, ErrorSeverities
<1>6. CreationIsWrong(n) => Finding("typeCheck", n) \in ErrorSeverities
  BY DEF Finding, ErrorSeverities
<1> QED
  BY <1>4, <1>5, <1>6 DEF CreationIsWrong

\* compileContract never comes back to a contract it is in the middle of.
LEMMA NoRecursion ==
  ASSUME IInv, call.phase = "codegen", call.stack # <<>>, NEW d \in Innermost.left,
         NEW j \in DOMAIN call.stack
  PROVE  call.stack[j].name # d
<1> USE DEF IInv
<1> SUFFICES ASSUME call.stack[j].name = d PROVE FALSE
  OBVIOUS
<1> DEFINE k == Len(call.stack)
           C == {call.stack[i].name : i \in j .. k}
<1>1. call.stack \in Seq(FrameType) /\ k \in Nat /\ DOMAIN call.stack = 1 .. k
      /\ k \in DOMAIN call.stack /\ j \in j .. k
  BY CodegenFacts
<1>2. \A i \in DOMAIN call.stack :
        /\ call.stack[i].name \in Analysed /\ Ast(call.stack[i].name).contract = "concrete"
        /\ call.stack[i].left \subseteq Ast(call.stack[i].name).creates
        /\ i + 1 \in DOMAIN call.stack =>
             call.stack[i + 1].name \in Ast(call.stack[i].name).creates
  BY DEF CodegenInv, FrameInv
<1>3. d \in Ast(call.stack[k].name).creates /\ d \in C
  BY <1>1, <1>2 DEF Innermost
<1>4. ASSUME NEW i \in j .. k PROVE Ast(call.stack[i].name).creates \cap C # {}
  <2>1. CASE i = k
    BY <1>3, <2>1
  <2>2. CASE i # k
    <3>1. i + 1 \in j .. k /\ i \in DOMAIN call.stack /\ i + 1 \in DOMAIN call.stack
      BY <1>1, <2>2
    <3> QED
      BY <1>2, <3>1
  <2> QED
    BY <2>1, <2>2
<1>5. C \subseteq Analysed /\ C # {} /\ \A c \in C : Ast(c).contract = "concrete"
  <2>1. \A i \in j .. k : i \in DOMAIN call.stack
    BY <1>1
  <2> QED
    BY <1>1, <1>2, <2>1
<1>6. \A c \in C : Ast(c).creates \cap C # {}
  BY <1>4
<1> HIDE DEF C
<1>7. PICK n \in C : C \subseteq CheckedUpTo(n)
  BY <1>5, LastChecked
<1>8. CreationIsCyclic(n)
  BY <1>6, <1>7 DEF CreationIsCyclic
<1>9. n \in Analysed /\ Ast(n).contract # "none"
  BY <1>5, <1>7
<1> QED
  BY <1>8, <1>9, AcceptedCreations

\* The frames below the innermost one are unchanged, which goes on to d.
LEMMA CompileDependencyIInv ==
  ASSUME IInv, NEW d \in Names, CompileDependency(d)
  PROVE  IInv'
<1> USE DEF IInv
<1> DEFINE k == Len(call.stack)
           top == call.stack[k]
           cut == [call.stack EXCEPT ![k].left = @ \ {d}]
           new == [name |-> d, left |-> Ast(d).creates]
           needs == Ast(d).contract = "concrete" /\ d \notin call.compiled
           st == IF needs THEN Append(cut, new) ELSE cut
<1>1. /\ call.phase = "codegen" /\ call.stack # <<>> /\ d \in Innermost.left
      /\ call' = [call EXCEPT !.stack = st]
      /\ UNCHANGED <<session, reporter, stackState, sources, settings, sourceOrder, scopes,
                     contracts, search, result, calls>>
  BY DEF CompileDependency, CallCompileContract, NeedsCode, GoOnTo
<1>2. call.stack \in Seq(FrameType) /\ k \in Nat /\ DOMAIN call.stack = 1 .. k
      /\ k \in DOMAIN call.stack /\ k + 1 \notin DOMAIN call.stack
  BY <1>1, CodegenFacts
<1>3. top \in FrameType /\ top.name \in Names /\ top.left \in SUBSET Names /\ d \in top.left
  <2>1. top \in FrameType /\ d \in top.left
    BY <1>1, <1>2 DEF Innermost
  <2> HIDE DEF top
  <2> QED
    BY <2>1 DEF FrameType
<1>4. /\ Elements(call.work) \subseteq Analysed /\ RecursionEnds /\ CompiledInv /\ TakenInv
      /\ \A i \in DOMAIN call.stack : FrameInv(i)
  BY <1>1 DEF CodegenInv
<1>5. /\ top.name \in Analysed /\ Ast(top.name).contract = "concrete"
      /\ top.left \subseteq Ast(top.name).creates
      /\ \A c \in Ast(top.name).creates \ top.left :
           c \in call.compiled \/ Ast(c).contract # "concrete"
  BY <1>2, <1>4 DEF FrameInv
<1>6. d \in Ast(top.name).creates /\ d \in Analysed /\ Ast(d).creates \subseteq Names
  <2>1. d \in Ast(top.name).creates /\ d \in Analysed
    BY <1>1, <1>3, <1>5, CodegenFacts
  <2> QED
    BY <1>1, <2>1, CodegenFacts, TextFacts
<1>7. new \in FrameType /\ new.name = d /\ new.left = Ast(d).creates
  BY <1>6 DEF FrameType
<1>8. /\ cut \in Seq(FrameType) /\ Len(cut) = k
      /\ cut[k].name = top.name /\ cut[k].left = top.left \ {d}
      /\ \A i \in 1 .. k : cut[i].name = call.stack[i].name
      /\ \A i \in 1 .. k : i # k => cut[i] = call.stack[i]
  <2> DEFINE f == [top EXCEPT !.left = @ \ {d}]
  <2>1. f \in FrameType /\ f.name = top.name /\ f.left = top.left \ {d}
    BY <1>3 DEF FrameType
  <2>2. cut = [call.stack EXCEPT ![k] = f]
    OBVIOUS
  <2> HIDE DEF f, cut
  <2>3. cut \in Seq(FrameType) /\ Len(cut) = k /\ cut[k] = f
        /\ \A i \in 1 .. k : i # k => cut[i] = call.stack[i]
    BY <1>2, <2>1, <2>2
  <2> QED
    BY <2>1, <2>3
<1>9. st = IF needs THEN Append(cut, new) ELSE cut
  OBVIOUS
<1>10. /\ needs => Ast(d).contract = "concrete"
       /\ ~needs => d \in call.compiled \/ Ast(d).contract # "concrete"
  OBVIOUS
<1> HIDE DEF cut, new, needs, st
<1>11. /\ st \in Seq(FrameType) /\ Len(st) = (IF needs THEN k + 1 ELSE k)
       /\ \A i \in 1 .. k : st[i] = cut[i]
       /\ needs => st[k + 1] = new
  BY <1>2, <1>7, <1>8, <1>9
<1>12. /\ call' \in CodegenCall /\ call'.work = call.work /\ call'.phase = "codegen"
       /\ call'.compiled = call.compiled /\ call'.stack = st
  BY <1>1, <1>11, CodegenFacts DEF CodegenCall
<1>13. Analysed' = Analysed /\ \A m : Ast(m)' = Ast(m) /\ (IsRequested(m)' <=> IsRequested(m))
  BY <1>1, SameSources, SameFindings DEF IsRequested
<1>14. CompiledInv'
  BY <1>1, <1>4, <1>12, <1>13 DEF CompiledInv, CurrentCode
<1>15. ASSUME NEW i \in DOMAIN st PROVE FrameInv(i)'
  <2> SUFFICES /\ st[i].name \in Analysed /\ Ast(st[i].name).contract = "concrete"
               /\ st[i].left \subseteq Ast(st[i].name).creates
               /\ i + 1 \in DOMAIN st => st[i + 1].name \in Ast(st[i].name).creates
               /\ \A c \in Ast(st[i].name).creates \ st[i].left :
                    \/ c \in call.compiled
                    \/ Ast(c).contract # "concrete"
                    \/ i + 1 \in DOMAIN st /\ st[i + 1].name = c
    BY <1>12, <1>13 DEF FrameInv
  <2>1. CASE i \in 1 .. k /\ i # k
    <3>1. /\ i \in DOMAIN call.stack /\ i + 1 \in DOMAIN call.stack /\ i + 1 \in DOMAIN st
          /\ st[i] = call.stack[i] /\ st[i + 1].name = call.stack[i + 1].name
      BY <1>2, <1>8, <1>11, <2>1
    <3>2. FrameInv(i)
      BY <1>4, <3>1
    <3> QED
      BY <3>1, <3>2 DEF FrameInv
  <2>2. CASE i = k
    <3>1. /\ st[i].name = top.name /\ st[i].left = top.left \ {d}
          /\ i + 1 \in DOMAIN st <=> needs
          /\ needs => st[i + 1].name = d
      BY <1>2, <1>7, <1>8, <1>11, <2>2
    <3> QED
      BY <1>5, <1>6, <1>10, <3>1
  <2>3. CASE i = k + 1
    <3>1. needs /\ st[i] = new /\ i + 1 \notin DOMAIN st
      BY <1>2, <1>11, <2>3
    <3> QED
      BY <1>6, <1>7, <1>10, <3>1
  <2>4. i \in 1 .. k \/ i = k + 1
    BY <1>2, <1>11
  <2> QED
    BY <2>1, <2>2, <2>3, <2>4
<1>16. RecursionEnds'
  <2> SUFFICES ASSUME NEW i \in DOMAIN st, NEW j \in DOMAIN st, st[i].name = st[j].name
               PROVE  i = j
    BY <1>12 DEF RecursionEnds
  <2>1. \A h \in 1 .. k : st[h].name = call.stack[h].name
    BY <1>8, <1>11
  <2>2. \A h \in DOMAIN st : h \in 1 .. k \/ (h = k + 1 /\ st[h].name = d)
    BY <1>2, <1>7, <1>11
  <2>3. \A h \in 1 .. k : call.stack[h].name # d
    BY <1>1, <1>2, NoRecursion
  <2>4. CASE i \in 1 .. k /\ j \in 1 .. k
    BY <1>1, <1>2, <1>4, <2>1, <2>4 DEF RecursionEnds
  <2> QED
    BY <2>1, <2>2, <2>3, <2>4
<1>17. TakenInv'
  <2>1. st # <<>> /\ st[1].name = call.stack[1].name
    BY <1>2, <1>8, <1>11
  <2> QED
    BY <1>1, <1>4, <1>12, <1>13, <2>1 DEF TakenInv
<1>18. CodegenInv'
  BY <1>4, <1>12, <1>13, <1>14, <1>15, <1>16, <1>17 DEF CodegenInv
<1> QED
  BY <1>1, <1>12, <1>18, CodegenStepIInv DEF TypeInv

\* A created contract lacks its code only if the type checker could not know better.
LEMMA MissingCodeExplained ==
  ASSUME IInv, call.phase = "codegen", call.stack # <<>>, Innermost.left = {},
         ~(Ast(Innermost.name).creates \subseteq call.compiled)
  PROVE  \E n \in Analysed : \E c \in Ast(n).creates :
           Ast(c).contract = "abstract" /\ c \notin CheckedUpTo(n)
<1> USE DEF IInv
<1> DEFINE k == Len(call.stack)
           n == call.stack[k].name
<1>1. k \in DOMAIN call.stack /\ k + 1 \notin DOMAIN call.stack
  BY CodegenFacts
<1>2. PICK c \in Ast(n).creates : c \notin call.compiled
  BY DEF Innermost
<1>3. FrameInv(k) /\ call.stack[k].left = {}
  BY <1>1 DEF CodegenInv, Innermost
<1>4. n \in Analysed /\ Ast(n).contract = "concrete" /\ Ast(c).contract # "concrete"
  BY <1>1, <1>2, <1>3 DEF FrameInv
<1>5. c \in Analysed /\ Ast(c) \in Texts
  BY <1>2, <1>4, CodegenFacts
<1> HIDE DEF n
<1>6. ~CreatesNoContract(n) /\ (Ast(c).contract = "abstract" => c \notin CheckedUpTo(n))
  BY <1>2, <1>4, AcceptedCreations
<1>7. Ast(c).contract # "none"
  BY <1>2, <1>6 DEF CreatesNoContract
<1>8. Ast(c).contract = "abstract"
  BY <1>4, <1>5, <1>7, TextFacts
<1> QED
  BY <1>2, <1>4, <1>6, <1>8

LEMMA GenerateCodeIInv ==
  ASSUME IInv, GenerateCode
  PROVE  IInv'
<1> USE DEF IInv
<1> DEFINE k == Len(call.stack)
           n == call.stack[k].name
<1>1. /\ call.phase = "codegen" /\ call.stack # <<>> /\ Innermost.left = {}
      /\ Innermost.name = n
      /\ UNCHANGED <<session, reporter, stackState, sources, settings, sourceOrder, scopes,
                     search, calls>>
  BY DEF GenerateCode, Innermost
<1>2. call.stack \in Seq(FrameType) /\ k \in Nat /\ DOMAIN call.stack = 1 .. k
      /\ k \in DOMAIN call.stack /\ k >= 1
  BY <1>1, CodegenFacts
<1>3. /\ Elements(call.work) \subseteq Analysed /\ RecursionEnds /\ CompiledInv /\ TakenInv
      /\ \A i \in DOMAIN call.stack : FrameInv(i)
  BY <1>1 DEF CodegenInv
<1>4. n \in Analysed /\ Ast(n).contract = "concrete"
  BY <1>2, <1>3 DEF FrameInv
<1>5. n \in Names /\ contracts[n] # None /\ contracts[n] \in ContractType
  BY <1>1, <1>4, CodegenFacts
<1>6. CASE ~(Ast(n).creates \subseteq call.compiled)
  <2>1. call' = Idle /\ result' = "assertCompiledContract" /\ UNCHANGED contracts
    BY <1>1, <1>6 DEF GenerateCode, Return
  <2>2. \E m \in Analysed : \E c \in Ast(m).creates :
          Ast(c).contract = "abstract" /\ c \notin CheckedUpTo(m)
    BY <1>1, <1>6, MissingCodeExplained
  <2>3. FailuresAreExplained'
    BY <1>1, <2>1, <2>2, SameSources, SameFindings DEF FailuresAreExplained
  <2> QED
    BY <1>1, <2>1, <2>3, CodegenStepIInv DEF TypeInv
<1>7. CASE Ast(n).creates \subseteq call.compiled
  <2> DEFINE st == SubSeq(call.stack, 1, k - 1)
             new == [contracts[n] EXCEPT !.code = CurrentCode, !.linked = FALSE]
  <2>1. /\ contracts' = [contracts EXCEPT ![n].code = CurrentCode, ![n].linked = FALSE]
        /\ call' = [call EXCEPT !.compiled = @ \cup {n}, !.stack = st]
        /\ UNCHANGED result
    BY <1>1, <1>7 DEF GenerateCode, CurrentCode
  <2>2. contracts' = [contracts EXCEPT ![n] = new]
    BY <1>5, <2>1 DEF TypeInv
  <2>3. CurrentCode \in CodeType
    BY DEF CurrentCode, CodeType, TypeInv
  <2>4. /\ new \in ContractType /\ new.ast = contracts[n].ast /\ new.code = CurrentCode
        /\ new.evmVersion = contracts[n].evmVersion /\ ~new.linked /\ new # None
    <3>1. /\ new \in ContractType /\ new.ast = contracts[n].ast /\ new.code = CurrentCode
          /\ new.evmVersion = contracts[n].evmVersion /\ ~new.linked
      <4> HIDE DEF n
      <4> QED
        BY <1>5, <2>3 DEF ContractType
    <3> HIDE DEF new
    <3> QED
      BY <3>1, StackAssumption
  <2>5. /\ st \in Seq(FrameType) /\ Len(st) = k - 1 /\ DOMAIN st = 1 .. (k - 1)
        /\ \A i \in 1 .. (k - 1) : st[i] = call.stack[i]
    BY <1>2
  <2>n. n = call.stack[k].name
    OBVIOUS
  <2> HIDE DEF n, st, new
  <2>6. /\ contracts' \in [Names -> ContractType \cup {None}] /\ contracts'[n] = new
        /\ \A m \in Names : m # n => contracts'[m] = contracts[m]
    BY <1>5, <2>2, <2>4 DEF TypeInv
  <2>7. /\ call' \in CodegenCall /\ call'.work = call.work /\ call'.phase = "codegen"
        /\ call'.compiled = call.compiled \cup {n} /\ call'.stack = st
    BY <1>1, <1>5, <2>1, <2>5, CodegenFacts DEF CodegenCall
  <2>8. Analysed' = Analysed /\ \A m : Ast(m)' = Ast(m) /\ (IsRequested(m)' <=> IsRequested(m))
    BY <1>1, SameSources, SameFindings DEF IsRequested
  <2>9. CompiledInv'
    <3> SUFFICES ASSUME NEW m \in call.compiled \cup {n}
                 PROVE  /\ m \in Analysed /\ Ast(m).contract = "concrete"
                        /\ Ast(m).creates \subseteq call.compiled \cup {n}
                        /\ contracts'[m].code = CurrentCode
                        /\ ~contracts'[m].linked
      BY <1>1, <2>7, <2>8 DEF CompiledInv, CurrentCode
    <3>1. CASE m = n
      BY <1>4, <1>7, <2>4, <2>6, <3>1
    <3>2. CASE m # n
      <4>1. m \in call.compiled /\ m \in Names
        BY <1>1, <3>2, CodegenFacts
      <4> QED
        BY <1>3, <2>6, <3>2, <4>1 DEF CompiledInv
    <3> QED
      BY <3>1, <3>2
  <2>10. ASSUME NEW i \in DOMAIN st PROVE FrameInv(i)'
    <3> SUFFICES /\ st[i].name \in Analysed /\ Ast(st[i].name).contract = "concrete"
                 /\ st[i].left \subseteq Ast(st[i].name).creates
                 /\ i + 1 \in DOMAIN st => st[i + 1].name \in Ast(st[i].name).creates
                 /\ \A c \in Ast(st[i].name).creates \ st[i].left :
                      \/ c \in call.compiled \cup {n}
                      \/ Ast(c).contract # "concrete"
                      \/ i + 1 \in DOMAIN st /\ st[i + 1].name = c
      BY <2>7, <2>8 DEF FrameInv
    <3>1. /\ i \in DOMAIN call.stack /\ i + 1 \in DOMAIN call.stack
          /\ st[i] = call.stack[i]
          /\ i + 1 \in DOMAIN st => st[i + 1] = call.stack[i + 1]
          /\ i + 1 \notin DOMAIN st => call.stack[i + 1].name = n
      BY <1>2, <2>5, <2>n
    <3>2. FrameInv(i)
      BY <1>3, <3>1
    <3> QED
      BY <3>1, <3>2 DEF FrameInv
  <2>11. RecursionEnds'
    <3>1. \A i \in DOMAIN st : i \in DOMAIN call.stack /\ st[i] = call.stack[i]
      BY <1>2, <2>5
    <3> QED
      BY <1>1, <1>3, <2>7, <3>1 DEF RecursionEnds
  <2>12. TakenInv'
    <3>1. \/ call.stack[1].name = n
          \/ st # <<>> /\ st[1].name = call.stack[1].name
      <4>1. CASE k = 1
        BY <2>n, <4>1
      <4>2. CASE k # 1
        <5>0. \A h \in Nat : h >= 1 /\ h # 1 => 1 \in 1 .. (h - 1)
          OBVIOUS
        <5>1. 1 \in 1 .. (k - 1)
          <6> HIDE DEF k
          <6> QED
            BY <1>2, <4>2, <5>0
        <5> QED
          BY <2>5, <5>1
      <4> QED
        BY <4>1, <4>2
    <3> QED
      BY <1>3, <2>7, <2>8, <3>1 DEF TakenInv
  <2>13. CodegenInv'
    BY <1>3, <2>7, <2>8, <2>9, <2>10, <2>11, <2>12 DEF CodegenInv
  <2>14. /\ \A m \in Names : contracts'[m] = None <=> contracts[m] = None
         /\ \A m \in Names : contracts[m] # None =>
              /\ contracts'[m].ast = contracts[m].ast
              /\ contracts'[m].evmVersion = contracts[m].evmVersion
    BY <1>5, <2>4, <2>6
  <2> QED
    BY <1>1, <2>1, <2>6, <2>7, <2>13, <2>14, CodegenStepIInv
<1> QED
  BY <1>6, <1>7

\* link() changes nothing but whether addresses are filled in.
LEMMA LinkFacts ==
  ASSUME TypeInv
  PROVE  /\ Link(contracts) \in [Names -> ContractType \cup {None}]
         /\ \A n \in Names : Link(contracts)[n] = None <=> contracts[n] = None
         /\ \A n \in Names : contracts[n] # None =>
              /\ Link(contracts)[n].ast = contracts[n].ast
              /\ Link(contracts)[n].evmVersion = contracts[n].evmVersion
              /\ Link(contracts)[n].code = contracts[n].code
              /\ Link(contracts)[n].sourceMapping = contracts[n].sourceMapping
              /\ contracts[n].code # None =>
                   Link(contracts)[n].linked = (contracts[n].linked \/ settings.libraries)
<1> DEFINE new(n) == [contracts[n] EXCEPT !.linked = @ \/ settings.libraries]
<1>1. settings.libraries \in BOOLEAN /\ contracts \in [Names -> ContractType \cup {None}]
  BY DEF TypeInv
<1>2. ASSUME NEW n \in Names, contracts[n] # None
      PROVE  /\ contracts[n] \in ContractType /\ new(n) \in ContractType /\ new(n) # None
             /\ new(n).ast = contracts[n].ast /\ new(n).code = contracts[n].code
             /\ new(n).evmVersion = contracts[n].evmVersion
             /\ new(n).sourceMapping = contracts[n].sourceMapping
             /\ new(n).linked = (contracts[n].linked \/ settings.libraries)
  <2>1. contracts[n] \in ContractType
    BY <1>1, <1>2
  <2>2. new(n) \in ContractType
    BY <1>1, <2>1 DEF ContractType
  <2> QED
    BY <2>1, <2>2, StackAssumption DEF ContractType
<1>3. Link(contracts) = [n \in Names |-> IF contracts[n] = None \/ contracts[n].code = None
                                         THEN contracts[n] ELSE new(n)]
  BY DEF Link
<1> HIDE DEF new
<1> QED
  BY <1>1, <1>2, <1>3

LEMMA EndCompileIInv ==
  ASSUME IInv, EndCompile
  PROVE  IInv'
<1>1. /\ call.phase = "codegen" /\ contracts' = Link(contracts)
      /\ stackState' = CompilationSuccessful /\ call' = Idle /\ result' = "true"
      /\ UNCHANGED <<session, reporter, sources, settings, sourceOrder, scopes, search, calls>>
  BY DEF EndCompile, Return
<1>2. FailuresAreExplained'
  BY <1>1, NoFailure
<1>3. TypeInv
  BY DEF IInv
<1> QED
  BY <1>1, <1>2, <1>3, LinkFacts, CodegenStepIInv

-----------------------------------------------------------------------------
(***************************************************************************)
(* All steps.                                                              *)
(***************************************************************************)
LEMMA InitInv ==
  ASSUME Init
  PROVE  IInv
<1>1. /\ session \in DOMAIN Sessions /\ ReporterInit /\ stackState = Empty
      /\ sources = [n \in Names |-> None] /\ settings = DefaultSettings
      /\ sourceOrder = <<>> /\ scopes = {} /\ contracts = NoContracts /\ call = Idle
      /\ search = Order!StartSearch(<<>>) /\ result = "none" /\ calls = 0
  BY DEF Init
<1>2. call.phase = "idle" /\ call \in CallType
  BY <1>1 DEF Idle, CallType
<1>3. Sessions[session].maxCalls \in Nat
  BY <1>1, StackAssumption DEF SessionType
<1>4. TypeInv
  <2>1. settings \in [evmVersion : EVMVersions, optimize : BOOLEAN, libraries : BOOLEAN,
                      requested : SUBSET RequestNames]
    BY <1>1, StackAssumption DEF DefaultSettings
  <2>2. stackState \in Empty .. CompilationSuccessful
    BY <1>1 DEF Empty, CompilationSuccessful
  <2> QED
    BY <1>1, <1>2, <1>3, <2>1, <2>2 DEF TypeInv, NoContracts, Results
<1>5. ReportInv
  <2>1. ReporterInv
    BY <1>1, ReporterInvInit
  <2> QED
    BY <1>1, <2>1 DEF ReporterInv, ReportInv, ReporterInit, EmptyReporter
<1>6. PhaseInv
  BY <1>1, <1>2 DEF PhaseInv
<1>7. Analysed = {} /\ ~(stackState >= ParsingSuccessful) /\ ~(stackState >= AnalysisSuccessful)
      /\ stackState # ParsingSuccessful
  BY <1>1 DEF Analysed, Empty, ParsingSuccessful, AnalysisSuccessful
<1>8. NothingDangles
  BY <1>1, <1>7 DEF NothingDangles, NoContracts
<1>9. CompleteInv /\ AcceptedInv
  BY <1>7 DEF CompleteInv, AcceptedInv
<1>10. AnalysedInv
  BY <1>2, <1>7 DEF AnalysedInv
<1>11. ParseInv /\ OrderInv /\ PassInv /\ CodegenInv
  BY <1>2 DEF ParseInv, OrderInv, PassInv, CodegenInv
<1>12. FailuresAreExplained
  BY <1>1 DEF FailuresAreExplained
<1> QED
  BY <1>4, <1>5, <1>6, <1>8, <1>9, <1>10, <1>11, <1>12 DEF IInv

LEMMA ClientCallIInv ==
  ASSUME IInv, ClientCall
  PROVE  IInv'
<1>1. /\ Sessions[session].names \subseteq Names /\ Sessions[session].texts \subseteq Texts
      /\ Sessions[session].versions \subseteq EVMVersions
  BY SessionFacts DEF IInv
<1>2. CASE \E v \in Sessions[session].versions : SetEVMVersion(v)
  BY <1>1, <1>2, SetEVMVersionIInv
<1>3. CASE \E o \in BOOLEAN : SetOptimiserSettings(o) \/ SetLibraries(o)
  BY <1>3, SetOptimiserSettingsIInv, SetLibrariesIInv
<1>4. CASE \E S \in SUBSET Sessions[session].names : SetRequestedContractNames(S)
  <2>1. PICK S \in SUBSET Sessions[session].names : SetRequestedContractNames(S)
    BY <1>4
  <2>2. S \in SUBSET RequestNames
    BY <1>1 DEF RequestNames
  <2> QED
    BY <2>1, <2>2, SetRequestedContractNamesIInv
<1>5. CASE \E keep \in BOOLEAN : Reset(keep)
  BY <1>5, ResetIInv
<1>6. CASE \E n \in Sessions[session].names, t \in Sessions[session].texts, lib \in BOOLEAN :
             AddSource(n, t, lib)
  BY <1>1, <1>6, AddSourceIInv
<1>7. CASE \E secbit \in BOOLEAN : Parse(secbit)
  BY <1>7, ParseCallsIInv
<1>8. CASE \E secbit, noSMT \in BOOLEAN :
             Analyze(secbit, noSMT) \/ ParseAndAnalyze(secbit, noSMT) \/ Compile(secbit, noSMT)
  BY <1>8, AnalyzeIInv, ParseCallsIInv, CompileIInv
<1>9. CASE \E n \in Sessions[session].names : SourceMapping(n)
  BY <1>1, <1>9, SourceMappingIInv
<1> QED
  BY <1>2, <1>3, <1>4, <1>5, <1>6, <1>7, <1>8, <1>9 DEF ClientCall

LEMMA WorkIInv ==
  ASSUME IInv, Work
  PROVE  IInv'
<1>1. Sessions[session].texts \subseteq Texts
  BY SessionFacts DEF IInv
<1>2. CASE ParseSource \/ SkipImport \/ MissImport \/ AddFetched \/ EndParse
  BY <1>2, ParseSourceIInv, SkipImportIInv, MissImportIInv, AddFetchedIInv, EndParseIInv
<1>3. CASE \E t \in Sessions[session].texts : FetchImport(t)
  BY <1>1, <1>3, FetchImportIInv
<1>4. CASE ResolveImports \/ EndResolveImports
  BY <1>4, ResolveImportsIInv, EndResolveImportsIInv
<1>5. CASE AnalyzeSource \/ NextPass \/ EndAnalyze
  BY <1>5, AnalyzeSourceIInv, NextPassIInv, EndAnalyzeIInv
<1>6. CASE TakeContract \/ GenerateCode \/ EndCompile
  BY <1>6, TakeContractIInv, GenerateCodeIInv, EndCompileIInv
<1>7. CASE \E d \in Names : CompileDependency(d)
  BY <1>7, CompileDependencyIInv
<1> QED
  BY <1>2, <1>3, <1>4, <1>5, <1>6, <1>7 DEF Work

LEMMA SearchUnchanged ==
  OrderProofs!IInv /\ UNCHANGED <<AstImports, Roots, search>> => OrderProofs!IInv'
  BY OrderProofs!StutterIInv DEF OrderProofs!vars

LEMMA StutterIInv ==
  ASSUME IInv, UNCHANGED vars
  PROVE  IInv'
<1> USE DEF IInv
<1>1. UNCHANGED <<session, reporter, stackState, sources, settings, sourceOrder, scopes,
                  contracts, call, search, result, calls>>
  BY DEF vars
<1>2. TypeInv' /\ PhaseInv'
  BY <1>1 DEF TypeInv, PhaseInv
<1>3. ReportInv' /\ NothingDangles' /\ CompleteInv' /\ AnalysedInv' /\ AcceptedInv'
  BY <1>1, ProgramKept
<1>4. ParseInv'
  BY <1>1, SameSources DEF ParseInv, Known
<1>5. OrderInv'
  BY <1>1, SearchUnchanged DEF OrderInv, AstImports, Roots, HasAst, Ast
<1>6. PassInv'
  BY <1>1, SameSources, SameFindings
     DEF PassInv, PassContracts, PassFindings, PassClean, Done, LimitUsedUp
<1>7. CodegenInv'
  <2>1. RecursionEnds' /\ CompiledInv' /\ TakenInv' <=> RecursionEnds /\ CompiledInv /\ TakenInv
    BY <1>1, SameSources, SameFindings
       DEF RecursionEnds, CompiledInv, TakenInv, CurrentCode, IsRequested
  <2>2. \A i : FrameInv(i)' <=> FrameInv(i)
    BY <1>1, SameSources, SameFindings DEF FrameInv
  <2> QED
    BY <1>1, <2>1, <2>2, SameSources, SameFindings DEF CodegenInv
<1>8. FailuresAreExplained'
  BY <1>1, SameSources, SameFindings DEF FailuresAreExplained, LimitUsedUp
<1> QED
  BY <1>2, <1>3, <1>4, <1>5, <1>6, <1>7, <1>8

-----------------------------------------------------------------------------
(***************************************************************************)
(* The theorems.                                                           *)
(***************************************************************************)
\* The invariant the results below rest on: what holds between the members
\* of CompilerStack at every point of every call of every client.
THEOREM StackInvariant == Spec => []IInv
<1>1. Init => IInv
  BY InitInv
<1>2. IInv /\ [Next]_vars => IInv'
  BY ClientCallIInv, WorkIInv, StutterIInv DEF Next
<1> QED
  BY <1>1, <1>2, PTL DEF Spec

LEMMA SearchTyped == OrderProofs!IInv => search \in Order!SearchType
  BY DEF OrderProofs!IInv, OrderProofs!TypeOK, OrderProofs!SearchType, Order!SearchType,
         OrderProofs!Frame, Order!Frame

LEMMA StackIsTyped ==
  ASSUME IInv
  PROVE  TypeOK
<1>1. TypeInv /\ ReportInv /\ CodegenInv /\ PhaseInv /\ OrderInv
  BY DEF IInv
<1>2. reporter \in ReporterType /\ ~reporter.fatal
  BY <1>1 DEF ReportInv, InvOf
<1>3. RecursionEnds
  BY <1>1 DEF CodegenInv, RecursionEnds
<1>4. search \in Order!SearchType
  <2>1. CASE call.phase = "order"
    BY <1>1, <2>1, SearchTyped DEF OrderInv
  <2>2. CASE call.phase # "order"
    <3>1. search = [roots |-> <<>>, path |-> <<>>, seen |-> {}, order |-> <<>>]
      BY <1>1, <2>2 DEF PhaseInv, Order!StartSearch
    <3>2. <<>> \in Seq(Names) /\ <<>> \in Seq(Order!Frame) /\ {} \in SUBSET Names
      OBVIOUS
    <3> QED
      BY <3>1, <3>2 DEF Order!SearchType
  <2> QED
    BY <2>1, <2>2
<1> QED
  BY <1>1, <1>2, <1>3, <1>4 DEF TypeInv, TypeOK

\* The members of CompilerStack keep their types, no FatalError is ever left
\* uncaught inside them, and compileContract's recursion visits no contract
\* it is in the middle of.
THEOREM StackTypes == Spec => []TypeOK
<1>1. IInv => TypeOK
  BY StackIsTyped
<1> QED
  BY <1>1, StackInvariant, PTL

\* The list of diagnostics stays within its limits through any sequence of
\* calls of the compiler, FatalErrors caught on the way included.
THEOREM StackListIsBounded == Spec => []StorageIsBounded
<1>1. IInv => StorageIsBounded
  BY DEF IInv, ReportInv, InvOf, ErrorsInv, NoticeInv, WarningsInv, StorageIsBounded,
         WarningEntries
<1> QED
  BY <1>1, StackInvariant, PTL

\* Scopes, source order and contracts never outlive the ASTs they point into.
THEOREM NoDanglingPointers == Spec => []NothingDangles
<1>1. IInv => NothingDangles
  BY DEF IInv
<1> QED
  BY <1>1, StackInvariant, PTL

LEMMA ParsedIsComplete ==
  ASSUME IInv
  PROVE  ParsedProgramsAreComplete
  BY DEF IInv, CompleteInv, ParsedProgramsAreComplete, Parsed, Elements

\* After parse() has succeeded each source has the AST of its current text,
\* and everything imported is there.
THEOREM ParsingIsComplete == Spec => []ParsedProgramsAreComplete
<1>1. IInv => ParsedProgramsAreComplete
  BY ParsedIsComplete
<1> QED
  BY <1>1, StackInvariant, PTL

\* Every failure has its cause: an error in the list, the limit used up, an
\* abstract contract checked too late, or scopes left by an earlier analysis.
THEOREM EveryFailureIsExplained == Spec => []FailuresAreExplained
<1>1. IInv => FailuresAreExplained
  BY DEF IInv
<1> QED
  BY <1>1, StackInvariant, PTL

LEMMA AcceptedIsClean ==
  ASSUME IInv
  PROVE  AcceptedProgramsAreClean
<1> SUFFICES ASSUME stackState >= AnalysisSuccessful
             PROVE  /\ ContainsOnlyWarnings(reporter.list)
                    /\ \A n \in Analysed :
                         /\ \A p \in (PassNames \cup {"parse"})
                                  \ (IF Ast(n).contract = "none" THEN PerContract ELSE {}) :
                              Ast(n).reports[p] \notin ErrorSeverities
                         /\ ~CreationIsCyclic(n)
  BY DEF AcceptedProgramsAreClean
<1>1. /\ ContainsOnlyWarnings(reporter.list)
      /\ \A n \in Analysed, p \in PassNames :
           ~Skipped(p, n) => Finding(p, n) \notin ErrorSeverities
  BY DEF IInv, AcceptedInv
<1>2. stackState >= ParsingSuccessful
  BY DEF IInv, TypeInv, Empty, CompilationSuccessful, AnalysisSuccessful,
              ParsingSuccessful
<1>3. ASSUME NEW n \in Analysed
      PROVE  /\ n \in Names /\ n \in Present /\ Ast(n) \in Texts
             /\ Ast(n).reports["parse"] \notin ErrorSeverities
  <2>1. n \in Names /\ sources[n] # None /\ Ast(n) \in Texts
    BY AnalysedFacts DEF IInv
  <2> QED
    BY <1>2, <2>1 DEF IInv, CompleteInv, Parsed, Present
<1>4. ASSUME NEW n \in Analysed, NEW p \in PassNames, ~Skipped(p, n)
      PROVE  Ast(n).reports[p] \notin ErrorSeverities
  BY <1>1, <1>3, <1>4, FindingFacts
<1>5. ASSUME NEW n \in Analysed PROVE ~CreationIsCyclic(n)
  <2>1. CASE Ast(n).contract = "none"
    <3>1. Ast(n).creates = {}
      BY <1>3, <2>1, TextFacts
    <3> QED
      BY <3>1 DEF CreationIsCyclic
  <2>2. CASE Ast(n).contract # "none"
    <3>1. "typeCheck" \in PassNames /\ ~Skipped("typeCheck", n)
      BY <2>2, PassFacts DEF Skipped
    <3>2. Finding("typeCheck", n) \notin ErrorSeverities
      BY <1>1, <3>1
    <3>3. CreationIsCyclic(n) => Finding("typeCheck", n) \in ErrorSeverities
      BY DEF Finding, CreationIsWrong, ErrorSeverities
    <3> QED
      BY <3>2, <3>3
  <2> QED
    BY <2>1, <2>2
<1> QED
  BY <1>1, <1>3, <1>4, <1>5 DEF Skipped

\* analyze() accepts a program only if no pass has anything against it.
THEOREM AcceptedMeansClean == Spec => []AcceptedProgramsAreClean
<1>1. IInv => AcceptedProgramsAreClean
  BY AcceptedIsClean
<1> QED
  BY <1>1, StackInvariant, PTL

\* Only the end of compile() makes the backend return true.
LEMMA BackendReturns ==
  ASSUME IInv, [Next]_vars, call.phase = "codegen", result' = "true"
  PROVE  EndCompile
<1>1. result = "running"
  BY CodegenFacts
<1>2. ~ClientCall
  BY DEF ClientCall, SetEVMVersion, SetOptimiserSettings, SetLibraries,
         SetRequestedContractNames, Reset, AddSource, Parse, Analyze, ParseAndAnalyze, Compile,
         SourceMapping, Calling
<1>3. Work
  BY <1>1, <1>2 DEF Next, vars
<1>4. /\ ~ParseSource /\ ~SkipImport /\ ~MissImport /\ ~AddFetched /\ ~EndParse
      /\ ~ResolveImports /\ ~EndResolveImports /\ ~AnalyzeSource /\ ~NextPass /\ ~EndAnalyze
      /\ \A t : ~FetchImport(t)
  BY DEF ParseSource, SkipImport, MissImport, AddFetched, EndParse, ResolveImports, Loading,
         EndResolveImports, AnalyzeSource, NextPass, EndAnalyze, FetchImport
<1>5. ~TakeContract /\ ~GenerateCode /\ \A d : ~CompileDependency(d)
  BY <1>1 DEF TakeContract, GenerateCode, CompileDependency, Return
<1> QED
  BY <1>3, <1>4, <1>5 DEF Work

\* At the end of compile() every requested contract and every contract it
\* creates has linked code for the current settings.
LEMMA BackendDelivers ==
  ASSUME IInv, EndCompile, NEW n \in Analysed, Ast(n).contract = "concrete", IsRequested(n),
         NEW c \in {n} \cup Ast(n).creates
  PROVE  /\ contracts'[c].code = CurrentCode
         /\ contracts'[c].evmVersion = settings.evmVersion
         /\ contracts'[c].linked = settings.libraries
<1>1. /\ call.phase = "codegen" /\ call.stack = <<>> /\ call.work = <<>>
      /\ contracts' = Link(contracts)
  BY DEF EndCompile
<1>2. CompiledInv /\ TakenInv /\ TypeInv
  BY <1>1 DEF IInv, CodegenInv
<1>3. n \in call.compiled
  BY <1>1, <1>2 DEF TakenInv, Elements
<1>4. c \in call.compiled
  BY <1>2, <1>3 DEF CompiledInv
<1>5. /\ c \in Analysed /\ Ast(c).contract = "concrete" /\ contracts[c].code = CurrentCode
      /\ ~contracts[c].linked
  BY <1>2, <1>4 DEF CompiledInv
<1>6. c \in Names /\ contracts[c] # None /\ contracts[c].evmVersion = settings.evmVersion
      /\ contracts[c] \in ContractType
  BY <1>1, <1>5, CodegenFacts
<1>7. settings.libraries \in BOOLEAN /\ CurrentCode \in CodeType /\ CurrentCode # None
  <2>1. settings.libraries \in BOOLEAN /\ CurrentCode \in CodeType
    BY <1>2 DEF TypeInv, CurrentCode, CodeType
  <2> QED
    BY <2>1, StackAssumption
<1>8. /\ Link(contracts)[c].code = CurrentCode
      /\ Link(contracts)[c].evmVersion = settings.evmVersion
      /\ Link(contracts)[c].linked = (contracts[c].linked \/ settings.libraries)
  BY <1>2, <1>5, <1>6, <1>7, LinkFacts
<1>9. contracts[c].linked \/ settings.libraries <=> settings.libraries
  BY <1>5
<1> QED
  BY <1>1, <1>7, <1>8, <1>9

\* When compile() returns true from the backend, every requested contract and
\* every contract it creates has linked code for the current settings.
THEOREM CompileDeliversCode == Spec => CompileDelivers
<1>1. IInv /\ [Next]_vars =>
        (call.phase = "codegen" /\ result' = "true" =>
           \A n \in Analysed :
             Ast(n).contract = "concrete" /\ IsRequested(n) =>
               \A c \in {n} \cup Ast(n).creates :
                 /\ contracts'[c].code = [evmVersion |-> settings.evmVersion,
                                          optimize |-> settings.optimize]
                 /\ contracts'[c].evmVersion = settings.evmVersion
                 /\ contracts'[c].linked = settings.libraries)
  BY BackendReturns, BackendDelivers DEF CurrentCode
<1> QED
  BY <1>1, StackInvariant, PTL DEF Spec, CompileDelivers

(***************************************************************************)
(* How resolveImports is part of analyze(): the call starts the search of  *)
(* ImportOrder on the ASTs as they are, every step of it is a step of that *)
(* search, and the order it leaves is the one ImportOrder promises.        *)
(***************************************************************************)
SearchIsImplemented ==
  call'.phase = "order" =>
    \/ call.phase # "order" /\ Order!Init'
    \/ call.phase = "order" /\ Order!Next

OrderIsHandedOver ==
  call.phase = "order" /\ call'.phase # "order" =>
    /\ sourceOrder' = search.order /\ Order!Finished(search)
    /\ Order!NoDuplicates /\ Order!ImportsFirst /\ Order!CoversReachable

\* In the phase "order" nothing but the search goes on.
LEMMA OrderSteps ==
  ASSUME IInv, Next
  PROVE  /\ call.phase = "order" => ResolveImports \/ EndResolveImports
         /\ call.phase # "order" /\ call'.phase = "order" =>
              search' = Order!StartSearch(Roots) /\ UNCHANGED sources
<1>1. CASE ClientCall
  <2>1. call.phase = "idle"
    BY <1>1 DEF ClientCall, SetEVMVersion, SetOptimiserSettings, SetLibraries,
       SetRequestedContractNames, Reset, AddSource, Parse, Analyze, ParseAndAnalyze, Compile,
       SourceMapping, Calling, Idle
  <2>2. CASE \E secbit, noSMT \in BOOLEAN : Analyze(secbit, noSMT)
    BY <2>1, <2>2 DEF Analyze, StartAnalyze, Return, Idle
  <2>3. CASE \E secbit, noSMT \in BOOLEAN : Compile(secbit, noSMT)
    BY <2>1, <2>3 DEF Compile, StartParse, StartBackend, Return, Idle
  <2> QED
    BY <1>1, <2>1, <2>2, <2>3 DEF ClientCall, SetEVMVersion, SetOptimiserSettings, SetLibraries,
       SetRequestedContractNames, Reset, AddSource, Parse, ParseAndAnalyze, StartParse,
       SourceMapping, Return, Idle
<1>2. CASE Work
  <2>1. CASE ParseSource \/ SkipImport \/ (\E t \in Sessions[session].texts : FetchImport(t))
             \/ MissImport \/ AddFetched
    <3>1. call.phase \in {"parse", "load"} /\ call \in ParseCall
      BY <2>1, CallFacts DEF ParseSource, SkipImport, FetchImport, MissImport, AddFetched, Loading, IInv
    <3>2. call'.phase \in {"idle", "parse", "load"}
      <4>1. CASE ParseSource
        <5> DEFINE text == sources[Head(call.work)].text
                   fatal == Report(reporter, text.reports["parse"]).fatal
                   left == IF fatal THEN <<>> ELSE text.imports
                   phase == IF fatal THEN "parse" ELSE "load"
        <5>1. \/ call' = Idle
              \/ call' = [call EXCEPT !.phase = phase, !.work = Tail(@), !.imports = left]
          BY <4>1 DEF ParseSource, Return
        <5>2. phase \in {"parse", "load"}
          OBVIOUS
        <5> HIDE DEF left, phase
        <5>3. CASE call' = [call EXCEPT !.phase = phase, !.work = Tail(@), !.imports = left]
          BY <3>1, <5>2, <5>3 DEF ParseCall
        <5> QED
          BY <5>1, <5>3 DEF Idle
      <4>2. CASE SkipImport
        BY <3>1, <4>2 DEF SkipImport, ParseCall
      <4>3. ASSUME NEW t, FetchImport(t) PROVE call'.phase \in {"idle", "parse", "load"}
        BY <3>1, <4>3 DEF FetchImport, ParseCall
      <4>4. CASE MissImport
        BY <3>1, <4>4 DEF MissImport, ParseCall, Return, Idle
      <4>5. CASE AddFetched
        BY <3>1, <4>5 DEF AddFetched, ParseCall
      <4> QED
        BY <2>1, <4>1, <4>2, <4>3, <4>4, <4>5
    <3> QED
      BY <3>1, <3>2
  <2>2. CASE EndParse
    BY <2>2 DEF EndParse, StartAnalyze, Return, Idle
  <2>3. CASE ResolveImports \/ EndResolveImports
    BY <2>3 DEF ResolveImports, EndResolveImports
  <2>4. CASE AnalyzeSource \/ NextPass \/ EndAnalyze
    <3>1. call.phase = "pass" /\ call \in PassCall
      BY <2>4, CallFacts DEF AnalyzeSource, NextPass, EndAnalyze, IInv
    <3>2. call'.phase \in {"idle", "pass", "codegen"}
      <4>1. CASE AnalyzeSource
        <5> DEFINE p == Passes[call.pass]
                   n == Head(call.work)
                   skip == p \in PerContract /\ Ast(n).contract = "none"
                   r == IF skip THEN reporter ELSE Report(reporter, Finding(p, n))
                   ok == skip \/ PassSucceeds(p, Finding(p, n), r.list)
        <5>1. call' = Idle \/ call' = [call EXCEPT !.work = Tail(@), !.noErrors = @ /\ ok]
          BY <4>1 DEF AnalyzeSource, Return
        <5> HIDE DEF ok
        <5>2. CASE call' = [call EXCEPT !.work = Tail(@), !.noErrors = @ /\ ok]
          BY <3>1, <5>2 DEF PassCall
        <5> QED
          BY <5>1, <5>2 DEF Idle
      <4>2. CASE NextPass
        BY <3>1, <4>2 DEF NextPass, PassCall
      <4>3. CASE EndAnalyze
        BY <3>1, <4>3 DEF EndAnalyze, StartBackend, Return, Idle
      <4> QED
        BY <2>4, <4>1, <4>2, <4>3
    <3> QED
      BY <3>1, <3>2
  <2>5. CASE TakeContract \/ (\E d \in Names : CompileDependency(d)) \/ GenerateCode \/ EndCompile
    <3>1. call.phase = "codegen" /\ call \in CodegenCall
      BY <2>5, CallFacts DEF TakeContract, CompileDependency, GenerateCode, EndCompile, IInv
    <3>2. call'.phase \in {"idle", "codegen"}
      <4>1. CASE TakeContract
        BY <3>1, <4>1 DEF TakeContract, CodegenCall
      <4>2. ASSUME NEW d, CompileDependency(d) PROVE call'.phase \in {"idle", "codegen"}
        BY <3>1, <4>2 DEF CompileDependency, CodegenCall
      <4>3. CASE GenerateCode
        <5>1. \/ call' = Idle
              \/ call' = [call EXCEPT !.compiled = @ \cup {Innermost.name},
                                      !.stack = SubSeq(@, 1, Len(@) - 1)]
          BY <4>3 DEF GenerateCode, Return
        <5>2. CASE call' = [call EXCEPT !.compiled = @ \cup {Innermost.name},
                                        !.stack = SubSeq(@, 1, Len(@) - 1)]
          BY <3>1, <5>2 DEF CodegenCall
        <5> QED
          BY <5>1, <5>2 DEF Idle
      <4>4. CASE EndCompile
        BY <4>4 DEF EndCompile, Return, Idle
      <4> QED
        BY <2>5, <4>1, <4>2, <4>3, <4>4
    <3> QED
      BY <3>1, <3>2
  <2> QED
    BY <1>2, <2>1, <2>2, <2>3, <2>4, <2>5 DEF Work
<1> QED
  BY <1>1, <1>2 DEF Next

(***************************************************************************)
(* Theorem: the part of analyze() that orders the sources implements       *)
(* ImportOrder, on whatever the calls before have left, and what it hands  *)
(* to the passes is an order of exactly what the non-library sources need, *)
(* without duplicates, imports first.                                      *)
(***************************************************************************)
THEOREM ResolveImportsImplements ==
  Spec => [][SearchIsImplemented]_vars /\ [][OrderIsHandedOver]_vars
<1>1. ASSUME IInv, IInv', Next PROVE SearchIsImplemented
  <2>1. ASSUME call.phase # "order", call'.phase = "order" PROVE Order!Init'
    <3>1. search' = Order!StartSearch(Roots) /\ UNCHANGED sources
      BY <1>1, <2>1, OrderSteps
    <3>2. Roots' = Roots
      BY <3>1 DEF Roots
    <3>3. OrderProofs!TypeOK'
      BY <1>1, <2>1 DEF IInv, OrderInv, OrderProofs!IInv
    <3> QED
      BY <3>1, <3>2, <3>3 DEF Order!Init, Order!StartSearch, OrderProofs!TypeOK
  <2>2. ASSUME call.phase = "order", call'.phase = "order" PROVE Order!Next
    <3>1. ResolveImports
      BY <1>1, <2>2, OrderSteps DEF EndResolveImports
    <3>2. OrderProofs!Next
      BY <1>1, <3>1, ResolveImportsRefines
    <3> QED
      BY <3>2 DEF OrderProofs!Next, OrderProofs!TakeRoot, OrderProofs!FollowImport,
         OrderProofs!LeaveSource, OrderProofs!NextRoot, OrderProofs!Follow, OrderProofs!Leave,
         OrderProofs!Enter, OrderProofs!Top, Order!Next, Order!TakeRoot, Order!FollowImport,
         Order!LeaveSource, Order!NextRoot, Order!Follow, Order!Leave, Order!Enter, Order!Top
  <2> QED
    BY <2>1, <2>2 DEF SearchIsImplemented
<1>2. ASSUME IInv, Next PROVE OrderIsHandedOver
  <2> SUFFICES ASSUME call.phase = "order", call'.phase # "order"
               PROVE  /\ sourceOrder' = search.order /\ Order!Finished(search)
                      /\ Order!NoDuplicates /\ Order!ImportsFirst /\ Order!CoversReachable
    BY DEF OrderIsHandedOver
  <2>1. EndResolveImports
    BY <1>2, OrderSteps DEF ResolveImports
  <2>2. OrderProofs!IInv
    BY <1>2 DEF IInv, OrderInv
  <2>3. OrderProofs!CoversReachable
    BY <2>2, OrderProofs!FinishedCovers
  <2>4. OrderProofs!NoDuplicates /\ OrderProofs!ImportsFirst
    BY <2>2 DEF OrderProofs!IInv
  <2>5. Order!NoDuplicates
    BY <2>4 DEF OrderProofs!NoDuplicates, Order!NoDuplicates
  <2>6. Order!ImportsFirst
    BY <2>4 DEF OrderProofs!ImportsFirst, Order!ImportsFirst, OrderProofs!ImportsOf,
       Order!ImportsOf, OrderProofs!Reaches, Order!Reaches, OrderProofs!Closed, Order!Closed
  <2>7. Order!CoversReachable
    BY <2>3 DEF OrderProofs!CoversReachable, Order!CoversReachable, OrderProofs!ImportsOf,
       Order!ImportsOf, OrderProofs!Reaches, Order!Reaches, OrderProofs!Closed, Order!Closed,
       OrderProofs!Finished, Order!Finished, OrderProofs!Emitted, Order!Emitted
  <2> QED
    BY <2>1, <2>5, <2>6, <2>7 DEF EndResolveImports
<1>3. IInv /\ IInv' /\ [Next]_vars => [SearchIsImplemented]_vars /\ [OrderIsHandedOver]_vars
  BY <1>1, <1>2
<1> QED
  BY <1>3, StackInvariant, PTL DEF Spec

=============================================================================

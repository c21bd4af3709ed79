------------------------ MODULE ErrorReporterProofs ------------------------
(***************************************************************************)
(* Proofs about ErrorReporter, for every value of the two limits.          *)
(***************************************************************************)
EXTENDS ErrorReporter, FiniteSetTheorems, TLAPS

-----------------------------------------------------------------------------
(***************************************************************************)
(* Counting the diagnostics of some types in a list.                       *)
(***************************************************************************)
\* The empty list, which clear() leaves, has no diagnostics.
LEMMA CountEmpty ==
  ASSUME NEW T
  PROVE  Count(<<>>, T) = 0
<1>1. {i \in DOMAIN <<>> : <<>>[i] \in T} = {}
  OBVIOUS
<1> QED
  BY <1>1, FS_EmptySet DEF Count

\* push_back changes the count of T by one if the new entry is in T, else not at all.
LEMMA CountAppend ==
  ASSUME NEW list \in Seq(Types), NEW x \in Types, NEW T
  PROVE  /\ Count(list, T) \in Nat
         /\ Count(Append(list, x), T) = Count(list, T) + (IF x \in T THEN 1 ELSE 0)
<1> DEFINE I == {i \in DOMAIN list : list[i] \in T}
           J == {i \in DOMAIN Append(list, x) : Append(list, x)[i] \in T}
           n == Len(list) + 1
<1>1. IsFiniteSet(I) /\ Cardinality(I) \in Nat
  <2>1. IsFiniteSet(1 .. Len(list))
    BY FS_Interval
  <2>2. I \subseteq 1 .. Len(list)
    OBVIOUS
  <2> QED
    BY <2>1, <2>2, FS_Subset, FS_CardinalityType
<1>2. n \notin I
  OBVIOUS
<1>3. J = IF x \in T THEN I \cup {n} ELSE I
  OBVIOUS
<1>c. Count(list, T) = Cardinality(I) /\ Count(Append(list, x), T) = Cardinality(J)
  BY DEF Count
<1> HIDE DEF I, J, n
<1>4. CASE x \in T
  <2>1. Cardinality(I \cup {n}) = Cardinality(I) + 1
    BY <1>1, <1>2, FS_AddElement
  <2> QED
    BY <1>1, <1>3, <1>4, <1>c, <2>1
<1>5. CASE x \notin T
  BY <1>1, <1>3, <1>5, <1>c
<1> QED
  BY <1>4, <1>5

-----------------------------------------------------------------------------
(***************************************************************************)
(* What the pieces of error() and warning() do to a reporter.              *)
(***************************************************************************)
\* checkForExcessiveErrors counts a warning and touches nothing else.
LEMMA CountWarningFields ==
  ASSUME NEW r \in ReporterType
  PROVE  /\ CountWarning(r) \in ReporterType
         /\ CountWarning(r).warnings = r.warnings + 1
         /\ CountWarning(r).errors = r.errors
         /\ CountWarning(r).fatal = r.fatal /\ CountWarning(r).list = r.list
  BY DEF ReporterType, CountWarning

\* checkForExcessiveErrors counts an error and touches nothing else.
LEMMA CountErrorFields ==
  ASSUME NEW r \in ReporterType
  PROVE  /\ CountError(r) \in ReporterType
         /\ CountError(r).errors = r.errors + 1
         /\ CountError(r).warnings = r.warnings
         /\ CountError(r).fatal = r.fatal /\ CountError(r).list = r.list
  BY DEF ReporterType, CountError

\* push_back changes the list only, and leaves one that is not empty.
LEMMA StoreFields ==
  ASSUME NEW r \in ReporterType, NEW x \in Types
  PROVE  /\ Store(r, x) \in ReporterType
         /\ Store(r, x).list = Append(r.list, x) /\ Store(r, x).list # <<>>
         /\ Store(r, x).errors = r.errors /\ Store(r, x).warnings = r.warnings
         /\ Store(r, x).fatal = r.fatal
<1>1. r.list \in Seq(Types) /\ Append(r.list, x) \in Seq(Types) /\ Append(r.list, x) # <<>>
  BY DEF ReporterType
<1> QED
  BY <1>1 DEF ReporterType, Store

\* Throwing FatalError leaves the reporter as it is.
LEMMA ThrowFields ==
  ASSUME NEW r \in ReporterType
  PROVE  /\ Throw(r) \in ReporterType
         /\ Throw(r).fatal = TRUE /\ Throw(r).list = r.list
         /\ Throw(r).errors = r.errors /\ Throw(r).warnings = r.warnings
  BY DEF ReporterType, Throw

\* clear() empties the list and keeps the counters.
LEMMA ClearFields ==
  ASSUME NEW r \in ReporterType
  PROVE  LET c == [Clear(r) EXCEPT !.fatal = FALSE] IN
         /\ c \in ReporterType
         /\ c.list = <<>> /\ c.fatal = FALSE
         /\ c.errors = r.errors /\ c.warnings = r.warnings
<1> DEFINE d == Clear(r)
<1>1. /\ d \in ReporterType /\ d.list = <<>>
      /\ d.errors = r.errors /\ d.warnings = r.warnings
  <2> DEFINE empty == <<>>
  <2>1. empty \in Seq(Types)
    OBVIOUS
  <2> HIDE DEF empty
  <2>2. LET x == [r EXCEPT !.list = empty] IN
        /\ x \in ReporterType /\ x.list = empty
        /\ x.errors = r.errors /\ x.warnings = r.warnings
    BY <2>1 DEF ReporterType
  <2> QED
    BY <2>2 DEF Clear, empty
<1> HIDE DEF d
<1>2. LET c == [d EXCEPT !.fatal = FALSE] IN
      /\ c \in ReporterType /\ c.list = d.list /\ c.fatal = FALSE
      /\ c.errors = d.errors /\ c.warnings = d.warnings
  BY <1>1 DEF ReporterType
<1> QED
  BY <1>1, <1>2 DEF d

-----------------------------------------------------------------------------
(***************************************************************************)
(* The inductive invariant.  The bounds alone do not survive a step: they  *)
(* need that what is stored has been counted, and that the counter passes  *)
(* each limit once.  It is stated of any reporter r.                       *)
(***************************************************************************)
WarningEntries == {"Warning", TooManyWarnings}

EvidenceOf(r) == r.fatal => r.list # <<>>

ErrorsInv(r) ==
  Count(r.list, {"Error"}) <= r.errors /\ Count(r.list, {"Error"}) <= c_maxErrorsAllowed

NoticeInv(r) ==
  \/ Count(r.list, {TooManyErrors}) = 0
  \/ c_maxErrorsAllowed + Count(r.list, {TooManyErrors}) <= r.errors

WarningsInv(r) ==
  /\ Count(r.list, WarningEntries) <= r.warnings
  /\ Count(r.list, WarningEntries) <= c_maxWarningsAllowed

InvOf(r) == r \in ReporterType /\ EvidenceOf(r) /\ ErrorsInv(r) /\ NoticeInv(r) /\ WarningsInv(r)

ReporterInv == InvOf(reporter)

\* The diagnostics' types are different.
LEMMA TypesDiffer ==
  /\ {"Error", "Warning", "SECBITWarning", TooManyErrors, TooManyWarnings} \subseteq Types
  /\ "Error" \notin WarningEntries /\ "Error" \notin {TooManyErrors}
  /\ "SECBITWarning" \notin WarningEntries
  /\ "SECBITWarning" \notin {TooManyErrors} /\ "SECBITWarning" \notin {"Error"}
  /\ TooManyErrors \notin WarningEntries /\ TooManyErrors \notin {"Error"}
  /\ "Warning" \in WarningEntries /\ TooManyWarnings \in WarningEntries
  /\ \A w \in WarningEntries : w \in Types /\ w \notin {"Error"} /\ w \notin {TooManyErrors}
  BY DEF TooManyErrors, TooManyWarnings, Types, WarningTypes, WarningEntries

\* The three counts of the invariant when one entry is pushed.
LEMMA CountsAfterStore ==
  ASSUME NEW list \in Seq(Types), NEW x \in Types, NEW T
  PROVE  /\ Count(list, T) \in Nat
         /\ x \in T => Count(Append(list, x), T) = Count(list, T) + 1
         /\ x \notin T => Count(Append(list, x), T) = Count(list, T)
  BY CountAppend

\* A fresh reporter satisfies the invariant.
LEMMA ReporterInvInit == ReporterInit => ReporterInv
<1>1. EmptyReporter \in ReporterType
  BY DEF EmptyReporter, ReporterType
<1>2. EmptyReporter.list = <<>> /\ EmptyReporter.errors = 0 /\ EmptyReporter.warnings = 0
      /\ EmptyReporter.fatal = FALSE
  BY DEF EmptyReporter
<1>3. \A T : Count(EmptyReporter.list, T) = 0
  BY <1>2, CountEmpty
<1> QED
  BY <1>1, <1>2, <1>3, LimitsAssumption
     DEF ReporterInit, ReporterInv, InvOf, EvidenceOf, ErrorsInv, NoticeInv, WarningsInv

\* warning() keeps the invariant.
LEMMA WarningKeepsInv ==
  ASSUME NEW r, InvOf(r), ~r.fatal
  PROVE  InvOf(ReportWarning(r))
<1> USE LimitsAssumption, TypesDiffer
<1> DEFINE k == CountWarning(r)
<1>1. /\ r \in ReporterType
      /\ r.list \in Seq(Types) /\ r.errors \in Nat /\ r.warnings \in Nat
  BY DEF InvOf, ReporterType
<1>2. /\ k \in ReporterType /\ k.warnings = r.warnings + 1 /\ k.errors = r.errors
      /\ k.fatal = r.fatal /\ k.list = r.list
  BY <1>1, CountWarningFields
<1>3. \A T : Count(r.list, T) \in Nat
  BY <1>1, CountsAfterStore
<1> HIDE DEF k
<1>4. ASSUME NEW w \in WarningEntries, r.warnings + 1 <= c_maxWarningsAllowed
      PROVE  InvOf(Store(k, w))
  <2>1. /\ Store(k, w) \in ReporterType /\ Store(k, w).list = Append(r.list, w)
        /\ Store(k, w).errors = r.errors /\ Store(k, w).warnings = r.warnings + 1
        /\ Store(k, w).fatal = r.fatal
    <3>1. w \in Types
      OBVIOUS
    <3>2. /\ Store(k, w) \in ReporterType /\ Store(k, w).list = Append(k.list, w)
          /\ Store(k, w).errors = k.errors /\ Store(k, w).warnings = k.warnings
          /\ Store(k, w).fatal = k.fatal
      BY <1>2, <3>1, StoreFields
    <3> QED
      BY <1>2, <3>2
  <2>2. /\ Count(Append(r.list, w), WarningEntries) = Count(r.list, WarningEntries) + 1
        /\ Count(Append(r.list, w), {"Error"}) = Count(r.list, {"Error"})
        /\ Count(Append(r.list, w), {TooManyErrors}) = Count(r.list, {TooManyErrors})
    BY <1>1, CountsAfterStore
  <2> QED
    BY <1>1, <1>3, <1>4, <2>1, <2>2
       DEF InvOf, EvidenceOf, ErrorsInv, NoticeInv, WarningsInv
<1>5. CASE r.warnings + 1 < c_maxWarningsAllowed
  BY <1>1, <1>4, <1>5 DEF ReportWarning, k
<1>6. CASE r.warnings + 1 = c_maxWarningsAllowed
  BY <1>1, <1>4, <1>6 DEF ReportWarning, k
<1>7. CASE r.warnings + 1 > c_maxWarningsAllowed
  <2>1. InvOf(k)
    BY <1>1, <1>2, <1>3 DEF InvOf, EvidenceOf, ErrorsInv, NoticeInv, WarningsInv
  <2> QED
    BY <1>1, <1>7, <2>1 DEF ReportWarning, k
<1> QED
  BY <1>1, <1>5, <1>6, <1>7

\* secbitWarning() keeps the invariant: no limit is about it.
LEMMA SECBITWarningKeepsInv ==
  ASSUME NEW r, InvOf(r), ~r.fatal
  PROVE  InvOf(ReportSECBITWarning(r))
<1> USE TypesDiffer
<1> DEFINE s == Store(r, "SECBITWarning")
<1>1. r \in ReporterType /\ r.list \in Seq(Types)
  BY DEF InvOf, ReporterType
<1>2. /\ s \in ReporterType /\ s.list = Append(r.list, "SECBITWarning")
      /\ s.errors = r.errors /\ s.warnings = r.warnings /\ s.fatal = r.fatal
  BY <1>1, StoreFields
<1>3. \A T \in {WarningEntries, {"Error"}, {TooManyErrors}} :
        Count(Append(r.list, "SECBITWarning"), T) = Count(r.list, T)
  BY <1>1, CountsAfterStore
<1> HIDE DEF s
<1>4. InvOf(s)
  BY <1>2, <1>3 DEF InvOf, EvidenceOf, ErrorsInv, NoticeInv, WarningsInv
<1> QED
  BY <1>4 DEF ReportSECBITWarning, s

\* error() keeps the invariant, whether or not it throws.
LEMMA ErrorKeepsInv ==
  ASSUME NEW r, InvOf(r), ~r.fatal
  PROVE  InvOf(ReportError(r)) /\ ReportError(r).list # <<>>
<1> USE LimitsAssumption, TypesDiffer
<1> DEFINE k == CountError(r)
<1>1. /\ r \in ReporterType
      /\ r.list \in Seq(Types) /\ r.errors \in Nat /\ r.warnings \in Nat
  BY DEF InvOf, ReporterType
<1>2. /\ k \in ReporterType /\ k.errors = r.errors + 1 /\ k.warnings = r.warnings
      /\ k.fatal = r.fatal /\ k.list = r.list
  BY <1>1, CountErrorFields
<1>3. \A T : Count(r.list, T) \in Nat
  BY <1>1, CountsAfterStore
<1> HIDE DEF k
<1>4. CASE r.errors + 1 > c_maxErrorsAllowed
  <2> DEFINE s == Throw(Store(k, TooManyErrors))
  <2>1. /\ s \in ReporterType /\ s.list = Append(r.list, TooManyErrors) /\ s.list # <<>>
        /\ s.errors = r.errors + 1 /\ s.warnings = r.warnings /\ s.fatal = TRUE
    <3> DEFINE t == Store(k, TooManyErrors)
    <3>1. TooManyErrors \in Types
      OBVIOUS
    <3>2. /\ t \in ReporterType /\ t.list = Append(k.list, TooManyErrors) /\ t.list # <<>>
          /\ t.errors = k.errors /\ t.warnings = k.warnings
      BY <1>2, <3>1, StoreFields
    <3> HIDE DEF t
    <3>3. /\ Throw(t) \in ReporterType /\ Throw(t).fatal = TRUE /\ Throw(t).list = t.list
          /\ Throw(t).errors = t.errors /\ Throw(t).warnings = t.warnings
      BY <3>2, ThrowFields
    <3> QED
      BY <1>2, <3>2, <3>3 DEF t
  <2>2. /\ Count(Append(r.list, TooManyErrors), WarningEntries) = Count(r.list, WarningEntries)
        /\ Count(Append(r.list, TooManyErrors), {"Error"}) = Count(r.list, {"Error"})
        /\ Count(Append(r.list, TooManyErrors), {TooManyErrors})
              = Count(r.list, {TooManyErrors}) + 1
    BY <1>1, CountsAfterStore
  <2> HIDE DEF s
  <2>3. InvOf(s)
    BY <1>1, <1>3, <1>4, <2>1, <2>2 DEF InvOf, EvidenceOf, ErrorsInv, NoticeInv, WarningsInv
  <2> QED
    BY <1>4, <2>1, <2>3 DEF ReportError, s, k
<1>5. CASE r.errors + 1 <= c_maxErrorsAllowed
  <2> DEFINE s == Store(k, "Error")
  <2>1. /\ s \in ReporterType /\ s.list = Append(r.list, "Error") /\ s.list # <<>>
        /\ s.errors = r.errors + 1 /\ s.warnings = r.warnings /\ s.fatal = r.fatal
    <3>1. "Error" \in Types
      OBVIOUS
    <3>2. /\ s \in ReporterType /\ s.list = Append(k.list, "Error") /\ s.list # <<>>
          /\ s.errors = k.errors /\ s.warnings = k.warnings /\ s.fatal = k.fatal
      BY <1>2, <3>1, StoreFields
    <3> QED
      BY <1>2, <3>2
  <2>2. /\ Count(Append(r.list, "Error"), WarningEntries) = Count(r.list, WarningEntries)
        /\ Count(Append(r.list, "Error"), {"Error"}) = Count(r.list, {"Error"}) + 1
        /\ Count(Append(r.list, "Error"), {TooManyErrors}) = Count(r.list, {TooManyErrors})
    BY <1>1, CountsAfterStore
  <2> HIDE DEF s
  <2>3. InvOf(s)
    BY <1>1, <1>3, <1>5, <2>1, <2>2 DEF InvOf, EvidenceOf, ErrorsInv, NoticeInv, WarningsInv
  <2>4. ReportError(r) = s
    BY <1>1, <1>5 DEF ReportError, s, k
  <2> QED
    BY <2>1, <2>3, <2>4
<1> QED
  BY <1>1, <1>4, <1>5

\* fatalError() keeps the invariant: error() has stored something.
LEMMA FatalErrorKeepsInv ==
  ASSUME NEW r, InvOf(r), ~r.fatal
  PROVE  InvOf(ReportFatalError(r))
<1> DEFINE e == ReportError(r)
<1>1. InvOf(e) /\ e.list # <<>>
  BY ErrorKeepsInv
<1>2. e \in ReporterType
  BY <1>1 DEF InvOf
<1> HIDE DEF e
<1>3. /\ Throw(e) \in ReporterType /\ Throw(e).list = e.list /\ Throw(e).fatal = TRUE
      /\ Throw(e).errors = e.errors /\ Throw(e).warnings = e.warnings
  BY <1>2, ThrowFields
<1>4. InvOf(Throw(e))
  BY <1>1, <1>3 DEF InvOf, EvidenceOf, ErrorsInv, NoticeInv, WarningsInv
<1> QED
  BY <1>4 DEF ReportFatalError, e

\* clear() keeps the invariant.
LEMMA RestartKeepsInv ==
  ASSUME NEW r, InvOf(r)
  PROVE  InvOf([Clear(r) EXCEPT !.fatal = FALSE])
<1> DEFINE c == [Clear(r) EXCEPT !.fatal = FALSE]
<1>1. r \in ReporterType /\ r.errors \in Nat /\ r.warnings \in Nat
  BY DEF InvOf, ReporterType
<1>2. /\ c \in ReporterType /\ c.list = <<>> /\ c.fatal = FALSE
      /\ c.errors = r.errors /\ c.warnings = r.warnings
  BY <1>1, ClearFields
<1>3. \A T : Count(<<>>, T) = 0
  BY CountEmpty
<1> HIDE DEF c
<1>4. InvOf(c)
  BY <1>1, <1>2, <1>3, LimitsAssumption
     DEF InvOf, EvidenceOf, ErrorsInv, NoticeInv, WarningsInv
<1> QED
  BY <1>4 DEF c

\* A handler of FatalError goes on with the list as it is.
LEMMA CatchKeepsInv ==
  ASSUME NEW r, InvOf(r)
  PROVE  LET c == [r EXCEPT !.fatal = FALSE] IN
         /\ InvOf(c) /\ c.fatal = FALSE
         /\ c.list = r.list /\ c.errors = r.errors /\ c.warnings = r.warnings
<1> DEFINE c == [r EXCEPT !.fatal = FALSE]
<1>1. /\ c \in ReporterType /\ c.fatal = FALSE
      /\ c.list = r.list /\ c.errors = r.errors /\ c.warnings = r.warnings
  BY DEF InvOf, ReporterType
<1> HIDE DEF c
<1>2. InvOf(c)
  BY <1>1 DEF InvOf, EvidenceOf, ErrorsInv, NoticeInv, WarningsInv
<1> QED
  BY <1>1, <1>2 DEF c

\* Each report and each restart keeps the invariant.
LEMMA ReporterInvStep == ReporterInv /\ [ReporterNext]_reporter => ReporterInv'
<1> SUFFICES ASSUME InvOf(reporter), [ReporterNext]_reporter PROVE InvOf(reporter')
  BY DEF ReporterInv
<1>1. CASE Warn
  BY <1>1, WarningKeepsInv DEF Warn
<1>2. CASE WarnSECBIT
  BY <1>2, SECBITWarningKeepsInv DEF WarnSECBIT
<1>3. CASE Fail
  BY <1>3, ErrorKeepsInv DEF Fail
<1>4. CASE FailFatal
  BY <1>4, FatalErrorKeepsInv DEF FailFatal
<1>5. CASE Restart
  BY <1>5, RestartKeepsInv DEF Restart
<1>6. CASE Catch
  BY <1>6, CatchKeepsInv DEF Catch
<1>7. CASE UNCHANGED reporter
  BY <1>7
<1> QED
  BY <1>1, <1>2, <1>3, <1>4, <1>5, <1>6, <1>7 DEF ReporterNext

-----------------------------------------------------------------------------
(***************************************************************************)
(* What a report does to the answer of containsOnlyWarnings.               *)
(***************************************************************************)
\* push_back of an entry makes the list contain an error only if it is one.
LEMMA OnlyWarningsAppend ==
  ASSUME NEW list \in Seq(Types), NEW x \in Types
  PROVE  ContainsOnlyWarnings(Append(list, x)) <=> ContainsOnlyWarnings(list) /\ x # "Error"
<1> DEFINE longer == Append(list, x)
           n == Len(list) + 1
<1>1. /\ DOMAIN longer = DOMAIN list \cup {n}
      /\ \A i \in DOMAIN list : longer[i] = list[i]
      /\ longer[n] = x
  OBVIOUS
<1> HIDE DEF longer, n
<1>2. (\A i \in DOMAIN longer : longer[i] # "Error")
        <=> (\A i \in DOMAIN list : list[i] # "Error") /\ x # "Error"
  BY <1>1
<1> QED
  BY <1>2 DEF ContainsOnlyWarnings, longer

\* The same of a reporter.
LEMMA OnlyWarningsStored ==
  ASSUME NEW r \in ReporterType, NEW x \in Types
  PROVE  ContainsOnlyWarnings(Store(r, x).list) <=> ContainsOnlyWarnings(r.list) /\ x # "Error"
<1>1. r.list \in Seq(Types)
  BY DEF ReporterType
<1>2. Store(r, x).list = Append(r.list, x)
  BY StoreFields
<1> QED
  BY <1>1, <1>2, OnlyWarningsAppend

\* A list that has been cleared contains no error.
LEMMA OnlyWarningsEmpty == ContainsOnlyWarnings(<<>>)
  BY DEF ContainsOnlyWarnings

\* warning() counts no error, throws nothing and adds no error to the list.
LEMMA WarningEffect ==
  ASSUME NEW r \in ReporterType
  PROVE  /\ ReportWarning(r).errors = r.errors
         /\ ReportWarning(r).fatal = r.fatal
         /\ ContainsOnlyWarnings(ReportWarning(r).list) <=> ContainsOnlyWarnings(r.list)
<1> DEFINE k == CountWarning(r)
           n == r.warnings + 1
<1>1. k \in ReporterType /\ k.errors = r.errors /\ k.fatal = r.fatal /\ k.list = r.list
  BY CountWarningFields
<1>2. r.list \in Seq(Types) /\ "Warning" \in Types /\ TooManyWarnings \in Types
  BY TypesDiffer DEF ReporterType
<1>3. "Warning" # "Error" /\ TooManyWarnings # "Error"
  BY DEF TooManyWarnings
<1>4. \/ ReportWarning(r) = Store(k, "Warning") \/ ReportWarning(r) = Store(k, TooManyWarnings)
      \/ ReportWarning(r) = k
  BY DEF ReportWarning
<1> HIDE DEF k
<1>5. ASSUME NEW x \in {"Warning", TooManyWarnings}
      PROVE  /\ Store(k, x).errors = r.errors /\ Store(k, x).fatal = r.fatal
             /\ ContainsOnlyWarnings(Store(k, x).list) <=> ContainsOnlyWarnings(r.list)
  <2>1. x \in Types /\ x # "Error"
    BY <1>2, <1>3
  <2> QED
    BY <1>1, <2>1, StoreFields, OnlyWarningsStored
<1> QED
  BY <1>1, <1>4, <1>5

\* secbitWarning() likewise.
LEMMA SECBITWarningEffect ==
  ASSUME NEW r \in ReporterType
  PROVE  /\ ReportSECBITWarning(r).errors = r.errors
         /\ ReportSECBITWarning(r).fatal = r.fatal
         /\ ContainsOnlyWarnings(ReportSECBITWarning(r).list) <=> ContainsOnlyWarnings(r.list)
<1>1. r.list \in Seq(Types) /\ "SECBITWarning" \in Types /\ "SECBITWarning" # "Error"
  BY TypesDiffer DEF ReporterType
<1> QED
  BY <1>1, StoreFields, OnlyWarningsStored DEF ReportSECBITWarning

(***************************************************************************)
(* error() leaves an error in the list unless the limit is used up, and    *)
(* then it throws; no error leaves the list.                               *)
(***************************************************************************)
LEMMA ErrorEffect ==
  ASSUME NEW r \in ReporterType
  PROVE  LET e == ReportError(r) IN
         /\ e \in ReporterType
         /\ e.errors = r.errors + 1
         /\ ~ContainsOnlyWarnings(r.list) => ~ContainsOnlyWarnings(e.list)
         /\ \/ e.errors <= c_maxErrorsAllowed /\ e.fatal = r.fatal
                                              /\ ~ContainsOnlyWarnings(e.list)
            \/ e.errors > c_maxErrorsAllowed /\ e.fatal = TRUE
<1> DEFINE k == CountError(r)
<1>1. /\ k \in ReporterType /\ k.errors = r.errors + 1 /\ k.fatal = r.fatal /\ k.list = r.list
      /\ r.list \in Seq(Types) /\ r.errors \in Nat /\ c_maxErrorsAllowed \in Nat
  BY CountErrorFields, LimitsAssumption DEF ReporterType
<1>2. "Error" \in Types /\ TooManyErrors \in Types /\ TooManyErrors # "Error"
  BY TypesDiffer DEF TooManyErrors
<1> HIDE DEF k
<1>3. CASE r.errors + 1 > c_maxErrorsAllowed
  <2> DEFINE t == Store(k, TooManyErrors)
  <2>1. /\ t \in ReporterType /\ t.errors = k.errors
        /\ ~ContainsOnlyWarnings(r.list) => ~ContainsOnlyWarnings(t.list)
    BY <1>1, <1>2, StoreFields, OnlyWarningsStored
  <2>2. ReportError(r) = Throw(t)
    BY <1>3 DEF ReportError, k
  <2> HIDE DEF t
  <2>3. /\ Throw(t) \in ReporterType /\ Throw(t).fatal = TRUE
        /\ Throw(t).errors = t.errors /\ Throw(t).list = t.list
    BY <2>1, ThrowFields
  <2> QED
    BY <1>1, <1>3, <2>1, <2>2, <2>3
<1>4. CASE ~(r.errors + 1 > c_maxErrorsAllowed)
  <2>1. ReportError(r) = Store(k, "Error")
    BY <1>4 DEF ReportError, k
  <2>2. /\ Store(k, "Error") \in ReporterType /\ Store(k, "Error").errors = k.errors
        /\ Store(k, "Error").fatal = k.fatal
        /\ ~ContainsOnlyWarnings(Store(k, "Error").list)
    BY <1>1, <1>2, StoreFields, OnlyWarningsStored
  <2> QED
    BY <1>1, <1>4, <2>1, <2>2
<1> QED
  BY <1>3, <1>4

-----------------------------------------------------------------------------
(***************************************************************************)
(* The invariant holds throughout any use of the reporter.                 *)
(***************************************************************************)
THEOREM ReporterInvariant == ReporterSpec => []ReporterInv
<1> QED
  BY ReporterInvInit, ReporterInvStep, PTL DEF ReporterSpec

(***************************************************************************)
(* error() and fatalError() throw FatalError only with something in the    *)
(* list, for the handlers that throw it again if the list is empty.        *)
(***************************************************************************)
THEOREM FatalHasEvidence == ReporterSpec => []FatalLeavesEvidence
<1>1. ReporterInv => FatalLeavesEvidence
  BY DEF ReporterInv, InvOf, EvidenceOf, FatalLeavesEvidence
<1> QED
  BY <1>1, ReporterInvariant, PTL

(***************************************************************************)
(* checkForExcessiveErrors keeps the list within c_maxErrorsAllowed errors *)
(* and c_maxWarningsAllowed warnings, and puts its notice about errors in  *)
(* it only for the errors beyond the limit.                                *)
(***************************************************************************)
THEOREM ListIsBounded == ReporterSpec => []StorageIsBounded
<1>1. ReporterInv => StorageIsBounded
  BY DEF ReporterInv, InvOf, ErrorsInv, NoticeInv, WarningsInv, StorageIsBounded, WarningEntries
<1> QED
  BY <1>1, ReporterInvariant, PTL
=============================================================================

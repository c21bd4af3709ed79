---------------------------- MODULE ErrorReporter ----------------------------
(***************************************************************************)
(* The error reporter shared by every stage of the compiler                *)
(* (libsolidity/interface/ErrorReporter.{h,cpp}, Exceptions.h): a list of  *)
(* diagnostics plus two counters that cap how many of them are kept.       *)
(*                                                                         *)
(* The state is one record so that a stage that reports several            *)
(* diagnostics in one step composes the operators below:                   *)
(*   list      m_errorList, as the sequence of the diagnostics' types; the *)
(*             two notices the reporter adds itself (both of type Warning) *)
(*             have an entry of their own                                  *)
(*   errors    m_errorCount                                                *)
(*   warnings  m_warningCount                                              *)
(*   fatal     a FatalError exception is propagating to the caller         *)
(***************************************************************************)
EXTENDS Naturals, Sequences, FiniteSets

CONSTANTS
  c_maxErrorsAllowed,    \* 256 in the code
  c_maxWarningsAllowed   \* 256 in the code

ASSUME LimitsAssumption ==
  /\ c_maxErrorsAllowed \in Nat \ {0}
  /\ c_maxWarningsAllowed \in Nat \ {0}

VARIABLE reporter

TooManyWarnings == "There are more than 256 warnings. Ignoring the rest."
TooManyErrors   == "There are more than 256 errors. Aborting."

\* Error::Type: the error types are told apart by nobody, so one stands for all.
WarningTypes == {"Warning", "SECBITWarning", TooManyWarnings, TooManyErrors}
Types        == WarningTypes \cup {"Error"}

ReporterType ==
  [list : Seq(Types), errors : Nat, warnings : Nat, fatal : BOOLEAN]

EmptyReporter == [list |-> <<>>, errors |-> 0, warnings |-> 0, fatal |-> FALSE]

ContainsOnlyWarnings(list) == \A i \in DOMAIN list : list[i] # "Error"

\* m_errorList.push_back
Store(r, entry) == [r EXCEPT !.list = Append(@, entry)]

CountWarning(r) == [r EXCEPT !.warnings = @ + 1]
CountError(r)   == [r EXCEPT !.errors = @ + 1]
Throw(r)        == [r EXCEPT !.fatal = TRUE]

\* Mutant: the notice is stored again and again.
ReportWarningAlways(r) ==
  Store(CountWarning(r), IF r.warnings + 1 < c_maxWarningsAllowed THEN "Warning"
                         ELSE TooManyWarnings)

(***************************************************************************)
(* warning(): counted first, and from the c_maxWarningsAllowed-th on only  *)
(* the notice is stored, once.                                             *)
(***************************************************************************)
ReportWarning(r) ==
  LET n == r.warnings + 1 IN
  IF n < c_maxWarningsAllowed THEN Store(CountWarning(r), "Warning")
  ELSE IF n = c_maxWarningsAllowed THEN Store(CountWarning(r), TooManyWarnings)
  ELSE CountWarning(r)

\* secbitWarning(): stored directly, neither counted nor capped.
ReportSECBITWarning(r) == Store(r, "SECBITWarning")

(***************************************************************************)
(* error() for the types other than Warning: beyond c_maxErrorsAllowed the *)
(* error is replaced by a notice of type Warning and FatalError is thrown. *)
(***************************************************************************)
ReportError(r) ==
  IF r.errors + 1 > c_maxErrorsAllowed THEN Throw(Store(CountError(r), TooManyErrors))
  ELSE Store(CountError(r), "Error")

\* fatalError(): error(), then FatalError is thrown in any case.
ReportFatalError(r) == Throw(ReportError(r))

\* clear() empties the list; the counters keep their values.
Clear(r) == [r EXCEPT !.list = <<>>]

-----------------------------------------------------------------------------
(***************************************************************************)
(* The reporter on its own: any caller reporting anything in any order.    *)
(* While FatalError propagates nobody reports.  Whoever catches it         *)
(* (Parser::parse, registerDeclarations, analyze) may go on reporting to   *)
(* the same list; parse() starts again with an empty one.                  *)
(***************************************************************************)
ReporterInit == reporter = EmptyReporter

Warn         == ~reporter.fatal /\ reporter' = ReportWarning(reporter)
WarnSECBIT   == ~reporter.fatal /\ reporter' = ReportSECBITWarning(reporter)
Fail         == ~reporter.fatal /\ reporter' = ReportError(reporter)
FailFatal    == ~reporter.fatal /\ reporter' = ReportFatalError(reporter)
Catch        == reporter.fatal /\ reporter' = [reporter EXCEPT !.fatal = FALSE]
Restart      == reporter' = [Clear(reporter) EXCEPT !.fatal = FALSE]

ReporterNext == Warn \/ WarnSECBIT \/ Fail \/ FailFatal \/ Catch \/ Restart

ReporterSpec == ReporterInit /\ [][ReporterNext]_reporter

-----------------------------------------------------------------------------
Count(list, T) == Cardinality({i \in DOMAIN list : list[i] \in T})

\* The members of the reporter have their types.
ReporterTypeOK == reporter \in ReporterType

(***************************************************************************)
(* A FatalError never travels with an empty list: every handler of it      *)
(* (Parser::parse, registerDeclarations, resolveNamesAndTypes, analyze)    *)
(* throws it again if errors() is empty.                                   *)
(***************************************************************************)
FatalLeavesEvidence == reporter.fatal => reporter.list # <<>>

(***************************************************************************)
(* However much is reported and however often FatalError is caught, the    *)
(* list never holds more than the allowed number of errors, fewer warnings *)
(* than allowed plus their notice, and the notice about errors only once   *)
(* the limit is passed, at most once for each error beyond it.  SECBIT     *)
(* warnings are outside all limits.                                        *)
(***************************************************************************)
StorageIsBounded ==
  /\ Count(reporter.list, {"Error"}) <= c_maxErrorsAllowed
  /\ Count(reporter.list, {"Warning", TooManyWarnings}) <= c_maxWarningsAllowed
  /\ \/ Count(reporter.list, {TooManyErrors}) = 0
     \/ c_maxErrorsAllowed + Count(reporter.list, {TooManyErrors}) <= reporter.errors
=============================================================================

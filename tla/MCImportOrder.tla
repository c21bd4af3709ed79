---------------------------- MODULE MCImportOrder ----------------------------
(***************************************************************************)
(* ImportOrder over every import graph on the given sources in which a     *)
(* source has at most MaxImports import directives.                        *)
(***************************************************************************)
EXTENDS ImportOrder, SequencesExt

CONSTANTS a, b, c, MaxImports

MCSources == {a, b, c}
MCImports == UNION {[1 .. n -> MCSources] : n \in 0 .. MaxImports}
\* m_sources is a map: its order is the names' order.
MCEntries == {SelectSeq(<<a, b, c>>, LAMBDA s : s \in S) : S \in SUBSET MCSources}
=============================================================================

----------------------------- MODULE ImportOrder -----------------------------
(***************************************************************************)
(* CompilerStack::resolveImports: the depth-first search that puts the     *)
(* sources in the order in which every later pass visits them, cutting     *)
(* import cycles.                                                          *)
(*                                                                         *)
(* The recursion of the lambda `toposort` is an explicit stack of frames,  *)
(* a frame being a source and the position of the import directive it      *)
(* looks at next.  A search d is a record:                                 *)
(*   roots  what is left of the loop over m_sources                        *)
(*   path   the frames of the toposort calls in progress, outermost first  *)
(*   seen   sourcesSeen                                                    *)
(*   order  sourceOrder                                                    *)
(***************************************************************************)
EXTENDS Naturals, Sequences

CONSTANTS
  Sources,   \* the sources of m_sources
  Imports,   \* the import lists a source may have: sequences of sources
  Entries    \* the lists of non-library sources, in the order of m_sources

ASSUME ImportsAssumption ==
  /\ Imports \subseteq Seq(Sources)
  /\ Entries \subseteq Seq(Sources)

VARIABLES
  imports,   \* imports[s]: the sources named by the import directives of s
  entries,   \* the non-library sources
  dfs        \* the search in progress

Frame == [source : Sources, next : Nat \ {0}]

SearchType ==
  [roots : Seq(Sources), path : Seq(Frame), seen : SUBSET Sources,
   order : Seq(Sources)]

StartSearch(roots) ==
  [roots |-> roots, path |-> <<>>, seen |-> {}, order |-> <<>>]

\* Mutant: only the sources on the path count as seen.
EnterIfOffPath(d, s) ==
  IF \E i \in DOMAIN d.path : d.path[i].source = s THEN d
  ELSE [d EXCEPT !.seen = @ \cup {s},
                 !.path = Append(@, [source |-> s, next |-> 1])]

\* A call of toposort(s): returns at once if s has been seen.
Enter(d, s) ==
  IF s \in d.seen THEN d
  ELSE [d EXCEPT !.seen = @ \cup {s},
                 !.path = Append(@, [source |-> s, next |-> 1])]

Finished(d) == d.path = <<>> /\ d.roots = <<>>

Top(d) == d.path[Len(d.path)]

\* Mutant: the loop does not advance past a source.
NextRootAgain(d) == Enter(d, Head(d.roots))

\* Mutant: the loop ends after its first source.
NextRootOnly(d) == Enter([d EXCEPT !.roots = <<>>], Head(d.roots))

\* The loop over m_sources calls toposort for the next non-library source.
NextRoot(d) == Enter([d EXCEPT !.roots = Tail(@)], Head(d.roots))

\* Mutant: every second directive is passed over.
FollowEverySecond(d, imp) ==
  LET f == Top(d) IN
  Enter([d EXCEPT !.path[Len(d.path)] = [f EXCEPT !.next = @ + 2]],
        imp[f.source][f.next])

\* The innermost call follows its next import directive.
Follow(d, imp) ==
  LET f == Top(d) IN
  Enter([d EXCEPT !.path[Len(d.path)] = [f EXCEPT !.next = @ + 1]],
        imp[f.source][f.next])

\* Mutant: the order is built from the front.
LeaveToFront(d) ==
  [d EXCEPT !.order = <<Top(d).source>> \o @,
            !.path = SubSeq(@, 1, Len(@) - 1)]

\* The innermost call has no directive left: sourceOrder.push_back and return.
Leave(d) ==
  [d EXCEPT !.order = Append(@, Top(d).source),
            !.path = SubSeq(@, 1, Len(@) - 1)]

-----------------------------------------------------------------------------
Init ==
  /\ imports \in [Sources -> Imports]
  /\ entries \in Entries
  /\ dfs = StartSearch(entries)

TakeRoot ==
  /\ dfs.path = <<>> /\ dfs.roots # <<>>
  /\ dfs' = NextRoot(dfs)
  /\ UNCHANGED <<imports, entries>>

FollowImport ==
  /\ dfs.path # <<>>
  /\ Top(dfs).next <= Len(imports[Top(dfs).source])
  /\ dfs' = Follow(dfs, imports)
  /\ UNCHANGED <<imports, entries>>

LeaveSource ==
  /\ dfs.path # <<>>
  /\ Top(dfs).next > Len(imports[Top(dfs).source])
  /\ dfs' = Leave(dfs)
  /\ UNCHANGED <<imports, entries>>

Next == TakeRoot \/ FollowImport \/ LeaveSource

vars == <<imports, entries, dfs>>

Spec == Init /\ [][Next]_vars

\* resolveImports is a straight call: it runs until it returns.
FairSpec == Spec /\ WF_vars(Next)
-----------------------------------------------------------------------------
\* Sources on the path, and sources already emitted.
OnPath(d)  == {d.path[i].source : i \in DOMAIN d.path}
Emitted(d) == {d.order[i] : i \in DOMAIN d.order}

ImportsOf(imp, s) == {imp[s][i] : i \in DOMAIN imp[s]}

Closed(imp, C) == \A s \in C : ImportsOf(imp, s) \subseteq C

\* Following the import directives imp from s one can arrive at t.
Reaches(imp, s, t) ==
  \A C \in SUBSET Sources : s \in C /\ Closed(imp, C) => t \in C

\* The search record has the shape resolveImports gives it.
TypeOK ==
  /\ imports \in [Sources -> Imports]
  /\ entries \in Entries
  /\ dfs \in SearchType
  /\ \A i \in DOMAIN dfs.path :
       dfs.path[i].next <= Len(imports[dfs.path[i].source]) + 1

(***************************************************************************)
(* No source is visited twice by a pass: sourceOrder has no duplicates,    *)
(* whatever cycles, self-imports and repeated directives there are.        *)
(***************************************************************************)
NoDuplicates ==
  \A i, j \in DOMAIN dfs.order : i # j => dfs.order[i] # dfs.order[j]

(***************************************************************************)
(* "topological sorting of the import graph, cutting potential cycles":    *)
(* a source comes after everything it imports, and an import may come      *)
(* later only when it leads back to the source, i.e. on a cycle.           *)
(***************************************************************************)
ImportsFirst ==
  \A i \in DOMAIN dfs.order : \A t \in ImportsOf(imports, dfs.order[i]) :
     \/ \E j \in 1 .. i - 1 : dfs.order[j] = t
     \/ Reaches(imports, t, dfs.order[i])

(***************************************************************************)
(* When resolveImports returns, the order holds exactly the sources that   *)
(* the non-library sources need: library sources nobody imports are left   *)
(* out of every pass, and nothing that is imported is.                     *)
(***************************************************************************)
CoversReachable ==
  Finished(dfs) =>
    \A t \in Sources :
      t \in Emitted(dfs)
        <=> \E i \in DOMAIN entries : Reaches(imports, entries[i], t)

\* resolveImports returns, cycles in the import graph or not.
Terminates == <>Finished(dfs)

-----------------------------------------------------------------------------
(***************************************************************************)
(* The inductive invariant behind the three safety properties.             *)
(***************************************************************************)
\* Every source seen is on the path or emitted, never both.
SeenSplit ==
  /\ dfs.seen = OnPath(dfs) \cup Emitted(dfs)
  /\ OnPath(dfs) \cap Emitted(dfs) = {}
  /\ \A i, j \in DOMAIN dfs.path :
       i # j => dfs.path[i].source # dfs.path[j].source

\* What a frame has followed has been seen.
FollowedSeen ==
  \A i \in DOMAIN dfs.path : \A k \in 1 .. dfs.path[i].next - 1 :
     imports[dfs.path[i].source][k] \in dfs.seen

\* A frame was entered from the one below it.
PathConnected ==
  \A i, j \in DOMAIN dfs.path :
     i <= j => Reaches(imports, dfs.path[i].source, dfs.path[j].source)

\* What an emitted source imports has been seen.
EmittedFollowed == \A s \in Emitted(dfs) : ImportsOf(imports, s) \subseteq dfs.seen

\* The loop over m_sources has either seen an entry or still has to take it.
EntriesKept ==
  /\ \A i \in DOMAIN entries :
       \/ entries[i] \in dfs.seen
       \/ \E j \in DOMAIN dfs.roots : dfs.roots[j] = entries[i]
  /\ \A j \in DOMAIN dfs.roots : \E i \in DOMAIN entries : entries[i] = dfs.roots[j]

SeenReachable ==
  \A s \in dfs.seen : \E i \in DOMAIN entries : Reaches(imports, entries[i], s)

IInv ==
  /\ TypeOK
  /\ SeenSplit
  /\ FollowedSeen
  /\ PathConnected
  /\ EmittedFollowed
  /\ EntriesKept
  /\ SeenReachable
  /\ NoDuplicates
  /\ ImportsFirst
=============================================================================

--------------------------- MODULE SECBITContracts ---------------------------
(***************************************************************************)
(* The table of ERC20 contracts SECBITChecker keeps over all sources       *)
(* (m_ERC20Contracts): filled by visit(ContractDefinition), keyed by the   *)
(* bare contract name, and reported on after every source                  *)
(* (checkSyntax, reportERC20PropertyIssues).                               *)
(*                                                                         *)
(* A base is the contract the path in the list of bases resolves to.  The  *)
(* checker looks at the last word of that path instead.  An import can     *)
(* give a contract any name ("import {A as X}", "is X"; "import ... as M", *)
(* "is M.X"), so that word may be the name of the base, of another         *)
(* contract, of the contract itself or of none.                            *)
(***************************************************************************)
EXTENDS Naturals, Sequences, FiniteSets

CONSTANTS
  Names,          \* names of contracts, given or written, other than SafeMath, which is skipped
  ERC20Names,     \* those isERC20Name accepts
  asERC20,        \* the --erc20 option
  Shapes,         \* what a contract declares itself: see ShapeType
  MaxContracts,   \* bound on the number of contracts
  MaxSources,     \* bound on the number of sources
  None            \* no entry

Properties == {"name", "decimals", "symbol"}

\* has: declared state variables and functions; api: transfer, transferFrom and approve;
\* interface: a library, or a function without a body.
ShapeType == [has : SUBSET Properties, mint : BOOLEAN, api : BOOLEAN, interface : BOOLEAN]

EntryType == [has : SUBSET Properties, mintable : BOOLEAN, isBase : BOOLEAN]

ASSUME ContractsAssumption ==
  /\ ERC20Names \subseteq Names
  /\ asERC20 \in BOOLEAN
  /\ Shapes \subseteq ShapeType
  /\ MaxContracts \in Nat /\ MaxSources \in Nat
  /\ None \notin EntryType

VARIABLES
  table,      \* m_ERC20Contracts
  declared,   \* the contracts visited, in order
  source,     \* the number of the source being visited
  warned      \* what the last step reported: pairs of a contract name and an issue

vars == <<table, declared, source, warned>>

Init ==
  /\ table = [n \in Names |-> None]
  /\ declared = <<>>
  /\ source = 1
  /\ warned = {}

\* The words a contract writes for its bases, by the contract meant: namePath().back().
Written(bases) == {bases[b] : b \in DOMAIN bases}

\* isERC20Contract
IsERC20Contract(name, written, shape) ==
  /\ ~shape.interface
  /\ \/ written \cap ERC20Names # {}
     \/ name \in ERC20Names
     \/ asERC20 /\ shape.api

\* Mutant: what a base has is not inherited.
EntryAlone(name, written, shape) ==
  [has |-> shape.has, mintable |-> shape.mint,
   isBase |-> table[name] # None /\ table[name].isBase]

\* The entry of a contract: its own members and those of what the table has under
\* the written words.  Under its own name it finds what it has just entered.
Entry(name, written, shape) ==
  LET listed == {w \in written \ {name} : table[w] # None} IN
  [has |-> shape.has \cup UNION {table[w].has : w \in listed},
   mintable |-> shape.mint \/ \E w \in listed : table[w].mintable,
   isBase |-> table[name] # None /\ table[name].isBase]

\* Mutant: once a contract inherits, everything in the table counts as a base.
MarkedAll(t, written) ==
  [n \in Names |-> IF written # {} /\ t[n] # None THEN [t[n] EXCEPT !.isBase = TRUE] ELSE t[n]]

\* Mutant: bases are not marked.
MarkedNot(t, written) == t

Marked(t, written) ==
  [n \in Names |-> IF n \in written /\ t[n] # None THEN [t[n] EXCEPT !.isBase = TRUE] ELSE t[n]]

(***************************************************************************)
(* visit(ContractDefinition).  Bases, by their number in declared, precede *)
(* the contract: the resolver sees to that.                                *)
(***************************************************************************)
VisitContract(name, bases, shape) ==
  LET written == Written(bases)
      erc20   == IsERC20Contract(name, written, shape)
  IN
  /\ Len(declared) < MaxContracts
  /\ \A i \in DOMAIN declared : declared[i].source = source => declared[i].name # name
  /\ table' = IF erc20
                THEN Marked([table EXCEPT ![name] = Entry(name, written, shape)], written)
                ELSE table
  /\ declared' = Append(declared, [name |-> name, bases |-> bases, shape |-> shape,
                                   source |-> source, erc20 |-> erc20])
  /\ warned' = {}
  /\ UNCHANGED source

\* reportERC20PropertyIssues: everything in the table, at the end of every source.
Issues(t) ==
  {<<n, "mintable">> : n \in {m \in Names : t[m] # None /\ t[m].mintable}}
  \cup {np \in Names \X Properties :
           t[np[1]] # None /\ ~t[np[1]].isBase /\ np[2] \notin t[np[1]].has}

EndSource ==
  /\ source <= MaxSources
  /\ source' = source + 1
  /\ warned' = Issues(table)
  /\ UNCHANGED <<table, declared>>

Next ==
  \/ /\ source <= MaxSources
     /\ \E n \in Names, bs \in SUBSET DOMAIN declared, s \in Shapes :
          \E bases \in [bs -> Names] : VisitContract(n, bases, s)
  \/ EndSource

Spec == Init /\ [][Next]_vars

-----------------------------------------------------------------------------
NamesAreUnique == \A i, j \in DOMAIN declared : declared[i].name = declared[j].name => i = j

Contracts == DOMAIN declared

\* A contract written as a base under its own name; a contract that does so with all its bases.
KeepsName(i, b) == declared[i].bases[b] = declared[b].name
KeepsNames(i) == \A b \in DOMAIN declared[i].bases : KeepsName(i, b)

\* The bases the checker recognises: the table has them, under the word that is written.
KnownBases(i) == {b \in DOMAIN declared[i].bases : declared[b].erc20 /\ KeepsName(i, b)}

\* i and what is reached from it through bases: the least set with i that has
\* the bases of its members.
Ancestors(i) ==
  {m \in Contracts :
     \A S \in SUBSET Contracts :
       i \in S /\ (\A x \in S : DOMAIN declared[x].bases \subseteq S) => m \in S}

\* The same through bases the checker recognises.
KnownAncestors(i) ==
  {m \in Contracts :
     \A S \in SUBSET Contracts : i \in S /\ (\A x \in S : KnownBases(x) \subseteq S) => m \in S}

\* An ERC20 contract derives from i and says so; one writes the name for some base.
IsKnownBase(i) == \E j \in Contracts : declared[j].erc20 /\ i \in KnownBases(j)

IsWrittenAsBase(name) ==
  \E j \in Contracts : declared[j].erc20 /\ name \in Written(declared[j].bases)

(***************************************************************************)
(* As long as contract names are unique, an ERC20 contract that lacks a    *)
(* property, in itself and in everything it inherits, is reported, unless  *)
(* its name is written as that of a base or something it inherits writes   *)
(* a base under another name than its own: then the entry of another       *)
(* contract may count for it.  One that can mint is reported, by itself or *)
(* through recognised bases at any distance.                               *)
(***************************************************************************)
MissingIsReported(i, p) ==
  /\ ~IsWrittenAsBase(declared[i].name)
  /\ \A m \in Ancestors(i) : p \notin declared[m].shape.has /\ KeepsNames(m)
  => <<declared[i].name, p>> \in warned'

MintingIsReported(i) ==
  (\E m \in KnownAncestors(i) : declared[m].shape.mint)
    => <<declared[i].name, "mintable">> \in warned'

Reporting == source' # source /\ NamesAreUnique

GapsAreReported ==
  [][ Reporting =>
        \A i \in Contracts : declared[i].erc20 =>
          MintingIsReported(i) /\ \A p \in Properties : MissingIsReported(i, p) ]_vars

(***************************************************************************)
(* A property a contract declares itself, or gets from a recognised base   *)
(* at any distance through such bases, is never reported missing, whatever *)
(* its other bases are and however they are written.                       *)
(***************************************************************************)
OwnPropertiesAreSeen ==
  [][ Reporting =>
        \A i \in Contracts, p \in Properties : <<declared[i].name, p>> \in warned' =>
          \A m \in KnownAncestors(i) : p \notin declared[m].shape.has ]_vars

(***************************************************************************)
(* "Do not report on base contracts.": once an ERC20 contract derived from *)
(* it, under its own name, has been visited, in whichever source, a base   *)
(* is not reported for what it lacks.                                      *)
(***************************************************************************)
BasesAreSilent ==
  [][ Reporting =>
        \A i \in Contracts, p \in Properties :
          IsKnownBase(i) => <<declared[i].name, p>> \notin warned' ]_vars

=============================================================================

------------------------ MODULE SECBITContractsProofs ------------------------
(***************************************************************************)
(* What SECBITChecker reports about ERC20 contracts, for any number of     *)
(* contracts and sources and any inheritance, however bases are written,   *)
(* as long as no two contracts have the same name.                         *)
(***************************************************************************)
EXTENDS SECBITContracts, TLAPS

-----------------------------------------------------------------------------
(***************************************************************************)
(* The inductive invariant.                                                *)
(***************************************************************************)
BasesType == UNION {[bs -> Names] : bs \in SUBSET Nat}

ContractType ==
  [name : Names, bases : BasesType, shape : ShapeType, source : Nat, erc20 : BOOLEAN]

TypeInv ==
  /\ table \in [Names -> EntryType \cup {None}]
  /\ declared \in Seq(ContractType)
  /\ source \in Nat

\* Bases are declared before.
BasesInv == \A i \in Contracts : \A b \in DOMAIN declared[i].bases : b \in Contracts /\ b < i

\* The table has the ERC20 contracts; those that are bases under their own name are
\* marked, and those marked are written as bases.
ListedInv ==
  \A i \in Contracts :
    /\ table[declared[i].name] # None <=> declared[i].erc20
    /\ declared[i].erc20 =>
         /\ IsKnownBase(i) => table[declared[i].name].isBase
         /\ table[declared[i].name].isBase => IsWrittenAsBase(declared[i].name)

\* What a contract has: its own, that of the bases the checker recognises and, unless a
\* base among its ancestors goes by another name, nothing but inherited members.
EntryInv(i) ==
  LET e == table[declared[i].name] IN
  /\ declared[i].shape.has \subseteq e.has
  /\ declared[i].shape.mint => e.mintable
  /\ \A b \in KnownBases(i) :
       /\ table[declared[b].name].has \subseteq e.has
       /\ table[declared[b].name].mintable => e.mintable
  /\ \A p \in e.has : \E m \in Ancestors(i) : p \in declared[m].shape.has \/ ~KeepsNames(m)

EntriesInv == \A i \in Contracts : declared[i].erc20 => EntryInv(i)

UndeclaredInv == \A n \in Names : (\A i \in Contracts : declared[i].name # n) => table[n] = None

IInv ==
  /\ TypeInv /\ BasesInv /\ UndeclaredInv
  /\ NamesAreUnique => ListedInv /\ EntriesInv

-----------------------------------------------------------------------------
(***************************************************************************)
(* Contracts and ancestors.                                                *)
(***************************************************************************)
ContractsAreTyped ==
  \A i \in Contracts :
    /\ declared[i].name \in Names
    /\ declared[i].shape \in ShapeType
    /\ declared[i].erc20 \in BOOLEAN
    /\ \A b \in DOMAIN declared[i].bases : declared[i].bases[b] \in Names

\* The contracts declared have the type of contracts.
LEMMA ContractFacts == TypeInv => ContractsAreTyped
<1> SUFFICES ASSUME TypeInv, NEW i \in Contracts
             PROVE  /\ declared[i].name \in Names
                    /\ declared[i].shape \in ShapeType
                    /\ declared[i].erc20 \in BOOLEAN
                    /\ \A b \in DOMAIN declared[i].bases : declared[i].bases[b] \in Names
  BY DEF ContractsAreTyped
<1>1. declared[i] \in ContractType
  BY DEF TypeInv, Contracts
<1>2. PICK bs \in SUBSET Nat : declared[i].bases \in [bs -> Names]
  BY <1>1 DEF ContractType, BasesType
<1> QED
  BY <1>1, <1>2 DEF ContractType

AncestorsAreInherited ==
  \A i \in Contracts :
    /\ i \in Ancestors(i) /\ Ancestors(i) \subseteq Contracts
    /\ \A b \in DOMAIN declared[i].bases : Ancestors(b) \subseteq Ancestors(i)

\* A contract is its own ancestor, and the ancestors of a base are ancestors.
LEMMA AncestorFacts == AncestorsAreInherited
<1> SUFFICES ASSUME NEW i \in Contracts
             PROVE  /\ i \in Ancestors(i) /\ Ancestors(i) \subseteq Contracts
                    /\ \A b \in DOMAIN declared[i].bases : Ancestors(b) \subseteq Ancestors(i)
  BY DEF AncestorsAreInherited
<1>1. i \in Ancestors(i) /\ Ancestors(i) \subseteq Contracts
  BY DEF Ancestors
<1>2. ASSUME NEW b \in DOMAIN declared[i].bases, NEW m \in Ancestors(b) PROVE m \in Ancestors(i)
  <2>1. m \in Contracts
    BY <1>2 DEF Ancestors
  <2>2. ASSUME NEW S \in SUBSET Contracts, i \in S,
               \A x \in S : DOMAIN declared[x].bases \subseteq S
        PROVE  m \in S
    <3>1. b \in S
      BY <1>2, <2>2
    <3> QED
      BY <1>2, <2>2, <3>1 DEF Ancestors
  <2> QED
    BY <2>1, <2>2 DEF Ancestors
<1> QED
  BY <1>1, <1>2

\* What the contracts recognised as its ancestors have, an ERC20 contract has.
LEMMA LineageFacts ==
  ASSUME IInv, NamesAreUnique, NEW i \in Contracts, declared[i].erc20,
         NEW m \in KnownAncestors(i)
  PROVE  /\ declared[m].shape.has \subseteq table[declared[i].name].has
         /\ declared[m].shape.mint => table[declared[i].name].mintable
<1> DEFINE e(x) == table[declared[x].name]
           S == {x \in Contracts :
                   /\ declared[x].erc20
                   /\ e(x).has \subseteq e(i).has
                   /\ e(x).mintable => e(i).mintable}
<1>1. i \in S /\ S \in SUBSET Contracts
  OBVIOUS
<1>2. ASSUME NEW x \in S, NEW b \in KnownBases(x) PROVE b \in S
  <2>1. b \in Contracts /\ declared[b].erc20
    BY <1>2 DEF KnownBases, IInv, BasesInv
  <2>2. e(b).has \subseteq e(x).has /\ (e(b).mintable => e(x).mintable)
    BY <1>2 DEF IInv, EntriesInv, EntryInv
  <2> QED
    BY <1>2, <2>1, <2>2
<1> HIDE DEF S
<1>3. m \in S
  BY <1>1, <1>2 DEF KnownAncestors
<1>4. m \in Contracts /\ declared[m].erc20
  BY <1>3 DEF S
<1>5. declared[m].shape.has \subseteq e(m).has /\ (declared[m].shape.mint => e(m).mintable)
  BY <1>4 DEF IInv, EntriesInv, EntryInv
<1> QED
  BY <1>3, <1>5 DEF S

-----------------------------------------------------------------------------
(***************************************************************************)
(* Every step keeps the invariant.                                         *)
(***************************************************************************)
\* Nothing is declared and the table is empty.
LEMMA InitInv == Init => IInv
<1> SUFFICES ASSUME Init PROVE IInv
  OBVIOUS
<1>1. Contracts = {} /\ declared \in Seq(ContractType)
  BY DEF Init, Contracts
<1>2. TypeInv /\ BasesInv /\ UndeclaredInv
  BY <1>1 DEF Init, TypeInv, BasesInv, UndeclaredInv
<1>3. ListedInv /\ EntriesInv
  BY <1>1 DEF ListedInv, EntriesInv
<1> QED
  BY <1>2, <1>3 DEF IInv

\* Marking bases: the entries that are there keep what they have, and only those
\* under a written word become bases.
LEMMA MarkedFacts ==
  ASSUME NEW t \in [Names -> EntryType \cup {None}], NEW written \in SUBSET Names
  PROVE  /\ Marked(t, written) \in [Names -> EntryType \cup {None}]
         /\ \A n \in Names : Marked(t, written)[n] # None <=> t[n] # None
         /\ \A n \in Names : t[n] # None =>
              /\ Marked(t, written)[n].has = t[n].has
              /\ Marked(t, written)[n].mintable = t[n].mintable
              /\ Marked(t, written)[n].isBase <=> t[n].isBase \/ n \in written
<1> SUFFICES ASSUME NEW n \in Names
             PROVE  /\ Marked(t, written)[n] \in EntryType \cup {None}
                    /\ Marked(t, written)[n] # None <=> t[n] # None
                    /\ t[n] # None =>
                         /\ Marked(t, written)[n].has = t[n].has
                         /\ Marked(t, written)[n].mintable = t[n].mintable
                         /\ Marked(t, written)[n].isBase <=> t[n].isBase \/ n \in written
  BY DEF Marked
<1>1. CASE n \in written /\ t[n] # None
  <2>1. Marked(t, written)[n] = [t[n] EXCEPT !.isBase = TRUE] /\ t[n] \in EntryType
    BY <1>1 DEF Marked
  <2>2. Marked(t, written)[n] \in EntryType /\ None \notin EntryType
    BY <2>1, ContractsAssumption DEF EntryType
  <2>3. /\ Marked(t, written)[n].has = t[n].has
        /\ Marked(t, written)[n].mintable = t[n].mintable
        /\ Marked(t, written)[n].isBase
    BY <2>1 DEF EntryType
  <2> QED
    BY <1>1, <2>2, <2>3
<1>2. CASE ~(n \in written /\ t[n] # None)
  <2>1. Marked(t, written)[n] = t[n]
    BY <1>2 DEF Marked
  <2> QED
    BY <1>2, <2>1
<1> QED
  BY <1>1, <1>2

\* The new entry has its type, what the contract declares and what is under the
\* written words.
LEMMA EntryFacts ==
  ASSUME TypeInv, NEW name \in Names, NEW written \in SUBSET Names, NEW shape \in Shapes
  PROVE  LET e == Entry(name, written, shape) IN
         /\ e \in EntryType /\ e # None
         /\ shape.has \subseteq e.has /\ (shape.mint => e.mintable)
         /\ \A w \in written \ {name} : table[w] # None =>
              table[w].has \subseteq e.has /\ (table[w].mintable => e.mintable)
         /\ \A p \in e.has : \/ p \in shape.has
                             \/ \E w \in written \ {name} : table[w] # None /\ p \in table[w].has
         /\ e.isBase <=> table[name] # None /\ table[name].isBase
<1> DEFINE e == Entry(name, written, shape)
<1>1. shape.has \in SUBSET Properties /\ shape.mint \in BOOLEAN
  BY ContractsAssumption DEF ShapeType
<1>2. \A w \in written : table[w] # None => table[w].has \subseteq Properties
  BY DEF TypeInv, EntryType
<1>3. e.has \subseteq Properties
  BY <1>1, <1>2 DEF Entry
<1>4. e.mintable \in BOOLEAN /\ e.isBase \in BOOLEAN
  BY DEF Entry
<1>5. e = [has |-> e.has, mintable |-> e.mintable, isBase |-> e.isBase]
  BY DEF Entry
<1> HIDE DEF e
<1>6. e \in EntryType
  BY <1>3, <1>4, <1>5 DEF EntryType
<1>7. e # None
  BY <1>6, ContractsAssumption
<1> USE DEF e
<1>8. e \in EntryType /\ e # None
  BY <1>6, <1>7
<1> QED
  BY <1>8 DEF Entry

\* What a new contract leaves as it was, when its name is new.
Extended(k) ==
  /\ NamesAreUnique /\ \A i \in Contracts : declared[i].name # declared'[k].name
  /\ \A i \in Contracts :
       /\ i # k
       /\ KnownBases(i)' = KnownBases(i)
       /\ KeepsNames(i)' <=> KeepsNames(i)
       /\ Ancestors(i) \subseteq Ancestors(i)'

\* A contract under a new name: what was declared stays, with its bases and ancestors.
LEMMA NewNameFacts ==
  ASSUME IInv, NEW k, k \notin Contracts, Contracts' = Contracts \cup {k},
         \A i \in Contracts : declared'[i] = declared[i], NamesAreUnique'
  PROVE  Extended(k)
<1>1. NamesAreUnique /\ \A i \in Contracts : declared[i].name # declared'[k].name
  BY DEF NamesAreUnique, Contracts
<1>2. \A i \in Contracts : DOMAIN declared[i].bases \subseteq Contracts
  BY DEF IInv, BasesInv
<1>3. ASSUME NEW i \in Contracts
      PROVE  KnownBases(i)' = KnownBases(i) /\ (KeepsNames(i)' <=> KeepsNames(i))
  BY <1>2, <1>3 DEF KnownBases, KeepsNames, KeepsName
<1>4. ASSUME NEW i \in Contracts, NEW m \in Ancestors(i) PROVE m \in Ancestors(i)'
  <2>1. m \in Contracts'
    BY <1>4 DEF Ancestors
  <2>2. ASSUME NEW S \in SUBSET Contracts', i \in S,
               \A x \in S : DOMAIN declared'[x].bases \subseteq S
        PROVE  m \in S
    <3> DEFINE T == S \ {k}
    <3>1. T \in SUBSET Contracts /\ i \in T
      BY <2>2
    <3>2. \A x \in T : DOMAIN declared[x].bases \subseteq T
      BY <1>2, <2>2, <3>1
    <3> HIDE DEF T
    <3>3. m \in T
      BY <1>4, <3>1, <3>2 DEF Ancestors
    <3> QED
      BY <3>3 DEF T
  <2> QED
    BY <2>1, <2>2 DEF Ancestors
<1> QED
  BY <1>1, <1>3, <1>4 DEF Extended

\* visit(ContractDefinition) keeps the invariant: what is new in the table is the entry
\* of the contract, and the marks of what it writes.
LEMMA VisitKeeps ==
  ASSUME IInv, NEW name \in Names, NEW bs \in SUBSET DOMAIN declared, NEW shape \in Shapes,
         NEW bases \in [bs -> Names], VisitContract(name, bases, shape)
  PROVE  IInv'
<1> DEFINE written == Written(bases)
           erc20 == IsERC20Contract(name, written, shape)
           c == [name |-> name, bases |-> bases, shape |-> shape, source |-> source,
                 erc20 |-> erc20]
           e == Entry(name, written, shape)
           t == [table EXCEPT ![name] = e]
<1>0. PICK k : k = Len(declared) + 1
  OBVIOUS
<1>1. /\ declared' = Append(declared, c) /\ source' = source
      /\ table' = IF erc20 THEN Marked(t, written) ELSE table
  BY DEF VisitContract
<1>2. written \in SUBSET Names /\ bs \subseteq Nat /\ declared \in Seq(ContractType)
  BY DEF Written, IInv, TypeInv
<1>3. c \in ContractType /\ erc20 \in BOOLEAN
  <2>1. bases \in BasesType
    BY <1>2 DEF BasesType
  <2>2. erc20 \in BOOLEAN /\ shape \in ShapeType /\ source \in Nat
    BY ContractsAssumption DEF IsERC20Contract, IInv, TypeInv
  <2> QED
    BY <2>1, <2>2 DEF ContractType
<1>4. /\ c.name = name /\ c.bases = bases /\ c.shape = shape /\ c.erc20 = erc20
      /\ DOMAIN bases = bs
  OBVIOUS
<1>5. /\ e \in EntryType /\ e # None
      /\ shape.has \subseteq e.has /\ (shape.mint => e.mintable)
      /\ \A w \in written \ {name} : table[w] # None =>
           table[w].has \subseteq e.has /\ (table[w].mintable => e.mintable)
      /\ \A p \in e.has : \/ p \in shape.has
                          \/ \E w \in written \ {name} : table[w] # None /\ p \in table[w].has
      /\ e.isBase <=> table[name] # None /\ table[name].isBase
  BY <1>2, EntryFacts DEF IInv
<1>6. \A n : n \in written <=> \E b \in bs : bases[b] = n
  BY DEF Written
<1>7. /\ Contracts' = Contracts \cup {k} /\ k \notin Contracts
      /\ declared'[k] = c
      /\ \A i \in Contracts : declared'[i] = declared[i] /\ i < k /\ i \in Nat
  BY <1>0, <1>1, <1>2, <1>3 DEF Contracts
<1> HIDE DEF written, erc20, c, e
<1>8. /\ t \in [Names -> EntryType \cup {None}]
      /\ t[name] = e /\ \A n \in Names : n # name => t[n] = table[n]
  BY <1>5 DEF IInv, TypeInv
<1> HIDE DEF t
<1>9. /\ Marked(t, written) \in [Names -> EntryType \cup {None}]
      /\ \A n \in Names : Marked(t, written)[n] # None <=> t[n] # None
      /\ \A n \in Names : t[n] # None =>
           /\ Marked(t, written)[n].has = t[n].has
           /\ Marked(t, written)[n].mintable = t[n].mintable
           /\ Marked(t, written)[n].isBase <=> t[n].isBase \/ n \in written
  BY <1>2, <1>8, MarkedFacts
<1>10. TypeInv'
  BY <1>1, <1>3, <1>9 DEF IInv, TypeInv
<1>11. BasesInv'
  BY <1>4, <1>7 DEF IInv, BasesInv, Contracts
<1>12. UndeclaredInv'
  <2>1. ASSUME NEW n \in Names, \A i \in Contracts' : declared'[i].name # n PROVE table'[n] = None
    <3>1. n # name /\ \A i \in Contracts : declared[i].name # n
      BY <1>4, <1>7, <2>1
    <3>2. table[n] = None
      BY <3>1 DEF IInv, UndeclaredInv
    <3> QED
      BY <1>1, <1>8, <1>9, <3>1, <3>2
  <2> QED
    BY <2>1 DEF UndeclaredInv
<1>13. ASSUME NamesAreUnique' PROVE ListedInv' /\ EntriesInv'
  <2>1. /\ NamesAreUnique /\ \A i \in Contracts : declared[i].name # name
        /\ \A i \in Contracts :
             /\ i # k /\ KnownBases(i)' = KnownBases(i)
             /\ KeepsNames(i)' <=> KeepsNames(i)
             /\ Ancestors(i) \subseteq Ancestors(i)'
    BY <1>4, <1>7, <1>13, NewNameFacts DEF Extended
  <2>2. ContractsAreTyped /\ AncestorsAreInherited'
    BY ContractFacts, AncestorFacts, PTL DEF IInv
  <2>3. ListedInv /\ EntriesInv /\ table[name] = None
    BY <2>1 DEF IInv, UndeclaredInv
  <2>4. ASSUME NEW i \in Contracts
        PROVE  LET n == declared[i].name IN
               /\ table'[n] # None <=> table[n] # None
               /\ table[n] # None =>
                    /\ table'[n].has = table[n].has /\ table'[n].mintable = table[n].mintable
                    /\ table'[n].isBase <=> table[n].isBase \/ (erc20 /\ n \in written)
    <3>1. declared[i].name \in Names /\ declared[i].name # name
      BY <2>1, <2>2 DEF ContractsAreTyped
    <3> QED
      BY <1>1, <1>8, <1>9, <3>1
  <2>5. /\ table'[name] # None <=> erc20
        /\ erc20 =>
             /\ table'[name].has = e.has /\ table'[name].mintable = e.mintable
             /\ table'[name].isBase <=> name \in written
    BY <1>1, <1>5, <1>8, <1>9, <2>3
  <2>6. /\ \A n : IsWrittenAsBase(n)' <=> IsWrittenAsBase(n) \/ (erc20 /\ n \in written)
        /\ \A i \in Contracts : IsKnownBase(i)' =>
             IsKnownBase(i) \/ (erc20 /\ declared[i].name \in written)
        /\ ~IsKnownBase(k)'
    <3>1. Written(declared'[k].bases) = written /\ declared'[k].erc20 = erc20
      BY <1>4, <1>7 DEF written
    <3>2. \A n : IsWrittenAsBase(n)' <=> IsWrittenAsBase(n) \/ (erc20 /\ n \in written)
      BY <1>7, <3>1 DEF IsWrittenAsBase
    <3>3. ASSUME NEW i \in Contracts, IsKnownBase(i)'
          PROVE  IsKnownBase(i) \/ (erc20 /\ declared[i].name \in written)
      <4>1. PICK j \in Contracts' : declared'[j].erc20 /\ i \in KnownBases(j)'
        BY <3>3 DEF IsKnownBase
      <4>2. CASE j = k
        <5>1. i \in bs /\ bases[i] = declared[i].name
          BY <1>4, <1>7, <4>1, <4>2 DEF KnownBases, KeepsName
        <5> QED
          BY <1>6, <3>1, <4>1, <4>2, <5>1
      <4>3. CASE j # k
        BY <1>7, <2>1, <4>1, <4>3 DEF IsKnownBase
      <4> QED
        BY <4>2, <4>3
    <3>4. ASSUME NEW j \in Contracts' PROVE k \notin KnownBases(j)'
      <4>1. j = k \/ j < k
        BY <1>7
      <4>2. k \notin DOMAIN declared'[j].bases
        BY <1>0, <1>7, <1>11, <3>4, <4>1 DEF BasesInv
      <4> QED
        BY <4>2 DEF KnownBases
    <3> QED
      BY <3>2, <3>3, <3>4 DEF IsKnownBase
  <2>7. ASSUME NEW i \in Contracts'
        PROVE  /\ table'[declared'[i].name] # None <=> declared'[i].erc20
               /\ declared'[i].erc20 =>
                    /\ IsKnownBase(i)' => table'[declared'[i].name].isBase
                    /\ table'[declared'[i].name].isBase => IsWrittenAsBase(declared[i].name)'
    <3>1. CASE i = k
      BY <1>4, <1>7, <2>5, <2>6, <3>1
    <3>2. CASE i # k
      <4>1. i \in Contracts /\ declared'[i] = declared[i]
        BY <1>7, <3>2
      <4>2. /\ table[declared[i].name] # None <=> declared[i].erc20
            /\ declared[i].erc20 =>
                 /\ IsKnownBase(i) => table[declared[i].name].isBase
                 /\ table[declared[i].name].isBase => IsWrittenAsBase(declared[i].name)
        BY <2>3, <4>1 DEF ListedInv
      <4> QED
        BY <2>4, <2>6, <4>1, <4>2
    <3> QED
      BY <3>1, <3>2
  <2>8. ASSUME erc20 PROVE EntryInv(k)'
    <3>1. /\ declared'[k].name = name /\ declared'[k].shape = shape
          /\ table'[name].has = e.has /\ table'[name].mintable = e.mintable
      BY <1>4, <1>7, <2>5, <2>8
    <3>2. ASSUME NEW b \in KnownBases(k)'
          PROVE  /\ table'[declared'[b].name].has \subseteq e.has
                 /\ table'[declared'[b].name].mintable => e.mintable
      <4>1. b \in bs /\ b \in Contracts /\ declared[b].erc20 /\ bases[b] = declared[b].name
        BY <1>4, <1>7, <3>2 DEF KnownBases, KeepsName, Contracts
      <4>2. declared[b].name \in written \ {name} /\ table[declared[b].name] # None
        BY <1>6, <2>1, <2>3, <4>1 DEF ListedInv
      <4> QED
        BY <1>5, <1>7, <2>4, <4>1, <4>2
    <3>3. ASSUME NEW p \in e.has
          PROVE  \E m \in Ancestors(k)' : p \in declared'[m].shape.has \/ ~KeepsNames(m)'
      <4>1. k \in Ancestors(k)'
        BY <1>7, <2>2 DEF AncestorsAreInherited
      <4>2. CASE p \in shape.has \/ ~KeepsNames(k)'
        BY <3>1, <4>1, <4>2
      <4>3. CASE p \notin shape.has /\ KeepsNames(k)'
        <5>1. PICK w \in written \ {name} : table[w] # None /\ p \in table[w].has
          BY <1>5, <4>3
        <5>2. PICK b \in bs : bases[b] = w
          BY <1>6, <5>1
        <5>3. b \in Contracts /\ declared[b].name = w
          BY <1>4, <1>7, <4>3, <5>2 DEF KeepsNames, KeepsName, Contracts
        <5>4. declared[b].erc20
          BY <2>3, <5>1, <5>3 DEF ListedInv
        <5>5. PICK m \in Ancestors(b) : p \in declared[m].shape.has \/ ~KeepsNames(m)
          BY <2>3, <5>1, <5>3, <5>4 DEF EntriesInv, EntryInv
        <5>6. m \in Contracts
          BY <5>5 DEF Ancestors
        <5>7. Ancestors(b) \subseteq Ancestors(b)' /\ Ancestors(b)' \subseteq Ancestors(k)'
          BY <1>4, <1>7, <2>1, <2>2, <5>3 DEF AncestorsAreInherited
        <5> QED
          BY <1>7, <2>1, <5>5, <5>6, <5>7
      <4> QED
        BY <4>2, <4>3
    <3> QED
      BY <1>5, <3>1, <3>2, <3>3 DEF EntryInv
  <2>9. ASSUME NEW i \in Contracts, declared[i].erc20 PROVE EntryInv(i)'
    <3>1. EntryInv(i) /\ declared'[i] = declared[i] /\ table[declared[i].name] # None
      BY <1>7, <2>3, <2>9 DEF EntriesInv, ListedInv
    <3>2. /\ table'[declared[i].name].has = table[declared[i].name].has
          /\ table'[declared[i].name].mintable = table[declared[i].name].mintable
      BY <2>4, <3>1
    <3>3. ASSUME NEW b \in KnownBases(i)
          PROVE  /\ declared'[b] = declared[b]
                 /\ table'[declared[b].name].has = table[declared[b].name].has
                 /\ table'[declared[b].name].mintable = table[declared[b].name].mintable
      <4>1. b \in Contracts /\ declared[b].erc20
        BY <3>3 DEF KnownBases, IInv, BasesInv
      <4>2. table[declared[b].name] # None
        BY <2>3, <4>1 DEF ListedInv
      <4> QED
        BY <1>7, <2>4, <4>1, <4>2
    <3>4. ASSUME NEW p \in table[declared[i].name].has
          PROVE  \E m \in Ancestors(i)' : p \in declared'[m].shape.has \/ ~KeepsNames(m)'
      <4>1. PICK m \in Ancestors(i) : p \in declared[m].shape.has \/ ~KeepsNames(m)
        BY <3>1 DEF EntryInv
      <4>2. m \in Contracts /\ m \in Ancestors(i)'
        BY <2>1 DEF Ancestors
      <4> QED
        BY <1>7, <2>1, <4>1, <4>2
    <3> QED
      BY <2>1, <3>1, <3>2, <3>3, <3>4 DEF EntryInv
  <2>10. ListedInv'
    BY <2>7 DEF ListedInv
  <2>11. EntriesInv'
    BY <1>4, <1>7, <2>8, <2>9 DEF EntriesInv
  <2> QED
    BY <2>10, <2>11
<1> QED
  BY <1>10, <1>11, <1>12, <1>13 DEF IInv

\* Every step keeps the invariant: a contract is visited, or nothing it speaks of changes.
LEMMA NextInv == IInv /\ [Next]_vars => IInv'
<1> SUFFICES ASSUME IInv, [Next]_vars PROVE IInv'
  OBVIOUS
<1>1. ASSUME NEW n \in Names, NEW bs \in SUBSET DOMAIN declared, NEW s \in Shapes,
             NEW bases \in [bs -> Names], VisitContract(n, bases, s)
      PROVE  IInv'
  BY <1>1, VisitKeeps
<1>2. ASSUME UNCHANGED <<table, declared>>, source' \in Nat PROVE IInv'
  <2>1. (TypeInv /\ BasesInv /\ UndeclaredInv)'
    BY <1>2 DEF IInv, TypeInv, BasesInv, UndeclaredInv, Contracts
  <2>2. NamesAreUnique' <=> NamesAreUnique
    BY <1>2 DEF NamesAreUnique
  <2>3. ListedInv' <=> ListedInv
    BY <1>2 DEF ListedInv, Contracts, IsKnownBase, IsWrittenAsBase, KnownBases, KeepsName
  <2>4. EntriesInv' <=> EntriesInv
    BY <1>2 DEF EntriesInv, EntryInv, Contracts, Ancestors, KnownBases, KeepsNames, KeepsName
  <2> QED
    BY <2>1, <2>2, <2>3, <2>4 DEF IInv
<1>3. CASE EndSource
  BY <1>2, <1>3 DEF EndSource, IInv, TypeInv
<1>4. CASE UNCHANGED vars
  BY <1>2, <1>4 DEF vars, IInv, TypeInv
<1> QED
  BY <1>1, <1>3, <1>4 DEF Next

-----------------------------------------------------------------------------
(***************************************************************************)
(* The table of ERC20 contracts: in every state that visit and checkSyntax *)
(* reach under unique names, however bases are written, the table has an   *)
(* entry for exactly the ERC20 contracts, with all that the bases found    *)
(* under their own names have; it is marked as a base if such a contract   *)
(* derives from it, and only if its name is written as that of a base.     *)
(***************************************************************************)
THEOREM ContractsInvariant == Spec => []IInv
<1> QED
  BY InitInv, NextInv, PTL DEF Spec

\* A report is the end of a source.
LEMMA ReportFacts ==
  ASSUME IInv, [Next]_vars, Reporting
  PROVE  warned' = Issues(table) /\ ContractsAreTyped /\ ListedInv /\ EntriesInv
<1>1. EndSource
  BY DEF Next, vars, Reporting, VisitContract
<1> QED
  BY <1>1, ContractFacts DEF EndSource, Reporting, IInv

\* No property is called "mintable", so the two kinds of issue are told apart.
LEMMA IssueFacts ==
  ASSUME NEW t, NEW n \in Names
  PROVE  /\ <<n, "mintable">> \in Issues(t) <=> t[n] # None /\ t[n].mintable
         /\ \A p \in Properties :
              <<n, p>> \in Issues(t) <=> t[n] # None /\ ~t[n].isBase /\ p \notin t[n].has
<1>1. <<n, "mintable">> \in Issues(t) <=> t[n] # None /\ t[n].mintable
  BY DEF Issues, Properties
<1>2. ASSUME NEW p \in Properties
      PROVE  <<n, p>> \in Issues(t) <=> t[n] # None /\ ~t[n].isBase /\ p \notin t[n].has
  <2>1. p # "mintable"
    BY DEF Properties
  <2> QED
    BY <2>1 DEF Issues
<1> QED
  BY <1>1, <1>2

(***************************************************************************)
(* Theorem: what reportERC20PropertyIssues leaves out is there.  With      *)
(* unique names, an ERC20 contract is reported for a property its whole    *)
(* ancestry lacks, unless its name is written as that of a base or one of  *)
(* its ancestors writes a base under another name; one that can mint       *)
(* through recognised bases at any distance is reported.                   *)
(***************************************************************************)
THEOREM GapReports == Spec => GapsAreReported
<1>1. ASSUME IInv, [Next]_vars, Reporting, NEW i \in Contracts, declared[i].erc20
      PROVE  MintingIsReported(i) /\ \A p \in Properties : MissingIsReported(i, p)
  <2>1. warned' = Issues(table) /\ ContractsAreTyped /\ ListedInv /\ EntriesInv /\ NamesAreUnique
    BY <1>1, ReportFacts DEF Reporting
  <2>2. /\ declared[i].name \in Names /\ table[declared[i].name] # None
        /\ table[declared[i].name].isBase => IsWrittenAsBase(declared[i].name)
    BY <1>1, <2>1 DEF ContractsAreTyped, ListedInv
  <2>3. MintingIsReported(i)
    <3>1. ASSUME NEW m \in KnownAncestors(i), declared[m].shape.mint
          PROVE  table[declared[i].name].mintable
      BY <1>1, <2>1, <3>1, LineageFacts
    <3> QED
      BY <2>1, <2>2, <3>1, IssueFacts DEF MintingIsReported
  <2>4. ASSUME NEW p \in Properties PROVE MissingIsReported(i, p)
    <3>1. (\A m \in Ancestors(i) : p \notin declared[m].shape.has /\ KeepsNames(m))
            => p \notin table[declared[i].name].has
      BY <1>1, <2>1 DEF EntriesInv, EntryInv
    <3> QED
      BY <2>1, <2>2, <3>1, IssueFacts DEF MissingIsReported
  <2> QED
    BY <2>3, <2>4
<1> DEFINE body == Reporting =>
             \A i \in Contracts : declared[i].erc20 =>
               MintingIsReported(i) /\ \A p \in Properties : MissingIsReported(i, p)
<1>2. IInv /\ [Next]_vars => [body]_vars
  BY <1>1
<1> QED
  BY <1>2, ContractsInvariant, PTL DEF Spec, GapsAreReported

(***************************************************************************)
(* Theorem: what reportERC20PropertyIssues warns about is missing.  With   *)
(* unique names, a property that a contract declares, or one of the bases  *)
(* recognised at any distance, is never reported missing, whatever else    *)
(* its other bases are written as.                                         *)
(***************************************************************************)
THEOREM OwnPropertyReports == Spec => OwnPropertiesAreSeen
<1>1. ASSUME IInv, [Next]_vars, Reporting, NEW i \in Contracts, NEW p \in Properties,
             <<declared[i].name, p>> \in warned', NEW m \in KnownAncestors(i)
      PROVE  p \notin declared[m].shape.has
  <2>1. warned' = Issues(table) /\ ContractsAreTyped /\ ListedInv /\ NamesAreUnique
    BY <1>1, ReportFacts DEF Reporting
  <2>2. /\ declared[i].name \in Names /\ table[declared[i].name] # None
        /\ p \notin table[declared[i].name].has
    BY <1>1, <2>1, IssueFacts DEF ContractsAreTyped
  <2>3. declared[i].erc20
    BY <2>1, <2>2 DEF ListedInv
  <2> QED
    BY <1>1, <2>1, <2>2, <2>3, LineageFacts
<1> DEFINE body == Reporting =>
             \A i \in Contracts, p \in Properties : <<declared[i].name, p>> \in warned' =>
               \A m \in KnownAncestors(i) : p \notin declared[m].shape.has
<1>2. IInv /\ [Next]_vars => [body]_vars
  BY <1>1
<1> QED
  BY <1>2, ContractsInvariant, PTL DEF Spec, OwnPropertiesAreSeen

(***************************************************************************)
(* Theorem: "Do not report on base contracts."  With unique names, a       *)
(* contract that an ERC20 contract visited before the report derives from  *)
(* under its own name is not reported for what it lacks: the derived       *)
(* contract has marked it.                                                 *)
(***************************************************************************)
THEOREM BaseReports == Spec => BasesAreSilent
<1>1. ASSUME IInv, [Next]_vars, Reporting, NEW i \in Contracts, NEW p \in Properties,
             IsKnownBase(i)
      PROVE  <<declared[i].name, p>> \notin warned'
  <2>1. warned' = Issues(table) /\ ContractsAreTyped /\ ListedInv
    BY <1>1, ReportFacts
  <2>2. /\ declared[i].name \in Names
        /\ table[declared[i].name] # None => table[declared[i].name].isBase
    BY <1>1, <2>1 DEF ContractsAreTyped, ListedInv
  <2> QED
    BY <2>1, <2>2, IssueFacts
<1> DEFINE body == Reporting =>
             \A i \in Contracts, p \in Properties :
               IsKnownBase(i) => <<declared[i].name, p>> \notin warned'
<1>2. IInv /\ [Next]_vars => [body]_vars
  BY <1>1
<1> QED
  BY <1>2, ContractsInvariant, PTL DEF Spec, BasesAreSilent

=============================================================================

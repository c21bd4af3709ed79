------------------------------ MODULE Assemble ------------------------------
(***************************************************************************)
(* Assembly::assemble (libevmasm/Assembly.cpp): the layout of the          *)
(* bytecode.  How many bytes a reference takes is fixed from an estimate   *)
(* of the size before anything is placed; what does not fit is an          *)
(* exception for a tag and is cut off for everything else.                 *)
(*                                                                         *)
(* An assembly has items, data items (known by their sizes), auxiliary     *)
(* data and, the outer one, the inner one as its sub-assembly 0.           *)
(***************************************************************************)
EXTENDS AsmItems

CONSTANTS
  Alphabet,   \* the items of each assembly
  MaxItems,   \* bound on the length of each
  DataSizes,  \* sizes of the one data item
  AuxSizes    \* sizes of the auxiliary data

Assemblies == {"outer", "inner"}

(***************************************************************************)
(* The items that can be assembled.  JUMPDEST is made from tags only, and  *)
(* tag 0 is not defined by an item ("Invalid tag position.").  Strings and *)
(* addresses known only at link or deploy time are left out.  The inner    *)
(* assembly has no sub-assembly and no data to refer to.                   *)
(***************************************************************************)
InnerItem(item) ==
  \/ /\ item.instruction \in Instructions \ {"JUMPDEST", "PUSH"}
     /\ item = Operation(item.instruction)
  \/ item.data \in Nat \ {0} /\ item = Tag(item.data)
  \/ item.data \in Nat /\ item \in {Push(item.data), PushTag(NoSub, item.data)}
  \/ item = PushOther("PushProgramSize", 0)

OuterItem(item) ==
  \/ InnerItem(item)
  \/ item.data \in Nat /\ item \in {PushTag(0, item.data), PushOther("PushData", item.data)}
  \/ item \in {PushOther("PushSub", 0), PushOther("PushSubSize", 0)}

ASSUME AssembleAssumption ==
  /\ \A item \in Alphabet["inner"] : InnerItem(item)
  /\ \A item \in Alphabet["outer"] : OuterItem(item)
  /\ MaxItems \in [Assemblies -> Nat] /\ DataSizes \subseteq Nat /\ AuxSizes \subseteq Nat

\* A byte has at least one bit: so says ItemsAssumption, but the provers do not compute powers.
ASSUME ByteAssumption == ByteBase \in Nat /\ ByteBase >= 2

VARIABLES
  asm,       \* the two assemblies
  finished,  \* the assemblies that are complete
  object     \* m_assembledObject and m_tagPositionsInBytecode of the outer assembly

vars == <<asm, finished, object>>

-----------------------------------------------------------------------------
\* A byte of code: an instruction (PUSH with its width), a digit of a number, or data.
Code(op, n) == [op |-> op, n |-> n]

\* ByteBase to the n, the first number that takes more than n bytes.
BytePower[n \in Nat] == IF n = 0 THEN 1 ELSE ByteBase * BytePower[n - 1]

\* toBigEndian: the low bytes of value.
BigEndian(value, width) ==
  [k \in 1 .. width |-> Code("digit", (value \div BytePower[width - k]) % ByteBase)]

PushOf(value, width) == <<Code("PUSH", width)>> \o BigEndian(value, width)

\* Assembly::bytesRequired: with the smallest tag size from subTagSize on that suffices.
CodeBytes(a, subTagSize) ==
  LET bytes(tagSize) == 1 + Total(a.data) + BytesRequired(a.items, tagSize)
      from[tagSize \in Nat] ==
        IF BytesOf[bytes(tagSize)] <= tagSize THEN bytes(tagSize) ELSE from[tagSize + 1]
  IN from[subTagSize]

Unplaced == -1

\* The largest position of a tag in the sub-assemblies; at least 1.
SubTagSize(subs) == Max({1} \cup UNION {Range(subs[s].tags) : s \in DOMAIN subs})

\* bytesPerTag and bytesPerDataRef
Reserved(a, subs) ==
  LET forCode == CodeBytes(a, SubTagSize(subs))
      withData == forCode + 1 + a.aux + Total([s \in DOMAIN subs |-> Len(subs[s].code)]) IN
  [tag |-> BytesOf[forCode], dataRef |-> BytesOf[withData]]

\* The bytes of an item that pushes value or has none.
Encode(item, value, reserved) ==
  CASE item.type = "Operation" -> <<Code(item.instruction, 0)>>
    [] item.type = "Tag"       -> <<Code("JUMPDEST", 0)>>
    [] item.type \in {"Push", "PushSubSize"} -> PushOf(value, Max({1, BytesOf[value]}))
    [] item.type = "PushTag"   -> PushOf(value, reserved.tag)
    [] item.type \in {"PushData", "PushSub", "PushProgramSize"} -> PushOf(value, reserved.dataRef)
    [] item.type = "PushString" -> PushOf(value, 32)
    [] OTHER                   -> PushOf(value, 20)

\* The value of an item whose width does not depend on the layout.
KnownValue(item, subs) ==
  CASE item.type = "Push"        -> item.data
    [] item.type = "PushSubSize" -> Len(subs[item.data + 1].code)
    [] OTHER                     -> 0

\* Where each item starts; the last entry is the end.
Starts(a, subs, reserved) ==
  LET start[i \in 1 .. Len(a.items) + 1] ==
        IF i = 1 THEN 0
        ELSE start[i - 1] + Len(Encode(a.items[i - 1], KnownValue(a.items[i - 1], subs), reserved))
  IN start

Pushes(a, type, d) == \E i \in DOMAIN a.items : a.items[i] = PushOther(type, d)

(***************************************************************************)
(* m_tagPositionsInBytecode; tag 0, the invalid jump destination, is where *)
(* the first item that is not a tag starts.                                *)
(***************************************************************************)
TagPositions(a, start, usedTags) ==
  LET at(t) == {i \in DOMAIN a.items :
                  IF t = 0 THEN a.items[i].type # "Tag" ELSE a.items[i] = Tag(t)} IN
  [t \in 0 .. usedTags |-> IF at(t) = {} THEN Unplaced ELSE start[Min(at(t))]]

\* Mutant: data is placed before the sub-assemblies in the references only.
CodeTailDataFirst(a, subs, end) ==
  LET subUsed == [s \in DOMAIN subs |-> IF Pushes(a, "PushSub", s - 1) THEN Len(subs[s].code) ELSE 0]
      dataUsed == [d \in DOMAIN a.data |-> IF Pushes(a, "PushData", d) THEN a.data[d] ELSE 0]
      stop == IF subs # <<>> \/ a.data # <<>> \/ a.aux > 0 THEN 1 ELSE 0
      from == end + stop IN
  [stop |-> stop,
   subAt  |-> [s \in DOMAIN subs |-> from + Total(SubSeq(subUsed, 1, s - 1))],
   dataAt |-> [d \in DOMAIN a.data |-> from + Total(SubSeq(dataUsed, 1, d - 1))],
   size |-> from + Total(subUsed) + Total(dataUsed) + a.aux]

(***************************************************************************)
(* What follows the items: a STOP if anything may follow, the              *)
(* sub-assemblies and the data that are referenced, the auxiliary data.    *)
(***************************************************************************)
CodeTail(a, subs, end) ==
  LET subUsed == [s \in DOMAIN subs |-> IF Pushes(a, "PushSub", s - 1) THEN Len(subs[s].code) ELSE 0]
      dataUsed == [d \in DOMAIN a.data |-> IF Pushes(a, "PushData", d) THEN a.data[d] ELSE 0]
      stop == IF subs # <<>> \/ a.data # <<>> \/ a.aux > 0 THEN 1 ELSE 0
      from == end + stop IN
  [stop |-> stop,
   subAt  |-> [s \in DOMAIN subs |-> from + Total(SubSeq(subUsed, 1, s - 1))],
   dataAt |-> [d \in DOMAIN a.data |-> from + Total(subUsed) + Total(SubSeq(dataUsed, 1, d - 1))],
   size |-> from + Total(subUsed) + Total(dataUsed) + a.aux]

\* What the assertions of assemble() say of a reference to a tag.
TagProblem(positions, t, width) ==
  CASE t \notin DOMAIN positions      -> "Reference to non-existing tag."
    [] positions[t] = Unplaced        -> "Reference to tag without position."
    [] BytesOf[positions[t]] > width  -> "Tag too large for reserved space."
    [] OTHER                          -> "none"

Failed(problem) == [error |-> problem, code |-> <<>>, tags |-> <<>>]

\* The positions a reference with this sub-assembly id is looked up in.
Positions(sub, subs, tags) == IF sub = NoSub THEN tags ELSE subs[sub + 1].tags

TagProblems(a, subs, tags, width) ==
  {TagProblem(Positions(a.items[i].sub, subs, tags), a.items[i].data, width) :
     i \in {j \in DOMAIN a.items : a.items[j].type = "PushTag"}} \ {"none"}

\* What an item pushes, once everything has its place.
Value(item, subs, tags, tail) ==
  CASE item.type = "PushTag"  -> Positions(item.sub, subs, tags)[item.data]
    [] item.type = "PushData" -> tail.dataAt[item.data]
    [] item.type = "PushSub"  -> tail.subAt[item.data + 1]
    [] item.type = "PushProgramSize" -> tail.size
    [] OTHER -> KnownValue(item, subs)

\* The bytes of the items and what is appended to them.
Body(a, subs, reserved, tags, tail) ==
  FlattenSeq([i \in DOMAIN a.items |->
                Encode(a.items[i], Value(a.items[i], subs, tags, tail), reserved)])

AppendedSubs(a, subs) ==
  FlattenSeq([s \in DOMAIN subs |-> IF Pushes(a, "PushSub", s - 1) THEN subs[s].code ELSE <<>>])

AppendedData(a) ==
  FlattenSeq([d \in DOMAIN a.data |->
    IF Pushes(a, "PushData", d) THEN [k \in 1 .. a.data[d] |-> Code("data", d)] ELSE <<>>])

Repeated(op, n) == [k \in 1 .. n |-> Code(op, 0)]

AssembleWith(a, subs, usedTags) ==
  LET reserved == Reserved(a, subs)
      start == Starts(a, subs, reserved)
      tail == CodeTail(a, subs, start[Len(a.items) + 1])
      tags == TagPositions(a, start, usedTags)
      problems == TagProblems(a, subs, tags, reserved.tag)
  IN IF problems # {} THEN Failed(CHOOSE p \in problems : TRUE)
     ELSE [error |-> "none", tags |-> tags,
           code |-> Body(a, subs, reserved, tags, tail) \o Repeated("STOP", tail.stop)
                      \o AppendedSubs(a, subs) \o AppendedData(a) \o Repeated("aux", a.aux)]

-----------------------------------------------------------------------------
NoObject == Failed("not assembled")

\* Sizes only matter for the outer assembly; the inner one has neither data nor aux.
Init ==
  /\ \E d \in DataSizes, x \in AuxSizes :
       asm = [outer |-> [items |-> <<>>, data |-> IF d = 0 THEN <<>> ELSE <<d>>, aux |-> x],
              inner |-> [items |-> <<>>, data |-> <<>>, aux |-> 0]]
  /\ finished = {}
  /\ object = NoObject

\* The tags in use: m_usedTags - 1.
UsedTags == 1

AppendItem(a, item) ==
  /\ a \notin finished /\ (a = "outer" => "inner" \in finished)
  /\ Len(asm[a].items) < MaxItems[a]
  /\ item.type = "Tag" => item.data \notin Labels(asm[a].items)
  /\ item.type = "PushData" => item.data \in DOMAIN asm[a].data
  /\ asm' = [asm EXCEPT ![a].items = Append(@, item)]
  /\ UNCHANGED <<finished, object>>

\* Code generation is over for an assembly when the tags it pushes exist.
Finish(a) ==
  /\ a \notin finished /\ (a = "outer" => "inner" \in finished)
  /\ ReferencedTags(asm[a].items, NoSub) \subseteq {0} \cup Labels(asm[a].items)
  /\ ReferencedTags(asm[a].items, 0) \subseteq Labels(asm["inner"].items)
  /\ finished' = finished \cup {a}
  /\ UNCHANGED <<asm, object>>

InnerObject == AssembleWith(asm["inner"], <<>>, UsedTags)

DoAssemble ==
  /\ finished = Assemblies /\ object = NoObject
  /\ \E inner \in {InnerObject} :
       object' = IF inner.error # "none" THEN inner
                 ELSE AssembleWith(asm["outer"], <<inner>>, UsedTags)
  /\ UNCHANGED <<asm, finished>>

Next ==
  \/ \E a \in Assemblies : \/ \E item \in Alphabet[a] : AppendItem(a, item)
                           \/ Finish(a)
  \/ DoAssemble

Spec == Init /\ [][Next]_vars

-----------------------------------------------------------------------------
(***************************************************************************)
(* Properties                                                              *)
(***************************************************************************)
\* How the EVM reads the code: the n-th instruction starts where the one before ends.
InstructionAt(code, n) ==
  LET at[k \in 1 .. n] ==
        IF k = 1 THEN 0
        ELSE LET p == at[k - 1] IN
             p + 1 + (IF code[p + 1].op = "PUSH" THEN code[p + 1].n ELSE 0)
  IN at[n]

\* The number an instruction at p pushes.
Pushed(code, p) ==
  LET upTo[k \in 0 .. code[p + 1].n] ==
        IF k = 0 THEN 0 ELSE upTo[k - 1] * ByteBase + code[p + 1 + k].n
  IN  upTo[code[p + 1].n]

\* The bytes of code from p on.
Excerpt(code, p, n) == SubSeq(code, p + 1, p + n)

\* The size of the program can be written in the bytes reserved for it.
SizesFit(inner) ==
  Len(object.code) < BytePower[Reserved(asm["outer"], <<inner>>).dataRef]

(***************************************************************************)
(* The code is the items.  IsRight says what its n-th instruction has to   *)
(* be for the n-th item, as the EVM reads it: a pushed tag is the address  *)
(* of the JUMPDEST made for it, tag 0 that of an instruction which is no   *)
(* JUMPDEST, a reference to a sub-assembly or to data that of a copy of    *)
(* it, and sizes are the sizes.                                            *)
(***************************************************************************)
IsRight(item, n, code, items, inner) ==
  LET p == InstructionAt(code, n)
      v == Pushed(code, p)
      target(list, t) == CHOOSE i \in DOMAIN list : list[i] = Tag(t) IN
  CASE item.type = "Operation" -> code[p + 1] = Code(item.instruction, 0)
    [] item.type = "Tag"       -> code[p + 1] = Code("JUMPDEST", 0)
    [] item.type = "Push"      -> v = item.data
    [] item.type = "PushTag" /\ item.sub = NoSub /\ item.data = 0 ->
         /\ \E i \in DOMAIN items : InstructionAt(code, i) = v
         /\ code[v + 1].op # "JUMPDEST"
    [] item.type = "PushTag" /\ item.sub = NoSub /\ item.data # 0 ->
         v = InstructionAt(code, target(items, item.data))
    [] item.type = "PushTag" /\ item.sub = 0 ->
         v = InstructionAt(inner.code, target(asm["inner"].items, item.data))
    [] item.type = "PushSub"   -> Excerpt(code, v, Len(inner.code)) = inner.code
    [] item.type = "PushData"  ->
         Excerpt(code, v, asm["outer"].data[item.data])
           = [k \in 1 .. asm["outer"].data[item.data] |-> Code("data", item.data)]
    [] item.type = "PushSubSize"     -> v = Len(inner.code)
    [] item.type = "PushProgramSize" -> v = Len(code)

\* Every instruction of the assembled code is right for its item, wherever the layout put it.
CodeIsRight ==
  object.error = "none" =>
    \A inner \in {InnerObject} :
      SizesFit(inner) =>
        \A n \in DOMAIN asm["outer"].items :
          IsRight(asm["outer"].items[n], n, object.code, asm["outer"].items, inner)
=============================================================================

------------------------- MODULE SECBITCheckerProofs -------------------------
(***************************************************************************)
(* What the flags of SECBITChecker mean, for programs of any size: any     *)
(* number of contracts, functions and modifiers, nested to any depth.      *)
(***************************************************************************)
EXTENDS SECBITChecker, FiniteSetTheorems, TLAPS

(***************************************************************************)
(* The inductive invariant.                                                *)
(***************************************************************************)
ChkType ==
  [comparisonDepth : Nat, allowedVars : SUBSET {"v"}, callablesWithRevert : SUBSET (FunctionName \cup {"guard"}),
   flag : [FlagNames -> BOOLEAN]]

FactsType ==
  [returns : BOOLEAN, returnsFalse : BOOLEAN, emitsTransfer : BOOLEAN, emitsApproval : BOOLEAN,
   comparesAllowed : BOOLEAN, subtractsAllowed : BOOLEAN, checksMsgData : BOOLEAN,
   checksBalance : BOOLEAN, reverts : BOOLEAN, calls : SUBSET FunctionName,
   allowedVars : SUBSET {"v"}]

ContractFrame == [kind : {"contract", "skipped"}, erc20 : BOOLEAN]
ModifierFrame == [kind : {"modifier"}, name : {"guard"}, facts : FactsType]
FunctionFrame == [kind : {"function"}, fn : FunctionType, facts : FactsType]
BlockFrame    == [kind : {"block"}, send : BOOLEAN, afterSend : BOOLEAN]
PlainFrame    == [kind : {"stmt", "if", "compare", "length"}]

CallableFrame == ModifierFrame \cup FunctionFrame
InnerFrame    == BlockFrame \cup PlainFrame
Frame         == ContractFrame \cup CallableFrame \cup InnerFrame

\* Where each construct may occur; a send is pending only right after it.
Shape(o) ==
  /\ o \in Seq(Frame)
  /\ Len(o) >= 1 => o[1] \in ContractFrame
  /\ Len(o) >= 2 => o[1].kind = "contract" /\ o[2] \in CallableFrame
  /\ \A i \in DOMAIN o : i >= 3 => o[i] \in InnerFrame
  /\ \A i \in DOMAIN o : o[i].kind = "block" /\ o[i].send => o[i].afterSend

Places(o, kind) == {i \in DOMAIN o : o[i].kind = kind}

PlaceInv ==
  /\ chk.comparisonDepth = Cardinality(Places(open, "compare"))
  /\ chk.flag["conditional"] => Places(open, "if") # {}
  /\ chk.flag["inLengthAccess"] => Places(open, "length") # {}
  /\ chk.flag["dirtyParam"] => Len(open) >= 2 /\ open[2].kind = "function" /\ open[2].fn.dirtyParam

\* The flags that stand for what the function at hand contains.
FactsMatch(k, fs) ==
  /\ k.flag["hasReturn"] <=> fs.returns
  /\ k.flag["returnFalse"] <=> fs.returnsFalse
  /\ k.flag["emitTransfer"] <=> fs.emitsTransfer
  /\ k.flag["emitApproval"] <=> fs.emitsApproval
  /\ k.flag["hasSenderBalanceCheck"] <=> fs.checksBalance
  /\ k.flag["hasAllowedCheck"] <=> fs.comparesAllowed
  /\ k.flag["hasAllowedUnsafeSub"] <=> fs.subtractsAllowed
  /\ k.allowedVars = fs.allowedVars

FactsInv ==
  /\ Len(open) >= 1 => (chk.flag["inERC20"] <=> open[1].erc20)
  /\ Len(open) >= 2 /\ open[2].kind = "function" => FactsMatch(chk, open[2].facts)

Mods(frame) == IF frame.kind = "function" THEN frame.fn.modifiers ELSE {}

\* Why a callable with these facts and modifiers may revert.
Reverts(fs, mods, names) == fs.reverts \/ (fs.calls \cup mods) \cap names # {}

RevertInv ==
  chk.flag["hasRevert"] =>
    Len(open) >= 2 /\ Reverts(open[2].facts, Mods(open[2]), chk.callablesWithRevert)

IInv ==
  /\ program \in DOMAIN Programs /\ chk \in ChkType /\ Shape(open)
  /\ PlaceInv /\ FactsInv /\ RevertInv /\ RevertersAreJustified

-----------------------------------------------------------------------------
(***************************************************************************)
(* The path of open nodes.                                                 *)
(***************************************************************************)
LEMMA FrameFacts ==
  /\ \A f \in ContractFrame : f.kind \in {"contract", "skipped"} /\ f.erc20 \in BOOLEAN
  /\ \A f \in CallableFrame : f.kind \in {"modifier", "function"} /\ f.facts \in FactsType
  /\ \A f \in CallableFrame : f.kind = "function" => f \in FunctionFrame /\ f.fn \in FunctionType
  /\ \A f \in CallableFrame : f.kind = "modifier" => f \in ModifierFrame /\ f.name = "guard"
  /\ \A f \in InnerFrame : f.kind \in {"block", "stmt", "if", "compare", "length"}
  /\ \A f \in InnerFrame :
       f.kind = "block" => f \in BlockFrame /\ f.send \in BOOLEAN /\ f.afterSend \in BOOLEAN
  /\ \A f \in InnerFrame : f \in Frame
<1>1. \A f \in ContractFrame : f.kind \in {"contract", "skipped"} /\ f.erc20 \in BOOLEAN
  BY DEF ContractFrame
<1>2. \A f \in ModifierFrame : f.kind = "modifier" /\ f.facts \in FactsType /\ f.name = "guard"
  BY DEF ModifierFrame
<1>3. \A f \in FunctionFrame : f.kind = "function" /\ f.facts \in FactsType /\ f.fn \in FunctionType
  BY DEF FunctionFrame
<1>4. \A f \in BlockFrame : f.kind = "block" /\ f.send \in BOOLEAN /\ f.afterSend \in BOOLEAN
  BY DEF BlockFrame
<1>5. \A f \in PlainFrame : f.kind \in {"stmt", "if", "compare", "length"}
  BY DEF PlainFrame
<1> QED
  BY <1>1, <1>2, <1>3, <1>4, <1>5 DEF CallableFrame, InnerFrame, Frame

\* The kind of the current node says how deep the walk is.
LEMMA KindFacts ==
  ASSUME Shape(open)
  PROVE  /\ open \in Seq(Frame) /\ Len(open) \in Nat /\ DOMAIN open = 1 .. Len(open)
         /\ Kind = "source" <=> Len(open) = 0
         /\ Kind \in {"contract", "skipped"} <=> Len(open) = 1
         /\ Kind \in {"modifier", "function"} <=> Len(open) = 2
         /\ Kind \in {"block", "stmt", "if", "compare", "length"} <=> Len(open) >= 3
         /\ open # <<>> => Kind = open[Len(open)].kind /\ Top = open[Len(open)]
<1>1. open \in Seq(Frame) /\ Len(open) \in Nat /\ DOMAIN open = 1 .. Len(open)
  BY DEF Shape
<1>2. Len(open) = 0 <=> open = <<>>
  BY <1>1
<1>3. open # <<>> => Kind = open[Len(open)].kind /\ Top = open[Len(open)]
  BY DEF Kind, Top
<1>4. CASE Len(open) = 0
  BY <1>1, <1>2, <1>4 DEF Kind
<1>5. CASE Len(open) = 1
  <2>1. Kind \in {"contract", "skipped"}
    BY <1>2, <1>3, <1>5, FrameFacts DEF Shape
  <2> QED
    BY <1>1, <1>3, <1>5, <2>1
<1>6. CASE Len(open) = 2
  <2>1. Kind \in {"modifier", "function"}
    BY <1>2, <1>3, <1>6, FrameFacts DEF Shape
  <2> QED
    BY <1>1, <1>3, <1>6, <2>1
<1>7. CASE Len(open) >= 3
  <2>1. Len(open) \in DOMAIN open /\ open # <<>>
    BY <1>1, <1>2, <1>7
  <2>2. Kind \in {"block", "stmt", "if", "compare", "length"}
    BY <1>3, <1>7, <2>1, FrameFacts DEF Shape
  <2> QED
    BY <1>1, <1>3, <1>7, <2>2
<1>8. Len(open) = 0 \/ Len(open) = 1 \/ Len(open) = 2 \/ Len(open) >= 3
  BY <1>1
<1> QED
  BY <1>4, <1>5, <1>6, <1>7, <1>8

LEMMA PlacesFinite ==
  ASSUME NEW o, Shape(o), NEW kind
  PROVE  /\ IsFiniteSet(Places(o, kind)) /\ Cardinality(Places(o, kind)) \in Nat
         /\ Cardinality(Places(o, kind)) = 0 <=> Places(o, kind) = {}
<1>1. o \in Seq(Frame) /\ Len(o) \in Nat /\ DOMAIN o = 1 .. Len(o)
  BY DEF Shape
<1>2. Places(o, kind) \in SUBSET (1 .. Len(o))
  BY <1>1 DEF Places
<1>3. IsFiniteSet(1 .. Len(o))
  BY <1>1, FS_Interval
<1>4. IsFiniteSet(Places(o, kind))
  BY <1>2, <1>3, FS_Subset
<1> QED
  BY <1>4, FS_CardinalityType, FS_EmptySet

LEMMA AppendFacts ==
  ASSUME NEW o \in Seq(Frame), NEW f \in Frame
  PROVE  /\ Append(o, f) \in Seq(Frame) /\ Len(Append(o, f)) = Len(o) + 1
         /\ Append(o, f)[Len(o) + 1] = f
         /\ \A i \in 1 .. Len(o) : Append(o, f)[i] = o[i]
  OBVIOUS

\* A node is entered.
LEMMA PushFacts ==
  ASSUME NEW o, Shape(o), Len(o) >= 2, NEW f \in InnerFrame,
         f.kind = "block" /\ f.send => f.afterSend
  PROVE  /\ Shape(Append(o, f)) /\ Len(Append(o, f)) = Len(o) + 1
         /\ Append(o, f)[1] = o[1] /\ Append(o, f)[2] = o[2]
         /\ \A kind : f.kind # kind => Places(Append(o, f), kind) = Places(o, kind)
         /\ \A kind : f.kind = kind =>
              /\ Places(Append(o, f), kind) = Places(o, kind) \cup {Len(o) + 1}
              /\ Len(o) + 1 \notin Places(o, kind)
<1>1. o \in Seq(Frame) /\ Len(o) \in Nat /\ DOMAIN o = 1 .. Len(o) /\ f \in Frame
  BY FrameFacts DEF Shape
<1> DEFINE a == Append(o, f)
<1>2. /\ a \in Seq(Frame) /\ Len(a) = Len(o) + 1 /\ DOMAIN a = 1 .. (Len(o) + 1)
      /\ \A i \in 1 .. Len(o) : a[i] = o[i]
      /\ a[Len(o) + 1] = f
  BY <1>1
<1> HIDE DEF a
<1>3. \A i \in DOMAIN a : i \in DOMAIN o \/ i = Len(o) + 1
  BY <1>1, <1>2
<1>4. a[1] = o[1] /\ a[2] = o[2]
  BY <1>1, <1>2
<1>5. Shape(a)
  <2>1. \A i \in DOMAIN a : i >= 3 => a[i] \in InnerFrame
    BY <1>1, <1>2, <1>3 DEF Shape
  <2>2. \A i \in DOMAIN a : a[i].kind = "block" /\ a[i].send => a[i].afterSend
    BY <1>1, <1>2, <1>3 DEF Shape
  <2> QED
    BY <1>1, <1>2, <1>4, <2>1, <2>2 DEF Shape
<1>6. ASSUME NEW kind
      PROVE  /\ f.kind # kind => Places(a, kind) = Places(o, kind)
             /\ f.kind = kind => Places(a, kind) = Places(o, kind) \cup {Len(o) + 1}
             /\ Len(o) + 1 \notin Places(o, kind)
  BY <1>1, <1>2, <1>3 DEF Places
<1> QED
  BY <1>2, <1>4, <1>5, <1>6 DEF a

\* Nodes are left.
LEMMA PopFacts ==
  ASSUME NEW o, Shape(o), NEW n \in Nat, n <= Len(o)
  PROVE  /\ Shape(SubSeq(o, 1, n)) /\ Len(SubSeq(o, 1, n)) = n
         /\ n >= 1 => SubSeq(o, 1, n)[1] = o[1]
         /\ n >= 2 => SubSeq(o, 1, n)[2] = o[2]
         /\ \A kind : Places(SubSeq(o, 1, n), kind) = {i \in Places(o, kind) : i <= n}
<1>1. o \in Seq(Frame) /\ Len(o) \in Nat /\ DOMAIN o = 1 .. Len(o)
  BY DEF Shape
<1> DEFINE a == SubSeq(o, 1, n)
<1>2. /\ a \in Seq(Frame) /\ Len(a) = n /\ DOMAIN a = 1 .. n
      /\ \A i \in 1 .. n : a[i] = o[i] /\ i \in DOMAIN o
  BY <1>1
<1> HIDE DEF a
<1>3. (n >= 1 => a[1] = o[1]) /\ (n >= 2 => a[2] = o[2])
  BY <1>2
<1>4. Shape(a)
  <2>1. \A i \in DOMAIN a : i >= 3 => a[i] \in InnerFrame
    BY <1>2 DEF Shape
  <2>2. \A i \in DOMAIN a : a[i].kind = "block" /\ a[i].send => a[i].afterSend
    BY <1>2 DEF Shape
  <2> QED
    BY <1>1, <1>2, <1>3, <2>1, <2>2 DEF Shape
<1>5. ASSUME NEW kind PROVE Places(a, kind) = {i \in Places(o, kind) : i <= n}
  BY <1>1, <1>2 DEF Places
<1> QED
  BY <1>2, <1>3, <1>4, <1>5 DEF a

\* The current node is left.
LEMMA PopTop ==
  ASSUME Shape(open), Len(open) >= 3
  PROVE  /\ Shape(Pop) /\ Len(Pop) = Len(open) - 1 /\ Len(Pop) >= 2
         /\ Pop[1] = open[1] /\ Pop[2] = open[2]
         /\ \A kind : Kind # kind => Places(Pop, kind) = Places(open, kind)
         /\ \A kind : Kind = kind => /\ Places(Pop, kind) = Places(open, kind) \ {Len(open)}
                                     /\ Len(open) \in Places(open, kind)
<1> DEFINE n == Len(open) - 1
<1>1. open \in Seq(Frame) /\ Len(open) \in Nat /\ DOMAIN open = 1 .. Len(open)
      /\ Kind = open[Len(open)].kind
  BY KindFacts
<1>2. n \in Nat /\ n <= Len(open) /\ n >= 2 /\ n >= 1
  BY <1>1
<1>3. Pop = SubSeq(open, 1, n)
  BY DEF Pop
<1> HIDE DEF n
<1>4. /\ Shape(Pop) /\ Len(Pop) = n /\ Pop[1] = open[1] /\ Pop[2] = open[2]
      /\ \A kind : Places(Pop, kind) = {i \in Places(open, kind) : i <= n}
  BY <1>2, <1>3, PopFacts
<1>5. \A i \in DOMAIN open : i <= n <=> i # Len(open)
  BY <1>1 DEF n
<1>6. \A kind : Kind # kind => Places(Pop, kind) = Places(open, kind)
  BY <1>1, <1>4, <1>5 DEF Places
<1>7. \A kind : Kind = kind => /\ Places(Pop, kind) = Places(open, kind) \ {Len(open)}
                               /\ Len(open) \in Places(open, kind)
  <2>1. Len(open) \in DOMAIN open
    BY <1>1
  <2>2. Len(open) \in Places(open, Kind)
    BY <1>1, <2>1 DEF Places
  <2>3. \A i \in Places(open, Kind) : i <= n <=> i # Len(open)
    BY <1>5 DEF Places
  <2>4. Places(Pop, Kind) = Places(open, Kind) \ {Len(open)}
    BY <1>4, <2>3
  <2> QED
    BY <2>2, <2>4
<1> QED
  BY <1>2, <1>4, <1>6, <1>7 DEF n

\* A body is left, and with it the statement it is the body of.
LEMMA PopBody ==
  ASSUME Shape(open), Kind \in {"block", "if"}
  PROVE  /\ Shape(EndBody) /\ Len(EndBody) >= 2
         /\ EndBody[1] = open[1] /\ EndBody[2] = open[2]
         /\ \A kind : kind \notin {Kind, "stmt"} => Places(EndBody, kind) = Places(open, kind)
<1>1. open \in Seq(Frame) /\ Len(open) \in Nat /\ DOMAIN open = 1 .. Len(open)
      /\ Kind = open[Len(open)].kind /\ Len(open) >= 3
  BY KindFacts
<1> DEFINE n == Len(open) - IF open[Len(open) - 1].kind = "stmt" THEN 2 ELSE 1
<1>2. EndBody = SubSeq(open, 1, n)
  BY DEF EndBody
<1>3. n \in Nat /\ n <= Len(open) /\ n >= 2 /\ n >= 1
      /\ \A i \in DOMAIN open : i > n => i = Len(open) \/ (i = Len(open) - 1 /\ open[i].kind = "stmt")
  <2>1. CASE open[Len(open) - 1].kind = "stmt"
    <3>1. Len(open) # 3
      <4>1. open[2].kind # "stmt"
        BY <1>1, FrameFacts DEF Shape
      <4>2. Len(open) = 3 => open[Len(open) - 1] = open[2]
        OBVIOUS
      <4> QED
        BY <2>1, <4>1, <4>2
    <3> QED
      BY <1>1, <2>1, <3>1
  <2>2. CASE open[Len(open) - 1].kind # "stmt"
    BY <1>1, <2>2
  <2> QED
    BY <2>1, <2>2
<1> HIDE DEF n
<1>4. /\ Shape(EndBody) /\ Len(EndBody) = n /\ EndBody[1] = open[1] /\ EndBody[2] = open[2]
      /\ \A kind : Places(EndBody, kind) = {i \in Places(open, kind) : i <= n}
  BY <1>2, <1>3, PopFacts
<1>5. ASSUME NEW kind, kind \notin {Kind, "stmt"}
      PROVE  Places(EndBody, kind) = Places(open, kind)
  <2>1. \A i \in Places(open, kind) : i <= n
    BY <1>1, <1>3, <1>5 DEF Places
  <2> QED
    BY <1>4, <2>1
<1> QED
  BY <1>3, <1>4, <1>5

\* The facts of the callable at hand change.
WithFacts(o, fs) == [o EXCEPT ![2].facts = fs]

LEMMA ChangedFacts ==
  ASSUME NEW o, Shape(o), Len(o) >= 2, NEW fs \in FactsType, NEW a, a = WithFacts(o, fs)
  PROVE  /\ Shape(a) /\ Len(a) = Len(o)
         /\ a[1] = o[1] /\ a[2].facts = fs /\ a[2].kind = o[2].kind
         /\ o[2].kind = "function" => a[2].fn = o[2].fn
         /\ \A i \in DOMAIN o : i # 2 => a[i] = o[i]
         /\ \A kind : Places(a, kind) = Places(o, kind)
<1> DEFINE new == [o[2] EXCEPT !.facts = fs]
<1>1. o \in Seq(Frame) /\ Len(o) \in Nat /\ DOMAIN o = 1 .. Len(o)
      /\ 2 \in DOMAIN o /\ 1 \in DOMAIN o /\ o[2] \in CallableFrame
  BY DEF Shape
<1>2. /\ new \in CallableFrame /\ new.facts = fs /\ new.kind = o[2].kind
      /\ new.kind = "function" => new.fn = o[2].fn
  <2>1. CASE o[2] \in ModifierFrame
    BY <2>1 DEF ModifierFrame, CallableFrame
  <2>2. CASE o[2] \in FunctionFrame
    BY <2>2 DEF FunctionFrame, CallableFrame
  <2> QED
    BY <1>1, <2>1, <2>2 DEF CallableFrame
<1>3. a = [o EXCEPT ![2] = new]
  BY DEF WithFacts
<1> HIDE DEF new
<1>4. new \in Frame /\ new.kind # "block"
  BY <1>2, FrameFacts DEF Frame
<1>5. /\ a \in Seq(Frame) /\ Len(a) = Len(o) /\ DOMAIN a = DOMAIN o /\ a[2] = new
      /\ \A i \in DOMAIN o : i # 2 => a[i] = o[i]
  BY <1>1, <1>3, <1>4
<1>6. a[1] = o[1]
  BY <1>1, <1>5
<1>7. Shape(a)
  <2>1. \A i \in DOMAIN a : i >= 3 => a[i] \in InnerFrame
    BY <1>1, <1>5 DEF Shape
  <2>2. \A i \in DOMAIN a : a[i].kind = "block" /\ a[i].send => a[i].afterSend
    BY <1>1, <1>4, <1>5 DEF Shape
  <2> QED
    BY <1>1, <1>2, <1>5, <1>6, <2>1, <2>2 DEF Shape
<1>8. ASSUME NEW kind PROVE Places(a, kind) = Places(o, kind)
  <2>1. \A i \in DOMAIN o : a[i].kind = o[i].kind
    BY <1>2, <1>5
  <2> QED
    BY <1>5, <2>1 DEF Places
<1> QED
  BY <1>2, <1>5, <1>6, <1>7, <1>8

LEMMA NoteFacts ==
  ASSUME Shape(open), Len(open) >= 2, NEW fs \in FactsType
  PROVE  /\ Shape(Note(fs)) /\ Len(Note(fs)) = Len(open)
         /\ Note(fs)[1] = open[1] /\ Note(fs)[2].facts = fs
         /\ Note(fs)[2].kind = open[2].kind
         /\ open[2].kind = "function" => Note(fs)[2].fn = open[2].fn
         /\ \A kind : Places(Note(fs), kind) = Places(open, kind)
<1>1. Note(fs) = WithFacts(open, fs)
  BY DEF Note, WithFacts
<1> QED
  BY <1>1, ChangedFacts

\* The block at hand changes.
LEMMA BlockFacts ==
  ASSUME Shape(open), Kind = "block", NEW f \in BlockFrame, f.send => f.afterSend,
         NEW a, a = [open EXCEPT ![Len(open)] = f]
  PROVE  /\ Shape(a) /\ Len(a) = Len(open) /\ Len(open) >= 3
         /\ a[1] = open[1] /\ a[2] = open[2]
         /\ \A kind : Places(a, kind) = Places(open, kind)
<1>1. open \in Seq(Frame) /\ Len(open) \in Nat /\ DOMAIN open = 1 .. Len(open)
      /\ Len(open) >= 3 /\ open[Len(open)].kind = "block"
  BY KindFacts
<1>2. f \in InnerFrame /\ f \in Frame /\ f.kind = "block"
  BY DEF InnerFrame, Frame, BlockFrame
<1>3. /\ a \in Seq(Frame) /\ Len(a) = Len(open) /\ DOMAIN a = DOMAIN open
      /\ a[Len(open)] = f /\ a[1] = open[1] /\ a[2] = open[2]
      /\ \A i \in DOMAIN open : i # Len(open) => a[i] = open[i]
  BY <1>1, <1>2
<1>4. Shape(a)
  <2>1. \A i \in DOMAIN a : i >= 3 => a[i] \in InnerFrame
    BY <1>2, <1>3 DEF Shape
  <2>2. \A i \in DOMAIN a : a[i].kind = "block" /\ a[i].send => a[i].afterSend
    BY <1>3 DEF Shape
  <2> QED
    BY <1>1, <1>3, <2>1, <2>2 DEF Shape
<1>5. ASSUME NEW kind PROVE Places(a, kind) = Places(open, kind)
  <2>1. \A i \in DOMAIN open : a[i].kind = open[i].kind
    BY <1>1, <1>2, <1>3
  <2> QED
    BY <1>3, <2>1 DEF Places
<1> QED
  BY <1>1, <1>3, <1>4, <1>5

-----------------------------------------------------------------------------
(***************************************************************************)
(* The members of the checker.                                             *)
(***************************************************************************)
LEMMA ChkFacts ==
  ASSUME NEW k \in ChkType
  PROVE  /\ k.comparisonDepth \in Nat /\ k.allowedVars \subseteq {"v"}
         /\ k.callablesWithRevert \subseteq FunctionName \cup {"guard"}
         /\ k.flag \in [FlagNames -> BOOLEAN]
  BY DEF ChkType

\* q differs from k in the flags of S at most.
SameBut(q, k, S) ==
  /\ q \in ChkType
  /\ q.comparisonDepth = k.comparisonDepth
  /\ q.allowedVars = k.allowedVars
  /\ q.callablesWithRevert = k.callablesWithRevert
  /\ \A f \in FlagNames \ S : q.flag[f] = k.flag[f]

LEMMA SetFacts ==
  ASSUME NEW k \in ChkType, NEW S, NEW b, b \in BOOLEAN
  PROVE  /\ SameBut(Set(k, S, b), k, S)
         /\ \A f \in FlagNames : f \in S => (Set(k, S, b).flag[f] <=> b)
<1> DEFINE g == [f \in FlagNames |-> IF f \in S THEN b ELSE k.flag[f]]
<1>1. k.flag \in [FlagNames -> BOOLEAN]
  BY ChkFacts
<1>2. g \in [FlagNames -> BOOLEAN]
  BY <1>1
<1>3. Set(k, S, b) = [k EXCEPT !.flag = g]
  BY DEF Set
<1>4. \A f \in FlagNames : /\ f \in S => (g[f] <=> b)
                           /\ f \notin S => g[f] = k.flag[f]
  BY <1>1
<1> HIDE DEF g
<1>5. Set(k, S, b) \in ChkType /\ Set(k, S, b).flag = g
      /\ Set(k, S, b).comparisonDepth = k.comparisonDepth
      /\ Set(k, S, b).allowedVars = k.allowedVars
      /\ Set(k, S, b).callablesWithRevert = k.callablesWithRevert
  BY <1>2, <1>3 DEF ChkType
<1> QED
  BY <1>4, <1>5 DEF SameBut

\* Setting or clearing flags.
LEMMA SetTrue ==
  ASSUME NEW k \in ChkType, NEW S
  PROVE  /\ SameBut(Set(k, S, TRUE), k, S)
         /\ \A f \in FlagNames : f \in S => Set(k, S, TRUE).flag[f]
<1>1. PICK b : b \in BOOLEAN /\ b = TRUE
  OBVIOUS
<1>2. /\ SameBut(Set(k, S, b), k, S)
      /\ \A f \in FlagNames : f \in S => (Set(k, S, b).flag[f] <=> b)
  BY <1>1, SetFacts
<1> QED
  BY <1>1, <1>2

LEMMA SetFalse ==
  ASSUME NEW k \in ChkType, NEW S
  PROVE  /\ SameBut(Set(k, S, FALSE), k, S)
         /\ \A f \in FlagNames : f \in S => ~Set(k, S, FALSE).flag[f]
<1>1. PICK b : b \in BOOLEAN /\ b = FALSE
  OBVIOUS
<1>2. /\ SameBut(Set(k, S, b), k, S)
      /\ \A f \in FlagNames : f \in S => (Set(k, S, b).flag[f] <=> b)
  BY <1>1, SetFacts
<1> QED
  BY <1>1, <1>2

LEMMA FlagMembers ==
  /\ "conditional" \in FlagNames /\ "inERC20" \in FlagNames /\ "inLengthAccess" \in FlagNames
  /\ "dirtyParam" \in FlagNames /\ "hasReturn" \in FlagNames /\ "returnFalse" \in FlagNames
  /\ "hasRevert" \in FlagNames /\ "hasMsgDataCheck" \in FlagNames
  /\ "hasSenderBalanceCheck" \in FlagNames /\ "hasAllowedCheck" \in FlagNames
  /\ "hasAllowedUnsafeSub" \in FlagNames /\ "emitApproval" \in FlagNames
  /\ "emitTransfer" \in FlagNames
  BY DEF FlagNames

\* The program at hand is a program.
LEMMA ProgramFacts ==
  ASSUME program \in DOMAIN Programs
  PROVE  /\ Programs[program].contracts \subseteq ContractType
         /\ Programs[program].functions \subseteq FunctionType
         /\ Programs[program].modifiers \subseteq {"guard"}
         /\ Programs[program].vars \subseteq {"v"}
         /\ Programs[program].callees \subseteq FunctionName
<1>1. Programs[program] \in ProgramType
  BY CheckerAssumption
<1> QED
  BY <1>1 DEF ProgramType

-----------------------------------------------------------------------------
(***************************************************************************)
(* Steps inside a function or a modifier: the callable stays the same, fs  *)
(* is what is known of it afterwards.                                      *)
(***************************************************************************)
LEMMA InsideStep ==
  ASSUME IInv, Len(open) >= 2, UNCHANGED <<program, visited>>,
         chk' \in ChkType, Shape(open'), Len(open') >= 2, open'[1] = open[1],
         open'[2].kind = open[2].kind,
         open[2].kind = "function" => open'[2].fn = open[2].fn,
         chk'.flag["inERC20"] = chk.flag["inERC20"],
         chk'.flag["dirtyParam"] = chk.flag["dirtyParam"],
         chk'.callablesWithRevert = chk.callablesWithRevert,
         chk'.comparisonDepth = Cardinality(Places(open', "compare")),
         chk'.flag["conditional"] => Places(open', "if") # {},
         chk'.flag["inLengthAccess"] => Places(open', "length") # {},
         FactsMatch(chk, open[2].facts) => FactsMatch(chk', open'[2].facts),
         chk'.flag["hasRevert"] =>
           Reverts(open'[2].facts, Mods(open[2]), chk.callablesWithRevert)
  PROVE  IInv'
<1> USE DEF IInv
<1>1. Mods(open'[2]) = Mods(open[2])
  BY DEF Mods
<1>2. PlaceInv'
  BY DEF PlaceInv
<1>3. FactsInv'
  <2>1. Len(open) >= 1
    OBVIOUS
  <2>2. chk'.flag["inERC20"] <=> open'[1].erc20
    BY <2>1 DEF FactsInv
  <2>3. open'[2].kind = "function" => FactsMatch(chk', open'[2].facts)
    BY DEF FactsInv
  <2>4. FactsMatch(chk', open'[2].facts) <=> FactsMatch(chk, open[2].facts)'
    BY DEF FactsMatch
  <2> QED
    BY <2>2, <2>3, <2>4 DEF FactsInv
<1>4. RevertInv'
  BY <1>1 DEF RevertInv, Reverts, Mods
<1>5. RevertersAreJustified'
  BY DEF RevertersAreJustified
<1> QED
  BY <1>2, <1>3, <1>4, <1>5

\* A step that neither looks into the callable nor changes a flag about it.
LEMMA PlainStep ==
  ASSUME IInv, Len(open) >= 2, UNCHANGED <<program, visited>>,
         chk' \in ChkType, Shape(open'), Len(open') >= 2,
         open'[1] = open[1], open'[2] = open[2],
         \A f \in FlagNames \ {"conditional", "inLengthAccess"} : chk'.flag[f] = chk.flag[f],
         chk'.callablesWithRevert = chk.callablesWithRevert,
         chk'.allowedVars = chk.allowedVars,
         chk'.comparisonDepth = Cardinality(Places(open', "compare")),
         chk'.flag["conditional"] => Places(open', "if") # {},
         chk'.flag["inLengthAccess"] => Places(open', "length") # {}
  PROVE  IInv'
<1>1. chk'.flag["inERC20"] = chk.flag["inERC20"]
      /\ chk'.flag["dirtyParam"] = chk.flag["dirtyParam"]
      /\ chk'.flag["hasRevert"] = chk.flag["hasRevert"]
  BY FlagMembers
<1>2. FactsMatch(chk, open[2].facts) => FactsMatch(chk', open'[2].facts)
  BY FlagMembers DEF FactsMatch
<1>3. chk'.flag["hasRevert"] => Reverts(open'[2].facts, Mods(open[2]), chk.callablesWithRevert)
  BY <1>1 DEF IInv, RevertInv
<1> QED
  BY <1>1, <1>2, <1>3, InsideStep

LEMMA VisitBlockIInv ==
  ASSUME IInv, VisitBlock
  PROVE  IInv'
<1> USE DEF IInv
<1> DEFINE f == [kind |-> "block", send |-> FALSE, afterSend |-> FALSE]
<1>1. open' = Append(open, f) /\ UNCHANGED <<program, chk, visited>> /\ Len(open) >= 2
  BY KindFacts DEF VisitBlock, Push
<1>2. f \in InnerFrame /\ f.kind = "block" /\ ~f.send
  BY DEF InnerFrame, BlockFrame
<1> HIDE DEF f
<1>3. /\ Shape(open') /\ Len(open') = Len(open) + 1 /\ open'[1] = open[1] /\ open'[2] = open[2]
      /\ \A kind : kind # "block" => Places(open', kind) = Places(open, kind)
  BY <1>1, <1>2, PushFacts
<1>4. Len(open') >= 2
  BY <1>1, <1>3, KindFacts
<1> QED
  BY <1>1, <1>3, <1>4, PlainStep DEF PlaceInv

LEMMA EndBlockIInv ==
  ASSUME IInv, EndBlock
  PROVE  IInv'
<1>1. open' = EndBody /\ UNCHANGED <<program, chk, visited>> /\ Kind = "block" /\ Len(open) >= 2
  BY KindFacts DEF EndBlock, IInv
<1>2. /\ Shape(open') /\ Len(open') >= 2 /\ open'[1] = open[1] /\ open'[2] = open[2]
      /\ \A kind : kind \notin {"block", "stmt"} => Places(open', kind) = Places(open, kind)
  BY <1>1, PopBody DEF IInv
<1> QED
  BY <1>1, <1>2, PlainStep DEF PlaceInv, IInv

LEMMA EndStatementIInv ==
  ASSUME IInv, EndStatement
  PROVE  IInv'
<1>1. open' = Pop /\ UNCHANGED <<program, chk, visited>> /\ Kind = "stmt" /\ Len(open) >= 3
  BY KindFacts DEF EndStatement, IInv
<1>2. /\ Shape(open') /\ Len(open') >= 2 /\ open'[1] = open[1] /\ open'[2] = open[2]
      /\ \A kind : kind # "stmt" => Places(open', kind) = Places(open, kind)
  BY <1>1, PopTop DEF IInv
<1>3. Len(open) >= 2
  BY <1>1, KindFacts DEF IInv
<1> QED
  BY <1>1, <1>2, <1>3, PlainStep DEF PlaceInv, IInv

LEMMA VisitIfIInv ==
  ASSUME IInv, VisitIf
  PROVE  IInv'
<1> USE DEF IInv
<1> DEFINE f == [kind |-> "if"]
<1>1. open' = Append(open, f) /\ UNCHANGED <<program, visited>> /\ Len(open) >= 2
      /\ chk' = Set(chk, {"conditional"}, TRUE)
  BY KindFacts DEF VisitIf, Push
<1>2. f \in InnerFrame /\ f.kind = "if"
  BY DEF InnerFrame, PlainFrame
<1> HIDE DEF f
<1>3. /\ Shape(open') /\ Len(open') = Len(open) + 1 /\ open'[1] = open[1] /\ open'[2] = open[2]
      /\ \A kind : kind # "if" => Places(open', kind) = Places(open, kind)
      /\ Places(open', "if") = Places(open, "if") \cup {Len(open) + 1}
  BY <1>1, <1>2, PushFacts
<1>4. Len(open') >= 2
  BY <1>1, <1>3, KindFacts
<1>5. SameBut(chk', chk, {"conditional"}) /\ chk'.flag["conditional"]
  BY <1>1, SetTrue, FlagMembers
<1>6. chk'.flag["inLengthAccess"] = chk.flag["inLengthAccess"]
  BY <1>5, FlagMembers DEF SameBut
<1> QED
  BY <1>1, <1>3, <1>4, <1>5, <1>6, PlainStep DEF PlaceInv, SameBut

LEMMA EndVisitIfIInv ==
  ASSUME IInv, EndVisitIf
  PROVE  IInv'
<1> USE DEF IInv
<1>1. open' = EndBody /\ UNCHANGED <<program, visited>> /\ Kind = "if" /\ Len(open) >= 2
      /\ chk' = Set(chk, {"conditional"}, FALSE)
  BY KindFacts DEF EndVisitIf
<1>2. /\ Shape(open') /\ Len(open') >= 2 /\ open'[1] = open[1] /\ open'[2] = open[2]
      /\ \A kind : kind \notin {"if", "stmt"} => Places(open', kind) = Places(open, kind)
  BY <1>1, PopBody
<1>3. SameBut(chk', chk, {"conditional"}) /\ ~chk'.flag["conditional"]
  BY <1>1, SetFalse, FlagMembers
<1>4. chk'.flag["inLengthAccess"] = chk.flag["inLengthAccess"] /\ ~chk'.flag["conditional"]
  BY <1>3, FlagMembers DEF SameBut
<1> QED
  BY <1>1, <1>2, <1>3, <1>4, PlainStep DEF PlaceInv, SameBut

LEMMA VisitLengthIInv ==
  ASSUME IInv, VisitLength
  PROVE  IInv'
<1> USE DEF IInv
<1> DEFINE f == [kind |-> "length"]
<1>1. open' = Append(open, f) /\ UNCHANGED <<program, visited>> /\ Len(open) >= 2
      /\ chk' = Set(chk, {"inLengthAccess"}, TRUE)
  BY KindFacts DEF VisitLength, Push, InExpression
<1>2. f \in InnerFrame /\ f.kind = "length"
  BY DEF InnerFrame, PlainFrame
<1> HIDE DEF f
<1>3. /\ Shape(open') /\ Len(open') = Len(open) + 1 /\ open'[1] = open[1] /\ open'[2] = open[2]
      /\ \A kind : kind # "length" => Places(open', kind) = Places(open, kind)
      /\ Places(open', "length") = Places(open, "length") \cup {Len(open) + 1}
  BY <1>1, <1>2, PushFacts
<1>4. Len(open') >= 2
  BY <1>1, <1>3, KindFacts
<1>5. SameBut(chk', chk, {"inLengthAccess"}) /\ chk'.flag["inLengthAccess"]
  BY <1>1, SetTrue, FlagMembers
<1>6. chk'.flag["conditional"] = chk.flag["conditional"]
  BY <1>5, FlagMembers DEF SameBut
<1> QED
  BY <1>1, <1>3, <1>4, <1>5, <1>6, PlainStep DEF PlaceInv, SameBut

LEMMA EndVisitLengthIInv ==
  ASSUME IInv, EndVisitLength
  PROVE  IInv'
<1> USE DEF IInv
<1>1. open' = Pop /\ UNCHANGED <<program, visited>> /\ Kind = "length" /\ Len(open) >= 3
      /\ chk' = Set(chk, {"inLengthAccess"}, FALSE)
  BY KindFacts DEF EndVisitLength
<1>2. /\ Shape(open') /\ Len(open') >= 2 /\ open'[1] = open[1] /\ open'[2] = open[2]
      /\ \A kind : kind # "length" => Places(open', kind) = Places(open, kind)
  BY <1>1, PopTop
<1>3. SameBut(chk', chk, {"inLengthAccess"}) /\ ~chk'.flag["inLengthAccess"]
  BY <1>1, SetFalse, FlagMembers
<1>4. chk'.flag["conditional"] = chk.flag["conditional"] /\ ~chk'.flag["inLengthAccess"]
  BY <1>3, FlagMembers DEF SameBut
<1>5. Len(open) >= 2
  BY <1>1, KindFacts
<1> QED
  BY <1>1, <1>2, <1>3, <1>4, <1>5, PlainStep DEF PlaceInv, SameBut

LEMMA VisitStatementIInv ==
  ASSUME IInv, VisitStatement
  PROVE  IInv'
<1> USE DEF IInv
<1> DEFINE f == [kind |-> "stmt"]
<1>1. UNCHANGED <<program, chk, visited>> /\ Kind \in {"block", "if"} /\ Len(open) >= 2
  BY KindFacts DEF VisitStatement
<1>2. f \in InnerFrame /\ f.kind = "stmt"
  BY DEF InnerFrame, PlainFrame
<1>3. PICK o : /\ open' = Append(o, f) /\ Shape(o) /\ Len(o) = Len(open)
               /\ o[1] = open[1] /\ o[2] = open[2]
               /\ \A kind : Places(o, kind) = Places(open, kind)
  <2>1. CASE Kind = "block"
    <3> DEFINE L == Len(open)
               g == [open[L] EXCEPT !.send = FALSE, !.afterSend = FALSE]
               o == [open EXCEPT ![L].send = FALSE, ![L].afterSend = FALSE]
    <3>1. open' = Append(o, f)
      BY <2>1 DEF VisitStatement
    <3>2. L \in DOMAIN open /\ open \in Seq(Frame) /\ open[L] \in BlockFrame
      <4>1. L \in DOMAIN open /\ open \in Seq(Frame) /\ L >= 3 /\ open[L].kind = "block"
        BY <2>1, KindFacts
      <4> QED
        BY <4>1, FrameFacts DEF Shape
    <3>3. g \in BlockFrame /\ ~g.send
      BY <3>2 DEF BlockFrame
    <3>4. o = [open EXCEPT ![L] = g]
      BY <3>2 DEF BlockFrame
    <3> HIDE DEF o, g, f
    <3> QED
      BY <2>1, <3>1, <3>3, <3>4, BlockFacts
  <2>2. CASE Kind = "if"
    BY <2>2 DEF VisitStatement, Push
  <2> QED
    BY <1>1, <2>1, <2>2
<1> HIDE DEF f
<1>4. /\ Shape(open') /\ Len(open') = Len(open) + 1 /\ open'[1] = open[1] /\ open'[2] = open[2]
      /\ \A kind : kind # "stmt" => Places(open', kind) = Places(open, kind)
  BY <1>1, <1>2, <1>3, PushFacts
<1>5. Len(open') >= 2
  BY <1>1, <1>4, KindFacts
<1> QED
  BY <1>1, <1>4, <1>5, PlainStep DEF PlaceInv

\* What is known of the facts.
LEMMA FactFields ==
  ASSUME NEW fs \in FactsType
  PROVE  /\ fs.returns \in BOOLEAN /\ fs.returnsFalse \in BOOLEAN /\ fs.emitsTransfer \in BOOLEAN
         /\ fs.emitsApproval \in BOOLEAN /\ fs.comparesAllowed \in BOOLEAN
         /\ fs.subtractsAllowed \in BOOLEAN /\ fs.checksMsgData \in BOOLEAN
         /\ fs.checksBalance \in BOOLEAN /\ fs.reverts \in BOOLEAN
         /\ fs.calls \subseteq FunctionName /\ fs.allowedVars \subseteq {"v"}
  BY DEF FactsType

LEMMA RequireSendIInv ==
  ASSUME IInv, RequireSend
  PROVE  IInv'
<1> USE DEF IInv
<1> DEFINE L == Len(open)
           top == open[L]
           fs == [open[2].facts EXCEPT !.reverts = TRUE]
           g == [top EXCEPT !.send = ~top.send, !.afterSend = TRUE]
           o == [open EXCEPT ![L] = g]
<1>1. UNCHANGED <<program, visited>> /\ Kind = "block" /\ L >= 3
      /\ chk' = IF top.send THEN Set(chk, {"hasRevert"}, TRUE) ELSE chk
  BY KindFacts DEF RequireSend, Top
<1>2. L \in DOMAIN open /\ open \in Seq(Frame) /\ top \in BlockFrame /\ 2 \in DOMAIN open /\ L # 2
  <2>1. L \in DOMAIN open /\ open \in Seq(Frame) /\ L >= 3 /\ top.kind = "block"
    BY <1>1, KindFacts
  <2> QED
    BY <2>1, FrameFacts DEF Shape
<1>3. g \in BlockFrame /\ g.afterSend
  BY <1>2 DEF BlockFrame
<1>4. open[2] \in CallableFrame /\ open[2].facts \in FactsType
  BY <1>1, KindFacts, FrameFacts DEF Shape
<1>5. /\ fs \in FactsType /\ fs.reverts /\ fs.allowedVars = open[2].facts.allowedVars
      /\ FactsMatch(chk, open[2].facts) => FactsMatch(chk, fs)
  BY <1>4 DEF FactsType, FactsMatch
<1>6. open' = WithFacts(o, fs)
  <2>1. open' = [open EXCEPT ![L].send = ~top.send, ![L].afterSend = TRUE,
                             ![2].facts.reverts = TRUE]
    BY DEF RequireSend, Top
  <2>2. [open EXCEPT ![L].send = ~top.send, ![L].afterSend = TRUE] = o
    BY <1>2 DEF BlockFrame
  <2>3. o[2] = open[2]
    BY <1>2
  <2>4. open' = [o EXCEPT ![2].facts.reverts = TRUE]
    BY <2>1, <2>2
  <2> QED
    BY <2>3, <2>4 DEF WithFacts
<1>t. o = [open EXCEPT ![Len(open)] = g]
  OBVIOUS
<1> HIDE DEF fs, g, o, top
<1>7. /\ Shape(o) /\ Len(o) = Len(open) /\ Len(open) >= 3 /\ o[1] = open[1] /\ o[2] = open[2]
      /\ \A kind : Places(o, kind) = Places(open, kind)
  BY <1>1, <1>3, <1>t, BlockFacts
<1>8. /\ Shape(open') /\ Len(open') = Len(open) /\ open'[1] = open[1]
      /\ open'[2].facts = fs /\ open'[2].kind = open[2].kind
      /\ open[2].kind = "function" => open'[2].fn = open[2].fn
      /\ \A kind : Places(open', kind) = Places(open, kind)
  <2>1. Len(o) >= 2 /\ fs \in FactsType /\ Shape(o)
    BY <1>1, <1>2, <1>5, <1>7
  <2>2. /\ Shape(open') /\ Len(open') = Len(o) /\ open'[1] = o[1]
        /\ open'[2].facts = fs /\ open'[2].kind = o[2].kind
        /\ o[2].kind = "function" => open'[2].fn = o[2].fn
        /\ \A kind : Places(open', kind) = Places(o, kind)
    BY <1>6, <2>1, ChangedFacts
  <2> QED
    BY <1>7, <2>2
<1>9. SameBut(chk', chk, {"hasRevert"})
  <2>1. CASE top.send
    BY <1>1, <2>1, SetTrue
  <2>2. CASE ~top.send
    BY <1>1, <2>2 DEF SameBut
  <2> QED
    BY <2>1, <2>2
<1>10. /\ chk'.flag["inERC20"] = chk.flag["inERC20"]
       /\ chk'.flag["dirtyParam"] = chk.flag["dirtyParam"]
       /\ chk'.flag["conditional"] = chk.flag["conditional"]
       /\ chk'.flag["inLengthAccess"] = chk.flag["inLengthAccess"]
       /\ chk' \in ChkType /\ chk'.comparisonDepth = chk.comparisonDepth
       /\ chk'.callablesWithRevert = chk.callablesWithRevert
       /\ FactsMatch(chk, fs) => FactsMatch(chk', fs)
  BY <1>9, FlagMembers DEF SameBut, FactsMatch
<1>11. Len(open) >= 2 /\ Len(open') >= 2
  BY <1>1, <1>8, KindFacts
<1> QED
  BY <1>1, <1>5, <1>8, <1>10, <1>11, InsideStep DEF PlaceInv, Reverts

\* A step that adds to what is known of the callable.
LEMMA NoteStep ==
  ASSUME IInv, Len(open) >= 2, UNCHANGED <<program, visited>>,
         NEW fs \in FactsType, open' = Note(fs), NEW S,
         S \cap {"inERC20", "dirtyParam", "conditional", "inLengthAccess"} = {},
         chk' \in ChkType, \A f \in FlagNames \ S : chk'.flag[f] = chk.flag[f],
         chk'.comparisonDepth = chk.comparisonDepth,
         chk'.callablesWithRevert = chk.callablesWithRevert,
         FactsMatch(chk, open[2].facts) => FactsMatch(chk', fs),
         chk'.flag["hasRevert"] => Reverts(fs, Mods(open[2]), chk.callablesWithRevert)
  PROVE  IInv'
<1> USE DEF IInv
<1>1. /\ Shape(open') /\ Len(open') = Len(open) /\ open'[1] = open[1]
      /\ open'[2].facts = fs /\ open'[2].kind = open[2].kind
      /\ open[2].kind = "function" => open'[2].fn = open[2].fn
      /\ \A kind : Places(open', kind) = Places(open, kind)
  BY NoteFacts
<1>2. /\ chk'.flag["inERC20"] = chk.flag["inERC20"]
      /\ chk'.flag["dirtyParam"] = chk.flag["dirtyParam"]
      /\ chk'.flag["conditional"] = chk.flag["conditional"]
      /\ chk'.flag["inLengthAccess"] = chk.flag["inLengthAccess"]
  BY FlagMembers
<1> QED
  BY <1>1, <1>2, InsideStep DEF PlaceInv

\* Inside an expression the walk is inside a callable.
LEMMA ExpressionFacts ==
  ASSUME IInv, InExpression \/ Kind = "stmt"
  PROVE  /\ Len(open) >= 2 /\ Len(open) >= 3 /\ Callable = open[2]
         /\ open[2] \in CallableFrame /\ open[2].facts \in FactsType
         /\ chk.flag["hasRevert"] =>
              Reverts(open[2].facts, Mods(open[2]), chk.callablesWithRevert)
<1>1. Shape(open) /\ RevertInv
  BY DEF IInv
<1>2. Len(open) >= 3 /\ Len(open) \in Nat
  BY <1>1, KindFacts DEF InExpression
<1>3. Len(open) >= 2
  BY <1>2
<1> QED
  BY <1>1, <1>2, <1>3, FrameFacts DEF Shape, RevertInv, Callable

LEMMA VisitComparisonIInv ==
  ASSUME IInv, NEW o, VisitComparison(o)
  PROVE  IInv'
<1> USE DEF IInv
<1> DEFINE old == open[2].facts
           fs == [old EXCEPT !.comparesAllowed = @ \/ o = "allowed[x][y]" \/ o \in old.allowedVars]
           f == [kind |-> "compare"]
           b == chk.flag["hasAllowedCheck"] \/ IsAllowed(chk, o)
           k == Set(chk, {"hasAllowedCheck"}, b)
<1>1. InExpression /\ UNCHANGED <<program, visited>>
      /\ open' = Append(Note(fs), f) /\ chk' = [k EXCEPT !.comparisonDepth = @ + 1]
  BY DEF VisitComparison, Callable
<1>2. /\ Len(open) >= 2 /\ old \in FactsType
      /\ chk.flag["hasRevert"] => Reverts(old, Mods(open[2]), chk.callablesWithRevert)
  BY <1>1, ExpressionFacts
<1>3. /\ fs \in FactsType /\ fs.reverts = old.reverts /\ fs.calls = old.calls
      /\ fs.comparesAllowed <=> old.comparesAllowed \/ o = "allowed[x][y]" \/ o \in old.allowedVars
      /\ fs.returns = old.returns /\ fs.returnsFalse = old.returnsFalse
      /\ fs.emitsTransfer = old.emitsTransfer /\ fs.emitsApproval = old.emitsApproval
      /\ fs.checksBalance = old.checksBalance /\ fs.subtractsAllowed = old.subtractsAllowed
      /\ fs.allowedVars = old.allowedVars
  BY <1>2 DEF FactsType
<1>4. f \in InnerFrame /\ f.kind = "compare"
  BY DEF InnerFrame, PlainFrame
<1>5. /\ b \in BOOLEAN
      /\ b <=> chk.flag["hasAllowedCheck"] \/ o = "allowed[x][y]" \/ o \in chk.allowedVars
  BY ChkFacts, FlagMembers DEF IsAllowed
<1> HIDE DEF old, fs, f, b
<1>6. SameBut(k, chk, {"hasAllowedCheck"}) /\ (k.flag["hasAllowedCheck"] <=> b)
  BY <1>5, SetFacts, FlagMembers
<1> HIDE DEF k
<1>7. /\ chk' \in ChkType /\ chk'.comparisonDepth = chk.comparisonDepth + 1
      /\ chk'.allowedVars = chk.allowedVars
      /\ chk'.callablesWithRevert = chk.callablesWithRevert
      /\ chk'.flag = k.flag
  BY <1>1, <1>6 DEF SameBut, ChkType
<1>8. \A g \in FlagNames \ {"hasAllowedCheck"} : chk'.flag[g] = chk.flag[g]
  BY <1>6, <1>7 DEF SameBut
<1>9. /\ chk'.flag["inERC20"] = chk.flag["inERC20"]
      /\ chk'.flag["dirtyParam"] = chk.flag["dirtyParam"]
      /\ chk'.flag["conditional"] = chk.flag["conditional"]
      /\ chk'.flag["inLengthAccess"] = chk.flag["inLengthAccess"]
      /\ chk'.flag["hasRevert"] = chk.flag["hasRevert"]
      /\ chk'.flag["hasAllowedCheck"] <=> b
  BY <1>6, <1>7, <1>8, FlagMembers
<1>10. FactsMatch(chk, old) => FactsMatch(chk', fs)
  <2> SUFFICES ASSUME FactsMatch(chk, old) PROVE FactsMatch(chk', fs)
    OBVIOUS
  <2>1. chk'.flag["hasAllowedCheck"] <=> fs.comparesAllowed
    BY <1>3, <1>5, <1>9 DEF FactsMatch
  <2> QED
    BY <1>3, <1>7, <1>8, <2>1, FlagMembers DEF FactsMatch
<1>11. /\ Shape(Note(fs)) /\ Len(Note(fs)) = Len(open) /\ Note(fs)[1] = open[1]
       /\ Note(fs)[2].facts = fs /\ Note(fs)[2].kind = open[2].kind
       /\ open[2].kind = "function" => Note(fs)[2].fn = open[2].fn
       /\ \A kind : Places(Note(fs), kind) = Places(open, kind)
  BY <1>2, <1>3, NoteFacts
<1>12. /\ Shape(open') /\ Len(open') = Len(open) + 1 /\ open'[1] = open[1]
       /\ open'[2].facts = fs /\ open'[2].kind = open[2].kind
       /\ open[2].kind = "function" => open'[2].fn = open[2].fn
       /\ \A kind : kind # "compare" => Places(open', kind) = Places(open, kind)
       /\ Places(open', "compare") = Places(open, "compare") \cup {Len(open) + 1}
       /\ Len(open) + 1 \notin Places(open, "compare")
  <2> DEFINE n == Note(fs)
  <2> HIDE DEF n
  <2>1. /\ Shape(Append(n, f)) /\ Len(Append(n, f)) = Len(n) + 1
        /\ Append(n, f)[1] = n[1] /\ Append(n, f)[2] = n[2]
        /\ \A kind : kind # "compare" => Places(Append(n, f), kind) = Places(n, kind)
        /\ Places(Append(n, f), "compare") = Places(n, "compare") \cup {Len(n) + 1}
        /\ Len(n) + 1 \notin Places(n, "compare")
    BY <1>2, <1>4, <1>11, PushFacts DEF n
  <2> QED
    BY <1>1, <1>11, <2>1 DEF n
<1>13. chk'.comparisonDepth = Cardinality(Places(open', "compare"))
  <2>1. IsFiniteSet(Places(open, "compare"))
    BY PlacesFinite
  <2> QED
    BY <1>7, <1>12, <2>1, FS_AddElement DEF PlaceInv
<1>14. Len(open') >= 2
  BY <1>2, <1>12, KindFacts
<1>15. chk'.flag["hasRevert"] => Reverts(fs, Mods(open[2]), chk.callablesWithRevert)
  BY <1>2, <1>3, <1>9 DEF Reverts
<1> QED
  BY <1>1, <1>2, <1>7, <1>9, <1>10, <1>12, <1>13, <1>14, <1>15, InsideStep DEF PlaceInv, old

LEMMA EndVisitComparisonIInv ==
  ASSUME IInv, EndVisitComparison
  PROVE  IInv'
<1> USE DEF IInv
<1>1. open' = Pop /\ UNCHANGED <<program, visited>> /\ Kind = "compare" /\ Len(open) >= 3
      /\ chk' = [chk EXCEPT !.comparisonDepth = @ - 1]
  BY KindFacts DEF EndVisitComparison
<1>2. /\ Shape(open') /\ Len(open') >= 2 /\ open'[1] = open[1] /\ open'[2] = open[2]
      /\ \A kind : kind # "compare" => Places(open', kind) = Places(open, kind)
      /\ Places(open', "compare") = Places(open, "compare") \ {Len(open)}
      /\ Len(open) \in Places(open, "compare")
  BY <1>1, PopTop
<1>3. chk.comparisonDepth = Cardinality(Places(open, "compare"))
  BY DEF PlaceInv
<1>4. IsFiniteSet(Places(open, "compare")) /\ Cardinality(Places(open, "compare")) \in Nat
      /\ Cardinality(Places(open, "compare")) # 0
  BY <1>2, PlacesFinite
<1>5. Cardinality(Places(open', "compare")) = Cardinality(Places(open, "compare")) - 1
  BY <1>2, <1>4, FS_RemoveElement
<1>6. chk.comparisonDepth - 1 \in Nat
  BY <1>3, <1>4
<1>7. chk' \in ChkType /\ chk'.flag = chk.flag /\ chk'.allowedVars = chk.allowedVars
      /\ chk'.callablesWithRevert = chk.callablesWithRevert
      /\ chk'.comparisonDepth = chk.comparisonDepth - 1
  BY <1>1, <1>6 DEF ChkType
<1>8. Len(open) >= 2
  BY <1>1, KindFacts
<1> QED
  BY <1>1, <1>2, <1>3, <1>5, <1>7, <1>8, PlainStep DEF PlaceInv

\* What a leaf expression does to the flags about the callable.
ExprFlags == {"hasReturn", "returnFalse", "emitTransfer", "emitApproval", "hasRevert",
              "hasMsgDataCheck", "hasSenderBalanceCheck"}

FlagsLearnt(q, k, e) ==
  /\ SameBut(q, k, ExprFlags)
  /\ q.flag["hasReturn"] <=> k.flag["hasReturn"] \/ e \in ReturnKinds
  /\ q.flag["returnFalse"] <=> k.flag["returnFalse"] \/ e = "return false"
  /\ q.flag["emitTransfer"] <=> k.flag["emitTransfer"] \/ e = "emit Transfer"
  /\ q.flag["emitApproval"] <=> k.flag["emitApproval"] \/ e = "emit Approval"
  /\ q.flag["hasRevert"] <=> k.flag["hasRevert"] \/ e \in RevertKinds
  /\ q.flag["hasSenderBalanceCheck"] <=>
       k.flag["hasSenderBalanceCheck"] \/ e = "require balances[msg.sender]"

\* The flags of S are set by an expression that is known for them.
LEMMA LearntFlags ==
  ASSUME NEW k \in ChkType, NEW q, NEW S, NEW e, q = Set(k, S, TRUE), S \subseteq ExprFlags,
         "hasReturn" \in S <=> e \in ReturnKinds,
         "returnFalse" \in S <=> e = "return false",
         "emitTransfer" \in S <=> e = "emit Transfer",
         "emitApproval" \in S <=> e = "emit Approval",
         "hasRevert" \in S <=> e \in RevertKinds,
         "hasSenderBalanceCheck" \in S <=> e = "require balances[msg.sender]"
  PROVE  FlagsLearnt(q, k, e)
<1>1. SameBut(q, k, S) /\ \A f \in FlagNames : f \in S => q.flag[f]
  BY SetTrue
<1>2. SameBut(q, k, ExprFlags)
  BY <1>1 DEF SameBut
<1>3. k.flag \in [FlagNames -> BOOLEAN] /\ q.flag \in [FlagNames -> BOOLEAN]
  BY <1>1, ChkFacts DEF SameBut
<1>4. \A f \in FlagNames : q.flag[f] <=> k.flag[f] \/ f \in S
  BY <1>1, <1>3 DEF SameBut
<1> QED
  BY <1>2, <1>4, FlagMembers DEF FlagsLearnt

LEMMA ExprFacts ==
  ASSUME NEW k \in ChkType, NEW e
  PROVE  FlagsLearnt(EndVisitExpr(k, e), k, e)
<1>1. CASE e = "return"
  <2> DEFINE S == {"hasReturn"}
  <2>1. EndVisitExpr(k, e) = Set(k, S, TRUE)
    BY <1>1 DEF EndVisitExpr
  <2> QED
    BY <1>1, <2>1, LearntFlags DEF ReturnKinds, RevertKinds, ExprFlags
<1>2. CASE e = "return false"
  <2> DEFINE S == {"hasReturn", "returnFalse"}
  <2>1. EndVisitExpr(k, e) = Set(k, S, TRUE)
    BY <1>2 DEF EndVisitExpr
  <2> QED
    BY <1>2, <2>1, LearntFlags DEF ReturnKinds, RevertKinds, ExprFlags
<1>3. CASE e = "emit Transfer"
  <2> DEFINE S == {"emitTransfer"}
  <2>1. EndVisitExpr(k, e) = Set(k, S, TRUE)
    BY <1>3 DEF EndVisitExpr
  <2> QED
    BY <1>3, <2>1, LearntFlags DEF ReturnKinds, RevertKinds, ExprFlags
<1>4. CASE e = "emit Approval"
  <2> DEFINE S == {"emitApproval"}
  <2>1. EndVisitExpr(k, e) = Set(k, S, TRUE)
    BY <1>4 DEF EndVisitExpr
  <2> QED
    BY <1>4, <2>1, LearntFlags DEF ReturnKinds, RevertKinds, ExprFlags
<1>5. CASE e \in {"revert", "assert", "require"}
  <2> DEFINE S == {"hasRevert"}
  <2>1. EndVisitExpr(k, e) = Set(k, S, TRUE)
    BY <1>5 DEF EndVisitExpr
  <2> QED
    BY <1>5, <2>1, LearntFlags DEF ReturnKinds, RevertKinds, ExprFlags
<1>6. CASE e = "require msg.data.length"
  <2> DEFINE S == {"hasRevert", "hasMsgDataCheck"}
  <2>1. EndVisitExpr(k, e) = Set(k, S, TRUE)
    BY <1>6 DEF EndVisitExpr
  <2> QED
    BY <1>6, <2>1, LearntFlags DEF ReturnKinds, RevertKinds, ExprFlags
<1>7. CASE e = "require balances[msg.sender]"
  <2> DEFINE S == {"hasRevert", "hasSenderBalanceCheck"}
  <2>1. EndVisitExpr(k, e) = Set(k, S, TRUE)
    BY <1>7 DEF EndVisitExpr
  <2> QED
    BY <1>7, <2>1, LearntFlags DEF ReturnKinds, RevertKinds, ExprFlags
<1>8. CASE e \notin ReturnKinds \cup {"emit Transfer", "emit Approval"} \cup RevertKinds
  <2>1. EndVisitExpr(k, e) = k
    BY <1>8 DEF EndVisitExpr, ReturnKinds, RevertKinds
  <2>2. SameBut(k, k, ExprFlags)
    BY DEF SameBut
  <2>3. e # "return false" /\ e # "require balances[msg.sender]"
    BY <1>8 DEF ReturnKinds, RevertKinds
  <2> QED
    BY <1>8, <2>1, <2>2, <2>3 DEF FlagsLearnt
<1> QED
  BY <1>1, <1>2, <1>3, <1>4, <1>5, <1>6, <1>7, <1>8 DEF ReturnKinds, RevertKinds

LEMMA LearnFacts ==
  ASSUME NEW fs \in FactsType, NEW e
  PROVE  /\ Learn(fs, e) \in FactsType
         /\ Learn(fs, e).returns <=> fs.returns \/ e \in ReturnKinds
         /\ Learn(fs, e).returnsFalse <=> fs.returnsFalse \/ e = "return false"
         /\ Learn(fs, e).emitsTransfer <=> fs.emitsTransfer \/ e = "emit Transfer"
         /\ Learn(fs, e).emitsApproval <=> fs.emitsApproval \/ e = "emit Approval"
         /\ Learn(fs, e).reverts <=> fs.reverts \/ e \in RevertKinds
         /\ Learn(fs, e).checksBalance <=> fs.checksBalance \/ e = "require balances[msg.sender]"
         /\ Learn(fs, e).comparesAllowed = fs.comparesAllowed
         /\ Learn(fs, e).subtractsAllowed = fs.subtractsAllowed
         /\ Learn(fs, e).allowedVars = fs.allowedVars /\ Learn(fs, e).calls = fs.calls
<1> DEFINE a == fs.returns \/ e \in ReturnKinds
           b == fs.returnsFalse \/ e = "return false"
           c == fs.emitsTransfer \/ e = "emit Transfer"
           d == fs.emitsApproval \/ e = "emit Approval"
           r == fs.reverts \/ e \in RevertKinds
           m == fs.checksMsgData \/ e = "require msg.data.length"
           s == fs.checksBalance \/ e = "require balances[msg.sender]"
<1>1. Learn(fs, e) = [fs EXCEPT !.returns = a, !.returnsFalse = b, !.emitsTransfer = c,
                                !.emitsApproval = d, !.reverts = r, !.checksMsgData = m,
                                !.checksBalance = s]
  BY DEF Learn
<1>2. a \in BOOLEAN /\ b \in BOOLEAN /\ c \in BOOLEAN /\ d \in BOOLEAN /\ r \in BOOLEAN
      /\ m \in BOOLEAN /\ s \in BOOLEAN
  OBVIOUS
<1> HIDE DEF a, b, c, d, r, m, s
<1>3. /\ Learn(fs, e) \in FactsType
      /\ Learn(fs, e).returns = a /\ Learn(fs, e).returnsFalse = b
      /\ Learn(fs, e).emitsTransfer = c /\ Learn(fs, e).emitsApproval = d
      /\ Learn(fs, e).reverts = r /\ Learn(fs, e).checksBalance = s
      /\ Learn(fs, e).comparesAllowed = fs.comparesAllowed
      /\ Learn(fs, e).subtractsAllowed = fs.subtractsAllowed
      /\ Learn(fs, e).allowedVars = fs.allowedVars /\ Learn(fs, e).calls = fs.calls
  BY <1>1, <1>2 DEF FactsType
<1> QED
  BY <1>3 DEF a, b, c, d, r, s

LEMMA VisitExpressionIInv ==
  ASSUME IInv, NEW e, VisitExpression(e)
  PROVE  IInv'
<1> DEFINE old == open[2].facts
           fs == Learn(old, e)
<1>1. /\ InExpression \/ Kind = "stmt"
      /\ UNCHANGED <<program, visited>>
      /\ open' = Note(fs) /\ chk' = EndVisitExpr(chk, e)
  BY DEF VisitExpression, Callable
<1>2. /\ Len(open) >= 2 /\ old \in FactsType
      /\ chk.flag["hasRevert"] => Reverts(old, Mods(open[2]), chk.callablesWithRevert)
  BY <1>1, ExpressionFacts
<1>3. chk \in ChkType
  BY DEF IInv
<1>4. FlagsLearnt(chk', chk, e)
  BY <1>1, <1>3, ExprFacts
<1>5. /\ fs \in FactsType
      /\ fs.returns <=> old.returns \/ e \in ReturnKinds
      /\ fs.returnsFalse <=> old.returnsFalse \/ e = "return false"
      /\ fs.emitsTransfer <=> old.emitsTransfer \/ e = "emit Transfer"
      /\ fs.emitsApproval <=> old.emitsApproval \/ e = "emit Approval"
      /\ fs.reverts <=> old.reverts \/ e \in RevertKinds
      /\ fs.checksBalance <=> old.checksBalance \/ e = "require balances[msg.sender]"
      /\ fs.comparesAllowed = old.comparesAllowed /\ fs.subtractsAllowed = old.subtractsAllowed
      /\ fs.allowedVars = old.allowedVars /\ fs.calls = old.calls
  BY <1>2, LearnFacts
<1> HIDE DEF old, fs
<1>6. /\ chk' \in ChkType /\ \A f \in FlagNames \ ExprFlags : chk'.flag[f] = chk.flag[f]
      /\ chk'.comparisonDepth = chk.comparisonDepth /\ chk'.allowedVars = chk.allowedVars
      /\ chk'.callablesWithRevert = chk.callablesWithRevert
  BY <1>4 DEF FlagsLearnt, SameBut
<1>7. /\ chk'.flag["hasAllowedCheck"] = chk.flag["hasAllowedCheck"]
      /\ chk'.flag["hasAllowedUnsafeSub"] = chk.flag["hasAllowedUnsafeSub"]
  BY <1>6, FlagMembers DEF ExprFlags
<1>8. FactsMatch(chk, old) => FactsMatch(chk', fs)
  BY <1>4, <1>5, <1>6, <1>7 DEF FactsMatch, FlagsLearnt
<1>9. chk'.flag["hasRevert"] => Reverts(fs, Mods(open[2]), chk.callablesWithRevert)
  BY <1>2, <1>4, <1>5 DEF FlagsLearnt, Reverts
<1>10. ExprFlags \cap {"inERC20", "dirtyParam", "conditional", "inLengthAccess"} = {}
  BY DEF ExprFlags
<1> QED
  BY <1>1, <1>2, <1>5, <1>6, <1>8, <1>9, <1>10, NoteStep DEF old

LEMMA VisitSubtractionIInv ==
  ASSUME IInv, NEW o, VisitSubtraction(o)
  PROVE  IInv'
<1> DEFINE old == open[2].facts
           fs == [old EXCEPT !.subtractsAllowed = @ \/ o = "allowed[x][y]" \/ o \in old.allowedVars]
           b == chk.flag["hasAllowedUnsafeSub"] \/ IsAllowed(chk, o)
           S == {"hasAllowedUnsafeSub"}
<1>1. InExpression /\ UNCHANGED <<program, visited>>
      /\ open' = Note(fs) /\ chk' = Set(chk, S, b)
  BY DEF VisitSubtraction, Callable
<1>2. /\ Len(open) >= 2 /\ old \in FactsType
      /\ chk.flag["hasRevert"] => Reverts(old, Mods(open[2]), chk.callablesWithRevert)
  BY <1>1, ExpressionFacts
<1>3. /\ fs \in FactsType /\ fs.reverts = old.reverts /\ fs.calls = old.calls
      /\ fs.subtractsAllowed <=> old.subtractsAllowed \/ o = "allowed[x][y]" \/ o \in old.allowedVars
      /\ fs.returns = old.returns /\ fs.returnsFalse = old.returnsFalse
      /\ fs.emitsTransfer = old.emitsTransfer /\ fs.emitsApproval = old.emitsApproval
      /\ fs.checksBalance = old.checksBalance /\ fs.comparesAllowed = old.comparesAllowed
      /\ fs.allowedVars = old.allowedVars
  BY <1>2 DEF FactsType
<1>4. chk \in ChkType
  BY DEF IInv
<1>5. /\ b \in BOOLEAN
      /\ b <=> chk.flag["hasAllowedUnsafeSub"] \/ o = "allowed[x][y]" \/ o \in chk.allowedVars
  BY <1>4, ChkFacts, FlagMembers DEF IsAllowed
<1> HIDE DEF old, fs, b
<1>6. SameBut(chk', chk, S) /\ (chk'.flag["hasAllowedUnsafeSub"] <=> b)
  BY <1>1, <1>4, <1>5, SetFacts, FlagMembers
<1>7. /\ chk' \in ChkType /\ \A f \in FlagNames \ S : chk'.flag[f] = chk.flag[f]
      /\ chk'.comparisonDepth = chk.comparisonDepth /\ chk'.allowedVars = chk.allowedVars
      /\ chk'.callablesWithRevert = chk.callablesWithRevert
  BY <1>6 DEF SameBut
<1>8. FactsMatch(chk, old) => FactsMatch(chk', fs)
  <2> SUFFICES ASSUME FactsMatch(chk, old) PROVE FactsMatch(chk', fs)
    OBVIOUS
  <2>1. chk'.flag["hasAllowedUnsafeSub"] <=> fs.subtractsAllowed
    BY <1>3, <1>5, <1>6 DEF FactsMatch
  <2> QED
    BY <1>3, <1>7, <2>1, FlagMembers DEF FactsMatch
<1>9. chk'.flag["hasRevert"] => Reverts(fs, Mods(open[2]), chk.callablesWithRevert)
  BY <1>2, <1>3, <1>7, FlagMembers DEF Reverts
<1>10. S \cap {"inERC20", "dirtyParam", "conditional", "inLengthAccess"} = {}
  OBVIOUS
<1> HIDE DEF S
<1> QED
  BY <1>1, <1>2, <1>3, <1>7, <1>8, <1>9, <1>10, NoteStep DEF old

LEMMA DeclareVariableIInv ==
  ASSUME IInv, NEW v, v = "v", NEW o, DeclareVariable(v, o)
  PROVE  IInv'
<1> DEFINE old == open[2].facts
           isFact == o = "allowed[x][y]" \/ o \in old.allowedVars
           fs == [old EXCEPT !.allowedVars = @ \cup {v}]
<1>1. /\ Kind = "stmt" /\ UNCHANGED <<program, visited>>
      /\ open' = IF isFact THEN Note(fs) ELSE open
      /\ chk' = IF IsAllowed(chk, o) THEN [chk EXCEPT !.allowedVars = @ \cup {v}] ELSE chk
  BY DEF DeclareVariable, Callable
<1>2. /\ Len(open) >= 2 /\ old \in FactsType
      /\ chk.flag["hasRevert"] => Reverts(old, Mods(open[2]), chk.callablesWithRevert)
  BY <1>1, ExpressionFacts
<1>3. /\ fs \in FactsType /\ fs.reverts = old.reverts /\ fs.calls = old.calls
      /\ fs.returns = old.returns /\ fs.returnsFalse = old.returnsFalse
      /\ fs.emitsTransfer = old.emitsTransfer /\ fs.emitsApproval = old.emitsApproval
      /\ fs.checksBalance = old.checksBalance /\ fs.comparesAllowed = old.comparesAllowed
      /\ fs.subtractsAllowed = old.subtractsAllowed
      /\ fs.allowedVars = old.allowedVars \cup {v}
  BY <1>2 DEF FactsType
<1>4. chk \in ChkType
  BY DEF IInv
<1>5. /\ chk' \in ChkType /\ chk'.flag = chk.flag
      /\ chk'.comparisonDepth = chk.comparisonDepth
      /\ chk'.callablesWithRevert = chk.callablesWithRevert
      /\ chk'.allowedVars = IF IsAllowed(chk, o) THEN chk.allowedVars \cup {v} ELSE chk.allowedVars
  BY <1>1, <1>4 DEF ChkType
<1> DEFINE S == {"hasMsgDataCheck"}
<1>6. S \cap {"inERC20", "dirtyParam", "conditional", "inLengthAccess"} = {}
      /\ \A f \in FlagNames \ S : chk'.flag[f] = chk.flag[f]
  BY <1>5
<1>7. FactsMatch(chk, old) => (IsAllowed(chk, o) <=> isFact)
  BY DEF FactsMatch, IsAllowed
<1> HIDE DEF old, fs, isFact, S
<1>8. CASE isFact
  <2>1. FactsMatch(chk, old) => FactsMatch(chk', fs)
    BY <1>3, <1>5, <1>7, <1>8 DEF FactsMatch
  <2>2. chk'.flag["hasRevert"] => Reverts(fs, Mods(open[2]), chk.callablesWithRevert)
    BY <1>2, <1>3, <1>5 DEF Reverts
  <2>3. open' = Note(fs)
    BY <1>1, <1>8
  <2> QED
    BY <1>1, <1>2, <1>3, <1>5, <1>6, <2>1, <2>2, <2>3, NoteStep DEF old
<1>9. CASE ~isFact
  <2>1. FactsMatch(chk, old) => FactsMatch(chk', old)
    BY <1>5, <1>7, <1>9 DEF FactsMatch
  <2>2. open' = open /\ Shape(open) /\ PlaceInv
    BY <1>1, <1>9 DEF IInv
  <2> QED
    BY <1>1, <1>2, <1>5, <2>1, <2>2, InsideStep DEF old, PlaceInv
<1> QED
  BY <1>8, <1>9

LEMMA CallFunctionIInv ==
  ASSUME IInv, NEW f \in FunctionName, CallFunction(f)
  PROVE  IInv'
<1> DEFINE old == open[2].facts
           fs == [old EXCEPT !.calls = @ \cup {f}]
           b == chk.flag["hasRevert"] \/ f \in chk.callablesWithRevert
           S == {"hasRevert"}
<1>1. InExpression /\ UNCHANGED <<program, visited>>
      /\ open' = Note(fs) /\ chk' = Set(chk, S, b)
  BY DEF CallFunction, Callable
<1>2. /\ Len(open) >= 2 /\ old \in FactsType
      /\ chk.flag["hasRevert"] => Reverts(old, Mods(open[2]), chk.callablesWithRevert)
  BY <1>1, ExpressionFacts
<1>3. /\ fs \in FactsType /\ fs.reverts = old.reverts /\ fs.calls = old.calls \cup {f}
      /\ fs.returns = old.returns /\ fs.returnsFalse = old.returnsFalse
      /\ fs.emitsTransfer = old.emitsTransfer /\ fs.emitsApproval = old.emitsApproval
      /\ fs.checksBalance = old.checksBalance /\ fs.comparesAllowed = old.comparesAllowed
      /\ fs.subtractsAllowed = old.subtractsAllowed /\ fs.allowedVars = old.allowedVars
  BY <1>2 DEF FactsType
<1>4. chk \in ChkType
  BY DEF IInv
<1>5. b \in BOOLEAN
  BY <1>4, ChkFacts, FlagMembers
<1>b. b => chk.flag["hasRevert"] \/ f \in chk.callablesWithRevert
  OBVIOUS
<1> HIDE DEF old, fs, b
<1>6. SameBut(chk', chk, S) /\ (chk'.flag["hasRevert"] <=> b)
  BY <1>1, <1>4, <1>5, SetFacts, FlagMembers
<1>7. /\ chk' \in ChkType /\ \A g \in FlagNames \ S : chk'.flag[g] = chk.flag[g]
      /\ chk'.comparisonDepth = chk.comparisonDepth /\ chk'.allowedVars = chk.allowedVars
      /\ chk'.callablesWithRevert = chk.callablesWithRevert
  BY <1>6 DEF SameBut
<1>8. FactsMatch(chk, old) => FactsMatch(chk', fs)
  BY <1>3, <1>7, FlagMembers DEF FactsMatch
<1>9. chk'.flag["hasRevert"] => Reverts(fs, Mods(open[2]), chk.callablesWithRevert)
  BY <1>2, <1>3, <1>6, <1>b DEF Reverts
<1>10. S \cap {"inERC20", "dirtyParam", "conditional", "inLengthAccess"} = {}
  OBVIOUS
<1> HIDE DEF S
<1> QED
  BY <1>1, <1>2, <1>3, <1>7, <1>8, <1>9, <1>10, NoteStep DEF old

-----------------------------------------------------------------------------
(***************************************************************************)
(* Steps outside the bodies: contracts, modifiers and functions are        *)
(* entered and left.                                                       *)
(***************************************************************************)
LEMMA ShallowPlaces ==
  ASSUME NEW o, Shape(o), Len(o) <= 2, NEW kind \in {"compare", "if", "length"}
  PROVE  Places(o, kind) = {}
<1>1. o \in Seq(Frame) /\ Len(o) \in Nat /\ DOMAIN o = 1 .. Len(o)
  BY DEF Shape
<1>2. \A i \in DOMAIN o : (i = 1 /\ Len(o) >= 1) \/ (i = 2 /\ Len(o) >= 2)
  BY <1>1
<1>3. \A i \in DOMAIN o : o[i] \in ContractFrame \/ o[i] \in CallableFrame
  BY <1>2 DEF Shape
<1>4. \A i \in DOMAIN o : o[i].kind # kind
  BY <1>3, FrameFacts
<1> QED
  BY <1>4 DEF Places

LEMMA ContractShape ==
  ASSUME open = <<>>, NEW f \in ContractFrame
  PROVE  Shape(Push(f)) /\ Len(Push(f)) = 1 /\ Push(f)[1] = f
<1> DEFINE a == <<f>>
<1>1. Push(f) = a
  BY DEF Push
<1>2. f \in Frame /\ f.kind # "block"
  BY FrameFacts DEF Frame
<1>3. a \in Seq(Frame) /\ Len(a) = 1 /\ a[1] = f /\ DOMAIN a = {1}
  BY <1>2
<1> HIDE DEF a
<1> QED
  BY <1>1, <1>2, <1>3 DEF Shape

LEMMA CallableShape ==
  ASSUME Shape(open), Len(open) = 1, open[1].kind = "contract", NEW f \in CallableFrame
  PROVE  Shape(Push(f)) /\ Len(Push(f)) = 2 /\ Push(f)[1] = open[1] /\ Push(f)[2] = f
<1> DEFINE a == Append(open, f)
<1>1. Push(f) = a
  BY DEF Push
<1>2. f \in Frame /\ f.kind # "block" /\ open \in Seq(Frame)
  BY FrameFacts DEF Frame, Shape
<1>3. a \in Seq(Frame) /\ Len(a) = 2 /\ a[1] = open[1] /\ a[2] = f /\ DOMAIN a = {1, 2}
  <2>1. /\ a \in Seq(Frame) /\ Len(a) = Len(open) + 1 /\ a[Len(open) + 1] = f
        /\ \A i \in 1 .. Len(open) : a[i] = open[i]
    BY <1>2, AppendFacts
  <2> HIDE DEF a
  <2>2. DOMAIN a = 1 .. 2 /\ Len(a) = 2 /\ a[1] = open[1] /\ a[2] = f
    BY <2>1
  <2> QED
    BY <2>1, <2>2
<1>4. open[1] \in ContractFrame
  BY DEF Shape
<1> HIDE DEF a
<1>5. \A i \in DOMAIN a : ~(i >= 3)
  BY <1>3
<1>6. \A i \in DOMAIN a : a[i].kind # "block"
  BY <1>2, <1>3
<1> QED
  BY <1>1, <1>3, <1>4, <1>5, <1>6 DEF Shape

\* A callable or a contract is left.
LEMMA PopOuter ==
  ASSUME Shape(open), Len(open) \in {1, 2}
  PROVE  /\ Shape(Pop) /\ Len(Pop) = Len(open) - 1
         /\ Len(open) = 2 => Pop[1] = open[1]
<1> DEFINE n == Len(open) - 1
<1>1. n \in Nat /\ n <= Len(open) /\ (Len(open) = 2 => n >= 1)
  OBVIOUS
<1>2. Pop = SubSeq(open, 1, n)
  BY DEF Pop
<1> HIDE DEF n
<1>3. /\ Shape(Pop) /\ Len(Pop) = n /\ (n >= 1 => Pop[1] = open[1])
  BY <1>1, <1>2, PopFacts
<1> QED
  BY <1>1, <1>3 DEF n

\* Outside the bodies no flag about a place is set.
LEMMA OuterFacts ==
  ASSUME IInv, Len(open) <= 2
  PROVE  /\ chk.comparisonDepth = 0 /\ ~chk.flag["conditional"] /\ ~chk.flag["inLengthAccess"]
         /\ Len(open) <= 1 => ~chk.flag["dirtyParam"] /\ ~chk.flag["hasRevert"]
         /\ Len(open) = 2 /\ open[2].kind # "function" => ~chk.flag["dirtyParam"]
<1>1. Shape(open) /\ PlaceInv /\ RevertInv /\ Len(open) \in Nat
  BY KindFacts DEF IInv
<1>2. Places(open, "compare") = {} /\ Places(open, "if") = {} /\ Places(open, "length") = {}
  BY <1>1, ShallowPlaces
<1>3. Cardinality(Places(open, "compare")) = 0
  BY <1>1, <1>2, PlacesFinite
<1>4. Len(open) <= 1 => ~(Len(open) >= 2)
  BY <1>1
<1> QED
  BY <1>1, <1>2, <1>3, <1>4 DEF PlaceInv, RevertInv

LEMMA OuterStep ==
  ASSUME IInv, Len(open) <= 2, program' = program, chk' \in ChkType, Shape(open'), Len(open') <= 2,
         chk'.comparisonDepth = chk.comparisonDepth,
         chk'.flag["conditional"] = chk.flag["conditional"],
         chk'.flag["inLengthAccess"] = chk.flag["inLengthAccess"],
         chk'.flag["dirtyParam"] =>
           Len(open') >= 2 /\ open'[2].kind = "function" /\ open'[2].fn.dirtyParam,
         FactsInv', RevertInv', RevertersAreJustified'
  PROVE  IInv'
<1>1. chk.comparisonDepth = 0 /\ ~chk.flag["conditional"] /\ ~chk.flag["inLengthAccess"]
  BY OuterFacts
<1>2. Places(open', "compare") = {}
  BY ShallowPlaces
<1>3. Cardinality(Places(open', "compare")) = 0
  BY <1>2, PlacesFinite
<1>4. PlaceInv'
  BY <1>1, <1>3 DEF PlaceInv
<1> QED
  BY <1>4 DEF IInv

LEMMA VisitContractIInv ==
  ASSUME IInv, NEW c \in ContractType, VisitContract(c)
  PROVE  IInv'
<1> DEFINE f == [kind |-> IF c.safeMath # {} THEN "skipped" ELSE "contract", erc20 |-> c.erc20]
           k == Set(chk, {"inERC20"}, c.erc20)
           new(g) == [name |-> g, modifiers |-> {}, reverts |-> TRUE, calls |-> {}]
<1>1. /\ Kind = "source" /\ open' = Push(f) /\ program' = program
      /\ chk' = [k EXCEPT !.callablesWithRevert = @ \cup c.safeMath]
      /\ visited' = visited \cup {new(g) : g \in c.safeMath}
  BY DEF VisitContract
<1>2. Shape(open) /\ chk \in ChkType
  BY DEF IInv
<1>3. Len(open) = 0 /\ open = <<>> /\ Len(open) <= 2 /\ Len(open) <= 1
  <2>1. Len(open) = 0 /\ open \in Seq(Frame)
    BY <1>1, <1>2, KindFacts
  <2> QED
    BY <2>1
<1>4. c.erc20 \in BOOLEAN /\ c.safeMath \subseteq FunctionName
  BY DEF ContractType
<1>5. f \in ContractFrame /\ f.erc20 = c.erc20
  BY <1>4 DEF ContractFrame
<1>6. SameBut(k, chk, {"inERC20"}) /\ (k.flag["inERC20"] <=> c.erc20)
  BY <1>2, <1>4, SetFacts, FlagMembers
<1> HIDE DEF f, k
<1>7. Shape(open') /\ Len(open') = 1 /\ open'[1] = f
  BY <1>1, <1>3, <1>5, ContractShape
<1>8. /\ chk' \in ChkType /\ chk'.comparisonDepth = chk.comparisonDepth
      /\ chk'.flag = k.flag
      /\ chk'.callablesWithRevert = chk.callablesWithRevert \cup c.safeMath
  BY <1>1, <1>4, <1>6 DEF ChkType, SameBut
<1>9. /\ chk'.flag["conditional"] = chk.flag["conditional"]
      /\ chk'.flag["inLengthAccess"] = chk.flag["inLengthAccess"]
      /\ chk'.flag["dirtyParam"] = chk.flag["dirtyParam"]
      /\ chk'.flag["hasRevert"] = chk.flag["hasRevert"]
      /\ (chk'.flag["inERC20"] <=> c.erc20)
  BY <1>6, <1>8, FlagMembers DEF SameBut
<1>10. ~chk'.flag["dirtyParam"] /\ ~chk'.flag["hasRevert"]
  BY <1>3, <1>9, OuterFacts
<1>11. FactsInv'
  BY <1>5, <1>7, <1>9 DEF FactsInv
<1>12. RevertInv'
  BY <1>10 DEF RevertInv
<1>13. RevertersAreJustified'
  <2> SUFFICES ASSUME NEW n \in chk'.callablesWithRevert
               PROVE  \E v \in visited' :
                        /\ v.name = n
                        /\ v.reverts \/ (v.calls \cup v.modifiers) \cap chk'.callablesWithRevert # {}
    BY DEF RevertersAreJustified
  <2>1. CASE n \in chk.callablesWithRevert
    <3>1. PICK v \in visited : /\ v.name = n
                               /\ v.reverts \/ (v.calls \cup v.modifiers) \cap chk.callablesWithRevert # {}
      BY <2>1 DEF IInv, RevertersAreJustified
    <3>2. v \in visited'
      BY <1>1
    <3> QED
      BY <1>8, <3>1, <3>2
  <2>2. CASE n \in c.safeMath
    <3>1. new(n) \in visited'
      BY <1>1, <2>2
    <3>2. new(n).name = n /\ new(n).reverts
      OBVIOUS
    <3> HIDE DEF new
    <3> QED
      BY <3>1, <3>2
  <2> QED
    BY <1>8, <2>1, <2>2
<1>14. Len(open') <= 2
  BY <1>7
<1> QED
  BY <1>1, <1>3, <1>7, <1>8, <1>9, <1>10, <1>11, <1>12, <1>13, <1>14, OuterStep

LEMMA EndVisitContractIInv ==
  ASSUME IInv, EndVisitContract
  PROVE  IInv'
<1>1. /\ Kind \in {"contract", "skipped"} /\ open' = Pop /\ UNCHANGED <<program, visited>>
      /\ chk' = Set(chk, {"inERC20"}, FALSE)
  BY DEF EndVisitContract
<1>2. Shape(open) /\ chk \in ChkType
  BY DEF IInv
<1>3. Len(open) = 1 /\ Len(open) <= 2 /\ Len(open) <= 1
  BY <1>1, <1>2, KindFacts
<1>4. Shape(open') /\ Len(open') = 0 /\ Len(open') <= 2
  BY <1>1, <1>2, <1>3, PopOuter
<1>5. SameBut(chk', chk, {"inERC20"})
  BY <1>1, <1>2, SetFalse
<1>6. /\ chk' \in ChkType /\ chk'.comparisonDepth = chk.comparisonDepth
      /\ chk'.callablesWithRevert = chk.callablesWithRevert
      /\ chk'.flag["conditional"] = chk.flag["conditional"]
      /\ chk'.flag["inLengthAccess"] = chk.flag["inLengthAccess"]
      /\ chk'.flag["dirtyParam"] = chk.flag["dirtyParam"]
      /\ chk'.flag["hasRevert"] = chk.flag["hasRevert"]
  BY <1>5, FlagMembers DEF SameBut
<1>7. ~chk'.flag["dirtyParam"] /\ ~chk'.flag["hasRevert"]
  BY <1>3, <1>6, OuterFacts
<1>8. FactsInv'
  BY <1>4 DEF FactsInv
<1>9. RevertInv'
  BY <1>7 DEF RevertInv
<1>10. RevertersAreJustified'
  BY <1>1, <1>6 DEF RevertersAreJustified, IInv
<1> QED
  BY <1>1, <1>3, <1>4, <1>6, <1>7, <1>8, <1>9, <1>10, OuterStep

\* Nothing that the invariant speaks of changes.
LEMMA UnchangedIInv ==
  ASSUME IInv, UNCHANGED <<program, chk, open, visited>>
  PROVE  IInv'
<1>1. Shape(open)' /\ PlaceInv' /\ FactsInv' /\ RevertInv' /\ RevertersAreJustified'
  BY DEF IInv, Shape, PlaceInv, Places, FactsInv, FactsMatch, RevertInv, Reverts, Mods,
         RevertersAreJustified
<1> QED
  BY <1>1 DEF IInv

LEMMA VisitModifierIInv ==
  ASSUME IInv, NEW m, m = "guard", VisitModifier(m)
  PROVE  IInv'
<1> DEFINE f == [kind |-> "modifier", name |-> m, facts |-> NoFacts]
<1>1. /\ Kind = "contract" /\ open' = Push(f) /\ UNCHANGED <<program, visited>>
      /\ chk' = Set(chk, {"hasRevert"}, FALSE)
  BY DEF VisitModifier
<1>2. Shape(open) /\ chk \in ChkType
  BY DEF IInv
<1>3. Len(open) = 1 /\ Len(open) <= 2 /\ Len(open) <= 1 /\ Len(open) >= 1 /\ open[1].kind = "contract"
  <2>1. Len(open) = 1 /\ open # <<>>
    BY <1>1, <1>2, KindFacts
  <2> QED
    BY <1>1, <1>2, <2>1, KindFacts
<1>4. f \in CallableFrame /\ f.kind = "modifier"
  BY DEF CallableFrame, ModifierFrame, NoFacts, FactsType
<1> HIDE DEF f
<1>5. Shape(open') /\ Len(open') = 2 /\ open'[1] = open[1] /\ open'[2] = f /\ Len(open') <= 2
  <2>1. Shape(open') /\ Len(open') = 2 /\ open'[1] = open[1] /\ open'[2] = f
    BY <1>1, <1>2, <1>3, <1>4, CallableShape
  <2> QED
    BY <2>1
<1>6. SameBut(chk', chk, {"hasRevert"}) /\ ~chk'.flag["hasRevert"]
  BY <1>1, <1>2, SetFalse, FlagMembers
<1>7. /\ chk' \in ChkType /\ chk'.comparisonDepth = chk.comparisonDepth
      /\ chk'.callablesWithRevert = chk.callablesWithRevert
      /\ chk'.flag["conditional"] = chk.flag["conditional"]
      /\ chk'.flag["inLengthAccess"] = chk.flag["inLengthAccess"]
      /\ chk'.flag["dirtyParam"] = chk.flag["dirtyParam"]
      /\ chk'.flag["inERC20"] = chk.flag["inERC20"]
  BY <1>6, FlagMembers DEF SameBut
<1>8. ~chk'.flag["dirtyParam"]
  BY <1>3, <1>7, OuterFacts
<1>9. FactsInv'
  <2>1. chk.flag["inERC20"] <=> open[1].erc20
    BY <1>3 DEF FactsInv, IInv
  <2>2. open'[2].kind # "function"
    BY <1>4, <1>5
  <2> QED
    BY <1>5, <1>7, <2>1, <2>2 DEF FactsInv
<1>10. RevertInv'
  BY <1>6 DEF RevertInv
<1>11. RevertersAreJustified'
  BY <1>1, <1>7 DEF RevertersAreJustified, IInv
<1> QED
  BY <1>1, <1>3, <1>5, <1>7, <1>8, <1>9, <1>10, <1>11, OuterStep

\* A callable of this name is left.
LEMMA NoteRevertFacts ==
  ASSUME NEW k \in ChkType, NEW n \in FunctionName \cup {"guard"}
  PROVE  /\ NoteRevert(k, n) \in ChkType /\ ~NoteRevert(k, n).flag["hasRevert"]
         /\ NoteRevert(k, n).comparisonDepth = k.comparisonDepth
         /\ \A f \in FlagNames \ {"hasRevert"} : NoteRevert(k, n).flag[f] = k.flag[f]
         /\ k.flag["hasRevert"] =>
              NoteRevert(k, n).callablesWithRevert = k.callablesWithRevert \cup {n}
         /\ ~k.flag["hasRevert"] =>
              NoteRevert(k, n).callablesWithRevert = k.callablesWithRevert
<1>1. CASE k.flag["hasRevert"]
  <2> DEFINE q == Set(k, {"hasRevert"}, FALSE)
  <2>1. NoteRevert(k, n) = [q EXCEPT !.callablesWithRevert = @ \cup {n}]
    BY <1>1 DEF NoteRevert
  <2>2. SameBut(q, k, {"hasRevert"}) /\ ~q.flag["hasRevert"]
    BY SetFalse, FlagMembers
  <2> HIDE DEF q
  <2>3. /\ NoteRevert(k, n) \in ChkType /\ NoteRevert(k, n).flag = q.flag
        /\ NoteRevert(k, n).comparisonDepth = q.comparisonDepth
        /\ NoteRevert(k, n).callablesWithRevert = q.callablesWithRevert \cup {n}
    BY <2>1, <2>2 DEF ChkType, SameBut
  <2> QED
    BY <1>1, <2>2, <2>3 DEF SameBut
<1>2. CASE ~k.flag["hasRevert"]
  BY <1>2 DEF NoteRevert
<1> QED
  BY <1>1, <1>2

\* What is known of a callable when it is left justifies recording it.
LEMMA JustifiedStep ==
  ASSUME IInv, NEW n, NEW mods, NEW fs,
         visited' = visited \cup {Summary(n, mods, fs)},
         \/ chk'.callablesWithRevert = chk.callablesWithRevert
         \/ /\ chk'.callablesWithRevert = chk.callablesWithRevert \cup {n}
            /\ Reverts(fs, mods, chk.callablesWithRevert)
  PROVE  RevertersAreJustified'
<1> DEFINE s == Summary(n, mods, fs)
<1>1. s.name = n /\ s.modifiers = mods /\ s.reverts = fs.reverts /\ s.calls = fs.calls
  BY DEF Summary
<1>2. s \in visited' /\ \A v \in visited : v \in visited'
  OBVIOUS
<1> HIDE DEF s
<1> SUFFICES ASSUME NEW p \in chk'.callablesWithRevert
             PROVE  \E v \in visited' :
                      /\ v.name = p
                      /\ v.reverts \/ (v.calls \cup v.modifiers) \cap chk'.callablesWithRevert # {}
  BY DEF RevertersAreJustified
<1>3. CASE p \in chk.callablesWithRevert
  <2>1. PICK v \in visited : /\ v.name = p
                             /\ v.reverts \/ (v.calls \cup v.modifiers) \cap chk.callablesWithRevert # {}
    BY <1>3 DEF IInv, RevertersAreJustified
  <2>2. v \in visited' /\ chk.callablesWithRevert \subseteq chk'.callablesWithRevert
    BY <1>2
  <2>3. v.reverts \/ (v.calls \cup v.modifiers) \cap chk'.callablesWithRevert # {}
    BY <2>1, <2>2
  <2> QED
    BY <2>1, <2>2, <2>3
<1>4. CASE p \notin chk.callablesWithRevert
  <2>1. p = n /\ Reverts(fs, mods, chk.callablesWithRevert)
        /\ chk.callablesWithRevert \subseteq chk'.callablesWithRevert
    BY <1>4
  <2>2. s.reverts \/ (s.calls \cup s.modifiers) \cap chk'.callablesWithRevert # {}
    BY <1>1, <2>1 DEF Reverts
  <2> QED
    BY <1>1, <1>2, <2>1, <2>2
<1> QED
  BY <1>3, <1>4

LEMMA EndVisitModifierIInv ==
  ASSUME IInv, EndVisitModifier
  PROVE  IInv'
<1>1. /\ Kind = "modifier" /\ open' = Pop /\ program' = program
      /\ chk' = NoteRevert(chk, Top.name)
      /\ visited' = visited \cup {Summary(Top.name, {}, Top.facts)}
  BY DEF EndVisitModifier
<1>2. Shape(open) /\ chk \in ChkType
  BY DEF IInv
<1>3. Len(open) = 2 /\ Len(open) <= 2 /\ Len(open) >= 2 /\ Len(open) >= 1
      /\ Top = open[2] /\ open[2].kind = "modifier"
  <2>1. Len(open) = 2 /\ open # <<>>
    BY <1>1, <1>2, KindFacts
  <2> QED
    BY <1>1, <1>2, <2>1, KindFacts
<1>4. open[2] \in CallableFrame /\ Top.name = "guard"
  <2>1. open[2] \in CallableFrame
    BY <1>2, <1>3 DEF Shape
  <2> QED
    BY <1>3, <2>1, FrameFacts
<1>5. Shape(open') /\ Len(open') = 1 /\ open'[1] = open[1] /\ Len(open') <= 2 /\ ~(Len(open') >= 2)
  <2>1. Shape(open') /\ Len(open') = 1 /\ open'[1] = open[1]
    BY <1>1, <1>2, <1>3, PopOuter
  <2> QED
    BY <2>1
<1> DEFINE n == Top.name
<1>6. n \in FunctionName \cup {"guard"}
  BY <1>4
<1> HIDE DEF n
<1>7. /\ chk' \in ChkType /\ ~chk'.flag["hasRevert"]
      /\ chk'.comparisonDepth = chk.comparisonDepth
      /\ \A f \in FlagNames \ {"hasRevert"} : chk'.flag[f] = chk.flag[f]
      /\ chk.flag["hasRevert"] => chk'.callablesWithRevert = chk.callablesWithRevert \cup {n}
      /\ ~chk.flag["hasRevert"] => chk'.callablesWithRevert = chk.callablesWithRevert
  BY <1>1, <1>2, <1>6, NoteRevertFacts DEF n
<1>8. /\ chk'.flag["conditional"] = chk.flag["conditional"]
      /\ chk'.flag["inLengthAccess"] = chk.flag["inLengthAccess"]
      /\ chk'.flag["dirtyParam"] = chk.flag["dirtyParam"]
      /\ chk'.flag["inERC20"] = chk.flag["inERC20"]
  BY <1>7, FlagMembers
<1>9. ~chk'.flag["dirtyParam"]
  BY <1>3, <1>8, OuterFacts
<1>10. FactsInv'
  BY <1>3, <1>5, <1>8 DEF FactsInv, IInv
<1>11. RevertInv'
  BY <1>7 DEF RevertInv
<1>12. RevertersAreJustified'
  <2>1. chk.flag["hasRevert"] => Reverts(open[2].facts, {}, chk.callablesWithRevert)
    BY <1>3 DEF IInv, RevertInv, Mods
  <2>2. \/ chk'.callablesWithRevert = chk.callablesWithRevert
        \/ /\ chk'.callablesWithRevert = chk.callablesWithRevert \cup {n}
           /\ Reverts(open[2].facts, {}, chk.callablesWithRevert)
    BY <1>7, <2>1
  <2>3. visited' = visited \cup {Summary(n, {}, open[2].facts)}
    BY <1>1, <1>3 DEF n
  <2> QED
    BY <2>2, <2>3, JustifiedStep
<1> QED
  BY <1>1, <1>3, <1>5, <1>7, <1>8, <1>9, <1>10, <1>11, <1>12, OuterStep

\* A function is entered: the flags about the function are those of an empty body.
LEMMA VisitFunctionFacts ==
  ASSUME NEW k \in ChkType, NEW fn \in FunctionType, ~k.flag["dirtyParam"]
  PROVE  /\ VisitFunction(k, fn) \in ChkType
         /\ VisitFunction(k, fn).comparisonDepth = k.comparisonDepth
         /\ VisitFunction(k, fn).callablesWithRevert = k.callablesWithRevert
         /\ VisitFunction(k, fn).flag["conditional"] = k.flag["conditional"]
         /\ VisitFunction(k, fn).flag["inLengthAccess"] = k.flag["inLengthAccess"]
         /\ VisitFunction(k, fn).flag["inERC20"] = k.flag["inERC20"]
         /\ VisitFunction(k, fn).flag["dirtyParam"] => fn.dirtyParam
         /\ VisitFunction(k, fn).flag["hasRevert"] => fn.modifiers \cap k.callablesWithRevert # {}
         /\ FactsMatch(VisitFunction(k, fn), NoFacts)
<1> DEFINE S == {"hasAllowedCheck", "hasAllowedUnsafeSub", "hasReturn", "returnFalse",
                 "hasSenderBalanceCheck", "emitApproval", "emitTransfer"}
           c == Set(k, S, FALSE)
           r == fn.modifiers \cap k.callablesWithRevert # {}
           d == k.flag["dirtyParam"] \/ fn.dirtyParam
           e == Set(c, {"hasRevert"}, r)
           g == Set(e, {"dirtyParam"}, d)
           q == VisitFunction(k, fn)
<1>1. q = [g EXCEPT !.allowedVars = {}]
  BY DEF VisitFunction
<1>2. r \in BOOLEAN /\ d \in BOOLEAN /\ (d => fn.dirtyParam)
  BY ChkFacts, FlagMembers DEF FunctionType
<1>3. (r => fn.modifiers \cap k.callablesWithRevert # {})
  OBVIOUS
<1> HIDE DEF r, d
<1>4. SameBut(c, k, S) /\ \A f \in FlagNames : f \in S => ~c.flag[f]
  BY SetFalse
<1>5. c \in ChkType
  BY <1>4 DEF SameBut
<1> HIDE DEF c
<1>6. SameBut(e, c, {"hasRevert"}) /\ (e.flag["hasRevert"] <=> r)
  BY <1>2, <1>5, SetFacts, FlagMembers
<1>7. e \in ChkType
  BY <1>6 DEF SameBut
<1> HIDE DEF e
<1>8. SameBut(g, e, {"dirtyParam"}) /\ (g.flag["dirtyParam"] <=> d)
  BY <1>2, <1>7, SetFacts, FlagMembers
<1> HIDE DEF g, q
<1>9. /\ q \in ChkType /\ q.flag = g.flag /\ q.allowedVars = {}
      /\ q.comparisonDepth = g.comparisonDepth /\ q.callablesWithRevert = g.callablesWithRevert
  BY <1>1, <1>8 DEF ChkType, SameBut
<1>10. /\ q.comparisonDepth = k.comparisonDepth /\ q.callablesWithRevert = k.callablesWithRevert
  BY <1>4, <1>6, <1>8, <1>9 DEF SameBut
<1>11. \A f \in FlagNames \ {"hasRevert", "dirtyParam"} : q.flag[f] = c.flag[f]
  BY <1>6, <1>8, <1>9 DEF SameBut
<1>12. q.flag["dirtyParam"] <=> d
  BY <1>8, <1>9
<1>13. q.flag["hasRevert"] <=> r
  BY <1>6, <1>8, <1>9, FlagMembers DEF SameBut
<1>14. /\ q.flag["conditional"] = k.flag["conditional"]
       /\ q.flag["inLengthAccess"] = k.flag["inLengthAccess"]
       /\ q.flag["inERC20"] = k.flag["inERC20"]
  BY <1>4, <1>11, FlagMembers DEF SameBut
<1>15. \A f \in S : ~q.flag[f]
  BY <1>4, <1>11, FlagMembers
<1>16. FactsMatch(q, NoFacts)
  BY <1>9, <1>15 DEF FactsMatch, NoFacts
<1> QED
  BY <1>2, <1>3, <1>9, <1>10, <1>12, <1>13, <1>14, <1>16 DEF q

LEMMA VisitFunctionDefinitionIInv ==
  ASSUME IInv, NEW fn \in FunctionType, VisitFunctionDefinition(fn)
  PROVE  IInv'
<1> DEFINE f == [kind |-> "function", fn |-> fn, facts |-> NoFacts]
<1>1. /\ Kind = "contract" /\ open' = Push(f) /\ UNCHANGED <<program, visited>>
      /\ chk' = VisitFunction(chk, fn)
  BY DEF VisitFunctionDefinition
<1>2. Shape(open) /\ chk \in ChkType
  BY DEF IInv
<1>3. Len(open) = 1 /\ Len(open) <= 2 /\ Len(open) <= 1 /\ Len(open) >= 1 /\ open[1].kind = "contract"
  <2>1. Len(open) = 1 /\ open # <<>>
    BY <1>1, <1>2, KindFacts
  <2> QED
    BY <1>1, <1>2, <2>1, KindFacts
<1>4. /\ f \in CallableFrame /\ f.kind = "function" /\ f.fn = fn /\ f.facts = NoFacts
  BY DEF CallableFrame, FunctionFrame, NoFacts, FactsType
<1> HIDE DEF f
<1>5. Shape(open') /\ Len(open') = 2 /\ open'[1] = open[1] /\ open'[2] = f
      /\ Len(open') <= 2 /\ Len(open') >= 2
  <2>1. Shape(open') /\ Len(open') = 2 /\ open'[1] = open[1] /\ open'[2] = f
    BY <1>1, <1>2, <1>3, <1>4, CallableShape
  <2> QED
    BY <2>1
<1>6. ~chk.flag["dirtyParam"]
  BY <1>3, OuterFacts
<1>7. /\ chk' \in ChkType /\ chk'.comparisonDepth = chk.comparisonDepth
      /\ chk'.callablesWithRevert = chk.callablesWithRevert
      /\ chk'.flag["conditional"] = chk.flag["conditional"]
      /\ chk'.flag["inLengthAccess"] = chk.flag["inLengthAccess"]
      /\ chk'.flag["inERC20"] = chk.flag["inERC20"]
      /\ chk'.flag["dirtyParam"] => fn.dirtyParam
      /\ chk'.flag["hasRevert"] => fn.modifiers \cap chk.callablesWithRevert # {}
      /\ FactsMatch(chk', NoFacts)
  BY <1>1, <1>2, <1>6, VisitFunctionFacts
<1>8. FactsInv'
  <2>1. chk'.flag["inERC20"] <=> open'[1].erc20
    BY <1>3, <1>5, <1>7 DEF FactsInv, IInv
  <2>2. FactsMatch(chk', open'[2].facts)
    BY <1>4, <1>5, <1>7
  <2>3. FactsMatch(chk', open'[2].facts) <=> FactsMatch(chk, open[2].facts)'
    BY DEF FactsMatch
  <2> QED
    BY <2>1, <2>2, <2>3 DEF FactsInv
<1>9. RevertInv'
  <2>1. Mods(open'[2]) = fn.modifiers
    BY <1>4, <1>5 DEF Mods
  <2>2. chk'.flag["hasRevert"] => Reverts(open'[2].facts, Mods(open'[2]), chk'.callablesWithRevert)
    BY <1>7, <2>1 DEF Reverts
  <2> QED
    BY <1>5, <2>2 DEF RevertInv, Reverts, Mods
<1>10. RevertersAreJustified'
  BY <1>1, <1>7 DEF RevertersAreJustified, IInv
<1>11. chk'.flag["dirtyParam"] =>
         Len(open') >= 2 /\ open'[2].kind = "function" /\ open'[2].fn.dirtyParam
  BY <1>4, <1>5, <1>7
<1> QED
  BY <1>1, <1>3, <1>5, <1>7, <1>8, <1>9, <1>10, <1>11, OuterStep

\* A function is left.
LEMMA EndFunctionFacts ==
  ASSUME NEW k \in ChkType, NEW fn \in FunctionType
  PROVE  /\ EndVisitFunction(k, fn) \in ChkType
         /\ EndVisitFunction(k, fn).comparisonDepth = k.comparisonDepth
         /\ EndVisitFunction(k, fn).flag["conditional"] = k.flag["conditional"]
         /\ EndVisitFunction(k, fn).flag["inLengthAccess"] = k.flag["inLengthAccess"]
         /\ EndVisitFunction(k, fn).flag["inERC20"] = k.flag["inERC20"]
         /\ ~EndVisitFunction(k, fn).flag["dirtyParam"]
         /\ ~EndVisitFunction(k, fn).flag["hasRevert"]
         /\ k.flag["hasRevert"] =>
              EndVisitFunction(k, fn).callablesWithRevert = k.callablesWithRevert \cup {fn.name}
         /\ ~k.flag["hasRevert"] =>
              EndVisitFunction(k, fn).callablesWithRevert = k.callablesWithRevert
<1> DEFINE S == {"hasMsgDataCheck", "hasSenderBalanceCheck", "hasAllowedCheck",
                 "hasAllowedUnsafeSub", "emitApproval", "emitTransfer", "dirtyParam"}
           k1 == IF k.flag["inERC20"] THEN Set(k, {"returnFalse"}, FALSE) ELSE k
           c == Set(k1, S, FALSE)
           q == EndVisitFunction(k, fn)
<1>1. q = NoteRevert(c, fn.name)
  BY DEF EndVisitFunction
<1>2. SameBut(k1, k, {"returnFalse"})
  <2>1. CASE k.flag["inERC20"]
    BY <2>1, SetFalse
  <2>2. CASE ~k.flag["inERC20"]
    BY <2>2 DEF SameBut
  <2> QED
    BY <2>1, <2>2
<1>3. k1 \in ChkType
  BY <1>2 DEF SameBut
<1> HIDE DEF k1, q
<1>4. SameBut(c, k1, S) /\ \A f \in FlagNames : f \in S => ~c.flag[f]
  BY <1>3, SetFalse
<1>5. c \in ChkType
  BY <1>4 DEF SameBut
<1> HIDE DEF c
<1>6. fn.name \in FunctionName \cup {"guard"}
  BY DEF FunctionType
<1>7. /\ q \in ChkType /\ ~q.flag["hasRevert"] /\ q.comparisonDepth = c.comparisonDepth
      /\ \A f \in FlagNames \ {"hasRevert"} : q.flag[f] = c.flag[f]
      /\ c.flag["hasRevert"] => q.callablesWithRevert = c.callablesWithRevert \cup {fn.name}
      /\ ~c.flag["hasRevert"] => q.callablesWithRevert = c.callablesWithRevert
  BY <1>1, <1>5, <1>6, NoteRevertFacts
<1>8. c.flag["hasRevert"] = k.flag["hasRevert"] /\ c.callablesWithRevert = k.callablesWithRevert
      /\ c.comparisonDepth = k.comparisonDepth
  BY <1>2, <1>4, FlagMembers DEF SameBut
<1>9. /\ c.flag["conditional"] = k.flag["conditional"]
      /\ c.flag["inLengthAccess"] = k.flag["inLengthAccess"]
      /\ c.flag["inERC20"] = k.flag["inERC20"] /\ ~c.flag["dirtyParam"]
  BY <1>2, <1>4, FlagMembers DEF SameBut
<1>10. /\ q.flag["conditional"] = k.flag["conditional"]
       /\ q.flag["inLengthAccess"] = k.flag["inLengthAccess"]
       /\ q.flag["inERC20"] = k.flag["inERC20"] /\ ~q.flag["dirtyParam"]
  BY <1>7, <1>9, FlagMembers
<1> QED
  BY <1>7, <1>8, <1>10 DEF q

LEMMA EndVisitFunctionDefinitionIInv ==
  ASSUME IInv, EndVisitFunctionDefinition
  PROVE  IInv'
<1> DEFINE fn == Top.fn
<1>1. /\ Kind = "function" /\ open' = Pop /\ program' = program
      /\ chk' = EndVisitFunction(chk, fn)
      /\ visited' = visited \cup {Summary(fn.name, fn.modifiers, Top.facts)}
  BY DEF EndVisitFunctionDefinition
<1>2. Shape(open) /\ chk \in ChkType
  BY DEF IInv
<1>3. Len(open) = 2 /\ Len(open) <= 2 /\ Len(open) >= 2 /\ Len(open) >= 1
      /\ Top = open[2] /\ open[2].kind = "function"
  <2>1. Len(open) = 2 /\ open # <<>>
    BY <1>1, <1>2, KindFacts
  <2> QED
    BY <1>1, <1>2, <2>1, KindFacts
<1>4. fn \in FunctionType
  <2>1. open[2] \in CallableFrame
    BY <1>2, <1>3 DEF Shape
  <2> QED
    BY <1>3, <2>1, FrameFacts
<1>5. Shape(open') /\ Len(open') = 1 /\ open'[1] = open[1] /\ Len(open') <= 2 /\ ~(Len(open') >= 2)
  <2>1. Shape(open') /\ Len(open') = 1 /\ open'[1] = open[1]
    BY <1>1, <1>2, <1>3, PopOuter
  <2> QED
    BY <2>1
<1>6. fn = open[2].fn
  BY <1>3
<1> HIDE DEF fn
<1>7. /\ chk' \in ChkType /\ chk'.comparisonDepth = chk.comparisonDepth
      /\ chk'.flag["conditional"] = chk.flag["conditional"]
      /\ chk'.flag["inLengthAccess"] = chk.flag["inLengthAccess"]
      /\ chk'.flag["inERC20"] = chk.flag["inERC20"]
      /\ ~chk'.flag["dirtyParam"] /\ ~chk'.flag["hasRevert"]
      /\ chk.flag["hasRevert"] => chk'.callablesWithRevert = chk.callablesWithRevert \cup {fn.name}
      /\ ~chk.flag["hasRevert"] => chk'.callablesWithRevert = chk.callablesWithRevert
  BY <1>1, <1>2, <1>4, EndFunctionFacts
<1>8. FactsInv'
  BY <1>3, <1>5, <1>7 DEF FactsInv, IInv
<1>9. RevertInv'
  BY <1>7 DEF RevertInv
<1>10. RevertersAreJustified'
  <2>1. chk.flag["hasRevert"] => Reverts(open[2].facts, fn.modifiers, chk.callablesWithRevert)
    BY <1>3, <1>6 DEF IInv, RevertInv, Mods
  <2>2. \/ chk'.callablesWithRevert = chk.callablesWithRevert
        \/ /\ chk'.callablesWithRevert = chk.callablesWithRevert \cup {fn.name}
           /\ Reverts(open[2].facts, fn.modifiers, chk.callablesWithRevert)
    BY <1>7, <2>1
  <2>3. visited' = visited \cup {Summary(fn.name, fn.modifiers, open[2].facts)}
    BY <1>1, <1>3
  <2> QED
    BY <2>2, <2>3, JustifiedStep
<1> QED
  BY <1>1, <1>3, <1>5, <1>7, <1>8, <1>9, <1>10, OuterStep

-----------------------------------------------------------------------------
(***************************************************************************)
(* The theorems.                                                           *)
(***************************************************************************)
LEMMA InitIInv ==
  ASSUME Init
  PROVE  IInv
<1>1. program \in DOMAIN Programs /\ chk = InitChk /\ open = <<>> /\ visited = {}
  BY DEF Init
<1> DEFINE off == [f \in FlagNames |-> FALSE]
<1>2. off \in [FlagNames -> BOOLEAN] /\ \A f \in FlagNames : ~off[f]
  OBVIOUS
<1>3. chk = [comparisonDepth |-> 0, allowedVars |-> {}, callablesWithRevert |-> {}, flag |-> off]
  BY <1>1 DEF InitChk
<1> HIDE DEF off
<1>4. /\ chk \in ChkType /\ chk.comparisonDepth = 0 /\ chk.callablesWithRevert = {}
      /\ chk.flag = off
  BY <1>2, <1>3 DEF ChkType
<1>5. /\ ~chk.flag["conditional"] /\ ~chk.flag["inLengthAccess"]
      /\ ~chk.flag["dirtyParam"] /\ ~chk.flag["hasRevert"]
  BY <1>2, <1>4, FlagMembers
<1>6. Shape(open) /\ Len(open) = 0 /\ DOMAIN open = {}
  <2>1. open \in Seq(Frame) /\ Len(open) = 0
    BY <1>1
  <2>2. DOMAIN open = {}
    BY <1>1, <2>1
  <2> QED
    BY <2>1, <2>2 DEF Shape
<1>7. PlaceInv
  <2>1. Places(open, "compare") = {}
    BY <1>6 DEF Places
  <2>2. Cardinality(Places(open, "compare")) = 0
    BY <1>6, <2>1, PlacesFinite
  <2> QED
    BY <1>4, <1>5, <2>2 DEF PlaceInv
<1>8. FactsInv
  BY <1>6 DEF FactsInv
<1>9. RevertInv /\ RevertersAreJustified
  BY <1>4, <1>5 DEF RevertInv, RevertersAreJustified
<1> QED
  BY <1>1, <1>4, <1>6, <1>7, <1>8, <1>9 DEF IInv

LEMMA NextIInv ==
  ASSUME IInv, [Next]_vars
  PROVE  IInv'
<1>p. /\ Programs[program].contracts \subseteq ContractType
      /\ Programs[program].functions \subseteq FunctionType
      /\ Programs[program].modifiers \subseteq {"guard"}
      /\ Programs[program].vars \subseteq {"v"}
      /\ Programs[program].callees \subseteq FunctionName
  BY ProgramFacts DEF IInv
<1>1. ASSUME NEW c \in Programs[program].contracts, VisitContract(c) PROVE IInv'
  BY <1>p, <1>1, VisitContractIInv
<1>2. CASE EndVisitContract
  BY <1>2, EndVisitContractIInv
<1>3. ASSUME NEW d \in DOMAIN DeclarationIssue, VisitDeclaration(d) PROVE IInv'
  BY <1>3, UnchangedIInv DEF VisitDeclaration
<1>4. ASSUME NEW m \in Programs[program].modifiers, VisitModifier(m) PROVE IInv'
  BY <1>p, <1>4, VisitModifierIInv
<1>5. CASE EndVisitModifier
  BY <1>5, EndVisitModifierIInv
<1>6. ASSUME NEW fn \in Programs[program].functions, VisitFunctionDefinition(fn) PROVE IInv'
  BY <1>p, <1>6, VisitFunctionDefinitionIInv
<1>7. CASE EndVisitFunctionDefinition
  BY <1>7, EndVisitFunctionDefinitionIInv
<1>8. CASE VisitBlock \/ EndBlock \/ VisitStatement \/ EndStatement \/ RequireSend
  BY <1>8, VisitBlockIInv, EndBlockIInv, VisitStatementIInv, EndStatementIInv, RequireSendIInv
<1>9. CASE VisitIf \/ EndVisitIf
  BY <1>9, VisitIfIInv, EndVisitIfIInv
<1>10. ASSUME NEW o \in Programs[program].operands, VisitComparison(o) \/ VisitSubtraction(o)
       PROVE  IInv'
  BY <1>10, VisitComparisonIInv, VisitSubtractionIInv
<1>11. CASE EndVisitComparison \/ VisitLength \/ EndVisitLength
  BY <1>11, EndVisitComparisonIInv, VisitLengthIInv, EndVisitLengthIInv
<1>12. ASSUME NEW e \in Programs[program].exprs, VisitExpression(e) PROVE IInv'
  BY <1>12, VisitExpressionIInv
<1>13. ASSUME NEW v \in Programs[program].vars, NEW o \in Programs[program].operands,
              DeclareVariable(v, o)
       PROVE  IInv'
  BY <1>p, <1>13, DeclareVariableIInv
<1>14. ASSUME NEW f \in Programs[program].callees, CallFunction(f) PROVE IInv'
  BY <1>p, <1>14, CallFunctionIInv
<1>15. CASE UNCHANGED vars
  BY <1>15, UnchangedIInv DEF vars
<1> QED
  BY <1>1, <1>2, <1>3, <1>4, <1>5, <1>6, <1>7, <1>8, <1>9, <1>10, <1>11, <1>12, <1>13, <1>14,
     <1>15 DEF Next

\* The invariant holds throughout: the members of the checker keep their meaning along
\* every walk over every program.
THEOREM CheckerInvariant == Spec => []IInv
<1>1. Init => IInv
  BY InitIInv
<1>2. IInv /\ [Next]_vars => IInv'
  BY NextIInv
<1> QED
  BY <1>1, <1>2, PTL DEF Spec

\* The comparison counter of SECBITChecker is exact, and m_conditional, the length flag and
\* m_dirtyParam are set only inside a branch, a length access and a function with such a parameter.
THEOREM PlaceFlags == Spec => []PlaceFlagsAreSound
<1>1. IInv => PlaceFlagsAreSound
  <2> SUFFICES ASSUME IInv PROVE PlaceFlagsAreSound
    OBVIOUS
  <2>1. Shape(open) /\ PlaceInv
    BY DEF IInv
  <2>2. \A kind : Open(kind) = Cardinality(Places(open, kind))
    BY DEF Open, Places
  <2>3. ASSUME NEW kind, Places(open, kind) # {} PROVE Open(kind) > 0
    <3>1. /\ Cardinality(Places(open, kind)) \in Nat
          /\ Cardinality(Places(open, kind)) # 0
      BY <2>1, <2>3, PlacesFinite
    <3> DEFINE n == Cardinality(Places(open, kind))
    <3>2. Open(kind) = n
      BY <2>2
    <3>3. n \in Nat /\ n # 0
      BY <3>1
    <3> HIDE DEF n
    <3> QED
      BY <3>2, <3>3
  <2> QED
    BY <2>1, <2>2, <2>3 DEF PlaceInv, PlaceFlagsAreSound
<1> QED
  BY <1>1, CheckerInvariant, PTL

\* m_callablesWithRevert ("poor man's IPA") holds a name only if some visited callable of that
\* name reverts, calls a recorded name or has a recorded modifier.
THEOREM Reverters == Spec => []RevertersAreJustified
<1>1. IInv => RevertersAreJustified
  BY DEF IInv
<1> QED
  BY <1>1, CheckerInvariant, PTL

\* A function is left by endVisit(FunctionDefinition) only.
LEMMA OnlyOneWayOut ==
  ASSUME IInv, Next, LeavingFunction
  PROVE  EndVisitFunctionDefinition
<1>1. Kind = "function"
  BY DEF LeavingFunction
<1>2. ~VisitBlock
  <2> SUFFICES ASSUME VisitBlock PROVE FALSE
    OBVIOUS
  <2> DEFINE f == [kind |-> "block", send |-> FALSE, afterSend |-> FALSE]
  <2>1. open' = Append(open, f) /\ open \in Seq(Frame)
    BY KindFacts DEF VisitBlock, Push, IInv
  <2> HIDE DEF f
  <2>2. Len(open') = Len(open) + 1 /\ Len(open) \in Nat
    BY <2>1
  <2> QED
    BY <2>2 DEF LeavingFunction
<1>3. ~EndVisitContract /\ ~EndVisitModifier /\ ~EndBlock /\ ~VisitStatement /\ ~EndStatement
      /\ ~RequireSend /\ ~VisitIf /\ ~EndVisitIf /\ ~EndVisitComparison /\ ~VisitLength
      /\ ~EndVisitLength
  BY <1>1 DEF EndVisitContract, EndVisitModifier, EndBlock, VisitStatement, EndStatement,
              RequireSend, VisitIf, EndVisitIf, EndVisitComparison, VisitLength, EndVisitLength,
              InExpression
<1>4. \A c : ~VisitContract(c) /\ ~VisitModifier(c) /\ ~VisitFunctionDefinition(c)
  BY <1>1 DEF VisitContract, VisitModifier, VisitFunctionDefinition
<1>5. \A d : ~VisitDeclaration(d)
  BY <1>1 DEF VisitDeclaration
<1>6. \A o : ~VisitComparison(o) /\ ~VisitSubtraction(o) /\ ~VisitExpression(o) /\ ~CallFunction(o)
  BY <1>1 DEF VisitComparison, VisitSubtraction, VisitExpression, CallFunction, InExpression
<1>7. \A v, o : ~DeclareVariable(v, o)
  BY <1>1 DEF DeclareVariable
<1> QED
  BY <1>2, <1>3, <1>4, <1>5, <1>6, <1>7 DEF Next

LEMMA IssueFacts ==
  ASSUME NEW k, NEW fn
  PROVE  /\ "no-return" \in FunctionIssues(k, fn) <=> ~k.flag["hasReturn"] /\ fn.implicitReturn
         /\ "erc20-return-false" \in FunctionIssues(k, fn) <=>
              k.flag["inERC20"] /\ k.flag["returnFalse"]
         /\ "transfer-no-event" \in FunctionIssues(k, fn) <=>
              k.flag["inERC20"] /\ IsTransfer(fn) /\ ~k.flag["emitTransfer"]
         /\ "approve-no-event" \in FunctionIssues(k, fn) <=>
              k.flag["inERC20"] /\ fn.name = "approve" /\ ~k.flag["emitApproval"]
         /\ "approve-with-balance-verify" \in FunctionIssues(k, fn) <=>
              k.flag["inERC20"] /\ fn.name = "approve" /\ k.flag["hasSenderBalanceCheck"]
         /\ "transferfrom-no-allowed-check" \in FunctionIssues(k, fn) <=>
              k.flag["inERC20"] /\ fn.name = "transferFrom" /\ ~k.flag["hasAllowedCheck"]
              /\ k.flag["hasAllowedUnsafeSub"]
<1>1. "no-return" \in FunctionIssues(k, fn) <=> ~k.flag["hasReturn"] /\ fn.implicitReturn
  BY DEF FunctionIssues
<1>2. "erc20-return-false" \in FunctionIssues(k, fn) <=>
        k.flag["inERC20"] /\ k.flag["returnFalse"]
  BY DEF FunctionIssues
<1>3. "transfer-no-event" \in FunctionIssues(k, fn) <=>
        k.flag["inERC20"] /\ IsTransfer(fn) /\ ~k.flag["emitTransfer"]
  BY DEF FunctionIssues
<1>4. "approve-no-event" \in FunctionIssues(k, fn) <=>
        k.flag["inERC20"] /\ fn.name = "approve" /\ ~k.flag["emitApproval"]
  BY DEF FunctionIssues
<1>5. "approve-with-balance-verify" \in FunctionIssues(k, fn) <=>
        k.flag["inERC20"] /\ fn.name = "approve" /\ k.flag["hasSenderBalanceCheck"]
  BY DEF FunctionIssues
<1>6. "transferfrom-no-allowed-check" \in FunctionIssues(k, fn) <=>
        k.flag["inERC20"] /\ fn.name = "transferFrom" /\ ~k.flag["hasAllowedCheck"]
        /\ k.flag["hasAllowedUnsafeSub"]
  BY DEF FunctionIssues
<1> QED
  BY <1>1, <1>2, <1>3, <1>4, <1>5, <1>6

LEMMA ReportStep ==
  ASSUME IInv, Next, LeavingFunction
  PROVE  ReportIsRight
<1>1. EndVisitFunctionDefinition
  BY OnlyOneWayOut
<1> DEFINE fn == Top.fn
           fs == Top.facts
<1>2. warned' = FunctionIssues(chk, fn) /\ Kind = "function"
  BY <1>1 DEF EndVisitFunctionDefinition
<1>3. Shape(open) /\ FactsInv
  BY DEF IInv
<1>4. Len(open) >= 2 /\ Len(open) >= 1 /\ Top = open[2] /\ open[2].kind = "function"
  <2>1. Len(open) = 2 /\ open # <<>>
    BY <1>2, <1>3, KindFacts
  <2> QED
    BY <1>2, <1>3, <2>1, KindFacts
<1>5. FactsMatch(chk, fs) /\ (chk.flag["inERC20"] <=> open[1].erc20)
  BY <1>3, <1>4 DEF FactsInv
<1> HIDE DEF fn, fs
<1>6. /\ "no-return" \in warned' <=> fn.implicitReturn /\ ~fs.returns
      /\ "erc20-return-false" \in warned' <=> open[1].erc20 /\ fs.returnsFalse
      /\ "transfer-no-event" \in warned' <=> open[1].erc20 /\ IsTransfer(fn) /\ ~fs.emitsTransfer
      /\ "approve-no-event" \in warned' <=>
           open[1].erc20 /\ fn.name = "approve" /\ ~fs.emitsApproval
      /\ "approve-with-balance-verify" \in warned' <=>
           open[1].erc20 /\ fn.name = "approve" /\ fs.checksBalance
      /\ "transferfrom-no-allowed-check" \in warned' <=>
           open[1].erc20 /\ fn.name = "transferFrom" /\ fs.subtractsAllowed /\ ~fs.comparesAllowed
  BY <1>2, <1>5, IssueFacts DEF FactsMatch
<1> QED
  BY <1>6 DEF ReportIsRight, fn, fs

\* endVisit(FunctionDefinition) reports a missing return, a returned false, a missing event, a
\* balance check in approve and a missing allowance check exactly when the function's own text
\* has them, whatever functions and modifiers were visited before it.
THEOREM FunctionReports == Spec => FunctionReportsAreRight
<1>1. IInv /\ [Next]_vars => [LeavingFunction => ReportIsRight]_vars
  BY ReportStep
<1> QED
  BY <1>1, CheckerInvariant, PTL DEF Spec, FunctionReportsAreRight

LEMMA PullStep ==
  ASSUME IInv, Next, "pull-vs-push" \in warned'
  PROVE  Kind = "block" /\ Top.afterSend
<1>1. Kind = "block" /\ Top.send => Top.afterSend
  <2> SUFFICES ASSUME Kind = "block", Top.send PROVE Top.afterSend
    OBVIOUS
  <2>1. Shape(open)
    BY DEF IInv
  <2>2. Len(open) >= 3 /\ open \in Seq(Frame) /\ DOMAIN open = 1 .. Len(open) /\ Len(open) \in Nat
    BY <2>1, KindFacts
  <2>3. open # <<>> /\ Len(open) \in DOMAIN open
    BY <2>2
  <2>4. Kind = open[Len(open)].kind /\ Top = open[Len(open)]
    BY <2>1, <2>3, KindFacts
  <2> QED
    BY <2>1, <2>3, <2>4 DEF Shape
<1>2. "pull-vs-push" \in PendingSend => Top.send
  BY DEF PendingSend
<1>3. CASE VisitStatement
  BY <1>1, <1>2, <1>3 DEF VisitStatement
<1>4. CASE RequireSend
  <2>1. "pull-vs-push" \in PendingSend \cup (IF Top.send THEN {"send-vs-transfer"} ELSE {})
        /\ Kind = "block"
    BY <1>4 DEF RequireSend
  <2>2. "pull-vs-push" \in PendingSend
    BY <2>1
  <2> QED
    BY <1>1, <1>2, <2>1, <2>2
<1>5. CASE EndVisitFunctionDefinition
  <2>1. "pull-vs-push" \in FunctionIssues(chk, Top.fn)
    BY <1>5 DEF EndVisitFunctionDefinition
  <2> QED
    BY <2>1 DEF FunctionIssues
<1>6. ASSUME NEW e, VisitExpression(e) PROVE FALSE
  <2>1. "pull-vs-push" \in ExprIssues(chk, e)
    BY <1>6 DEF VisitExpression
  <2> QED
    BY <2>1 DEF ExprIssues
<1>7. ASSUME NEW d \in DOMAIN DeclarationIssue, VisitDeclaration(d) PROVE FALSE
  <2>1. "pull-vs-push" = DeclarationIssue[d]
    BY <1>7 DEF VisitDeclaration
  <2> QED
    BY <1>7, <2>1 DEF DeclarationIssue
<1>8. ASSUME warned' = {} PROVE FALSE
  BY <1>8
<1>9. ~EndVisitContract /\ ~EndVisitModifier /\ ~VisitBlock /\ ~EndBlock /\ ~EndStatement
      /\ ~VisitIf /\ ~EndVisitIf /\ ~EndVisitComparison /\ ~VisitLength /\ ~EndVisitLength
  BY <1>8 DEF EndVisitContract, EndVisitModifier, VisitBlock, EndBlock, EndStatement, VisitIf,
              EndVisitIf, EndVisitComparison, VisitLength, EndVisitLength
<1>10. \A c : ~VisitContract(c) /\ ~VisitModifier(c) /\ ~VisitFunctionDefinition(c)
  BY <1>8 DEF VisitContract, VisitModifier, VisitFunctionDefinition
<1>11. \A o : ~VisitComparison(o) /\ ~VisitSubtraction(o) /\ ~CallFunction(o)
  BY <1>8 DEF VisitComparison, VisitSubtraction, CallFunction
<1>12. \A v, o : ~DeclareVariable(v, o)
  BY <1>8 DEF DeclareVariable
<1> QED
  BY <1>3, <1>4, <1>5, <1>6, <1>7, <1>9, <1>10, <1>11, <1>12 DEF Next

\* visit(Block) reports pull-vs-push only for a statement that follows a require(x.send()).
THEOREM PullReports == Spec => PullIsJustified
<1>1. IInv /\ [Next]_vars => ["pull-vs-push" \in warned' => Kind = "block" /\ Top.afterSend]_vars
  BY PullStep
<1> QED
  BY <1>1, CheckerInvariant, PTL DEF Spec, PullIsJustified

=============================================================================

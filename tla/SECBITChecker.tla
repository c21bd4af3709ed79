---------------------------- MODULE SECBITChecker ----------------------------
(***************************************************************************)
(* SECBITChecker (libsolidity/analysis/SECBITChecker.{h,cpp}): one visitor *)
(* object walks the syntax trees of all sources and decides from a handful *)
(* of member flags what to warn about.  The flags are never part of the    *)
(* tree: they are set by one callback, cleared by another, and have to     *)
(* stand for the construct the walk is inside of.                          *)
(*                                                                         *)
(* The program is not given in advance: the walk enters and leaves nodes   *)
(* in any order a syntax tree allows, each callback one action.  open is   *)
(* the path from the contract down to the current node.  A frame of open   *)
(* also carries, for the properties, the facts about its own construct.    *)
(* Names and shapes of expressions are told apart only as far as the       *)
(* callbacks match on them.                                                *)
(***************************************************************************)
EXTENDS Naturals, Sequences, FiniteSets

CONSTANT
  Programs     \* kinds of programs by what they may contain, see ProgramType

FunctionName == {"transfer", "transferFrom", "approve", "f", "g"}

FunctionType ==
  [name : FunctionName, modifiers : SUBSET {"guard", "onlyPayloadSize"},
   returnsBool : BOOLEAN, implicitReturn : BOOLEAN, dirtyParam : BOOLEAN,
   upperCase : BOOLEAN, fallbackThrows : BOOLEAN]

(***************************************************************************)
(* Leaf expressions and statements, by the callback that matches them.     *)
(***************************************************************************)
ReturnKinds  == {"return", "return false"}
EventKinds   == {"emit Transfer", "emit Approval"}
RevertKinds  == {"revert", "assert", "require", "require msg.data.length",
                 "require balances[msg.sender]"}
OtherCalls   == {"send", "call.value", "delegatecall", "blockhash", "unused result"}
MemberKinds  == {"msg.data", "tx.origin", "this.balance", "now"}
PlainKinds   == {"x / y", "address literal"}
ExprKinds ==
  ReturnKinds \cup EventKinds \cup RevertKinds \cup OtherCalls \cup MemberKinds \cup PlainKinds

ContractType == [name : STRING, erc20 : BOOLEAN, safeMath : SUBSET FunctionName]

(***************************************************************************)
(* What a program may contain: contracts, functions, modifiers, local      *)
(* variables, leaf expressions, operands that may be an allowance, names   *)
(* of user functions that are called, and bounds on the number of          *)
(* functions and modifiers and on the depth of open.                       *)
(***************************************************************************)
ProgramType ==
  [contracts : SUBSET ContractType, functions : SUBSET FunctionType,
   modifiers : SUBSET {"guard"}, vars : SUBSET {"v"}, exprs : SUBSET ExprKinds,
   operands : SUBSET {"allowed[x][y]", "other", "v"}, callees : SUBSET FunctionName,
   maxCallables : Nat, maxDepth : Nat]

ASSUME CheckerAssumption == \A k \in DOMAIN Programs : Programs[k] \in ProgramType

VARIABLES
  program,  \* the kind of the program that is walked
  chk,      \* the members of the checker
  open,     \* the nodes the walk is inside of, outermost first
  visited,  \* the callables visited so far, with what their bodies contain
  warned    \* the issues the last step reported

vars == <<program, chk, open, visited, warned>>

FlagNames ==
  {"conditional", "inERC20", "inLengthAccess", "dirtyParam", "hasReturn", "returnFalse",
   "hasRevert", "hasMsgDataCheck", "hasSenderBalanceCheck", "hasAllowedCheck",
   "hasAllowedUnsafeSub", "emitApproval", "emitTransfer"}

InitChk ==
  [comparisonDepth |-> 0, allowedVars |-> {}, callablesWithRevert |-> {},
   flag |-> [f \in FlagNames |-> FALSE]]

\* The record with the flags of S given the value b.
Set(k, S, b) == [k EXCEPT !.flag = [f \in FlagNames |-> IF f \in S THEN b ELSE @[f]]]

IsAllowed(k, o) == o = "allowed[x][y]" \/ o \in k.allowedVars

-----------------------------------------------------------------------------
(***************************************************************************)
(* The callbacks as functions of the checker's members.                    *)
(***************************************************************************)
\* Mutant: the return flag of an earlier function survives.
VisitFunctionForgetful(k, fn) ==
  LET cleared == Set(k, {"hasAllowedCheck", "hasAllowedUnsafeSub", "returnFalse",
                         "hasSenderBalanceCheck", "emitApproval", "emitTransfer"}, FALSE) IN
  [Set(Set(cleared, {"hasRevert"}, fn.modifiers \cap k.callablesWithRevert # {}),
       {"dirtyParam"}, k.flag["dirtyParam"] \/ fn.dirtyParam)
     EXCEPT !.allowedVars = {}]

\* visit(FunctionDefinition): m_hasMsgDataCheck and m_dirtyParam are not cleared here.
VisitFunction(k, fn) ==
  LET cleared == Set(k, {"hasAllowedCheck", "hasAllowedUnsafeSub", "hasReturn", "returnFalse",
                         "hasSenderBalanceCheck", "emitApproval", "emitTransfer"}, FALSE) IN
  [Set(Set(cleared, {"hasRevert"}, fn.modifiers \cap k.callablesWithRevert # {}),
       {"dirtyParam"}, k.flag["dirtyParam"] \/ fn.dirtyParam)
     EXCEPT !.allowedVars = {}]

IsTransfer(fn) == fn.name \in {"transfer", "transferFrom"}

\* The issues endVisit(FunctionDefinition) reports.
FunctionIssues(k, fn) ==
  LET erc20(issue, cond) == IF k.flag["inERC20"] /\ cond THEN {issue} ELSE {} IN
  erc20("erc20-return-false", k.flag["returnFalse"])
  \cup erc20("short-addr", IsTransfer(fn) /\ "onlyPayloadSize" \notin fn.modifiers
                           /\ ~k.flag["hasMsgDataCheck"])
  \cup erc20("transferfrom-no-allowed-check",
             fn.name = "transferFrom" /\ ~k.flag["hasAllowedCheck"]
             /\ k.flag["hasAllowedUnsafeSub"])
  \cup erc20("transfer-no-revert", IsTransfer(fn) /\ ~k.flag["hasRevert"])
  \cup erc20("transfer-no-event", IsTransfer(fn) /\ ~k.flag["emitTransfer"])
  \cup erc20("approve-with-balance-verify", fn.name = "approve" /\ k.flag["hasSenderBalanceCheck"])
  \cup erc20("approve-no-event", fn.name = "approve" /\ ~k.flag["emitApproval"])
  \cup erc20("erc20-no-return", (IsTransfer(fn) \/ fn.name = "approve") /\ ~fn.returnsBool)
  \cup (IF ~k.flag["hasReturn"] /\ fn.implicitReturn THEN {"no-return"} ELSE {})
  \cup (IF fn.upperCase THEN {"bad-name"} ELSE {})
  \cup (IF fn.fallbackThrows THEN {"redundant-fallback"} ELSE {})

\* Mutant: the callable is recorded whatever its body does.
NoteRevertAlways(k, name) == [k EXCEPT !.callablesWithRevert = @ \cup {name}]

\* Recording a callable that may revert, at the end of a function or a modifier.
NoteRevert(k, name) ==
  IF k.flag["hasRevert"]
    THEN [Set(k, {"hasRevert"}, FALSE) EXCEPT !.callablesWithRevert = @ \cup {name}]
    ELSE k

EndVisitFunction(k, fn) ==
  LET k1 == IF k.flag["inERC20"] THEN Set(k, {"returnFalse"}, FALSE) ELSE k IN
  NoteRevert(Set(k1, {"hasMsgDataCheck", "hasSenderBalanceCheck", "hasAllowedCheck",
                      "hasAllowedUnsafeSub", "emitApproval", "emitTransfer", "dirtyParam"},
                 FALSE),
             fn.name)

\* What visiting a leaf expression does to the members.
EndVisitExpr(k, e) ==
  CASE e = "return"        -> Set(k, {"hasReturn"}, TRUE)
    [] e = "return false"  -> Set(k, {"hasReturn", "returnFalse"}, TRUE)
    [] e = "emit Transfer" -> Set(k, {"emitTransfer"}, TRUE)
    [] e = "emit Approval" -> Set(k, {"emitApproval"}, TRUE)
    [] e \in {"revert", "assert", "require"} -> Set(k, {"hasRevert"}, TRUE)
    [] e = "require msg.data.length" -> Set(k, {"hasRevert", "hasMsgDataCheck"}, TRUE)
    [] e = "require balances[msg.sender]" -> Set(k, {"hasRevert", "hasSenderBalanceCheck"}, TRUE)
    [] OTHER -> k

\* What it reports.
ExprIssues(k, e) ==
  CASE e = "revert" /\ k.flag["conditional"]         -> {"revert-vs-require"}
    [] e \in {"send", "call.value"}                  -> {"send-vs-transfer"}
    [] e = "delegatecall"                            -> {"delegatecall"}
    [] e = "blockhash"                               -> {"blockhash"}
    [] e = "unused result"                           -> {"unused-return-value"}
    [] e = "msg.data" /\ ~k.flag["inLengthAccess"] /\ k.flag["dirtyParam"] -> {"dirty-padding"}
    [] e = "tx.origin" /\ k.comparisonDepth > 0      -> {"tx-origin"}
    [] e = "this.balance" /\ k.comparisonDepth > 0   -> {"forced-ether"}
    [] e = "now" /\ k.comparisonDepth > 0            -> {"timestamp"}
    [] e = "x / y"                                   -> {"int-div"}
    [] e = "address literal"                         -> {"hardcode-addr"}
    [] OTHER -> {}

-----------------------------------------------------------------------------
(***************************************************************************)
(* The walk.  Facts are what the construct of a frame contains, told from  *)
(* the tree alone; compared with the flags they show what the flags mean.  *)
(***************************************************************************)
NoFacts ==
  [returns |-> FALSE, returnsFalse |-> FALSE, emitsTransfer |-> FALSE, emitsApproval |-> FALSE,
   comparesAllowed |-> FALSE, subtractsAllowed |-> FALSE, checksMsgData |-> FALSE,
   checksBalance |-> FALSE, reverts |-> FALSE, calls |-> {}, allowedVars |-> {}]

Top == open[Len(open)]
Kind == IF open = <<>> THEN "source" ELSE Top.kind
Push(frame) == Append(open, frame)
Pop == SubSeq(open, 1, Len(open) - 1)
Room == Len(open) < Programs[program].maxDepth

InCallable == Len(open) >= 2
Callable == open[2]

Note(fs) == [open EXCEPT ![2].facts = fs]

Init == program \in DOMAIN Programs /\ chk = InitChk /\ open = <<>> /\ visited = {} /\ warned = {}

VisitContract(c) ==
  /\ Kind = "source"
  /\ open' = Push([kind |-> IF c.safeMath # {} THEN "skipped" ELSE "contract",
                   erc20 |-> c.erc20])
  /\ chk' = [Set(chk, {"inERC20"}, c.erc20)
               EXCEPT !.callablesWithRevert = @ \cup c.safeMath]
  /\ visited' = visited \cup {[name |-> f, modifiers |-> {}, reverts |-> TRUE, calls |-> {}] :
                                f \in c.safeMath}
  /\ warned' = {}
  /\ UNCHANGED program

EndVisitContract ==
  /\ Kind \in {"contract", "skipped"}
  /\ open' = Pop
  /\ chk' = Set(chk, {"inERC20"}, FALSE)
  /\ warned' = {}
  /\ UNCHANGED <<program, visited>>

\* endVisit of an event, a variable outside functions, a pragma: nothing is remembered.
DeclarationIssue ==
  [d \in {"lower-case event", "private variable", "byte array", "pragma ^"} |->
     CASE d = "lower-case event" -> "bad-name"
       [] d = "private variable" -> "private-modifier"
       [] d = "byte array"       -> "byte-array"
       [] d = "pragma ^"         -> "fix-version"]

VisitDeclaration(d) ==
  /\ Kind = IF d = "pragma ^" THEN "source" ELSE "contract"
  /\ warned' = {DeclarationIssue[d]}
  /\ UNCHANGED <<program, chk, open, visited>>

VisitModifier(m) ==
  /\ Kind = "contract" /\ Room /\ Cardinality(visited) < Programs[program].maxCallables
  /\ open' = Push([kind |-> "modifier", name |-> m, facts |-> NoFacts])
  /\ chk' = Set(chk, {"hasRevert"}, FALSE)
  /\ warned' = {}
  /\ UNCHANGED <<program, visited>>

\* What is known of a callable when the walk leaves it.
Summary(name, modifiers, facts) ==
  [name |-> name, modifiers |-> modifiers, reverts |-> facts.reverts, calls |-> facts.calls]

EndVisitModifier ==
  /\ Kind = "modifier"
  /\ open' = Pop
  /\ chk' = NoteRevert(chk, Top.name)
  /\ visited' = visited \cup {Summary(Top.name, {}, Top.facts)}
  /\ warned' = {}
  /\ UNCHANGED program

VisitFunctionDefinition(fn) ==
  /\ Kind = "contract" /\ Room /\ Cardinality(visited) < Programs[program].maxCallables
  /\ open' = Push([kind |-> "function", fn |-> fn, facts |-> NoFacts])
  /\ chk' = VisitFunction(chk, fn)
  /\ warned' = {}
  /\ UNCHANGED <<program, visited>>

EndVisitFunctionDefinition ==
  /\ Kind = "function"
  /\ open' = Pop
  /\ warned' = FunctionIssues(chk, Top.fn)
  /\ chk' = EndVisitFunction(chk, Top.fn)
  /\ visited' = visited \cup {Summary(Top.fn.name, Top.fn.modifiers, Top.facts)}
  /\ UNCHANGED program

-----------------------------------------------------------------------------
(***************************************************************************)
(* Blocks.  visit(Block) walks the statements itself with a local variable *)
(* `send`, the last statement of the form require(x.send()), which is not  *)
(* visited.  afterSend is the fact: the last statement was of that form.   *)
(***************************************************************************)
VisitBlock ==
  /\ Kind \in {"function", "modifier", "if", "stmt"} /\ Room
  /\ open' = Push([kind |-> "block", send |-> FALSE, afterSend |-> FALSE])
  /\ warned' = {}
  /\ UNCHANGED <<program, chk, visited>>

\* Nothing of a statement is walked after its body.
EndBody == SubSeq(open, 1, Len(open) - IF open[Len(open) - 1].kind = "stmt" THEN 2 ELSE 1)

EndBlock ==
  /\ Kind = "block"
  /\ open' = EndBody
  /\ warned' = {}
  /\ UNCHANGED <<program, chk, visited>>

PendingSend == IF Top.send THEN {"pull-vs-push"} ELSE {}

\* Mutant: the send stays pending after it has been reported.
VisitStatementStillPending ==
  /\ Kind \in {"block", "if"} /\ Room
  /\ open' = IF Kind = "block"
               THEN Append([open EXCEPT ![Len(open)].afterSend = FALSE], [kind |-> "stmt"])
               ELSE Push([kind |-> "stmt"])
  /\ warned' = IF Kind = "block" THEN PendingSend ELSE {}
  /\ UNCHANGED <<program, chk, visited>>

\* Any statement but require(x.send()).
VisitStatement ==
  /\ Kind \in {"block", "if"} /\ Room
  /\ open' = IF Kind = "block"
               THEN Append([open EXCEPT ![Len(open)].send = FALSE,
                                        ![Len(open)].afterSend = FALSE], [kind |-> "stmt"])
               ELSE Push([kind |-> "stmt"])
  /\ warned' = IF Kind = "block" THEN PendingSend ELSE {}
  /\ UNCHANGED <<program, chk, visited>>

(***************************************************************************)
(* require(x.send()): remembered and skipped, unless a send is pending; in *)
(* that case it is the code that follows and is visited like any other.    *)
(***************************************************************************)
RequireSend ==
  /\ Kind = "block"
  /\ open' = [open EXCEPT ![Len(open)].send = ~Top.send,
                          ![Len(open)].afterSend = TRUE,
                          ![2].facts.reverts = TRUE]
  /\ warned' = PendingSend \cup (IF Top.send THEN {"send-vs-transfer"} ELSE {})
  /\ chk' = IF Top.send THEN Set(chk, {"hasRevert"}, TRUE) ELSE chk
  /\ UNCHANGED <<program, visited>>

EndStatement ==
  /\ Kind = "stmt"
  /\ open' = Pop
  /\ warned' = {}
  /\ UNCHANGED <<program, chk, visited>>

\* visit(IfStatement), after the condition: both branches are walked inside.
VisitIf ==
  /\ Kind = "stmt" /\ Room
  /\ open' = Push([kind |-> "if"])
  /\ chk' = Set(chk, {"conditional"}, TRUE)
  /\ warned' = {}
  /\ UNCHANGED <<program, visited>>

EndVisitIf ==
  /\ Kind = "if"
  /\ open' = EndBody
  /\ chk' = Set(chk, {"conditional"}, FALSE)
  /\ warned' = {}
  /\ UNCHANGED <<program, visited>>

-----------------------------------------------------------------------------
(***************************************************************************)
(* Expressions                                                             *)
(***************************************************************************)
InExpression == Kind \in {"stmt", "compare", "length"}

\* visit(BinaryOperation) of a comparison, o being one of its operands.
VisitComparison(o) ==
  /\ InExpression /\ Room
  /\ chk' = [Set(chk, {"hasAllowedCheck"}, chk.flag["hasAllowedCheck"] \/ IsAllowed(chk, o))
               EXCEPT !.comparisonDepth = @ + 1]
  /\ open' = Append(Note([Callable.facts EXCEPT
                            !.comparesAllowed = @ \/ o = "allowed[x][y]"
                                                \/ o \in Callable.facts.allowedVars]),
                    [kind |-> "compare"])
  /\ warned' = {}
  /\ UNCHANGED <<program, visited>>

\* Mutant: the comparison is never left.
EndVisitComparisonStuck ==
  /\ Kind = "compare"
  /\ open' = Pop
  /\ warned' = {}
  /\ UNCHANGED <<program, chk, visited>>

EndVisitComparison ==
  /\ Kind = "compare"
  /\ open' = Pop
  /\ chk' = [chk EXCEPT !.comparisonDepth = @ - 1]
  /\ warned' = {}
  /\ UNCHANGED <<program, visited>>

\* visit(MemberAccess) and endVisit(MemberAccess) of x.length.
VisitLength ==
  /\ InExpression /\ Room
  /\ open' = Push([kind |-> "length"])
  /\ chk' = Set(chk, {"inLengthAccess"}, TRUE)
  /\ warned' = {}
  /\ UNCHANGED <<program, visited>>

EndVisitLength ==
  /\ Kind = "length"
  /\ open' = Pop
  /\ chk' = Set(chk, {"inLengthAccess"}, FALSE)
  /\ warned' = {}
  /\ UNCHANGED <<program, visited>>

\* The facts a leaf expression adds to the callable it occurs in.
Learn(fs, e) ==
  [fs EXCEPT !.returns = @ \/ e \in ReturnKinds,
             !.returnsFalse = @ \/ e = "return false",
             !.emitsTransfer = @ \/ e = "emit Transfer",
             !.emitsApproval = @ \/ e = "emit Approval",
             !.reverts = @ \/ e \in RevertKinds,
             !.checksMsgData = @ \/ e = "require msg.data.length",
             !.checksBalance = @ \/ e = "require balances[msg.sender]"]

VisitExpression(e) ==
  /\ Kind = "stmt" \/ (InExpression /\ e \notin ReturnKinds \cup EventKinds)
  /\ chk' = EndVisitExpr(chk, e)
  /\ warned' = ExprIssues(chk, e)
  /\ open' = Note(Learn(Callable.facts, e))
  /\ UNCHANGED <<program, visited>>

\* endVisit(BinaryOperation) of a subtraction, endVisit(Assignment) of -=.
VisitSubtraction(o) ==
  /\ InExpression
  /\ chk' = Set(chk, {"hasAllowedUnsafeSub"}, chk.flag["hasAllowedUnsafeSub"] \/ IsAllowed(chk, o))
  /\ open' = Note([Callable.facts EXCEPT
                     !.subtractsAllowed = @ \/ o = "allowed[x][y]"
                                          \/ o \in Callable.facts.allowedVars])
  /\ warned' = {}
  /\ UNCHANGED <<program, visited>>

\* endVisit(VariableDeclarationStatement): v = o.
DeclareVariable(v, o) ==
  /\ Kind = "stmt"
  /\ chk' = IF IsAllowed(chk, o) THEN [chk EXCEPT !.allowedVars = @ \cup {v}] ELSE chk
  /\ open' = IF o = "allowed[x][y]" \/ o \in Callable.facts.allowedVars
               THEN Note([Callable.facts EXCEPT !.allowedVars = @ \cup {v}]) ELSE open
  /\ warned' = {}
  /\ UNCHANGED <<program, visited>>

\* endVisit(FunctionCall) of f(...) or x.f(...), f not one of the built-in kinds.
CallFunction(f) ==
  /\ InExpression
  /\ chk' = Set(chk, {"hasRevert"}, chk.flag["hasRevert"] \/ f \in chk.callablesWithRevert)
  /\ open' = Note([Callable.facts EXCEPT !.calls = @ \cup {f}])
  /\ warned' = {}
  /\ UNCHANGED <<program, visited>>

Next ==
  \/ \E c \in Programs[program].contracts : VisitContract(c)
  \/ EndVisitContract
  \/ \E d \in DOMAIN DeclarationIssue : VisitDeclaration(d)
  \/ \E m \in Programs[program].modifiers : VisitModifier(m)
  \/ EndVisitModifier
  \/ \E fn \in Programs[program].functions : VisitFunctionDefinition(fn)
  \/ EndVisitFunctionDefinition
  \/ VisitBlock \/ EndBlock \/ VisitStatement \/ EndStatement \/ RequireSend
  \/ VisitIf \/ EndVisitIf
  \/ \E o \in Programs[program].operands : VisitComparison(o) \/ VisitSubtraction(o)
  \/ EndVisitComparison \/ VisitLength \/ EndVisitLength
  \/ \E e \in Programs[program].exprs : VisitExpression(e)
  \/ \E v \in Programs[program].vars, o \in Programs[program].operands : DeclareVariable(v, o)
  \/ \E f \in Programs[program].callees : CallFunction(f)

Spec == Init /\ [][Next]_vars

-----------------------------------------------------------------------------
Open(kind) == Cardinality({i \in DOMAIN open : open[i].kind = kind})

LeavingFunction == Kind = "function" /\ Len(open') < Len(open)

\* The issues reported now against the text of the function the walk is in.
ReportIsRight ==
  LET fs == Top.facts
      fn == Top.fn
      erc20 == open[1].erc20 IN
  /\ "no-return" \in warned' <=> fn.implicitReturn /\ ~fs.returns
  /\ "erc20-return-false" \in warned' <=> erc20 /\ fs.returnsFalse
  /\ "transfer-no-event" \in warned' <=> erc20 /\ IsTransfer(fn) /\ ~fs.emitsTransfer
  /\ "approve-no-event" \in warned' <=> erc20 /\ fn.name = "approve" /\ ~fs.emitsApproval
  /\ "approve-with-balance-verify" \in warned' <=>
       erc20 /\ fn.name = "approve" /\ fs.checksBalance
  /\ "transferfrom-no-allowed-check" \in warned' <=>
       erc20 /\ fn.name = "transferFrom" /\ fs.subtractsAllowed /\ ~fs.comparesAllowed

(***************************************************************************)
(* The issues that are about a function as a whole are reported when, and  *)
(* only when, its own text has them: no flag left over from the functions  *)
(* and modifiers visited before it, or lost on the way, decides.           *)
(***************************************************************************)
FunctionReportsAreRight == [][LeavingFunction => ReportIsRight]_vars

(***************************************************************************)
(* The flags that stand for a place in the tree are set only there, so no  *)
(* warning about comparisons, branches, length accesses and parameters is  *)
(* given outside one; and the comparison counter is exact.                 *)
(***************************************************************************)
PlaceFlagsAreSound ==
  /\ chk.comparisonDepth = Open("compare")
  /\ chk.flag["conditional"] => Open("if") > 0
  /\ chk.flag["inLengthAccess"] => Open("length") > 0
  /\ chk.flag["dirtyParam"] => Len(open) >= 2 /\ open[2].kind = "function" /\ open[2].fn.dirtyParam

(***************************************************************************)
(* "Poor man's IPA": a name is taken for one that reverts only if some     *)
(* callable of that name reverts, calls such a name or has such a modifier.*)
(***************************************************************************)
RevertersAreJustified ==
  \A n \in chk.callablesWithRevert : \E v \in visited :
     /\ v.name = n
     /\ v.reverts \/ (v.calls \cup v.modifiers) \cap chk.callablesWithRevert # {}

\* pull-vs-push is reported only when a require(x.send()) has just been passed in the block.
PullIsJustified ==
  [][ "pull-vs-push" \in warned' => Kind = "block" /\ Top.afterSend ]_vars

-----------------------------------------------------------------------------
\* "[short-addr] the transfer function is vulnerable to short address attack."
UncheckedTransfersAreReported ==
  [][ LeavingFunction /\ open[1].erc20 /\ IsTransfer(Top.fn) /\ Top.fn.modifiers = {}
        /\ ~Top.facts.checksMsgData => "short-addr" \in warned' ]_vars
=============================================================================

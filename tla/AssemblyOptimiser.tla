-------------------------- MODULE AssemblyOptimiser --------------------------
(***************************************************************************)
(* Assembly::append and Assembly::optimiseInternal (libevmasm/             *)
(* Assembly.cpp) with the passes JumpdestRemover, PeepholeOptimiser,       *)
(* BlockDeduplicator, CommonSubexpressionEliminator and ConstantOptimiser, *)
(* for an assembly ("outer": creation code) with one sub-assembly          *)
(* ("inner": run time code) whose tags it may push.                        *)
(***************************************************************************)
EXTENDS CSE, EVM

CONSTANTS
  Builds,       \* kinds of programs that are built and how they are optimised
  Depth,        \* stack height at the start of the code
  MaxPasses,    \* limit of the assertion against endless peephole passes (64000)
  Stacks,       \* stacks the code is run on
  Fuel          \* number of steps it is run for

Assemblies == {"outer", "inner"}

(***************************************************************************)
(* phrases: the sequences of items each assembly is built from; maxItems:  *)
(* bounds on the lengths; deduplicate, cse, constants, runs: members of    *)
(* OptimiserSettings.                                                      *)
(***************************************************************************)
ASSUME OptimiserAssumption ==
  /\ \A b \in DOMAIN Builds : /\ Builds[b].maxItems \in [Assemblies -> Nat]
                              /\ DOMAIN Builds[b].phrases = Assemblies
                              /\ {Builds[b].deduplicate, Builds[b].cse, Builds[b].constants}
                                   \subseteq BOOLEAN
                              /\ Builds[b].runs \in Nat
  /\ Depth \in Nat /\ Fuel \in Nat /\ MaxPasses \in Nat

VARIABLES
  build,     \* the kind of program at hand
  items,     \* m_items of each assembly
  deposit,   \* m_deposit of each assembly
  original,  \* the items before optimisation
  opt        \* the frame of optimiseInternal

vars == <<build, items, deposit, original, opt>>

(***************************************************************************)
(* asm: the assembly being optimised; step: what comes next; count: the    *)
(* local variable; outside: _tagsReferencedFromOutside; replaced:          *)
(* m_replacedTags of the BlockDeduplicator; rounds: its iterations;        *)
(* tagReplacements: the result, of the inner assembly until it is applied. *)
(***************************************************************************)
NoTags == [t \in {} |-> t]

Frame(asm, outside) ==
  [asm |-> asm, step |-> "jumpdest", count |-> 0, outside |-> outside,
   replaced |-> NoTags, rounds |-> 0, tagReplacements |-> NoTags]

Building == [asm |-> "inner", step |-> "build"]

Init ==
  /\ build \in DOMAIN Builds
  /\ items = [a \in Assemblies |-> <<>>]
  /\ deposit = [a \in Assemblies |-> Depth]
  /\ original = [a \in Assemblies |-> <<>>]
  /\ opt = Building

-----------------------------------------------------------------------------
(***************************************************************************)
(* append(): code generation appends items and defines each tag once.      *)
(***************************************************************************)
DepositOf(phrase) == FoldLeft(LAMBDA sum, item : sum + Deposit(item), 0, phrase)

AppendItems(a, phrase) ==
  /\ opt = [Building EXCEPT !.asm = a]
  /\ Len(items[a]) + Len(phrase) <= Builds[build].maxItems[a]
  /\ Labels(phrase) \cap Labels(items[a]) = {}
  /\ \A k \in DOMAIN phrase : deposit[a] + DepositOf(SubSeq(phrase, 1, k - 1)) >= 0
  /\ deposit' = [deposit EXCEPT ![a] = @ + DepositOf(phrase)]
  /\ items' = [items EXCEPT ![a] = @ \o phrase]
  /\ UNCHANGED <<build, original, opt>>

\* The tags a finished assembly pushes are its own or those of the inner one.
Closed(a) ==
  /\ ReferencedTags(items[a], NoSub) \subseteq Labels(items[a])
  /\ a = "outer" => ReferencedTags(items["outer"], 0) \subseteq Labels(items["inner"])

FinishInner ==
  /\ opt = Building /\ Closed("inner")
  /\ opt' = [Building EXCEPT !.asm = "outer"]
  /\ UNCHANGED <<build, items, deposit, original>>

\* optimise(): the sub-assembly is optimised first.
Optimise ==
  /\ opt = [Building EXCEPT !.asm = "outer"] /\ Closed("outer")
  /\ original' = items
  /\ opt' = Frame("inner", ReferencedTags(items["outer"], 0))
  /\ UNCHANGED <<build, items, deposit>>

-----------------------------------------------------------------------------
Current == items[opt.asm]

\* The passes of a round that are switched on, after the given one.
NextPass(pass) ==
  CASE pass = "peephole" /\ Builds[build].deduplicate -> "dedup"
    [] pass \in {"peephole", "dedup"} /\ Builds[build].cse -> "cse"
    [] OTHER -> "again"

RunJumpdestRemover ==
  /\ opt.step = "jumpdest"
  /\ \E left \in {JumpdestRemover(Current, opt.outside)} :
     /\ items' = [items EXCEPT ![opt.asm] = left]
     /\ opt' = [opt EXCEPT !.step = "peephole",
                           !.count = IF Len(left) # Len(Current) THEN 1 ELSE 0]
  /\ UNCHANGED <<build, deposit, original>>

\* while (peepOpt.optimise()), with the assertion that this ends.
RunPeephole ==
  /\ opt.step = "peephole"
  /\ \E new \in {OptimisedItems(Current)} :
     IF IsBetter(new, Current)
       THEN /\ items' = [items EXCEPT ![opt.asm] = new]
            /\ opt' = [opt EXCEPT !.count = @ + 1,
                                  !.step = IF opt.count + 1 < MaxPasses THEN @ ELSE "stuck"]
       ELSE /\ opt' = [opt EXCEPT !.step = NextPass("peephole"),
                                  !.replaced = NoTags, !.rounds = 0]
            /\ UNCHANGED items
  /\ UNCHANGED <<build, deposit, original>>

-----------------------------------------------------------------------------
\* The virtual tag of "the current block".
PushSelf == PushTag(NoSub, -4)

Terminates(item) == AltersControlFlow(item) /\ ~Is(item, "JUMPI")

(***************************************************************************)
(* What the comparator of deduplicate() sees of the block that starts with *)
(* the tag at i: the items up to the one that ends the control flow,       *)
(* without tags, and with the block's own tag replaced by PushSelf.        *)
(***************************************************************************)
Block(code, i) ==
  LET last == CHOOSE j \in i .. Len(code) :
                /\ j = Len(code) \/ Terminates(code[j])
                /\ \A k \in i .. j - 1 : ~Terminates(code[k])
      block == SelectSeq(SubSeq(code, i, last), LAMBDA item : item.type # "Tag") IN
  [k \in DOMAIN block |->
     IF block[k] = PushTag(NoSub, code[i].data) THEN PushSelf ELSE block[k]]

\* One round of deduplicate(): each tag whose block was seen, with the tag seen first.
EqualBlocks(code) ==
  LET tags == {i \in DOMAIN code : code[i].type = "Tag"}
      block == [i \in tags |-> Block(code, i)]
      first == [i \in tags |-> Min({j \in tags : block[j] = block[i]})]
      again == {i \in tags : first[i] # i} IN
  [t \in {code[i].data : i \in again} |->
     LET i == CHOOSE j \in again : code[j].data = t IN code[first[i]].data]

\* BlockDeduplicator::applyTagReplacement, for tags of sub-assembly s.
ApplyTagReplacement(code, replacements, s) ==
  [i \in DOMAIN code |->
     IF code[i].type = "PushTag" /\ code[i].sub = s /\ code[i].data \in DOMAIN replacements
       THEN [code[i] EXCEPT !.data = replacements[code[i].data]] ELSE code[i]]

\* applyTagReplacement returns true
IsReplaced(code, replacements, s) ==
  ReferencedTags(code, s) \cap DOMAIN replacements # {}

\* One round of deduplicate(), which ends when no push was changed.
RunDeduplicate ==
  /\ opt.step = "dedup"
  /\ \E replaced \in {EqualBlocks(Current) @@ opt.replaced} :
     /\ items' = [items EXCEPT ![opt.asm] = ApplyTagReplacement(@, replaced, NoSub)]
     /\ opt' = IF IsReplaced(Current, replaced, NoSub)
                 THEN [opt EXCEPT !.replaced = replaced, !.rounds = @ + 1]
                 ELSE [opt EXCEPT !.step = NextPass("dedup"), !.replaced = NoTags, !.rounds = 0,
                         !.tagReplacements = IF opt.rounds > 0 THEN @ @@ replaced ELSE @,
                         !.count = IF opt.rounds > 0 THEN @ + 1 ELSE @]
  /\ UNCHANGED <<build, deposit, original>>

\* Block after block; a failed assertion ends it all.
RunCSE ==
  /\ opt.step = "cse"
  /\ \E e \in {Eliminate(Current)} :
       LET shorter == Len(e.items) < Len(Current) IN
       /\ items' = [items EXCEPT ![opt.asm] = IF shorter THEN e.items ELSE @]
       /\ opt' = [opt EXCEPT !.step = IF e.failed THEN "stuck" ELSE "again",
                             !.count = @ + e.replaced + (IF shorter THEN 1 ELSE 0)]
  /\ UNCHANGED <<build, deposit, original>>

\* for (unsigned count = 1; count > 0;)
Again ==
  /\ opt.step = "again" /\ opt.count > 0
  /\ opt' = [opt EXCEPT !.step = "jumpdest", !.count = 0]
  /\ UNCHANGED <<build, items, deposit, original>>

\* The constants of the assembly, which is creation code if it is the outer one.
RunConstantOptimiser ==
  /\ opt.step = "again" /\ opt.count = 0 /\ Builds[build].constants
  /\ \E o \in {OptimiseConstants(Current, opt.asm = "outer",
                                   IF opt.asm = "outer" THEN 1 ELSE Builds[build].runs)} :
     /\ items' = [items EXCEPT ![opt.asm] = o.items]
     /\ opt' = [opt EXCEPT !.step = IF o.failed THEN "stuck" ELSE "return"]
  /\ UNCHANGED <<build, deposit, original>>

\* The inner assembly is done: its replacements are applied to the outer one.
Return ==
  /\ \/ opt.step = "return"
     \/ opt.step = "again" /\ opt.count = 0 /\ ~Builds[build].constants
  /\ IF opt.asm = "inner"
       THEN /\ items' = [items EXCEPT !["outer"] = ApplyTagReplacement(@, opt.tagReplacements, 0)]
            /\ opt' = Frame("outer", {})
       ELSE opt' = [asm |-> "outer", step |-> "done"] /\ UNCHANGED items
  /\ UNCHANGED <<build, deposit, original>>

Optimising ==
  \/ RunJumpdestRemover \/ RunPeephole \/ RunDeduplicate \/ RunCSE \/ Again
  \/ RunConstantOptimiser \/ Return

Next ==
  \/ \E a \in Assemblies : \E phrase \in Builds[build].phrases[a] : AppendItems(a, phrase)
  \/ FinishInner \/ Optimise
  \/ Optimising

Spec == Init /\ [][Next]_vars

-----------------------------------------------------------------------------
(***************************************************************************)
(* Properties                                                              *)
(***************************************************************************)
Done == opt.step = "done"

(***************************************************************************)
(* The optimised assembly does what the original one did: whichever of the *)
(* peephole and simplification rules fire, in whatever combination and     *)
(* however often, with jumps into, out of and over the code they remove,   *)
(* blocks merged, loads and stores that may or may not overlap reordered   *)
(* and left out, and constants computed.                                   *)
(***************************************************************************)
SemanticsPreserved ==
  Done => \A a \in Assemblies :
            SameBehaviour(original[a], 1, items[a], 1, Stacks, Fuel)

(***************************************************************************)
(* A tag of the sub-assembly that the outer assembly pushes still leads to *)
(* the same code after the sub-assembly has been optimised on its own.     *)
(***************************************************************************)
Position(code, t) == CHOOSE i \in DOMAIN code : code[i] = Tag(t)

EntriesPreserved ==
  opt.asm = "inner" /\ opt.step = "again" /\ opt.count = 0 =>
    \A t \in opt.outside :
      LET new == IF t \in DOMAIN opt.tagReplacements THEN opt.tagReplacements[t] ELSE t IN
      /\ new \in Labels(items["inner"])
      /\ SameBehaviour(original["inner"], Position(original["inner"], t),
                       items["inner"], Position(items["inner"], new), Stacks, Fuel)

\* Assembly::assemble: there is no "Reference to tag without position."
TagsHavePositions ==
  Done => \A a \in Assemblies : Closed(a)

(***************************************************************************)
(* "an upper bound on the gas usage of a computation" (PathGasMeter.h):    *)
(* the estimate for code that is complete (and about to be optimised) is   *)
(* not less than what any run of it uses, whatever is on the stack.        *)
(***************************************************************************)
Bounds(estimate, code) ==
  ~estimate.isInfinite => \A stack \in Stacks :
    LET ran == Run(code, Machine(1, stack), Fuel) IN
    ran.status \notin {"run", "underflow", "undefined", "badJump"} => ran.gas <= estimate.value

GasIsBounded ==
  [][Optimise => \A a \in Assemblies : Bounds(EstimateMax(items[a]), items[a])]_vars

(***************************************************************************)
(* The loops of optimiseInternal, PeepholeOptimiser and BlockDeduplicator  *)
(* end, and "Peephole optimizer seems to be stuck." does not happen, nor   *)
(* does any assertion of the other passes fail.  Each change of the code   *)
(* but the last one, of the constants, comes closer to an end: by length,  *)
(* bytes, number of POPs, or by pushing tags that come earlier.  And the   *)
(* counters that decide whether to go round again grow only with such a    *)
(* change.                                                                 *)
(***************************************************************************)
PushedPositions(code) ==
  LET pushed == {i \in DOMAIN code : code[i].type = "PushTag" /\ code[i].sub = NoSub} IN
  MapThenSumSet(LAMBDA i : Position(code, code[i].data), pushed)

Distance(code) ==
  <<Len(code), BytesRequired(code, 3), Len(code) - NumberOfPops(code), PushedPositions(code)>>

Closer(d, e) == \E i \in DOMAIN d : d[i] < e[i] /\ \A j \in 1 .. i - 1 : d[j] = e[j]

Changes(o) == IF o.step = "done" THEN 0 ELSE o.count + o.rounds

OptimisationEnds ==
  [][ opt.step # "build" =>
        /\ items'[opt.asm] # items[opt.asm] /\ opt'.step # "return" =>
             Closer(Distance(items'[opt.asm]), Distance(items[opt.asm]))
        /\ Changes(opt') > Changes(opt) => items'[opt.asm] # items[opt.asm]
        /\ opt'.step # "stuck" ]_vars
=============================================================================

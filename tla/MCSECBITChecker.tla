--------------------------- MODULE MCSECBITChecker ---------------------------
(***************************************************************************)
(* Contracts and functions for SECBITChecker.                              *)
(***************************************************************************)
EXTENDS SECBITChecker

Plain(name) ==
  [name |-> name, modifiers |-> {}, returnsBool |-> TRUE, implicitReturn |-> FALSE,
   dirtyParam |-> FALSE, upperCase |-> FALSE, fallbackThrows |-> FALSE]

Token == [name |-> "ERC20Token", erc20 |-> TRUE, safeMath |-> {}]
Other == [name |-> "Other", erc20 |-> FALSE, safeMath |-> {}]
SafeMath == [name |-> "SafeMath", erc20 |-> FALSE, safeMath |-> {"g"}]

TokenFunctions ==
  {[Plain("transferFrom") EXCEPT !.implicitReturn = TRUE],
   [Plain("transfer") EXCEPT !.returnsBool = FALSE, !.modifiers = {"onlyPayloadSize"}],
   Plain("approve"),
   [Plain("f") EXCEPT !.dirtyParam = TRUE, !.upperCase = TRUE, !.fallbackThrows = TRUE]}

GuardedFunctions ==
  {Plain("transfer"), [Plain("f") EXCEPT !.modifiers = {"guard"}], Plain("g")}

DirtyFunctions == {[Plain("f") EXCEPT !.dirtyParam = TRUE], Plain("g")}

\* Two functions or modifiers in a row, and what is reported about each.
ReportsProgram ==
  [contracts |-> {Token, Other}, functions |-> TokenFunctions, modifiers |-> {"guard"},
   vars |-> {"v"}, operands |-> {"allowed[x][y]", "v"}, callees |-> {}, maxCallables |-> 2, maxDepth |-> 5,
   exprs |-> {"return", "return false", "emit Transfer", "emit Approval",
              "require balances[msg.sender]"}]

\* Nesting of blocks, branches, comparisons and length accesses.
PlacesProgram ==
  [contracts |-> {Token}, functions |-> DirtyFunctions, modifiers |-> {},
   vars |-> {}, operands |-> {"other"}, callees |-> {}, maxCallables |-> 2, maxDepth |-> 7,
   exprs |-> {"revert"} \cup OtherCalls \cup MemberKinds \cup PlainKinds]

\* Calls, modifiers and SafeMath, for the names that are taken to revert.
RevertsProgram ==
  [contracts |-> {Token, Other, SafeMath}, functions |-> GuardedFunctions,
   modifiers |-> {"guard"}, vars |-> {}, operands |-> {}, callees |-> {"f", "g"},
   maxCallables |-> 3, maxDepth |-> 4, exprs |-> {"assert", "require"}]

\* Checks of msg.data.length in functions and modifiers.
ShortAddrProgram ==
  [contracts |-> {Token}, functions |-> GuardedFunctions, modifiers |-> {"guard"},
   vars |-> {}, operands |-> {"other"}, callees |-> {}, maxCallables |-> 2, maxDepth |-> 4,
   exprs |-> {"require msg.data.length"}]

AllPrograms ==
  [reports |-> ReportsProgram, places |-> PlacesProgram, reverts |-> RevertsProgram]
ShortAddrPrograms == [shortAddr |-> ShortAddrProgram]
=============================================================================

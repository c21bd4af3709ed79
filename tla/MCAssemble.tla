------------------------------ MODULE MCAssemble ------------------------------
(* Bytes of four values: sizes of 4 and 16 bytes are the boundaries. *)
EXTENDS Assemble

AllItems ==
  [outer |-> {Operation("ADD"), Push(5), Tag(1), PushTag(NoSub, 1), PushTag(NoSub, 0), PushTag(0, 1),
              PushOther("PushData", 1), PushOther("PushSub", 0), PushOther("PushSubSize", 0),
              PushOther("PushProgramSize", 0)},
   inner |-> {Tag(1), Operation("ADD")}]
Lengths == [outer |-> 4, inner |-> 3]
=============================================================================

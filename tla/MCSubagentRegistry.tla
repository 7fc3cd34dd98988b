-------------------------- MODULE MCSubagentRegistry --------------------------
(***************************************************************************)
(* Instances of SubagentRegistry for TLC.                                  *)
(***************************************************************************)
EXTENDS SubagentRegistry, TLC

CONSTANTS r1, r2, r3

\* Two results go to one chat, the third to another.
Routes == {"chat", "forum"}
Routing == [r \in Run |-> IF r = r2 THEN "forum" ELSE "chat"]

Setting(mode, drop, cap) == [mode |-> mode, drop |-> drop, cap |-> cap]
AllSettings == {Setting("collect", "summarize", 2), Setting("followup", "summarize", 1),
                Setting("steer", "new", 1)}
=============================================================================

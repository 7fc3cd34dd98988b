-------------------------- MODULE MCFollowupQueue --------------------------
(***************************************************************************)
(* Instances of FollowupQueue for TLC.                                     *)
(***************************************************************************)
EXTENDS FollowupQueue, TLC

CONSTANTS m1, m2, m3, m4, a, b

ThreeMsgs == {m1, m2, m3}
FourMsgs == {m1, m2, m3, m4}

\* The last message is a redelivery of the one before it.
MCIdOf == m1 :> 1 @@ m2 :> 2 @@ m3 :> 3 @@ m4 :> 3
MixedRoutes == m1 :> a @@ m2 :> b @@ m3 :> a @@ m4 :> a
OneRoute == m1 :> a @@ m2 :> a @@ m3 :> a @@ m4 :> a

\* The last message is a redelivery of the second one, which has no key.
OddIdOf == m1 :> 1 @@ m2 :> 2 @@ m3 :> 3 @@ m4 :> 2
OddRoutes == m1 :> a @@ m2 :> Unkeyed @@ m3 :> Unroutable @@ m4 :> Unkeyed

Collect(cap, drop) == [mode |-> "collect", drop |-> drop, cap |-> cap]
OneByOne(cap, drop) == [mode |-> "followup", drop |-> drop, cap |-> cap]

\* What a user may switch to from one message to the next: mode, cap and policy.
ChangingSettings == {Collect(1, "summarize"), OneByOne(2, "new")}
Summarizing == {Collect(2, "summarize"), OneByOne(1, "summarize")}
Reconsidering == {OneByOne(1, "summarize"), Collect(2, "old")}
=============================================================================

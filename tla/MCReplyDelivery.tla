--------------------------- MODULE MCReplyDelivery ---------------------------
(***************************************************************************)
(* Instances of ReplyDelivery for TLC.                                     *)
(***************************************************************************)
EXTENDS ReplyDelivery, TLC

CONSTANTS a, b, c, d

\* Two texts, a medium, the first text again, and a last one.
Repeating == <<a, b, c, a, d>>
=============================================================================

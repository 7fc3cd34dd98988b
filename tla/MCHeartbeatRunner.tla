-------------------------- MODULE MCHeartbeatRunner --------------------------
(***************************************************************************)
(* Instances of HeartbeatRunner for TLC.                                   *)
(***************************************************************************)
EXTENDS HeartbeatRunner, TLC

\* Wakes by anything but the interval and remote commands are alike.
Reasons == {"interval", "exec-event", "wake"}
=============================================================================

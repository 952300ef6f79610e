---------------------------- MODULE MCPushClient ----------------------------
(* PushClient for TLC, alone: what it does not keep. *)
EXTENDS PushClient
=============================================================================

---------------------------- MODULE MCHubContent ----------------------------
(* HubContent for TLC: pushes to a canvas, and its creation. *)
EXTENDS HubContent, TLC

PushesAndCreates ==
    [who : {Req}, ids : {Canvas}, kinds : {{"push", "create"}}, crashes : {FALSE}]

Symm == Permutations(Req) \cup Permutations(File)
=============================================================================

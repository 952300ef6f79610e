----------------------------- MODULE MCContent -----------------------------
(***************************************************************************)
(* HubContent for TLC.  Three requests on two canvases, of a hub that does *)
(* not stop; and four on one canvas, which they may create and delete too, *)
(* of a hub that may crash.  Two files are enough for a directory to be    *)
(* torn.                                                                   *)
(***************************************************************************)
EXTENDS HubContent, FiniteSetsExt, TLC

Kept == {"push", "copy", "snapshot", "revert", "put", "edit"}

\* The three requests are any three, so that the four are alike.
SteadyAndCrashing ==
    [who : kSubset(3, Req), ids : {Canvas}, kinds : {Kept}, crashes : {FALSE}]
    \cup [who : {Req}, ids : {{1}}, kinds : {Kind \ {"copy"}}, crashes : {TRUE}]

Symm == Permutations(Req) \cup Permutations(File)
=============================================================================

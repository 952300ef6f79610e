---------------------------- MODULE MCCanvasMeta ----------------------------
(* CanvasMeta for TLC. *)
EXTENDS CanvasMeta, TLC

Symm == Permutations(Req) \cup Permutations(Principal \ {Admin}) \cup Permutations(Canvas)
=============================================================================

----------------------------- MODULE MCSessions -----------------------------
(* Sessions for TLC. *)
EXTENDS Sessions, TLC

Symm == Permutations(Sid) \cup Permutations(Browser) \cup Permutations(Req)
        \cup Permutations(User)
=============================================================================

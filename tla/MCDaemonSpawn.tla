---------------------------- MODULE MCDaemonSpawn ----------------------------
(* DaemonSpawn for TLC. *)
EXTENDS DaemonSpawn, TLC

Symm == Permutations(Proc) \cup Permutations(Daemon)

(* Where liveness rules symmetry out, daemons are numbers and the next to    *)
(* start is the least: which of those unborn a command starts is arbitrary.  *)
InOrder == \A d, e \in Daemon : d < e /\ daemon[e] # "unborn" => daemon[d] # "unborn"

MCInit == Init /\ InOrder
MCNext == Next /\ InOrder'
MCSpec == MCInit /\ [][MCNext]_vars /\ Fairness
=============================================================================

------------------------------ MODULE MCReload ------------------------------
(***************************************************************************)
(* Live reload for TLC.  Neither the watcher nor the server reads the      *)
(* other's state, so in a behaviour only the one moves that `which' names. *)
(*                                                                         *)
(* Three timers let one canvas have a callback past w.mu, one still before *)
(* it, and a fresh timer, all at once.  There is one client more than each *)
(* cap allows.                                                             *)
(***************************************************************************)
EXTENDS Reload, TLC

CONSTANTS K1, K2, C1, C2

VARIABLE which

\* A server without a reaper has nothing to do until it is asked.
Resting == INSTANCE LiveServer WITH Reaping <- FALSE

\* The one that does not move is at rest.
MCInit ==
    /\ which \in {"watcher", "server"} /\ Init
    /\ IF which = "server" THEN Server!Init ELSE Resting!Init

MCNext ==
    \/ which = "watcher" /\ Next /\ UNCHANGED <<which, serverVars>>
    \/ which = "server" /\ Server!Next /\ UNCHANGED <<which, vars>>

\* One strong fairness for an event of the watcher and a client of the server:
\* in a behaviour it is that of the one that moves.
Strong(c, k) ==
    \/ which = "watcher" /\ TakeEvent(c) /\ UNCHANGED serverVars
    \/ which = "server" /\ Server!SeeClosed(k) /\ UNCHANGED vars

MCSpec ==
    /\ MCInit /\ [][MCNext]_<<which, vars, serverVars>>
    /\ WeakFairness /\ Server!WeakFairness
    /\ SF_<<vars, serverVars>>(Strong(C1, K1)) /\ SF_<<vars, serverVars>>(Strong(C2, K2))
=============================================================================

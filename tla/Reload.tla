------------------------------- MODULE Reload -------------------------------
(***************************************************************************)
(* Live reload at both ends of the one call that joins them, onReload: the *)
(* watcher that notices a change (Watcher), and the server that tells the  *)
(* browsers (LiveServer).  Both model that call, so neither reads the      *)
(* other's state; the conjunction of their specifications is the local     *)
(* daemon's.                                                               *)
(***************************************************************************)
EXTENDS Watcher

CONSTANTS Client, MaxGlobal, MaxPerCanvas, Reaping   \* of LiveServer

VARIABLES handler, want, gone, clients, total, full, closed, run, stopping,
          signalled, reaper, sawIdle, stale, unseen, stayed

serverVars == <<handler, want, gone, clients, total, full, closed, run, stopping,
                signalled, reaper, sawIdle, stale, unseen, stayed>>

Server == INSTANCE LiveServer

ASSUME ReloadAssumption == Server!LiveServerAssumption

\* The watcher and the server are well typed.
TypesOK == TypeOK /\ Server!TypeOK
\* Neither cap on connections is ever passed, by the books or in fact (hub.register).
WithinCaps == Server!WithinCaps
\* The reaper never stops a daemon over a client that stayed (reaper.go).
StayedNotReaped == Server!StayedNotReaped
\* A reload reaches its client, however many follow (handlers_sse.go).
ReloadDelivered == Server!ReloadDelivered
\* An unused daemon stops by itself, and a stop gets to its end (reaper.go, Run).
Stops == Server!Stops
=============================================================================

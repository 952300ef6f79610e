------------------------------- MODULE Follow -------------------------------
(***************************************************************************)
(* Those that keep a copy of what is elsewhere: the hub, which keeps one   *)
(* of Authentik's people (Directory), and scrim push --watch, which keeps  *)
(* the hub's copy of a local canvas (PushClient).  They share no state.    *)
(***************************************************************************)
EXTENDS Directory

CONSTANTS File, SubFile, MaxEdits, MaxFaults, Faults   \* of PushClient

VARIABLES local, sub, watched, events, armed, fire, loop, archive, inflight, hub,
          failures, excused

pushVars == <<local, sub, watched, events, armed, fire, loop, archive, inflight, hub,
              failures, excused>>

Push == INSTANCE PushClient

ASSUME FollowAssumption == Push!PushClientAssumption

\* Both are well typed, who holds the refresh is at it, and a client at rest has
\* forgotten no change (Watch, pushOnce).
FollowersSound == TypeOK /\ Push!TypeOK /\ Push!NothingForgotten
\* The hub's copy catches up with a canvas that is left alone (watch.go).
PushCatchesUp == Push!CatchesUp
=============================================================================

------------------------------ MODULE MCFollow ------------------------------
(***************************************************************************)
(* The two followers for TLC.  They share no state, so in a behaviour only *)
(* the one moves that `which' names.                                       *)
(***************************************************************************)
EXTENDS Follow, TLC

CONSTANTS U1, G1, C1, C2, O1, O2, Empty, G   \* elements of Entry, Caller, Observer and Query

VARIABLES which

\* A user on the first page, a group on the second.
MCPage == <<{U1}, {G1}>>
\* The group's email comes first; the user has at times a name that begins like it.
MCRank == (G1 :> 1) @@ (U1 :> 2)
MCByEmail == (Empty :> Entry) @@ (G :> {G1})
MCByName == (Empty :> {}) @@ (G :> {U1})
\* What is looked at together.
Together == {{C1, C2, Empty, "toggle", "outage"}, {C1, O1, O2, Empty, G, "disk", "damage"}}

\* A client that was stopped before it had pushed anything.
Stopped ==
    /\ sub = FALSE /\ watched = {} /\ events = {} /\ armed = FALSE /\ fire = FALSE
    /\ local = [f \in File |-> IF f \in SubFile THEN 0 ELSE 1] /\ hub = [f \in File |-> 0]
    /\ inflight = {} /\ loop = <<"stopped", "first">> /\ archive = Push!Fresh
    /\ failures = 1 /\ excused = {"failed"}

\* The one that does not move is at rest.
MCInit ==
    /\ which \in {"push", "directory"}
    /\ IF which = "push" THEN Push!Init ELSE Stopped
    /\ Init /\ (which = "push" => O1 \in may /\ active = {} /\ up)

MCNext ==
    \/ which = "push" /\ Push!Next /\ UNCHANGED <<which, vars>>
    \/ which = "directory" /\ Next /\ UNCHANGED <<which, pushVars>>

MCSpec == MCInit /\ [][MCNext]_<<which, vars, pushVars>> /\ Fairness /\ Push!Fairness
=============================================================================

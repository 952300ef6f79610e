------------------------------- MODULE SignIn -------------------------------
(***************************************************************************)
(* How a person comes to the hub: signed in with a browser (Login), or     *)
(* through an agent that acts for them (AgentPlane).  The two share the    *)
(* provider, but no state: neither reads what the other writes.            *)
(***************************************************************************)
EXTENDS Login

CONSTANTS Client, NoClient, AgentReq, Tokens, Body, TooLarge, TokenLife, TouchInterval,
          Retention, agentRegistrarCap, MaxClock, MaxBackground, AgentFaults,
          Corrupt                                                \* of AgentPlane

VARIABLES faults, clock, pc, run, actor, order, calls, rec, disk, loadErr, acked, missed

planeVars == <<faults, clock, pc, run, actor, order, calls, rec, disk, loadErr, acked, missed>>

Plane == INSTANCE AgentPlane WITH Req <- AgentReq, Faults <- AgentFaults

ASSUME SignInAssumption == Plane!AgentPlaneAssumption

\* Both are well typed, and no more registrations are kept than the cap.
TypesOK == TypeOK /\ Plane!TypeOK
\* An acknowledged revocation is kept, and enforced at every call (agentconn.go).
RevocationHolds == Plane!RevocationHolds
\* A client that has authorized comes to be listed (agentreg.go).
AuthorizedIsListed == Plane!AuthorizedIsListed
=============================================================================

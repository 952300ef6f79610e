------------------------------ MODULE MCSignIn ------------------------------
(***************************************************************************)
(* SignIn for TLC.  Login and AgentPlane share no state, so in a behaviour *)
(* only the one moves that `which' names.                                  *)
(***************************************************************************)
EXTENDS SignIn, Integers, Sequences, TLC

CONSTANTS B1, B2, Tab1, Tab2, Tab3

VARIABLE which

\* Two tabs of one browser, and one of another.
TabHome == (Tab1 :> B1) @@ (Tab2 :> B1) @@ (Tab3 :> B2)

\* Tokens that may read or write, with and without an iat, with and without
\* the names of a client and a subject.
SomeTokens ==
    [client : Client, iat : 1 .. MaxClock \div 2, sub : {TRUE}, scopes : {{"read"}, {"write"}}]
    \cup [client : Client, iat : {0}, sub : {TRUE}, scopes : {{"write"}}]
    \cup [client : {NoClient}, iat : {1}, sub : {FALSE}, scopes : {{"write"}}]

\* A message of each kind, and batches that hide a tool that writes.
Bodies == {<<"handshake">>, <<"readTool">>, <<"writeTool", "readTool">>,
           <<"readTool", "garbage">>, TooLarge}

\* Saves that fail, a file that is damaged, and a body that breaks off are kept apart.
SavesOrDamage == {{"cut"}, {"disk", "restart"}, {"lost", "damage", "restart"}}

\* The one that does not move starts at one state of its own.
MCInit ==
    /\ which \in {"login", "agent"}
    /\ Init /\ (which = "agent" => signedIn = {})
    /\ Plane!Init /\ (which = "login" => "disk" \in faults)

MCNext ==
    \/ which = "login" /\ Next /\ UNCHANGED <<which, planeVars>>
    \/ which = "agent" /\ Plane!Next /\ UNCHANGED <<which, vars>>

MCSpec == MCInit /\ [][MCNext]_<<which, vars, planeVars>> /\ Plane!Fairness

\* Logins are alike.  The liveness property is not about them: where an agent
\* moves there are none, and each state is its own only image.
Symm == Permutations(Login)
=============================================================================

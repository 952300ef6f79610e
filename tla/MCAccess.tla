------------------------------ MODULE MCAccess ------------------------------
(***************************************************************************)
(* Access for TLC.  Metadata and gate read nothing of each other, so in a  *)
(* behaviour only the one moves that `which' names.                        *)
(***************************************************************************)
EXTENDS Access, TLC

CONSTANTS I1, I2,                     \* CanvasMeta's canvases
          P1, P2, J1, J2, T1, T2, Q1, Q2  \* HubGate's principals, canvases, tokens and requests

VARIABLE which

-----------------------------------------------------------------------------
(* HubGate: two requests and two tokens.                                   *)

Cred(b, a, c) == [bearer |-> b, actor |-> a, cookie |-> c, link |-> FALSE, net |-> TRUE]
Ask(o, cred, t) == [op |-> o, cred |-> cred, id |-> J1, ref |-> P1, tok |-> t,
                     to |-> J2, overwrite |-> FALSE]

\* The admin, one principal's session, agent and tokens, and another principal's
\* session, on accounts ...
Accounts ==
    {Ask("revokeToken", cred, t) : t \in {T1, T2},
        cred \in {Cred("push", None, None), Cred(None, None, P1), Cred(None, None, P2)}}
    \cup {Ask("mint", cred, None) : cred \in
             {Cred("push", None, None), Cred(None, None, P1)} \cup {Cred(t, None, P1) : t \in {T1, T2}}}
    \cup {Ask(o, Cred(None, None, P1), None) : o \in {"endSession", "cutAgent"}}
    \cup {Ask("index", Cred("push", P1, None), None)}

\* ... one canvas, with and without an address that is allowed ...
Callers == {Cred("push", None, None), Cred("push", P1, None), Cred(None, None, P1),
              [Cred(None, None, None) EXCEPT !.link = TRUE, !.net = FALSE]}
Canvases ==
    {Ask(o, cred, None) : o \in {"create", "claim", "delete", "stop", "view", "index"}, cred \in Callers}
    \cup {[Ask(o, Cred(None, None, P1), None) EXCEPT !.ref = f] :
             o \in {"share", "unshare"}, f \in {P1, "everyone", "link"}}
    \cup {Ask("push", Cred("push", P1, None), None), Ask("view", Cred(None, None, P2), None)}

\* ... and its copies over what another principal has made or lost.
Copies ==
    {[Ask("copy", cred, None) EXCEPT !.overwrite = b] : b \in BOOLEAN,
        cred \in {Cred(None, None, P1), Cred("push", P1, None), Cred(None, None, P2)}}
    \cup {Ask(o, Cred("push", P1, None), None) : o \in {"create", "delete"}}
    \cup {[Ask("share", Cred(None, None, P1), None) EXCEPT !.ref = P2]}
    \cup {[Ask(o, Cred("push", P2, None), None) EXCEPT !.id = J2] :
              o \in {"create", "share", "delete", "view"}}
    \cup {[Ask("claim", Cred(None, None, P2), None) EXCEPT !.id = J2]}

Requests == {Accounts, Canvases, Copies}

-----------------------------------------------------------------------------

\* Those that do not move start at one state of their own.
MCInit ==
    /\ which \in {"meta", "gate"}
    /\ Init /\ (which # "meta" => dirs = {})
    /\ Gate!Init /\ (which # "gate" => work = Accounts /\ oidc)

MCNext ==
    \/ which = "meta" /\ Next /\ UNCHANGED <<which, gateVars>>
    \/ which = "gate" /\ Gate!Next /\ UNCHANGED <<which, vars>>

MCSpec == MCInit /\ [][MCNext]_<<which, vars, gateVars>>

\* Requests of CanvasMeta are alike; so are its canvases and the gate's requests
\* and tokens, and it is enough to swap all of those at once.
Swap == (I1 :> I2) @@ (I2 :> I1) @@ (T1 :> T2) @@ (T2 :> T1) @@ (Q1 :> Q2) @@ (Q2 :> Q1)
Symm == Permutations(Req) \cup {Swap}
=============================================================================

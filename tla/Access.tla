------------------------------- MODULE Access -------------------------------
(***************************************************************************)
(* Who may do what on the hub: the owners and grants of canvases           *)
(* (CanvasMeta), and the gate that every request passes on its way to      *)
(* them, with the tokens it looks up (HubGate).  The gate's canvases have  *)
(* an owner and grants, but not the steps in which CanvasMeta changes      *)
(* them: each takes what it needs of the other as given.                   *)
(***************************************************************************)
EXTENDS CanvasMeta

CONSTANTS GatePrincipal, GateCanvas, GateReq, Token, Corrupt, Workloads, GateFaults   \* of HubGate

VARIABLES work, oidc, owner, grants, tokens, mu, list, live, cutOff, req, at,
          claims, late, minted, ended, damaged

gateVars == <<work, oidc, owner, grants, tokens, mu, list, live, cutOff, req, at,
              claims, late, minted, ended, damaged>>

Gate == INSTANCE HubGate WITH
    Principal <- GatePrincipal, Canvas <- GateCanvas, Req <- GateReq, Faults <- GateFaults,
    pc <- at

ASSUME AccessAssumption == Gate!HubGateAssumption

\* Both are well typed, and one request at a time has the token store.
TypesOK == TypeOK /\ Gate!TypeOK
\* No token, and no revocation, is lost to a concurrent save (usertoken.go).
TokensKept == Gate!TokensKept
\* No plane restores what another has lost (serveWrite, admitAgentConn).
PowerlessStays == Gate!PowerlessStays
=============================================================================

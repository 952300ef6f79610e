------------------------------- MODULE HubGate -------------------------------
(***************************************************************************)
(* The hub's gate (internal/server/hubgate.go): whom a request's           *)
(* credential stands for, what it may reach, and the account operations    *)
(* that mint and take away credentials (handlers_tokens.go,                *)
(* handlers_sessions.go, handlers_agentconns.go, usertoken/usertoken.go).  *)
(*                                                                         *)
(* Every use of the tokens file reads all of it, changes it and renames    *)
(* the whole back under the store's mutex; the gate's decision and the     *)
(* handler are separate steps.  What a handler does to a canvas is one     *)
(* step here (see CanvasMeta and HubContent for its parts); sessions and   *)
(* agent connections are reduced to whether a principal has one (see       *)
(* Sessions and AgentPlane).  The paths the gate exempts reach none of     *)
(* this state.                                                             *)
(***************************************************************************)
EXTENDS Integers, FiniteSets

CONSTANTS
    Principal, Admin, Token, Canvas, Req, None, Corrupt,
    Workloads,     \* sets of requests; a behaviour draws from one of them
    Faults         \* subset of {"disk", "damage"}

\* A grant names a principal, or is "everyone" or "link".
Ref == Principal \cup {"everyone", "link"}

\* bearer: the push token, a user token or none; actor: the forwarded headers';
\* net: the caller's address is allowed, and it knows the read token if any.
Credential == [bearer : Token \cup {"push", None}, actor : Principal \cup {None},
               cookie : Principal \cup {None}, link : BOOLEAN, net : BOOLEAN]
CanvasWrite == {"push", "create", "claim", "share", "unshare", "copy", "delete"}
SessionOnly == {"endSession", "cutAgent", "mint", "revokeToken"}
Op == CanvasWrite \cup SessionOnly \cup {"view", "index", "stop"}
\* to, overwrite: the body of a copy of id.
Request == [op : Op, cred : Credential, id : Canvas, ref : Ref, tok : Token \cup {None},
            to : Canvas, overwrite : BOOLEAN]

TokenRecord == [owner : Principal \cup {Admin}, revoked : BOOLEAN]
TokenList == [Token -> TokenRecord \cup {None}]
Plane == {"admin", "actor", "token", "session", "anonymous"}
Claims == [plane : Plane, who : Principal \cup {Admin, None}]

\* A revocation names a token.
HubGateAssumption ==
    /\ Admin \notin Principal /\ None \notin Principal \cup Req \cup Token \cup {Admin}
    /\ \A x \in TokenRecord \cup Claims : x # None
    /\ \A l \in TokenList : l # None /\ l # Corrupt
    /\ \A W \in Workloads : W \subseteq Request
    /\ \A W \in Workloads : \A q \in W : q.op = "revokeToken" => q.tok \in Token

VARIABLES
    work,          \* this behaviour's requests
    oidc,          \* OIDC is configured
    owner,         \* per canvas its owner, or None if there is no such canvas
    grants,        \* per canvas whom it is shared with
    tokens,        \* tokens.json
    mu,            \* the token store's mutex: the request that holds it
    list,          \* per request what it has read of the file
    live,          \* principals with a live browser session
    cutOff,        \* principals whose agent connection is revoked
    req, pc,
    claims,        \* whom each request was found to stand for
    late,          \* its token's revocation had been acknowledged when it arrived
    minted, ended, \* tokens handed out, and those acknowledged as revoked
    damaged        \* tokens.json has been damaged

vars == <<work, oidc, owner, grants, tokens, mu, list, live, cutOff, req, pc, claims,
          late, minted, ended, damaged>>
canvasVars == <<work, oidc, owner, grants>>
loginVars == <<live, cutOff>>
storeVars == <<tokens, mu, list, minted, ended, damaged>>

TypeOK ==
    /\ work \in Workloads /\ oidc \in BOOLEAN
    /\ owner \in [Canvas -> Principal \cup {Admin, None}]
    /\ grants \in [Canvas -> SUBSET Ref]
    /\ tokens \in TokenList \cup {Corrupt}
    /\ mu \in Req \cup {None}
    /\ list \in [Req -> TokenList \cup {None}]
    /\ live \subseteq Principal /\ cutOff \subseteq Principal
    /\ req \in [Req -> Request \cup {None}]
    /\ pc \in [Req -> {"idle", "lookup", "bump", "resolve", "gate", "handler", "save"}]
    /\ claims \in [Req -> Claims \cup {None}]
    /\ late \in [Req -> BOOLEAN] /\ damaged \in BOOLEAN
    /\ minted \subseteq Token /\ ended \subseteq minted
    /\ \A r \in Req : (pc[r] \in {"bump", "save"} <=> mu = r) /\ (list[r] # None <=> mu = r)

NoTokens == [t \in Token |-> None]

Init ==
    /\ work \in Workloads /\ oidc \in BOOLEAN
    /\ owner = [i \in Canvas |-> None] /\ grants = [i \in Canvas |-> {}]
    /\ tokens = NoTokens /\ mu = None /\ list = [r \in Req |-> None]
    /\ live = (IF oidc THEN Principal ELSE {}) /\ cutOff = {}
    /\ req = [r \in Req |-> None] /\ pc = [r \in Req |-> "idle"]
    /\ claims = [r \in Req |-> None] /\ late = [r \in Req |-> FALSE]
    /\ minted = {} /\ ended = {} /\ damaged = FALSE

Goto(r, step) == pc' = [pc EXCEPT ![r] = step]

\* The request is answered, and what it carried forgotten.
Answer(r) ==
    /\ Goto(r, "idle")
    /\ req' = [req EXCEPT ![r] = None] /\ claims' = [claims EXCEPT ![r] = None]
    /\ late' = [late EXCEPT ![r] = FALSE]

-----------------------------------------------------------------------------
(* Identity (internal/identity/identity.go). *)

Authenticated(c) == c.plane # "anonymous"
IsOwner(i, c) == owner[i] # None /\ owner[i] = c.who
CanWrite(i, c) == c.plane = "admin" \/ IsOwner(i, c)

\* An everyone grant is for those who are known, a link for who presents it.
CanView(i, c, link) ==
    \/ CanWrite(i, c)
    \/ "everyone" \in grants[i] /\ Authenticated(c)
    \/ c.who \in grants[i]
    \/ "link" \in grants[i] /\ link

-----------------------------------------------------------------------------
(* Whom a request stands for: resolveClaims. *)

Arrive(r) ==
    /\ pc[r] = "idle"
    /\ \E q \in work :
          /\ req' = [req EXCEPT ![r] = q]
          /\ late' = [late EXCEPT ![r] = q.cred.bearer \in ended]
          /\ Goto(r, IF q.cred.bearer \in Token THEN "lookup" ELSE "resolve")
    /\ UNCHANGED <<canvasVars, loginVars, storeVars, claims>>

\* The push token, with or without an actor, then a user token (whose record is
\* x, or None), then a session.
resolveClaims(q, x) ==
    CASE q.bearer = "push" /\ q.actor = None -> [plane |-> "admin", who |-> None]
      [] q.bearer = "push" /\ q.actor # None -> [plane |-> "actor", who |-> q.actor]
      [] q.bearer # "push" /\ x # None -> [plane |-> "token", who |-> x.owner]
      [] q.bearer # "push" /\ x = None /\ oidc /\ q.cookie \in live ->
            [plane |-> "session", who |-> q.cookie]
      [] OTHER -> [plane |-> "anonymous", who |-> None]

Resolve(r) ==
    /\ pc[r] = "resolve"
    /\ claims' = [claims EXCEPT ![r] = resolveClaims(req[r].cred, None)]
    /\ Goto(r, "gate")
    /\ UNCHANGED <<canvasVars, loginVars, storeVars, req, late>>

\* A missing or a damaged file is an empty one.
load == IF tokens = Corrupt THEN NoTokens ELSE tokens

LockStore(r) == mu = None /\ mu' = r /\ list' = [list EXCEPT ![r] = load]
UnlockStore(r) == mu' = None /\ list' = [list EXCEPT ![r] = None]

\* Variant of save: in place, and cut short by a full disk.
save_InPlace(new, ok) ==
    \/ ok /\ tokens' = new
    \/ ~ok /\ "disk" \in Faults /\ tokens' = Corrupt

\* The file is replaced by a complete one, or not at all.
save(new, ok) ==
    \/ ok /\ tokens' = new
    \/ ~ok /\ "disk" \in Faults /\ tokens' = tokens

LookupRead(r) ==
    /\ pc[r] = "lookup" /\ LockStore(r) /\ Goto(r, "bump")
    /\ UNCHANGED <<canvasVars, loginVars, tokens, minted, ended, damaged, req, claims, late>>

\* Lookup saves the whole list, with the LastUsed of the token it found; whether
\* that succeeds does not matter.
LookupSave(r) ==
    LET x == list[r][req[r].cred.bearer]
        found == x # None /\ ~x.revoked
    IN  /\ pc[r] = "bump"
        /\ IF found THEN \E ok \in BOOLEAN : save(list[r], ok) ELSE UNCHANGED tokens
        /\ claims' = [claims EXCEPT ![r] =
                         resolveClaims(req[r].cred, IF found THEN x ELSE None)]
        /\ UnlockStore(r) /\ Goto(r, "gate")
        /\ UNCHANGED <<canvasVars, loginVars, minted, ended, damaged, req, late>>

-----------------------------------------------------------------------------
(* What it may do. *)

\* userTokenMayWrite: a canvas that does not exist yet may be created.
userTokenMayWrite(q, c) ==
    /\ q.op # "stop"
    /\ q.op = "create" \/ owner[q.id] = None \/ CanWrite(q.id, c)

\* By path first, then by credential: whoever is known may claim, only a session
\* may act on its account, an actor and a token write what they own or create, a
\* session may share, copy and delete what it owns, and nothing else writes.  Who
\* may copy a canvas is asked of the source alone: nobody asks about the target.
serveWrite(q, c) ==
    \/ q.op = "claim" /\ Authenticated(c)
    \/ q.op \in SessionOnly /\ c.plane = "session"
    \/ q.op \notin SessionOnly \cup {"claim"} /\ c.plane \in {"actor", "token"}
       /\ userTokenMayWrite(q, c)
    \/ q.op \in {"share", "unshare", "copy", "delete"} /\ c.plane = "session" /\ CanWrite(q.id, c)

\* A known caller is told there is nothing; another is sent to log in (or 401).
denyRead(q, c) == IF Authenticated(c) THEN "404" ELSE "login"

\* With OIDC a canvas is read by who may view it and the index by who is known;
\* without, the network decides.
serveRead(q, c) ==
    CASE ~oidc -> IF q.cred.net THEN "next" ELSE "403"
      [] oidc /\ q.op = "view" ->
            IF CanView(q.id, c, q.cred.link) THEN "next" ELSE denyRead(q, c)
      [] oidc /\ q.op = "index" -> IF Authenticated(c) THEN "next" ELSE denyRead(q, c)

\* Variant of Refused: only what an agent writes is held against it.
Refused_WritesOnly(q, c) ==
    q.op \notin {"view", "index"} /\ c.plane = "actor" /\ c.who \in cutOff

\* admitAgentConn, for the forwarded actors only, whatever they ask for.
Refused(q, c) == c.plane = "actor" /\ c.who \in cutOff

Verdict(q, c) ==
    CASE Refused(q, c) -> "403"
      [] c.plane = "admin" -> "next"
      [] ~Refused(q, c) /\ c.plane # "admin" ->
            IF q.op \in {"view", "index"} THEN serveRead(q, c)
            ELSE IF serveWrite(q, c) THEN "next" ELSE "403"

Gate(r) ==
    /\ pc[r] = "gate"
    /\ IF Verdict(req[r], claims[r]) = "next"
       THEN Goto(r, "handler") /\ UNCHANGED <<req, claims, late>>
       ELSE Answer(r)
    /\ UNCHANGED <<canvasVars, loginVars, storeVars>>

-----------------------------------------------------------------------------
(* The handlers. *)

\* ownerFromClaims
Owner(c) == IF c.who = None THEN Admin ELSE c.who

SetCanvas(i, p, g) ==
    /\ owner' = [owner EXCEPT ![i] = p] /\ grants' = [grants EXCEPT ![i] = g]

\* Those that read, and those that stop the hub, which starts again.
Serve(r) ==
    /\ pc[r] = "handler" /\ req[r].op \in {"view", "index", "stop"}
    /\ Answer(r) /\ UNCHANGED <<canvasVars, loginVars, storeVars>>

\* A push keeps the owner there is, a create does not; the others are a 404 for a
\* canvas that does not exist, and only the admin's canvases can be claimed.  A copy
\* gives its target the source's owner and grants, whoever asks and whosever it was.
WriteCanvas(r) ==
    LET op == req[r].op
        i == req[r].id
        to == req[r].to
        ref == req[r].ref
        c == claims[r]
        exists == owner[i] # None
        copied == exists /\ to # i /\ (owner[to] = None \/ req[r].overwrite)
    IN  /\ pc[r] = "handler" /\ op \in CanvasWrite
        /\ \/ op = "push" /\ SetCanvas(i, IF exists THEN owner[i] ELSE Owner(c), grants[i])
           \/ op = "create" /\ SetCanvas(i, Owner(c), grants[i])
           \/ op = "claim" /\ owner[i] = Admin /\ c.who # None /\ SetCanvas(i, c.who, grants[i])
           \/ op = "share" /\ exists /\ SetCanvas(i, owner[i], grants[i] \cup {ref})
           \/ op = "unshare" /\ exists /\ SetCanvas(i, owner[i], grants[i] \ {ref})
           \/ op = "copy" /\ copied /\ SetCanvas(to, owner[i], grants[i])
           \/ op = "delete" /\ exists /\ SetCanvas(i, None, {})
           \/ op = "copy" /\ ~copied /\ UNCHANGED <<owner, grants>>
           \/ op = "claim" /\ (owner[i] # Admin \/ c.who = None) /\ UNCHANGED <<owner, grants>>
           \/ op \in {"share", "unshare", "delete"} /\ ~exists /\ UNCHANGED <<owner, grants>>
        /\ Answer(r)
        /\ UNCHANGED <<work, oidc, loginVars, storeVars>>

\* handleRevokeSession, handleRevokeAgentConn: the caller's own.  The admin has
\* none, and is told so.
EndLogin(r) ==
    LET p == claims[r].who
    IN  /\ pc[r] = "handler"
        /\ \/ req[r].op = "endSession" /\ live' = live \ {p} /\ UNCHANGED cutOff
           \/ req[r].op = "cutAgent" /\ cutOff' = cutOff \cup ({p} \ {None})
              /\ UNCHANGED live
        /\ Answer(r)
        /\ UNCHANGED <<canvasVars, storeVars>>

\* Mint and Revoke lock the store and read the file ...
StoreRead(r) ==
    /\ pc[r] = "handler" /\ req[r].op \in {"mint", "revokeToken"}
    /\ req[r].op = "mint" => minted # Token      \* bound: there is a secret left
    /\ LockStore(r) /\ Goto(r, "save")
    /\ UNCHANGED <<canvasVars, loginVars, tokens, minted, ended, damaged, req, claims, late>>

\* ... and save it.  A session mints for itself, the admin for whom it names.
Mint(r) ==
    LET p == IF claims[r].plane = "admin"
             THEN IF req[r].ref \in Principal THEN req[r].ref ELSE Admin
             ELSE claims[r].who
    IN  /\ pc[r] = "save" /\ req[r].op = "mint"
        /\ \E t \in Token \ minted, ok \in BOOLEAN :
              /\ save([list[r] EXCEPT ![t] = [owner |-> p, revoked |-> FALSE]], ok)
              /\ minted' = IF ok THEN minted \cup {t} ELSE minted
        /\ UnlockStore(r) /\ Answer(r)
        /\ UNCHANGED <<canvasVars, loginVars, ended, damaged>>

\* Its owner, or the admin, revokes a token; one they cannot touch is a 404.
RevokeToken(r) ==
    LET x == list[r][req[r].tok]
        found == /\ x # None /\ ~x.revoked
                 /\ x.owner = claims[r].who \/ claims[r].plane = "admin"
    IN  /\ pc[r] = "save" /\ req[r].op = "revokeToken"
        /\ \/ /\ found
              /\ \E ok \in BOOLEAN :
                    /\ save([list[r] EXCEPT ![req[r].tok].revoked = TRUE], ok)
                    /\ ended' = IF ok THEN ended \cup {req[r].tok} ELSE ended
           \/ ~found /\ UNCHANGED <<tokens, ended>>
        /\ UnlockStore(r) /\ Answer(r)
        /\ UNCHANGED <<canvasVars, loginVars, minted, damaged>>

-----------------------------------------------------------------------------
(* The environment. *)

\* A principal logs in, or authorizes its agent again at the identity provider.
Login(p) ==
    /\ oidc /\ p \notin live /\ live' = live \cup {p}
    /\ UNCHANGED <<canvasVars, storeVars, cutOff, req, pc, claims, late>>
Reauthorize(p) ==
    /\ p \in cutOff /\ cutOff' = cutOff \ {p}
    /\ UNCHANGED <<canvasVars, storeVars, live, req, pc, claims, late>>

\* Somebody edits tokens.json and leaves it unreadable.
Damage ==
    /\ "damage" \in Faults /\ ~damaged /\ damaged' = TRUE /\ tokens' = Corrupt
    /\ UNCHANGED <<canvasVars, loginVars, mu, list, minted, ended, req, pc, claims, late>>

Handler(r) ==
    Serve(r) \/ WriteCanvas(r) \/ EndLogin(r) \/ StoreRead(r) \/ Mint(r) \/ RevokeToken(r)

Next ==
    \/ \E r \in Req :
          Arrive(r) \/ Resolve(r) \/ LookupRead(r) \/ LookupSave(r) \/ Gate(r) \/ Handler(r)
    \/ \E p \in Principal : Login(p) \/ Reauthorize(p)
    \/ Damage

Spec == Init /\ [][Next]_vars

-----------------------------------------------------------------------------
(* Properties. *)

\* A token that was handed out stays in the file until the file is damaged, and is
\* revoked there exactly when its revocation was acknowledged: no other mint,
\* lookup or revocation, and no failed save, loses what one of them wrote.  A
\* request that arrives after the acknowledgement is never taken for the token's
\* owner (usertoken.go: Mint, Lookup, Revoke).
TokensKept ==
    /\ ~damaged => \A t \in minted :
          /\ tokens # Corrupt /\ tokens[t] # None
          /\ tokens[t].revoked <=> t \in ended
    /\ \A r \in Req : late[r] /\ claims[r] # None => claims[r].plane # "token"

\* Nothing p's credentials can do: no session, its agent cut off, no token, and
\* none of its requests past the gate or about to be.
Powerless(p) ==
    /\ p \notin live /\ p \in cutOff
    /\ \A t \in Token : load[t] # None /\ load[t].owner = p => load[t].revoked
    /\ \A r \in Req, t \in Token :
          list[r] # None /\ list[r][t] # None /\ list[r][t].owner = p => list[r][t].revoked
    /\ \A r \in Req :
          claims[r] # None /\ claims[r].who = p => pc[r] = "gate" /\ claims[r].plane = "actor"

\* A principal who has ended its sessions, cut off its agent and revoked its tokens
\* has no way back but to log in or authorize an agent anew, or a token that the
\* admin mints for it: none of the three planes restores another (serveWrite,
\* admitAgentConn).
PowerlessStays ==
    [][\A p \in Principal :
          Powerless(p) /\ ~Powerless(p)' =>
              \/ p \in live' \ live \/ p \in cutOff \ cutOff'
              \/ \E r \in Req : Mint(r) /\ claims[r].plane = "admin"]_vars
=============================================================================

----------------------------- MODULE AgentPlane -----------------------------
(***************************************************************************)
(* An agent acting for a principal: the OAuth middleware of scrim mcp      *)
(* (internal/mcpserver/oauth.go, identity.go), which names the actor of a  *)
(* request and registers its connection in the background (agentreg.go),   *)
(* and the hub's gate, which admits the call or refuses a connection the   *)
(* principal has revoked (server/hubgate.go, agentconn/agentconn.go).      *)
(*                                                                         *)
(* One principal; a connection is one of its OAuth clients, or NoClient,   *)
(* which stands for every caller that names none.  The clock counts half   *)
(* seconds: a revocation has the clock's time, a token's iat whole         *)
(* seconds.  Every token carries an email: without one the hub takes the   *)
(* call for the push token's own.                                          *)
(***************************************************************************)
EXTENDS Integers, FiniteSets, Sequences, SequencesExt

CONSTANTS
    Client, NoClient,
    Req,             \* MCP requests, each reused when it is answered
    Tokens,          \* the tokens the authorization server may have minted
    Body,            \* the JSON-RPC bodies: sequences of messages, or TooLarge
    TooLarge,
    TokenLife,       \* half seconds a token is valid
    TouchInterval, Retention,
    agentRegistrarCap,
    MaxClock,        \* bound on the clock
    MaxBackground,   \* bound on the registrations in flight
    Faults,          \* sets of {"disk", "lost", "damage", "restart", "cut"} a behaviour may meet
    None, Corrupt

Conn == Client \cup {NoClient}
Second == 0 .. MaxClock \div 2
ConnKey == Conn \X Second      \* the registrar's connKey

\* A verified token; iat 0 is a token without that claim.
Scope == {"read", "write"}
Token == [client : Conn, iat : Second, sub : BOOLEAN, scopes : SUBSET Scope]

Record == [lastSeen : 0 .. MaxClock, revokedAt : 0 .. MaxClock]
Registry == [Conn -> Record \cup {None}]

AgentPlaneAssumption ==
    /\ Tokens \subseteq Token
    /\ NoClient \notin Client /\ None \notin Conn
    /\ MaxClock \in Nat \ {0} /\ TouchInterval \in Nat /\ Retention \in Nat
    /\ agentRegistrarCap \in Nat \ {0}
    /\ None \notin Record \cup ConnKey /\ Corrupt \notin Registry

VARIABLES
    faults,    \* what may go wrong in this behaviour
    clock,
    pc,        \* per request: "idle", "call" (a tool's call to the hub), "served"
    run,       \* the batch that makes the call, whether its transfer broke, its token's scopes
    actor,     \* the actor the call names: a ConnKey, or None
    order,     \* the registrar's keys, oldest first
    calls,     \* its background calls in flight
    rec,       \* the hub's registry in memory
    disk,      \* agent-connections.json
    loadErr,   \* the registry failed to load
    acked,     \* per connection, when its latest acknowledged revocation was
    missed     \* connections a registration or a row of which was lost

vars == <<faults, clock, pc, run, actor, order, calls, rec, disk, loadErr, acked, missed>>
mcpVars == <<pc, run, actor, order, calls>>
hubVars == <<rec, disk, loadErr, acked>>

\* hmac: the gateway's signed X-Forwarded-User-* headers are there as well; cut: the
\* transfer of the body ends in an error once the messages have been read.
Request == [bearer : Tokens \cup {None}, hmac : BOOLEAN, body : Body, cut : BOOLEAN]

TypeOK ==
    /\ faults \in Faults /\ clock \in 1 .. MaxClock
    /\ pc \in [Req -> {"idle", "call", "served"}]
    /\ run \in [Req -> [body : Body, cut : BOOLEAN, scopes : SUBSET Scope] \cup {None}]
    /\ actor \in [Req -> ConnKey \cup {None}]
    /\ order \in Seq(ConnKey) /\ Len(order) <= agentRegistrarCap
    /\ calls \subseteq ConnKey
    /\ rec \in Registry /\ disk \in Registry \cup {Corrupt}
    /\ loadErr \in BOOLEAN
    /\ acked \in [Conn -> 0 .. MaxClock]
    /\ missed \subseteq Conn

NoRecords == [c \in Conn |-> None]

Init ==
    /\ faults \in Faults /\ clock = 1
    /\ pc = [r \in Req |-> "idle"] /\ run = [r \in Req |-> None]
    /\ actor = [r \in Req |-> None]
    /\ order = <<>> /\ calls = {}
    /\ rec = NoRecords /\ disk = NoRecords /\ loadErr = FALSE
    /\ acked = [c \in Conn |-> 0] /\ missed = {}

-----------------------------------------------------------------------------
(* The middleware. *)

scopeForMessage(m) ==
    CASE m = "handshake" -> "" [] m = "readTool" -> "read" [] OTHER -> "write"

\* The most privileged of the scopes that a batch's messages require (maxScope); after
\* a read error none, and what was read is passed on.
requiredScopeForBody(q) ==
    LET needs == {scopeForMessage(q.body[i]) : i \in DOMAIN q.body}
    IN  IF q.cut THEN "" ELSE IF "write" \in needs THEN "write" ELSE IF "read" \in needs THEN "read" ELSE ""

satisfiesScope(scopes, need) ==
    need \in scopes \/ (need = "read" /\ "write" \in scopes)
CallsTool(body) == \E i \in DOMAIN body : body[i] \in {"readTool", "writeTool"}

\* verifier.Verify: signature, issuer, audience and expiry.
Valid(t) == t.iat = 0 \/ clock <= 2 * t.iat + TokenLife

\* actorContext: a token with a subject wins over the forwarded headers, which
\* carry neither a client nor an iat.
ActorOf(q) ==
    IF q.bearer.sub THEN <<q.bearer.client, q.bearer.iat>>
    ELSE IF q.hmac THEN <<NoClient, 0>> ELSE None

Seen(k) == k \in ToSet(order)

\* Variant of note: nothing is forgotten.
note_Unbounded(k) == order' = Append(order, k)

\* note: at the cap the oldest key is forgotten.
note(k) ==
    order' = Append(IF Len(order) >= agentRegistrarCap THEN Tail(order) ELSE order, k)

\* Variant of Register: the call runs under the request's own context.
Register_Cancelled(k) == IF Seen(k) THEN UNCHANGED <<order, calls>>
                         ELSE note(k) /\ UNCHANGED calls

\* Register: a key seen for the first time starts one call to the hub.
Register(k) == IF Seen(k) THEN UNCHANGED <<order, calls>>
               ELSE note(k) /\ calls' = calls \cup {k}

\* The request is answered.
Reply(r, outcome) == /\ pc' = [pc EXCEPT ![r] = outcome]
                     /\ run' = [run EXCEPT ![r] = None]
                     /\ actor' = [actor EXCEPT ![r] = None]

\* What the middleware makes of a verified token's request: the connection is
\* registered whatever the scope check then says, which ends the request with 413
\* or 403.  A request that calls no tool never reaches the hub.
Authorize(r, q) ==
    LET need == requiredScopeForBody(q)
    IN  /\ IF q.bearer.sub THEN Register(<<q.bearer.client, q.bearer.iat>>)
           ELSE UNCHANGED <<order, calls>>
        /\ IF \/ q.body = TooLarge \/ ~CallsTool(q.body)
              \/ need # "" /\ ~satisfiesScope(q.bearer.scopes, need)
           THEN Reply(r, "idle")
           ELSE /\ pc' = [pc EXCEPT ![r] = "call"]
                /\ run' = [run EXCEPT ![r] = [body |-> q.body, cut |-> q.cut, scopes |-> q.bearer.scopes]]
                /\ actor' = [actor EXCEPT ![r] = ActorOf(q)]

\* A request, with a token the authorization server has minted by now.  Without a
\* valid one it is answered 401.
Middleware(r) ==
    /\ pc[r] \in {"idle", "served"} /\ Cardinality(calls) < MaxBackground
    /\ \E q \in Request :
          /\ q.bearer # None => 2 * q.bearer.iat <= clock
          /\ q.cut => "cut" \in faults
          /\ IF q.bearer = None \/ ~Valid(q.bearer)
             THEN Reply(r, "idle") /\ UNCHANGED <<order, calls>>
             ELSE Authorize(r, q)
    /\ UNCHANGED <<clock, hubVars, missed>>

-----------------------------------------------------------------------------
(* The registry of agentconn.go. *)

CanSave == IF "disk" \in faults THEN BOOLEAN ELSE {TRUE}

\* A row revoked is never stale.
Stale(x) == /\ x # None
            /\ x.revokedAt = 0 /\ x.lastSeen < clock - Retention

prune(m) == [c \in Conn |-> IF Stale(m[c]) THEN None ELSE m[c]]

\* save prunes memory, then renames the file into place; it may fail.
save(m, saved) ==
    /\ rec' = prune(m)
    /\ disk' = IF saved THEN prune(m) ELSE disk
    /\ missed' = missed \cup {c \in Conn : rec[c] # None /\ prune(m)[c] = None}

\* Variant of Refused: a token minted at the very time of the revocation passes.
Refused_After(k) ==
    LET x == rec[k[1]]
    IN  x # None /\ x.revokedAt # 0
        /\ (k[1] = NoClient \/ k[2] = 0 \/ 2 * k[2] < x.revokedAt)

\* A revoked connection is refused, but for a token minted after it.
Refused(k) ==
    LET x == rec[k[1]]
    IN  x # None /\ x.revokedAt # 0
        /\ (k[1] = NoClient \/ k[2] = 0 \/ 2 * k[2] <= x.revokedAt)

\* A new row, a revocation lifted and a LastSeen gone stale are saved, best effort.
Touch(k) ==
    LET x == rec[k[1]]
    IN  IF x = None \/ x.revokedAt # 0 \/ clock - x.lastSeen >= TouchInterval
        THEN \E saved \in CanSave :
                save([rec EXCEPT ![k[1]] = [lastSeen |-> clock, revokedAt |-> 0]], saved)
        ELSE UNCHANGED <<rec, disk, missed>>

\* A later token admitted: the principal has authorized the client again.
Newer(k) == k[1] # NoClient /\ k[2] # 0 /\ 2 * k[2] > acked[k[1]]
Reauthorize(k) == acked' = [acked EXCEPT ![k[1]] = IF Newer(k) THEN 0 ELSE @]

Admit(k) == ~loadErr /\ ~Refused(k) /\ Touch(k) /\ Reauthorize(k) /\ UNCHANGED loadErr

\* The gate refuses with 503 if the registry did not load, else with 403.
Refuse(k) == (loadErr \/ Refused(k)) /\ UNCHANGED hubVars

\* A tool's call reaches the hub.  Without an actor it is the push token's.
Call(r) ==
    /\ pc[r] = "call"
    /\ \/ actor[r] = None /\ Reply(r, "served") /\ UNCHANGED <<hubVars, missed>>
       \/ actor[r] # None /\ Admit(actor[r]) /\ Reply(r, "served")
       \/ actor[r] # None /\ Refuse(actor[r]) /\ Reply(r, "idle") /\ UNCHANGED missed
    /\ UNCHANGED <<clock, order, calls>>

\* A registration reaches the hub; its answer is discarded.
Background(k) ==
    /\ k \in calls /\ calls' = calls \ {k}
    /\ \/ Admit(k)
       \/ Refuse(k) /\ missed' = missed \cup {k[1]}
    /\ UNCHANGED <<clock, pc, run, actor, order>>

\* It times out, or the hub is down.
BackgroundLost(k) ==
    /\ "lost" \in faults
    /\ k \in calls /\ calls' = calls \ {k}
    /\ missed' = missed \cup {k[1]}
    /\ UNCHANGED <<clock, pc, run, actor, order, hubVars>>

\* handleRevokeAgentConn: memory first, then the file; only a saved revocation
\* is acknowledged (204).  One revoked already is a 404.
Revoke(c) ==
    /\ ~loadErr /\ rec[c] # None /\ rec[c].revokedAt = 0
    /\ \E saved \in CanSave :
          /\ save([rec EXCEPT ![c].revokedAt = clock], saved)
          /\ acked' = [acked EXCEPT ![c] = IF saved THEN clock ELSE @]
    /\ UNCHANGED <<clock, mcpVars, loadErr>>

\* New: a file that cannot be parsed fails every operation from then on; stale
\* rows are pruned, and the file saved if there were any.
HubRestart ==
    /\ "restart" \in faults
    /\ IF disk = Corrupt
       THEN /\ rec' = NoRecords /\ loadErr' = TRUE
            /\ missed' = missed \cup {c \in Conn : rec[c] # None} /\ UNCHANGED disk
       ELSE /\ loadErr' = FALSE
            /\ \E saved \in CanSave : save(disk, saved)
    /\ UNCHANGED <<clock, mcpVars, acked>>

\* ServeHTTP returns and is started again: requests and registrations are gone.
McpRestart ==
    /\ "restart" \in faults
    /\ pc' = [r \in Req |-> "idle"] /\ run' = [r \in Req |-> None]
    /\ actor' = [r \in Req |-> None]
    /\ order' = <<>> /\ calls' = {}
    /\ missed' = missed \cup {k[1] : k \in calls}
    /\ UNCHANGED <<clock, hubVars>>

\* Something else damages the file.
Damage ==
    /\ "damage" \in faults /\ disk' = Corrupt
    /\ UNCHANGED <<clock, mcpVars, rec, loadErr, acked, missed>>

Tick ==
    /\ clock < MaxClock /\ clock' = clock + 1
    /\ UNCHANGED <<mcpVars, hubVars, missed>>

Next ==
    /\ \/ \E r \in Req : Middleware(r) \/ Call(r)
       \/ \E k \in ConnKey : Background(k) \/ BackgroundLost(k)
       \/ \E c \in Conn : Revoke(c)
       \/ HubRestart \/ McpRestart \/ Damage \/ Tick
    /\ UNCHANGED faults

Spec == Init /\ [][Next]_vars

\* A registration runs to its end on its own goroutine, within hubTimeout.
Fairness == \A k \in ConnKey : WF_vars((Background(k) \/ BackgroundLost(k)) /\ UNCHANGED faults)
FairSpec == Spec /\ Fairness

-----------------------------------------------------------------------------
(* Properties. *)

\* An acknowledged revocation is in the registry and in the file, with its time,
\* until a token minted after it is admitted: through failed saves, pruning and
\* restarts.
RevocationKept ==
    \A c \in Conn : acked[c] # 0 =>
        /\ loadErr \/ (rec[c] # None /\ rec[c].revokedAt = acked[c])
        /\ disk = Corrupt \/ (disk[c] # None /\ disk[c].revokedAt = acked[c])

\* The token has the scope for every tool that the batch calls, wherever in it the
\* call stands.
InScope(call) ==
    \A i \in DOMAIN call.body : scopeForMessage(call.body[i]) = "write" => "write" \in call.scopes

\* A call is served only for a token that allows all that its batch calls, if the body
\* could be read to its end, and for a connection that is not revoked, unless the token
\* was minted after the revocation.
ServedIsAllowed ==
    \A r \in Req : pc[r] = "call" /\ pc'[r] = "served" =>
        /\ run[r].cut \/ InScope(run[r])
        /\ \/ actor[r] = None
           \/ acked[actor[r][1]] = 0 \/ Newer(actor[r])

\* A revocation holds once it is acknowledged: it is kept, and it is enforced, as the
\* token's scope is where the body could be read (Revoke, Admit, requiredScopeForBody).
RevocationHolds == [][RevocationKept' /\ ServedIsAllowed]_vars

\* A client that has authorized is listed before it calls a tool, unless its
\* registration was lost, or its row since.
AuthorizedIsListed ==
    \A c \in Conn : (\E k \in ToSet(order) : k[1] = c) ~> (rec[c] # None \/ c \in missed)

-----------------------------------------------------------------------------
(* What the scopes are said to do, and do not.                             *)

\* A call that writes needs the write scope, whatever becomes of its body's transfer:
\* false of a body of which the messages were read before an error.
ScopeAlwaysEnforced == [][\A r \in Req : pc[r] = "call" /\ pc'[r] = "served" => InScope(run[r])]_vars
=============================================================================

------------------------------ MODULE HubTools ------------------------------
(***************************************************************************)
(* The tools of scrim mcp against a hub: the checks of each handler        *)
(* (internal/mcpserver/mcpserver.go), the HTTP calls of the hub backend    *)
(* (backend_hub.go) with what may become of them on the way, and what the  *)
(* hub's handlers do (internal/server).  An agent that is told nothing     *)
(* definite may call again, while its first request is still under way.    *)
(*                                                                         *)
(* Every call carries the push token and no actor.  The hub executes a     *)
(* request in one step: HubContent and CanvasMeta take the handlers apart. *)
(* A canvas has one file; tools that only read are left out, and so is     *)
(* push, which is in PushClient.                                           *)
(***************************************************************************)
EXTENDS FileEdit

CONSTANTS
    Agent, Canvas, BadId,
    Token,
    Workloads,       \* sets of inputs; a behaviour's agents use those of one
    Initial,         \* what the canvases hold at the start
    MaxCalls,        \* bound: the calls of all agents
    MaxFaults,       \* bound: things that go wrong
    Faults,          \* subset of {"disk", "lost", "garbled", "redirect"}
    NoFile,          \* the content of a canvas without the file
    None

VARIABLES
    work,      \* the workload of this behaviour
    hub,       \* the hub's canvases, snapshots (oldest first) and grants
    net,       \* requests on their way to the hub
    ans,       \* answers on their way back
    log,       \* per agent its calls, oldest first
    last,      \* history: the request that the hub carried out last
    gone,      \* history: links that went with the metadata they were in
    faults     \* bound

vars == <<work, hub, net, ans, log, last, gone, faults>>

Content == Seq(Token) \cup {NoFile}
CallId == Agent \X (Nat \ {0})
Grant == [kind : STRING, target : STRING, by : CallId]

\* What a tool is called with, and what a request carries.
Arguments(ids, paths, names) ==
    [tool : {"add", "rm", "snap"}, id : ids]
    \cup [tool : {"write_file"}, id : ids, path : paths, body : Seq(Token)]
    \cup [tool : {"edit_file"}, id : ids, path : paths, single : BOOLEAN, batch : BOOLEAN,
          edits : Seq(Edits(Token))]
    \cup [tool : {"revert"}, id : ids, name : names]
    \cup [tool : {"copy_canvas"}, id : ids, to : ids, overwrite : BOOLEAN]
    \cup [tool : {"share_canvas"}, id : ids, kind : STRING, target : STRING]

\* A snapshot is named by its place in its canvas's sequence, and 0 is no name, the
\* latest.  No handler or backend looks at the name before the hub does.
NotAName == -1    \* it has a slash, or does not begin with a time
Dots == -2        \* "." or ".."
Names == Nat \cup {NotAName, Dots}

Input == Arguments(Canvas \cup {BadId}, {"plain", "dotted", "escapes", ""}, Names)
Query == Arguments(Canvas, {"plain"}, Names \ {0}) \cup [tool : {"snaps"}, id : Canvas]
Status == {"ok", "refused", "invalid", "failed", "redirect"}

HubToolsAssumption ==
    /\ \A w \in Workloads : w \subseteq Input
    /\ Initial \in [Canvas -> Content]
    /\ MaxFaults \in Nat
    /\ BadId \notin Canvas /\ None \notin Content /\ None \notin Query

\* A call: what its agent is told, how often the hub carried it out, whether
\* something went wrong, and the snapshots there were when it was made and
\* the one that was restored.
Entry(in, result) == [in |-> in, result |-> result, landed |-> 0, met |-> FALSE,
                      first |-> IF in.id \in Canvas THEN Len(hub.snaps[in.id]) ELSE 0,
                      restored |-> 0]

LogEntry == [in : Input, result : {"pending", "ok", "refused", "failed", "unknown"},
             landed : Nat, met : BOOLEAN, first : Nat, restored : Nat]

TypeOK ==
    /\ work \in Workloads
    /\ hub \in [file : [Canvas -> Content \cup {None}], snaps : [Canvas -> Seq(Content)],
               grants : [Canvas -> SUBSET Grant]]
    /\ net \subseteq [by : CallId, q : Query]
    /\ ans \subseteq [by : CallId, q : Query, value : Seq(Nat \ {0}),
                     status : Status]
    /\ log \in [Agent -> Seq(LogEntry)]
    /\ last \in Query \cup {None}
    /\ gone \subseteq Canvas \X CallId
    /\ faults \in 0..MaxFaults

Init ==
    /\ work \in Workloads
    /\ hub = [file |-> Initial, snaps |-> [c \in Canvas |-> <<>>],
              grants |-> [c \in Canvas |-> {}]]
    /\ net = {} /\ ans = {}
    /\ log = [a \in Agent |-> <<>>]
    /\ last = None /\ gone = {} /\ faults = 0

-----------------------------------------------------------------------------
(* A tool's handler, and the request that the backend makes of its input.  *)

Pending(a) == log[a] # <<>> /\ log[a][Len(log[a])].result = "pending"
Waiting(by) == by[2] = Len(log[by[1]]) /\ Pending(by[1])

\* What a handler or the backend turns down before there is a request.
Malformed(in) ==
    \/ in.id \notin Canvas
    \/ in.tool = "copy_canvas" /\ in.to \notin Canvas
    \/ in.tool \in {"write_file", "edit_file"} /\ in.path \in {"", "escapes"}
    \/ in.tool = "write_file" /\ Len(in.body) > MaxBytes
    \/ /\ in.tool = "edit_file"
       /\ \/ in.single /\ in.batch
          \/ \E i \in DOMAIN in.edits : in.edits[i].new = <<in.edits[i].old>>
    \/ /\ in.tool = "share_canvas"
       /\ \/ in.kind \notin {"user", "group", "everyone", "link"}
          \/ in.kind \in {"user", "group"} /\ in.target = ""

cleanRelPath(path) == IF path = "dotted" THEN "plain" ELSE path

Request(in) ==
    IF in.tool = "revert" /\ in.name = 0 THEN [tool |-> "snaps", id |-> in.id]
    ELSE IF in.tool \in {"write_file", "edit_file"}
         THEN [in EXCEPT !.path = cleanRelPath(in.path)]
         ELSE in

CallsMade == FoldSet(LAMBDA g, n : n + Len(log[g]), 0, Agent)

CallTool(a) ==
    /\ ~Pending(a) /\ CallsMade < MaxCalls
    /\ \E in \in work :
          IF Malformed(in)
          THEN log' = [log EXCEPT ![a] = Append(@, Entry(in, "refused"))] /\ UNCHANGED net
          ELSE /\ log' = [log EXCEPT ![a] = Append(@, Entry(in, "pending"))]
               /\ net' = net \cup {[by |-> <<a, Len(log[a]) + 1>>, q |-> Request(in)]}
    /\ UNCHANGED <<work, hub, ans, last, gone, faults>>

-----------------------------------------------------------------------------
(* The hub's handlers: each gives what may come of a request q, as a set   *)
(* of answers and of what the hub then holds.                              *)

Outcome(status, value, h) == [status |-> status, value |-> value, hub |-> h]
Ok(h) == {Outcome("ok", <<>>, h)}
Refuse == {Outcome("refused", <<>>, hub)}
Unless(refused, outcomes) == IF refused THEN Refuse ELSE outcomes
Missing(c) == hub.file[c] = None

handleCreateCanvas(q) ==
    Ok([hub EXCEPT !.file[q.id] = IF @ = None THEN NoFile ELSE @])

\* The snapshots of a deleted canvas stay.
handleDeleteCanvas(q) ==
    Unless(Missing(q.id), Ok([hub EXCEPT !.file[q.id] = None, !.grants[q.id] = {}]))

\* The hub with a snapshot taken of a canvas that is there.
Snapshotted(c) ==
    IF Missing(c) THEN hub ELSE [hub EXCEPT !.snaps[c] = Append(@, hub.file[c])]

handleCreateSnapshot(q) == Unless(Missing(q.id), Ok(Snapshotted(q.id)))

\* The names of the snapshots, newest first.
handleListSnapshots(q) ==
    LET count == Len(hub.snaps[q.id])
    IN  {Outcome("ok", [i \in 1..count |-> count + 1 - i], hub)}

\* The name is looked at before a safety snapshot is taken.  One that cannot be a
\* snapshot's is answered 500, "revert failed (invalid name?)", as a failure is.
handleRevertSnapshot(q) ==
    IF q.name = NotAName THEN {Outcome("invalid", <<>>, hub)}
    ELSE Unless(q.name > Len(hub.snaps[q.id]),
                Ok([Snapshotted(q.id) EXCEPT !.file[q.id] = hub.snaps[q.id][q.name]]))

\* The metadata file, grants and all, goes along; if it cannot be copied the
\* contents have been.
handleCopyCanvas(q) ==
    LET copied == [Snapshotted(q.to) EXCEPT !.file[q.to] = hub.file[q.id]]
    IN  Unless(q.id = q.to \/ Missing(q.id) \/ (~Missing(q.to) /\ ~q.overwrite),
               Ok([copied EXCEPT !.grants[q.to] = hub.grants[q.id]])
               \cup {Outcome("failed", <<>>, copied)})

handlePutCanvasFile(q) ==
    Unless(Missing(q.id), Ok([hub EXCEPT !.file[q.id] = q.body]))

handleEditCanvasFile(q) ==
    LET edited == ApplyBatch(hub.file[q.id], q.edits)
    IN  Unless(hub.file[q.id] \in {None, NoFile} \/ edited = Failed,
               Ok([hub EXCEPT !.file[q.id] = edited]))

\* Variant of handleCreateGrant: a grant that is there is not looked for.
handleCreateGrant_Appends(q, by) ==
    Unless(Missing(q.id),
           Ok([hub EXCEPT !.grants[q.id] =
                  @ \cup {[kind |-> q.kind, target |-> q.target, by |-> by]}]))

\* A grant that is there already is not added again; every link is new.
handleCreateGrant(q, by) ==
    Unless(Missing(q.id),
           IF q.kind # "link"
              /\ \E g \in hub.grants[q.id] : g.kind = q.kind /\ g.target = q.target
           THEN Ok(hub)
           ELSE Ok([hub EXCEPT !.grants[q.id] =
                       @ \cup {[kind |-> q.kind, target |-> q.target, by |-> by]}]))

\* The mux sends a path that is not canonical to the one that is.
Dotted(q) ==
    \/ q.tool = "revert" /\ q.name = Dots
    \/ q.tool \in {"write_file", "edit_file"} /\ q.path = "dotted"
Served(m) ==
    LET q == m.q
    IN  CASE q.tool = "add" -> handleCreateCanvas(q)
          [] q.tool = "rm" -> handleDeleteCanvas(q)
          [] q.tool = "snap" -> handleCreateSnapshot(q)
          [] q.tool = "snaps" -> handleListSnapshots(q)
          [] Dotted(q) -> {Outcome("redirect", <<>>, hub)}
          [] q.tool = "revert" /\ q.name # Dots -> handleRevertSnapshot(q)
          [] q.tool = "copy_canvas" -> handleCopyCanvas(q)
          [] q.tool = "share_canvas" -> handleCreateGrant(q, m.by)
          [] q.tool = "write_file" /\ q.path = "plain" -> handlePutCanvasFile(q)
          [] q.tool = "edit_file" /\ q.path = "plain" -> handleEditCanvasFile(q)

\* What a disk that fails adds to that; every handler can meet one.
Broken(out) == out.status = "failed"
Outcomes(m) ==
    IF "disk" \in Faults /\ faults < MaxFaults
    THEN Served(m) \cup {Outcome("failed", <<>>, hub)}
    ELSE {out \in Served(m) : ~Broken(out)}

\* History: a call after a request of it was carried out.
Noted(e, q, out) ==
    [e EXCEPT !.landed = IF out.status = "ok" /\ q.tool # "snaps" THEN @ + 1 ELSE @,
              !.met = @ \/ Broken(out)]

\* The hub carries a request out, whether or not somebody waits for the answer.
Serve(m) ==
    \E out \in Outcomes(m) :
       /\ hub' = out.hub
       /\ net' = net \ {m}
       /\ ans' = IF Waiting(m.by)
                 THEN ans \cup {[by |-> m.by, q |-> m.q, status |-> out.status, value |-> out.value]}
                 ELSE ans
       /\ log' = [log EXCEPT ![m.by[1]][m.by[2]] = Noted(@, m.q, out)]
       /\ last' = IF out.status = "ok" THEN m.q ELSE IF out.hub = hub THEN last ELSE None
       /\ gone' = gone \cup UNION {{<<c, g.by>> : g \in hub.grants[c] \ out.hub.grants[c]} : c \in Canvas}
       /\ faults' = IF Broken(out) THEN faults + 1 ELSE faults
       /\ UNCHANGED work

-----------------------------------------------------------------------------
(* The backend's side of a call.                                           *)

Tell(a, result) == log' = [log EXCEPT ![a][Len(log[a])].result = result]

\* Variant of Result: a redirect is followed, by a GET that finds the file.
Result_Follows(status) ==
    IF status = "redirect" THEN "ok" ELSE IF status = "invalid" THEN "failed" ELSE status

\* A redirect is an error of the client's; one 500 is like another.
Result(status) == IF status \in {"redirect", "invalid"} THEN "failed" ELSE status

\* A revert to the latest snapshot first asks for the names.
Receive(x) ==
    LET a == x.by[1]
    IN  /\ ans' = ans \ {x}
        /\ IF x.q.tool = "snaps" /\ x.status = "ok" /\ x.value # <<>>
           THEN /\ net' = net \cup
                      {[by |-> x.by, q |-> [tool |-> "revert", id |-> x.q.id, name |-> Head(x.value)]]}
                /\ log' = [log EXCEPT ![a][x.by[2]].restored = Head(x.value)]
           ELSE /\ Tell(a, IF x.q.tool = "snaps" /\ x.status = "ok" THEN "refused"
                           ELSE Result(x.status))
                /\ UNCHANGED net
        /\ UNCHANGED <<work, hub, last, gone, faults>>

\* hubTimeout: the agent is told, whatever becomes of the request.
Timeout(a) ==
    /\ Pending(a)
    /\ Tell(a, "unknown")
    /\ ans' = {x \in ans : x.by[1] # a}
    /\ UNCHANGED <<work, hub, net, last, gone, faults>>

Fault(kind) == kind \in Faults /\ faults < MaxFaults /\ faults' = faults + 1

LoseRequest(m) ==
    /\ Fault("lost") /\ net' = net \ {m}
    /\ UNCHANGED <<work, hub, ans, log, last, gone>>

LoseAnswer(x) ==
    /\ Fault("lost") /\ ans' = ans \ {x}
    /\ UNCHANGED <<work, hub, net, log, last, gone>>

\* The body of an answer cannot be read, which comes before a look at its
\* status; write_file goes by the status alone.
Garble(x) ==
    /\ Fault("garbled")
    /\ Tell(x.by[1], IF x.q.tool = "write_file" \/ x.status = "redirect"
                     THEN Result(x.status) ELSE "unknown")
    /\ ans' = ans \ {x}
    /\ UNCHANGED <<work, hub, net, last, gone>>

\* Something in front of the hub sends the request elsewhere.
Redirect(m) ==
    /\ Fault("redirect") /\ Waiting(m.by)
    /\ net' = net \ {m}
    /\ ans' = ans \cup {[by |-> m.by, q |-> m.q, status |-> "redirect", value |-> <<>>]}
    /\ log' = [log EXCEPT ![m.by[1]][m.by[2]].met = TRUE]
    /\ UNCHANGED <<work, hub, last, gone>>

Next ==
    \/ \E a \in Agent : CallTool(a) \/ Timeout(a)
    \/ \E m \in net : Serve(m) \/ LoseRequest(m) \/ Redirect(m)
    \/ \E x \in ans : Receive(x) \/ LoseAnswer(x) \/ Garble(x)

Spec == Init /\ [][Next]_vars

-----------------------------------------------------------------------------
(* Properties.                                                             *)

Calls == UNION {{log[a][n] : n \in DOMAIN log[a]} : a \in Agent}

\* A revert to what cannot be a snapshot's name.
Misnamed(in) == in.tool = "revert" /\ in.name \in {NotAName, Dots}

\* What the hub did of a call that was answered, once at most.
ToldTheTruth(e) ==
    /\ e.landed <= 1
    /\ e.result = "ok" => e.landed = 1
    /\ e.result = "refused" => e.landed = 0
    /\ e.result = "failed" => e.landed = 0 /\ (e.met \/ Misnamed(e.in))

\* The snapshot that a revert to the latest restores is not older than the
\* latest one was when the tool was called.
RevertsLatest(e) ==
    e.in.tool = "revert" /\ e.in.name = 0 /\ e.result = "ok" => e.restored >= e.first

\* The link whose secret was returned opens the canvas, until the metadata that
\* holds it is removed or replaced.
SecretOpens(a, n) ==
    LET in == log[a][n].in
    IN  in.tool = "share_canvas" /\ in.kind = "link" /\ log[a][n].result = "ok" =>
           \/ <<in.id, <<a, n>>>> \in gone
           \/ \E g \in hub.grants[in.id] : g.kind = "link" /\ g.by = <<a, n>>

\* An agent that is told of success or of a refusal is told the truth: the hub
\* did it, once, or did not, however the requests of others interleave and the
\* network fails.  A call fails only when something went wrong on the way or on
\* the hub, or the name of the snapshot was none; a revert is not to a snapshot older
\* than the agent knew, and a secret that was handed out works (backend_hub.go: do,
\* Revert, ShareCanvas).
AnswersAreTrue ==
    \A a \in Agent : \A n \in DOMAIN log[a] :
        ToldTheTruth(log[a][n]) /\ RevertsLatest(log[a][n]) /\ SecretOpens(a, n)

\* A call that is made again, because nobody was told what became of it,
\* changes nothing if nothing else has happened to the hub: for the tools that
\* say so of themselves, but for a link, which is minted again.
Again(tools) ==
    \A m \in net : m \notin net' /\ last = m.q /\ m.q.tool \in tools => hub' = hub
RepeatIsIdle ==
    [][\/ Again({"add", "write_file", "share_canvas"})
       \/ last.tool = "share_canvas" /\ last.kind = "link"]_vars
=============================================================================

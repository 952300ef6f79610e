----------------------------- MODULE LiveServer -----------------------------
(***************************************************************************)
(* The serving side of live reload in src/internal/server: the SSE hub     *)
(* (hub.go), the handlers that hold a connection open (handlers_sse.go),   *)
(* the idle reaper (reaper.go) and the shutdown sequence of Run            *)
(* (server.go).                                                            *)
(*                                                                         *)
(* A client stands for its connection, its handler goroutine and its       *)
(* notification channel.  Time is abstracted to one fact, stale: the idle  *)
(* timeout has passed since the activity tracker was last touched.         *)
(***************************************************************************)
EXTENDS Integers, FiniteSets

CONSTANTS
    Canvas, Client,
    MaxGlobal, MaxPerCanvas,   \* the SSE caps, 0 for unlimited
    Reaping,                   \* cfg.IdleTimeout > 0
    None

LiveServerAssumption ==
    /\ IsFiniteSet(Client) /\ None \notin Canvas
    /\ MaxGlobal \in Nat /\ MaxPerCanvas \in Nat /\ Reaping \in BOOLEAN

VARIABLES
    handler,   \* where each client's handler is
    want,      \* the canvas its request names
    gone,      \* clients whose request context is done
    clients,   \* h.clients
    total,     \* h.total
    full,      \* clients whose channel holds a reload
    closed,    \* h.closed is closed
    run,       \* where Run is
    stopping,  \* s.stopCh is closed
    signalled, \* the context given to Run is done
    reaper,    \* where the reaper is
    sawIdle,   \* its reading of the clock and of activity.last()
    stale,
    unseen,    \* clients that have not been sent a reload since a broadcast
    stayed     \* clients counted when the reaper's tick began, and ever since

vars == <<handler, want, gone, clients, total, full, closed, run, stopping,
          signalled, reaper, sawIdle, stale, unseen, stayed>>
hubVars == <<clients, total, full, unseen>>
runVars == <<closed, run, stopping, signalled>>
reapVars == <<reaper, sawIdle>>

HandlerStep == {"idle", "admitted", "registered", "streaming", "writing",
                "leaving", "touched"}
RunStep == {"serving", "closing", "shutdown", "exited", "failed"}
ReapStep == {"waiting", "counting", "reaping", "done"}

Serving == run \notin {"exited", "failed"}
Tracked(c) == handler[c] \in {"registered", "streaming", "writing", "leaving", "touched"}
Goto(c, step) == handler' = [handler EXCEPT ![c] = step]

\* The handler returns and the connection is over.
Finish(c) == /\ Goto(c, "idle")
             /\ want' = [want EXCEPT ![c] = None]
             /\ gone' = gone \ {c}

TypeOK ==
    /\ handler \in [Client -> HandlerStep]
    /\ want \in [Client -> Canvas \cup {None}]
    /\ gone \subseteq Client
    /\ clients \in [Canvas -> SUBSET Client]
    /\ total \in Nat
    /\ full \subseteq Client
    /\ closed \in BOOLEAN
    /\ run \in RunStep
    /\ stopping \in BOOLEAN /\ signalled \in BOOLEAN
    /\ reaper \in ReapStep /\ sawIdle \in BOOLEAN
    /\ stale \in BOOLEAN
    /\ unseen \subseteq Client /\ stayed \subseteq Client

Init ==
    /\ handler = [c \in Client |-> "idle"]
    /\ want = [c \in Client |-> None]
    /\ gone = {}
    /\ clients = [i \in Canvas |-> {}]
    /\ total = 0 /\ full = {} /\ unseen = {} /\ stayed = {}
    /\ closed = FALSE /\ run = "serving" /\ stopping = FALSE /\ signalled = FALSE
    /\ reaper = IF Reaping THEN "waiting" ELSE "done"
    /\ sawIdle = FALSE /\ stale = FALSE

-----------------------------------------------------------------------------
(* The SSE handler. *)

\* withActivity: every request, this one included, is activity.
Touch == Serving /\ stale' = FALSE

\* A connection is accepted until Shutdown closes the listener.
Request(c, id) ==
    /\ run \in {"serving", "closing"} /\ handler[c] = "idle"
    /\ want' = [want EXCEPT ![c] = id]
    /\ Touch /\ Goto(c, "admitted")
    /\ UNCHANGED <<gone, hubVars, runVars, reapVars, stayed>>

\* Any other request.
PlainRequest ==
    /\ run \in {"serving", "closing"} /\ Touch
    /\ UNCHANGED <<handler, want, gone, hubVars, runVars, reapVars, stayed>>

\* handleSSE: the canvas is not there (404).
NotFound(c) ==
    /\ Serving /\ handler[c] = "admitted" /\ Finish(c)
    /\ UNCHANGED <<hubVars, runVars, reapVars, stale, stayed>>

OverCap(id) == \/ MaxGlobal > 0 /\ total >= MaxGlobal
               \/ MaxPerCanvas > 0 /\ Cardinality(clients[id]) >= MaxPerCanvas

\* Variant of register: the unregister func also runs for a refused client.
register_UnregisterRefused(c) ==
    /\ Serving /\ handler[c] = "admitted"
    /\ \/ /\ ~OverCap(want[c])
          /\ clients' = [clients EXCEPT ![want[c]] = @ \cup {c}]
          /\ total' = total + 1
          /\ Goto(c, "registered")
          /\ UNCHANGED <<want, gone, full, unseen>>
       \/ /\ OverCap(want[c])
          /\ Finish(c)
          /\ total' = total - 1
          /\ UNCHANGED <<clients, full, unseen>>
    /\ UNCHANGED <<runVars, reapVars, stale, stayed>>

\* hub.register: the caps and the insert under one lock.  A refused client gets 503.
register(c) ==
    /\ Serving /\ handler[c] = "admitted"
    /\ \/ /\ ~OverCap(want[c])
          /\ clients' = [clients EXCEPT ![want[c]] = @ \cup {c}]
          /\ total' = total + 1
          /\ Goto(c, "registered")
          /\ UNCHANGED <<want, gone, full, unseen>>
       \/ /\ OverCap(want[c])
          /\ Finish(c)
          /\ UNCHANGED hubVars
    /\ UNCHANGED <<runVars, reapVars, stale, stayed>>

\* The 200 and its headers are flushed: the client now knows it is connected.
SendHeaders(c) ==
    /\ Serving /\ handler[c] = "registered" /\ Goto(c, "streaming")
    /\ UNCHANGED <<want, gone, hubVars, runVars, reapVars, stale, stayed>>

\* The select takes the pending reload.
Receive(c) ==
    /\ Serving /\ handler[c] = "streaming" /\ c \in full
    /\ full' = full \ {c} /\ Goto(c, "writing")
    /\ UNCHANGED <<want, gone, clients, total, unseen, runVars, reapVars, stale, stayed>>

\* The event is written and flushed.
WriteReload(c) ==
    /\ Serving /\ handler[c] = "writing" /\ Goto(c, "streaming")
    /\ unseen' = IF c \in full THEN unseen ELSE unseen \ {c}
    /\ UNCHANGED <<want, gone, clients, total, full, runVars, reapVars, stale, stayed>>

\* The write, or a heartbeat's, fails; or the select sees the request context done.
ClientGone(c) ==
    /\ Serving /\ handler[c] \in {"streaming", "writing"} /\ c \in gone
    /\ Goto(c, "leaving")
    /\ UNCHANGED <<want, gone, hubVars, runVars, reapVars, stale, stayed>>

\* The select sees hub.done().
SeeClosed(c) ==
    /\ Serving /\ handler[c] = "streaming" /\ closed
    /\ Goto(c, "leaving")
    /\ UNCHANGED <<want, gone, hubVars, runVars, reapVars, stale, stayed>>

\* Deferred calls run last in, first out: the clock restarts, then the client
\* stops being counted.
DeferTouch(c) ==
    /\ handler[c] = "leaving" /\ Touch /\ Goto(c, "touched")
    /\ UNCHANGED <<want, gone, hubVars, runVars, reapVars, stayed>>

unregister(c) ==
    /\ Serving /\ handler[c] = "touched" /\ Finish(c)
    /\ clients' = [clients EXCEPT ![want[c]] = @ \ {c}]
    /\ total' = total - 1
    /\ full' = full \ {c} /\ unseen' = unseen \ {c} /\ stayed' = stayed \ {c}
    /\ UNCHANGED <<runVars, reapVars, stale>>

\* The browser goes away; the server learns of it through the request context.
Disconnect(c) ==
    /\ Serving /\ handler[c] # "idle" /\ c \notin gone
    /\ gone' = gone \cup {c}
    /\ UNCHANGED <<handler, want, hubVars, runVars, reapVars, stale, stayed>>

\* Variant of broadcast: an unbuffered channel only takes a reload while the
\* handler waits in its select.
broadcast_Unbuffered(id) ==
    /\ Serving
    /\ full' = full \cup {c \in clients[id] : handler[c] = "streaming"}
    /\ unseen' = unseen \cup clients[id]
    /\ UNCHANGED <<handler, want, gone, clients, total, runVars, reapVars, stale, stayed>>

\* hub.broadcast: a channel that is already full coalesces the reload.
broadcast(id) ==
    /\ Serving
    /\ full' = full \cup clients[id]
    /\ unseen' = unseen \cup clients[id]
    /\ UNCHANGED <<handler, want, gone, clients, total, runVars, reapVars, stale, stayed>>

-----------------------------------------------------------------------------
(* The reaper. *)

IdleElapses ==
    /\ Serving /\ ~stale /\ stale' = TRUE
    /\ UNCHANGED <<handler, want, gone, hubVars, runVars, reapVars, stayed>>

\* A tick: time.Now() and activity.last() are evaluated first ...
ReapRead ==
    /\ Serving /\ reaper = "waiting"
    /\ reaper' = "counting" /\ sawIdle' = stale
    /\ stayed' = {c \in Client : Tracked(c)}
    /\ UNCHANGED <<handler, want, gone, hubVars, runVars, stale>>

\* Variant of shouldReap: the connected clients are not asked about.
shouldReap_IgnoreClients == sawIdle
shouldReap == sawIdle /\ total = 0

\* ... and clientCount() after them, under the hub's lock.
ReapCount ==
    /\ Serving /\ reaper = "counting"
    /\ reaper' = IF shouldReap THEN "reaping" ELSE "waiting"
    /\ UNCHANGED <<handler, want, gone, hubVars, runVars, sawIdle, stale, stayed>>

\* initiateShutdown, once: closeAll, then close(s.stopCh).
initiateShutdown == closed' = TRUE /\ stopping' = TRUE

ReapStop ==
    /\ Serving /\ reaper = "reaping" /\ reaper' = "done"
    /\ initiateShutdown
    /\ UNCHANGED <<handler, want, gone, hubVars, run, signalled, sawIdle, stale, stayed>>

\* The select sees the context done instead of a tick.
ReapCancelled ==
    /\ Serving /\ signalled /\ reaper = "waiting" /\ reaper' = "done"
    /\ UNCHANGED <<handler, want, gone, hubVars, runVars, sawIdle, stale, stayed>>

-----------------------------------------------------------------------------
(* Run. *)

\* POST /api/stop
handleStop ==
    /\ run \in {"serving", "closing"} /\ initiateShutdown /\ Touch
    /\ UNCHANGED <<handler, want, gone, hubVars, run, signalled, reapVars, stayed>>

Signal ==
    /\ Serving /\ ~signalled /\ signalled' = TRUE
    /\ UNCHANGED <<handler, want, gone, hubVars, closed, run, stopping, reapVars, stale, stayed>>

RunStopped ==
    /\ run = "serving" /\ (stopping \/ signalled) /\ run' = "closing"
    /\ UNCHANGED <<handler, want, gone, hubVars, closed, stopping, signalled, reapVars, stale, stayed>>

\* http.Server.Serve fails: Run returns at once and the process ends.
RunServeError ==
    /\ run = "serving" /\ run' = "failed"
    /\ UNCHANGED <<handler, want, gone, hubVars, closed, stopping, signalled, reapVars, stale, stayed>>

\* Variant of RunCloseAll: the handlers are only told by initiateShutdown.
RunCloseAll_StopChOnly ==
    /\ run = "closing" /\ run' = "shutdown" /\ closed' = closed
    /\ UNCHANGED <<handler, want, gone, hubVars, stopping, signalled, reapVars, stale, stayed>>

RunCloseAll ==
    /\ run = "closing" /\ run' = "shutdown" /\ closed' = TRUE
    /\ UNCHANGED <<handler, want, gone, hubVars, stopping, signalled, reapVars, stale, stayed>>

\* Shutdown returns once no handler is left, or when its five seconds are over.
RunDrained ==
    /\ run = "shutdown" /\ \A c \in Client : handler[c] = "idle"
    /\ run' = "exited"
    /\ UNCHANGED <<handler, want, gone, hubVars, closed, stopping, signalled, reapVars, stale, stayed>>
RunTimeout ==
    /\ run = "shutdown" /\ run' = "exited"
    /\ UNCHANGED <<handler, want, gone, hubVars, closed, stopping, signalled, reapVars, stale, stayed>>

Handler(c) == \/ NotFound(c) \/ register(c) \/ SendHeaders(c) \/ Receive(c)
              \/ WriteReload(c) \/ ClientGone(c) \/ SeeClosed(c)
              \/ DeferTouch(c) \/ unregister(c)
Reaper == ReapRead \/ ReapCount \/ ReapStop \/ ReapCancelled
Run == RunStopped \/ RunServeError \/ RunCloseAll \/ RunDrained \/ RunTimeout
Environment == \/ \E c \in Client : Disconnect(c) \/ \E id \in Canvas : Request(c, id)
               \/ PlainRequest \/ handleStop \/ Signal \/ IdleElapses
               \/ \E id \in Canvas : broadcast(id)

Next == (\E c \in Client : Handler(c)) \/ Reaper \/ Run \/ Environment

Spec == Init /\ [][Next]_vars

(* Fairness: goroutines run; a select with several ready cases takes each   *)
(* of them sooner or later.  A client may stay for ever, Serve need not     *)
(* fail, and nothing relies on Shutdown's timeout.                          *)
WeakFairness ==
    /\ \A c \in Client :
          /\ WF_vars(NotFound(c) \/ register(c))
          /\ WF_vars(SendHeaders(c))
          /\ WF_vars(Receive(c)) /\ WF_vars(WriteReload(c))
          /\ WF_vars(DeferTouch(c)) /\ WF_vars(unregister(c))
    /\ WF_vars(ReapRead \/ ReapCount \/ ReapStop)
    /\ WF_vars(RunStopped) /\ WF_vars(RunCloseAll) /\ WF_vars(RunDrained)
Fairness == WeakFairness /\ \A c \in Client : SF_vars(SeeClosed(c))

FairSpec == Spec /\ Fairness

-----------------------------------------------------------------------------
(* Properties. *)

TrackedOn(id) == {c \in Client : Tracked(c) /\ want[c] = id}

\* The hub's books agree with the handlers: a client is counted from before it
\* is told 200 until its handler ends, once, under its own canvas.
Accounting ==
    /\ \A id \in Canvas : clients[id] = TrackedOn(id)
    /\ total = Cardinality({c \in Client : Tracked(c)})

\* Neither cap is ever exceeded, however the handlers interleave, by the books
\* and so in fact (register, unregister).
WithinCaps ==
    /\ Accounting
    /\ MaxGlobal > 0 => total <= MaxGlobal
    /\ MaxPerCanvas > 0 => \A id \in Canvas : Cardinality(clients[id]) <= MaxPerCanvas

\* The reaper never shuts down over a client that was connected when its tick
\* began and has stayed so.
StayedNotReaped == [][ReapStop => stayed = {}]_vars

\* A client behind a broadcast has a reload taken up for writing, however many
\* broadcasts follow, unless it leaves or the process ends: it is not one that
\* waits in its select for ever.
ReloadDelivered ==
    \A c \in Client :
        []<>(c \notin unseen \/ handler[c] \notin {"registered", "streaming"} \/ ~Serving)

\* Once it stops serving, Run returns without needing Shutdown's timeout, even
\* with clients that never disconnect.
StopDrains == []<>(run \notin {"closing", "shutdown"})

\* A daemon that nobody uses any more stops by itself.
IdleSpindown ==
    Reaping /\ <>[](stale /\ \A c \in Client : handler[c] = "idle") => []<>(run # "serving")

\* The daemon stops by itself when nobody uses it, and whenever it stops it gets
\* to the end, with clients that never leave (reaper.go, Run).
Stops == StopDrains /\ IdleSpindown

-----------------------------------------------------------------------------
(* Documented promises the code does not keep: README.md tells how.        *)

\* "A connected SSE client blocks reaping outright": not so for a client that
\* registers between the reaper's reading and its shutdown.
ConnectedBlocksReaping == [][ReapStop => total = 0]_vars
=============================================================================

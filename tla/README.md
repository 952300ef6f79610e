# scrim in TLA+

scrim serves small web pages ("canvases") that agents write: a local daemon that
commands start on demand and that reloads browsers when files change, or a hub
that several people share, with sessions, tokens, ownership and grants. This
directory models the parts of it whose correctness depends on order: goroutines
and processes that interleave, files changed in several steps, crashes, restarts
and lost answers. TLC checks the models on small instances. Every property of the
passing runs that is not about liveness is also a theorem, which TLAPS proves for
every value of the constants.

Paths are relative to the repository; `server/...` and the like stand for
`src/internal/server/...`. `PROJECT.json` maps every definition to its lines.

## Inventory

| Component | State | Operations | What is hard | What makes it correct |
|---|---|---|---|---|
| filesystem watcher, `server/watcher.go` | timers by canvas, WaitGroup, stop channel | event loop, debounce callback, Close | a timer that fires while it is reset; Close against both | no reload is lost; after Close no callback runs; Close returns |
| live server, `server/hub.go`, `handlers_sse.go`, `reaper.go`, `server.go` | SSE clients and their channels, activity, stop channel | register, unregister, broadcast, reap, shut down | caps under racing handlers, coalesced signals, the reaper's stale reading | caps hold, no change is lost, no reap over a client that was there, shutdown drains |
| hub content, `server/handlers_push.go`, `_copy`, `_hub_files`, `_hub_snapshots`, `_api` | canvas directories, staging and aside directories, a lock per id | push, copy, snapshot, revert, put, edit, create, delete | a swap of two renames, rollback, two locks, I/O errors, crashes, handlers that take no lock | readers and writers see whole contents, nothing acknowledged is lost, no deadlock |
| snapshots, `snapshot/`, `dircopy/` | snapshots of a canvas, in order | create, list, revert with a safety snapshot | partial snapshots, copying what is being replaced, no lock on a local disk | a revert can be undone, and is exact |
| canvas metadata, `canvas/canvas.go`, `handlers_claim.go`, `handlers_grants.go` | one JSON file per canvas, a mutex per id | Create, SetOwner, AddGrant, RemoveGrant, CopyMeta, Delete | read-modify-write by several handlers; two writers that take no lock; values read before the lock | no grant lost, no revoked grant back, owner never overwritten by an older reading |
| self-start, `daemon/`, `state/`, `cli/stop.go` | state file, spawn lock file, port, processes | ensure, stop, lock, steal, spawn, serve, exit | several processes, stale locks, crashes, timeouts, version skew | one spawner, one daemon, found by every command |
| browser sessions, `session/`, `oidc/session.go`, `handlers_sessions.go`, `hubgate.go` | registry in memory and its file, signed cookies | login, renew, revoke, logout, prune, load | renewal against revocation, throttle, failed writes, lost responses, restarts | an ended session stays out, the cap holds, a session in use lives |
| agent connections and MCP OAuth, `agentconn/`, `mcpserver/agentreg.go`, `oauth.go`, `identity.go` | registry of OAuth clients and its file; the MCP server's list of what it has registered | middleware, register, admit, revoke, save with prune, load | tokens issued before and after a revocation, background registration, best-effort saves, batches | an acknowledged revocation is kept and enforced; who has authorized is listed |
| hub gate and user tokens, `server/hubgate.go`, `usertoken/` | `tokens.json`, rewritten whole at every lookup | resolve claims, decide, mint, look up, revoke | the order of credentials, the gate apart from the handler, whole-file rewrites | no token or revocation is lost; no plane restores another |
| OIDC login, `oidc/oidc.go` | one flow cookie per browser | login, callback, logout | tabs that share the cookie, replayed callbacks, lost responses | a browser is signed in by its own login; a failure has a cause |
| directory and principals, `authentik/`, `principal/`, `server/directory.go` | a cache with a time to live; `principals.json` | list, refresh page by page, observe | a failed page, callers that wait for one refresh, racing saves | whole views only, one attempt per back-off, no sighting lost or left out of an answer that has room |
| MCP tools, `mcpserver/mcpserver.go`, `backend_local.go`, `backend_hub.go` | none of their own | tools on the local disk or by HTTP to a hub | no lock between processes; answers lost, garbled, redirected, late | all or nothing; what the agent is told is true |
| line edits, `fileedit/` | none | apply an edit, a batch | an edit that cannot be made after others were | all or nothing |
| push client, `pushclient/`, `cli/push.go` | watches, debounce timer, the archive it packs | first push, watch, push again | changes during a push, new directories, overflow | the last change is pushed |
| command line, configuration, rendering, routes, discovery, logging | flags, templates | | little beyond I/O | |

How they interact: the watcher's callback calls the hub's `broadcast`, which fills
the channels of SSE handlers; `Run` (`server.go`) ends through the reaper, a signal
or a stop request, and then closes the SSE handlers, the server and the state file
that `daemon.Ensure` reads in other processes. The gate runs before every handler of
a hub, reads metadata (owner, grants), looks tokens up, renews sessions and admits
agent connections. Content handlers share the per-id lock `pushLocks`; metadata has
its own, `metaLocks`; creation and deletion touch both directories and metadata and
take no content lock. An MCP server calls the hub as any client does, with the push
token and the name of the actor.

## Modules

| Module | Models | Actors |
|---|---|---|
| `Watcher` | `server/watcher.go` | event loop, timer goroutines, the closer |
| `LiveServer` | hub, SSE and plain handlers, reaper, `Run` | clients' handlers, broadcaster, reaper, stop sources, `Run` |
| `CanvasStore` | abstract: what requests do to a canvas's content and snapshots, each in one step | requests |
| `HubContent` | the content handlers, step by step, on directories and locks; refines `CanvasStore` | requests, the crash |
| `CanvasMeta` | metadata files and the handlers that read, decide and write | requests |
| `DaemonSpawn` | `daemon.Ensure` and `Stop`, the lock file, and a daemon's life from bind to exit | commands, daemons, time |
| `Sessions` | registry, its file, cookies, the gate's renewal, revocation, logout | browsers, requests, the clock, restarts |
| `AgentPlane` | the MCP server's middleware and registrar, the hub's admission and registry of agent connections | MCP requests, background calls, the principal, the clock, restarts |
| `HubGate` | resolution of credentials, the gate's decision, account operations, the token store | requests |
| `Login` | the authorization-code flow and logout | tabs of browsers, the provider, restarts |
| `Directory` | Authentik's cache, the registry of principals, the list that merges them | callers, observers, Authentik, time |
| `FileEdit` | `fileedit.Apply` and `ApplyBatch`, as operators | |
| `LocalStore` | canvases and snapshots on a local disk, system call by system call; uses `FileEdit` | processes, a crash |
| `HubTools` | the MCP tools against a hub; uses `FileEdit` | agents, the network, the hub |
| `PushClient` | `scrim push --watch` | the user, the kernel's queue, the client's loop, the hub |

Modules that share no state are put side by side where their properties belong
together. Each of these EXTENDS one of its parts and instantiates the others, and
states the properties of all of them:

| Module | Extends | Instantiates | What joins the parts |
|---|---|---|---|
| `Reload` | `Watcher` | `LiveServer` as `Server` | live reload, at both ends of `onReload` |
| `Access` | `CanvasMeta` | `HubGate` as `Gate` | who may do what on the hub |
| `SignIn` | `Login` | `AgentPlane` as `Plane` | how a person, or an agent for them, comes to the hub |
| `Follow` | `Directory` | `PushClient` as `Push` | those that keep a copy of what is elsewhere |
| `Tools` | `LocalStore` | `HubTools` as `Hub`, `DaemonSpawn` as `Spawn` | what commands and MCP tools do |

None of them composes what the code composes. A behaviour is one of each part, and
the theorems about a part are about its specification alone (`Spec`, `Server!Spec`,
...).

`MC*.tla` instantiate them for TLC and `MC*.cfg` give the constants. `MCReload`,
`MCAccess`, `MCSignIn`, `MCFollow` and `MCTools` add a variable `which` that names the
part that moves in a behaviour. The others stay at one initial state of theirs, at
which they have nothing to do, so that the fairness of one asks nothing of another:
TLC explores the union of the parts, not their product.

`*_proofs.tla` hold the theorems and extend the module they are about. A definition
named `X_Something` is a plausible wrong version of `X`, kept to show which property
would notice it.

How state and actions correspond to the code, where it is not one to one:

- A critical section is one action, because no other goroutine sees its inside
  (`register`, `broadcast`, `Renew`). What a mutex does not cover is split: a read
  whose value is used later, two renames, a check before a lock. `Close` of the
  watcher holds `w.mu` over several steps, and `MuFree` says so. Where a file is read
  and replaced under a mutex and others read it without one (`usertoken`,
  `principal`), the two are separate steps and the mutex is a variable.
- A WaitGroup is its counter, `fireWG`. A timer is an object that may be armed, and
  independently have a callback on its way to the mutex (`fired`) and past it
  (`running`); `Reset` and `Stop` return whether it was armed, as in Go.
- A channel of capacity one is a set of clients whose channel is full.
- A directory is a function from files to the set of requests whose effect the file
  shows (`HubContent`), or to a sequence of tokens (`LocalStore`, where edits matter).
- `pushLocks` and `metaLocks` are functions from ids to the request that holds them.
- A process is its program counter; a pid is the daemon itself. The lock file records
  its maker, whether the pid is in it yet, and whether it is old enough to be stolen.
- Clocks tick in a unit of which the periods are multiples; `AgentPlane` counts half
  seconds, because a token's `iat` is in whole seconds and a revocation is not.
- Requests and answers on a network are sets of messages: they may be lost, late or
  overtaken as each module says.
- History variables (`behind`, `unseen`, `stayed`, `ack`, `used`, `ended`, `acked`,
  `excused`, `dirty`, what was confirmed to a client) are written along and read only
  by properties.

## Runs

Every passing run explores its whole state space. Deadlock is not checked, because
every system here may stop: `Run` returns, requests are all served, the clock reaches
its bound. That nothing waits for ever is stated where it matters
(`CloseTerminates`, `Stops`, `EnsureSucceeds`, `LocksSound`, `CatchesUp`).
`TypesOK` is the conjunction of the type invariants of a run's modules.

Symmetry is used where what is swapped is alike: requests, files, tokens and logins.
No run whose liveness is about such values declares it; in `signin` only the agents'
part has a liveness property, and no login takes place in it.

| Run | Bounds | Checks |
|---|---|---|
| `reload` | 2 canvases, 3 timers; 2 clients, 2 canvases, 1 in all and 1 per canvas | `TimersAgree` (the WaitGroup counts the callbacks still to finish, an armed timer is its canvas's), `CloseQuiesces`, `CloseTerminates`, `QuietReload`; `WithinCaps` (and the books behind it), `StayedNotReaped`, `ReloadDelivered`, `Stops` |
| `follow` | 2 files, one in a subdirectory, 3 writes of each, 1 failure; 1 user, 1 group, 2 pages, 2 callers, 2 observers, 2 queries, 1 suggestion per answer, times to live 2 and 1 | `FollowersSound` (types, one refresh at a time, and a push client at rest has forgotten no change); `PushCatchesUp` (the push client); `WholeView`, `BacksOff`, `ObservedKept`, `CatchesUp` (the directory; `ObservedKept` also of what an answer may leave out) |
| `signin` | 2 browsers, 3 tabs, 2 logins; 1 client, tokens of 2 seconds of issue and 2 scopes, clock to 4 half seconds, 1 background call, registrar cap 1, a body that breaks off | `SignInIsOwn`, `FailureHasCause`, `LogoutReachesProvider`; `RevocationHolds` (kept in memory and file; enforced at every call, with the scope where the body could be read), `AuthorizedIsListed` |
| `access` | 3 requests of 7 kinds, 2 canvases, 2 principals; 2 requests, 2 tokens, 2 principals, 2 canvases, 3 workloads | `GrantsAsConfirmed`; `TokensKept`, `PowerlessStays` |
| `content` | 2 files; any 3 requests on 2 canvases, without create, delete and crash; 4 requests on 1 canvas, with everything but copy, and crashes | `LocksSound` (a directory is moved aside under its lock, and nobody waits in a circle), `AtomicStore` (refinement of `CanvasStore`), `NothingLost` (what was acknowledged is on disk, and a revert replaces only what it can put back) |
| `tools` | 2 commands, 3 daemons, 2 versions, every fault but sleep; 2 processes, 2 canvases, 2 files, 4 snapshots, 4 scenarios, a crash; 2 agents, 3 calls, 1 fault | `LoneSpawner`; `Undoable`, `WholeOrNothing`; `AnswersAreTrue`, `RepeatIsIdle` |
| `spawn_live` | 3 commands that may die, 4 daemons | `ServingRecorded`, `EnsureSucceeds` (a daemon, a death, or a lock orphaned before its pid was in it) |
| `sessions` | 2 sessions, 1 browser, 2 requests, idle 4, cap 5, touch 2, clock to 5 | `EndedStaysOut`, `CapHolds`, `RecentUseKeeps` |
| `content_stranded` | a push and a create | finds `NotStranded` violated |
| `meta_repush` | a push and a claim | finds `RepushKeepsOwner` violated |
| `spawn_steal` | 3 commands that may die | finds `OneSpawner` violated |
| `push_gap` | 1 file, no failure | finds `EveryChange` violated |

Type invariants say more than types where the code does: that of `DaemonSpawn` that a
command which succeeds has a daemon, of `Sessions` that a registry that did not load
is empty, of `AgentPlane` that the registrar stays within its cap, of `CanvasMeta`
that a request which writes holds the lock.

Why the bounds are enough for the cases of interest:

- Watcher: one canvas needs two timers for a late callback to meet its successor; the
  third lets both canvases debounce at once. More events than one waiting per canvas
  would be absorbed by the same debounce.
- Live server: with one client more than either cap allows, each is reached and
  contested by a racing handler (both caps are 1, so that TLC sees neither bite where
  the other does not: `CapsHold` is for any two); a refused client and one that takes
  its place need no third.
- Push client: the second write of a file is made during a push of the first, the
  third during the push of the second. A failure is followed by a push that succeeds.
- Directory: two pages are the least of which one may fail; two callers, that one
  waits for the other's refresh; two observers, that one overwrites the other. With two
  entries and an answer of one, the cap cuts what the empty query matches; the other
  query is the beginning of one email, and perhaps of the other's name.
- Agents: a revocation falls before, into and after the second of a token's issue, and
  a token lives long enough to be used after both. Three sets of faults keep apart the
  behaviours in which a body breaks off, a save fails, and the file is damaged.
- Metadata: two writers and one actor that deletes, copies or claims.
- Gate: one token that is looked up while the other is minted or revoked. Three
  workloads: accounts, one canvas, and its copies over another's canvas, because accounts
  read nothing of canvases and copies need few kinds of requests.
- Login: two tabs of one browser share a cookie, and another browser opens their
  callback. A third login would be another of the two.
- Content: two requests race; the third lets one fail, or be the reader, meanwhile.
  Crashes need a fourth, so that snapshot, revert and push follow a crash. Two files
  are the least that can be torn.
- Local disk: four scenarios pair every operation with one that interferes: a revert
  with edits, two reverts, a copy with edits of its target, copies with removal.
- Hub tools: a call, its repetition, and one of another agent between them. A snapshot is
  named by its place, or by something that cannot be a name.
- Spawn: a steal needs a victim and two judges. A fourth daemon is needed where
  a dead one is in the state file at the start and losers of the port use others up.
- Sessions: the first renewal can happen at 2, the second at 4, the cap is at 5, and
  a session begun late is still live at the end. Two requests are a renewal and a
  revocation; two sessions let a request of one end the other. One user: that a
  session of somebody else is 404 is a single comparison.

`AtomicStore` is about the behaviours whose scenario is `Steady`: nothing is created or
deleted, because those handlers do not take the lock and so are not atomic with
respect to the rest, and the hub does not crash. `LocksSound` and `NothingLost` hold in
all of them. `AckedOnDisk`, a part of `NothingLost`, is about files: an acknowledged canvas
without any may be lost. TLC finds this with five requests when `EmptyDir` is taken out
of its premise: a canvas is snapshotted, deleted, created (empty) and reverted, the hub
crashes between the revert's renames, and a later revert removes what the first left
aside.

## Fairness

- Watcher: goroutines that can run do. `TakeEvent` is strongly fair, as Go's `select`
  chooses at random among ready cases, so that an event is not passed over for ever.
  An armed timer is assumed to fire only when its canvas is quiet (`FireQuiet`): under
  constant change a debounce may be postponed for ever, and the code means it to be.
  Nothing is assumed about when Close is called.
- Live server: handlers, the reaper's tick and `Run` are weakly fair, `SeeClosed`
  strongly, again because of `select`. Clients may stay for ever, `Serve` need not
  fail, and Shutdown's timeout is not relied on. `MCReload` states the strong fairness
  of both modules as one (`Strong`): in a behaviour it is that of the one that moves.
- Push client: its loop, the kernel and the runtime's timer are weakly fair; that the
  loop takes a debounce that has run out is strongly fair, because of `select`. The user
  writes finitely often.
- Directory: callers are weakly fair, and strongly fair in taking `fetchMu`, because a
  Go mutex hands itself to who has waited a millisecond (starvation mode).
- Agents: background registrations are weakly fair: each has its own context, and is
  answered or times out. Requests, the clock and restarts are not.
- Spawn: commands and daemons are scheduled and a lock grows old. What lives meets its
  deadlines: a holder of the lock is done, and a daemon healthy, before others give up
  (the faults `"timeout"` and `"slow"`, under which they are not, are not in that run).
  The exception is the deadline that is shorter than what it waits for: behind a lock
  whose maker died before its pid was in it, a waiter may give up after 15 seconds
  (`WaitOut`, `GiveUp`), and the lock can be stolen after 60.

## Theorems

The theorems hold for all constants that meet the assumptions: sets that are counted
are finite, values that stand for nothing (`None`, `Absent`, `Corrupt`) are none of the
others, canvases are numbers where a copy orders its two locks, and deadlines and caps
are numbers in the order the code needs. Each assumption is an `ASSUME`: of the module
that declares the constants, or, for the parts that another module instantiates, of
that module (`ReloadAssumption`, `AccessAssumption`, `SignInAssumption`,
`FollowAssumption`, `ToolsAssumption`). The runs evaluate all of them. Nothing else is
assumed, but where the table says so.

A module of proofs has one inductive invariant for each of its parts, one lemma per
action or group of actions that it is preserved, and the properties as consequences.
TLC has checked each invariant too: those of `Tools` for each part by itself, that of
`Sessions` with one session and one request, the others on the instance of the run.

| Module | Theorems | The inductive invariant, and why the properties need it |
|---|---|---|
| `Reload_proofs` | `TimersSound`, `Barrier`, `WaitUndisturbed`, `Quiescence` | `IInv`: a timer in use is filed under the id it was made for (`OwnersAgree`), and what each step of `Close` has established (`CloseShape`: after the stop channel the loop is gone, while waiting nothing is armed). The count alone is not inductive: a timer both armed and outside the map would be counted and never stopped. |
| | `CapsHold`, `StayersSpared` | `ServerInv`: the hub's books equal the handlers that are between register and unregister; a working handler has a canvas (`Placed`), or unregister would take it from another's; who stayed is counted, so a reaper that saw no client saw nobody stay (`Spared`). |
| `Follow_proofs` | `ViewsAreWhole`, `OneAttempt`, `SightingsKept` | `IInv`: a refresh has every entry that was there all along on the pages it has seen (`Refreshing`); a failure leaves a deadline that outlasts the back-off (`BackOff`); observers read and write the file one at a time (`Registered`), and what had been saved when a caller asked is in what it has read (`Heard`). Of a finite list, whom the cap leaves out comes after a full answer (`Capped`). |
| | `Sound` | `PushInv`: a directory without a watch has its event in the queue, unless the queue lost it (`Watching`); and unless something excuses it, what is packed, in flight and on the hub is what is on disk, or an event or a timer is pending (`UpToDate`). What holds of the client at rest is one line of it, and does not follow from itself: the changes in question happen while it packs and posts. |
| `SignIn_proofs` | `OwnSignIn`, `FailuresExplained`, `LogoutComplete` | `IInv`: every login anywhere was started by the browser that has it (`Started`), has no code before the provider (`BeforeCode`), and as long as it has no excuse is in one tab, whose browser has its cookie and whose code waits (`OnCourse`). A failure is then a step that leaves this course. |
| | `RevocationsHold` | `PlaneInv`: an acknowledged revocation is in memory, unless the registry did not load and admits nobody, and in the file, unless it is damaged (`RevocationKept`), so that neither a prune nor a restart loses it; and a call under way is one that its token's scopes allow, or the body of which broke off (`CallAllowed`), whatever the batch. |
| `Access_proofs` | `NoGrantLost`, `NoGrantRestored`, `GrantsSound` | `IInv`: who holds a metadata lock, what a writer has read compared with the file (`InHand`), and that a grant is confirmed once (`OnceOnly`). Copies and deletions take no metadata lock, so the histories forget a canvas that is copied over or deleted; only a copy under way leaves a file torn (`CopyHolds`). |
| | `NoTokenLost`, `NoWayBack` | `GateInv`: what the holder of the store's mutex has read is the file until it is damaged (`Held`); only tokens handed out are in either (`Sourced`), so that a revocation finds its token among those counted; a revoked token is revoked or gone in both (`EndedOut`). `NoWayBack` is a step property: one case for each action, of which the lookup and the mint need that a session's or the admin's claims are what they are (`Standing`). |
| `HubContent_proofs` | `LocksAreSound` | `Control`: which kind of request can be at which step (`Routed`), and exactly which locks it has there (`Locked`). Who is waited for and waits has one lock, its first, and waits for a later one (`WaitsInOrder`); of finitely many handlers, the one whose lock is the last waits for none of them. |
| | `NothingIsLost` | `Durable`: a walk that goes on has copied what is there (`WalkTrue`); what a revert is about to replace, and what one that crashed left aside, is in a snapshot (`RevertSafe`, `OrphanSafe`), because the next revert removes it; so the acknowledged files are in one of four places (`AckSafe`). |
| | `StoreIsAtomic` | `AllWhole`: what a handler is about to put in place is what its request asked for, of the canvases as they are at that moment (`PushWhole`, `CopyWhole`, `RevertWhole`, `WriteWhole`), which the others preserve because they lack the lock. Each step then maps to a step of `CanvasStore` (the renames into place, the writes, the ends of snapshots) or to none: a canvas shows what was moved aside until the swap's second rename. |
| `Tools_proofs` | `CanUndo`, `Whole` | `LocalInv`: no two calls share a snapshot (`StampInv`); the one a call takes has every file that nobody else touched since (`SafeInv`); an edit about to be written is its batch applied to what it read (`EditInv`); and where a revert that is alone has got to, name by name (`AloneInv`). There is no lock, so every line of it is up to what other processes have touched. |
| | `Truth`, `RepeatsIdle` | `HubInv`: a call has one request or one answer under way (`Distinct`); a request under way has not been carried out (`Sent`), an answer says what was done (`Answered`), and what the hub last did is still so (`Done`). The hub applies the batches of the local disk (`SameBatch`). |
| | `OneAtATime`, `Types` | The theorems of `DaemonSpawn_proofs`, instantiated with the commands of `Tools`; `OneAtATime` assumes that the machine does not sleep. |
| `DaemonSpawn_proofs` | `Typed`, `LockExcludes`, `ServingFound` | Unless the machine sleeps, and until a command has died, a lock exists exactly while a command holds it, names it, and is not stale (`HeldByOne`); `spawn_steal` shows that the condition is needed. `ServingFound` is for commands of one version that only ensure, a fixed port and daemons that do not stop by themselves. |
| `Sessions_proofs` | `EndsAreFinal`, `CapBinds`, `UseKeeps` | `IInv`: every record stored, in memory or in the file, is within its windows (`Windows`) and both agree on its birth (`SameBirth`): a restart replaces one by the other. A cookie anywhere, in a browser, a request or its response, is within the cap of its record (`Capped`), because it may return later. |

`Typed` (`Types` in `Tools_proofs`) states the type invariant of each, which is a conjunct
of the inductive one.

Batches of edits are functions of the natural numbers. What `Tools_proofs` needs of them
(that the run of a batch exists, and that a batch which is not refused has made every
edit in order, `BatchIsWhole`) is proved by least counterexample (`LeastNat`, `UpTo`), as
no induction theorem with an operator parameter can be used.

Only model-checked, because the prover has neither fairness nor ENABLED:
`CloseTerminates`, `QuietReload`, `ReloadDelivered`, `Stops`, `CatchesUp`, `PushCatchesUp`,
`EnsureSucceeds`, `AuthorizedIsListed`. What one edit does to a text (`Count`, `Replacing` in
`FileEdit`) is a definition, compared with the code by reading and proved from nothing
simpler.

## Where documents and code differ

Four runs keep a counterexample to a sentence of the documents:

- `content_stranded`: "a failed push can never leave the canvas stranded"
  (`server/handlers_push.go:131-134`). A create between the swap's two renames makes
  the second rename and the rollback both fail; the canvas is left empty.
- `meta_repush`: "never clobber an existing owner -- a later claim/transfer must win
  over a re-push" (`server/handlers_push.go:182-183`). The owner is read before the
  metadata lock and written under it.
- `spawn_steal`: "concurrent CLI invocations racing to spawn a daemon converge on
  exactly one spawn" (`daemon/lock.go:17-18`). A stale lock is judged and removed in
  two steps, and by then it may be another's new one.
- `push_gap`: "watch the local canvas directory and re-push on every change"
  (`cli/push.go:31`). The watches are registered after the first push; what changes
  between its packing and the watches is not pushed until something else changes.

The others are stated at the end of their module, or described here. TLC refutes those
stated within seconds when the name is added to a cfg with the constants given; no run
is kept for them.

- `ConnectedBlocksReaping` (`LiveServer`; 1 client): "A connected SSE client blocks reaping
  outright" (docs/PRD.md:738). A client that registers after the reaper has counted
  (`server/server.go:307`) is reaped over.
- `NeverNeither` (`HubContent`; 1 push): "a reader sees the old canvas or the new one,
  never neither" (docs/PRD.md:549). Between the renames (`handlers_push.go:148-158`)
  there is no directory.
- `NoImplicitCreate` (`HubContent`; a put and a delete): "a missing canvas is a 404 rather
  than being created implicitly" (`handlers_hub_files.go:213-214`). The canvas may be
  deleted between the check and the `MkdirAll` of line 292.
- `DeletionComplete` (`HubContent`; a snapshot and a delete): "canvas bytes, metadata,
  grants, and snapshots go together" (docs/PRD.md:545-546). `canvas.Delete` leaves the
  snapshots, and a canvas created later with the id inherits them.
- `ClaimConflicts` (`CanvasMeta`; claims by two principals, neither of them the admin): "a
  canvas already owned by a different non-admin principal is 409"
  (`handlers_claim.go:13-14`). The owner is checked before `SetOwner` takes its lock; of
  two claims the second wins and both are answered 200.
- `NoMetaLeft` (`CanvasMeta`; a share and a delete): the same sentence as
  `DeletionComplete`. A grant checked before the deletion is written after it.
- `SameVersion` (`DaemonSpawn`; 1 command, 2 versions, faults `{"slow"}`): "you never
  silently keep talking to a process built from last week's code"
  (docs/stability.md:54-55). The check under the lock (`daemon/daemon.go:71`) accepts any
  version.
- `ServingRecorded` with faults `{"idle"}` (`DaemonSpawn`; 1 command): "one pid in
  daemon.json" (docs/testing-strategy.md:252). `Run` frees its port before it removes the
  state file (`server.go:233`), and may remove that of its successor.
- `EnsureAlways` (`DaemonSpawn`; the constants of `spawn_live`): "Ensure returns the state
  of a healthy running daemon, self-starting one (under a spawn lock) if none is found"
  (`daemon/daemon.go:40-41`). A command that died between making the lock and writing
  its pid leaves a lock that is stale after 60 seconds (`lock.go:14`); the commands that
  come within the first 45 give up after 15 (`daemon.go:31`) with an error. `EnsureSucceeds`
  excepts them.
- `ScopeAlwaysEnforced` (`AgentPlane`; the constants of `signin`): "garbage can never slip
  past the gate as 'no scope needed'" (`mcpserver/oauth.go:452-455`), "a `tools/call`
  additionally needs the tool's required scope" (docs/mcp.md:122-124). After a read error
  `requiredScopeForBody` asks for no scope and passes on what it has read, without the
  error (`oauth.go:461-467`). `RevocationHolds` is about the scope of bodies that could be
  read to the end.
- A revert to something that is no snapshot's name is answered 500, as a failure of the
  disk is (the code says so, `handlers_hub_snapshots.go:124-127`); "." and ".." are
  redirected by the mux, which the client refuses. `AnswersAreTrue` lets an agent be told
  of a failure in these cases too.
- `ActiveStaysIn` (`Sessions`; idle 1, touch 2): "an active user is never signed out
  mid-use" (docs/identity.md:51-53). Nothing requires an idle window longer than the
  touch interval (`session/session.go:255`).
- `CookieNeverBinds` (`Sessions`; faults `{"lost"}`): the cookie's expiry "never becomes
  the binding constraint" (`hubgate.go:279-281`). A renewed cookie that is lost with its
  response is not sent again until the deadline moves again.
- `share_canvas` is annotated idempotent (`mcpserver/mcpserver.go:231`), but each link
  grant is minted anew, so a repeated call leaves one link more; `RepeatIsIdle` leaves
  links out.
- A revocation of an agent whose save fails is answered 500 and yet in force in memory;
  repeating it is a 404, and a restart forgets it (`agentconn.go:276-283`).
- An older token is admitted again once a later one has cleared the revocation
  (`agentconn.go:216`): the registry keeps one time, not one per token.
- A token file that cannot be read is an empty one, and the next mint replaces it
  (`usertoken.go:244`); `TokensKept` holds until then.

## Abstractions

- `Watcher`: an event names its canvas; the mapping of paths to ids and the watching
  of new directories are left out.
- `LiveServer`: the clock is whether the last activity is `stale` for the reaper.
- `HubContent`: a copy of a canvas to itself is refused before it takes a lock, and left
  out; the gate and the check that a canvas exists before the lock are one
  step at `Begin`; a request runs once; `os.RemoveAll` is one step; an archive is one
  the handler accepted. After a crash a partly written snapshot stays as far as it got.
- `LocalStore`: a temporary file is made and filled in one step, `os.RemoveAll` is one
  step; a crash while a snapshot is made leaves the part there was.
- `CanvasMeta`: titles and icons are left out. A file rewritten in place (`CopyMeta`) may be
  read torn, and reads as empty metadata. Authentication is enabled.
- `HubGate`: the read token and the list of networks are one bit, `net`; a session and an
  agent connection are whether a principal has one. `POST /api/canvases` for an id that
  exists writes the caller as its owner, as the code does. A copy is one step, and its
  target, which the body names, is authorized by nobody, as the code says itself
  (`hubgate.go:541-546`, scrim#135): no property says otherwise.
- `AgentPlane`: every token carries an email, without which the hub takes a call for the
  push token's own; one principal. A batch needs the widest scope of its messages. A
  body that breaks off does so after its messages have been read.
- `HubTools`: the MCP server calls with the push token and no actor; each request is one
  step of the hub; tools that only read are left out.
- `DaemonSpawn`: pids are not reused; one probe stands for the three attempts of
  `healthyState`; `"idle"` covers the reaper, a signal and a failed `Serve`.
- `Sessions`: a cookie's deadline is not cut to seconds; the login's `Set-Cookie` arrives
  with the login. Signatures are taken to hold.
- `Login`: state, nonce and verifier are one value, the login; tokens are taken to verify.
- `Directory`: users and groups are entries alike, and an entry keeps its page. Who matches
  a query by email is fixed (`ByEmail`); by display name, which differs between the
  sources and over time, any of `ByName` may or may not. `ObservedKept` promises an answer
  to those whom the query matches by email, unless the answer is full of others that come
  before them.
- `PushClient`: the tar stream is the set of files it was packed from.

## Not modelled, and what is left

Left out: rendering, templates, compression, flags, logging, discovery and file
permissions, which keep no state that another actor races with or are I/O at the edge;
of the gate, the paths it exempts and the parsing of CIDRs and headers; of the MCP server,
the tools that only read and the metadata documents; token and signature verification
and the cache of key sets, which belong to libraries.

What could be added next, most useful first:

1. Proofs of what `DaemonSpawn` promises after a command has died: which of the lock's
   properties survive a steal, and `ServingFound` for commands that also stop daemons.
2. `HubGate` composed with `CanvasMeta` and `Sessions` step by step, in place of their
   one-step abstractions, so that a decision and the writes it precedes interleave with
   metadata writes as well.
3. `LocalStore` beside `Watcher`: a snapshot or a revert that the daemon observes.

----------------------------- MODULE PushClient -----------------------------
(***************************************************************************)
(* `scrim push --watch' (internal/pushclient, internal/cli/push.go): a     *)
(* first push of the local canvas, then a watch on its directories and a   *)
(* push of everything 200 ms after the last change seen.  The loop that    *)
(* takes the events also packs and posts; a push that fails is reported    *)
(* and not tried again.                                                    *)
(*                                                                         *)
(* Contents are counted: local[f] is how often f was written.  Equal       *)
(* events in the kernel's queue are one, for they are handled alike.       *)
(***************************************************************************)
EXTENDS Naturals, FiniteSets

CONSTANTS
    File,         \* files of the canvas
    SubFile,      \* those that are in its subdirectory
    MaxEdits,     \* bound: writes of a file
    MaxFaults,    \* bound: failures
    Faults        \* subset of {"refused", "timeout", "pack", "overflow", "signal"}

PushClientAssumption ==
    SubFile \subseteq File /\ MaxEdits \in Nat \ {0} /\ MaxFaults \in Nat

VARIABLES
    local,        \* the files on disk
    sub,          \* the subdirectory is there
    watched,      \* directories with a watch: subset of {"root", "sub"}
    events,       \* the kernel's queue: subset of {"mkdir", "change"}
    armed, fire,  \* the debounce timer runs; the channel of one it fires into
    loop,         \* where the client is
    archive,      \* the files packed so far, those that are yet to be
    inflight,     \* archives posted that the hub has not applied
    hub,          \* the canvas on the hub
    failures,     \* bound
    excused       \* history: why the hub need not have what is on disk

vars == <<local, sub, watched, events, armed, fire, loop, archive, inflight, hub, failures, excused>>

Versions == [File -> 0..MaxEdits]
Loops == {"pack", "post", "wait", "watch", "select", "stopped"}

TypeOK ==
    /\ local \in Versions /\ hub \in Versions /\ inflight \subseteq Versions
    /\ watched \subseteq {"root", "sub"} /\ events \subseteq {"mkdir", "change"}
    /\ {sub, armed, fire} \subseteq BOOLEAN
    /\ excused \subseteq {"unwatched", "failed", "late", "blind"}
    /\ loop \in Loops \X {"first", "again"}
    /\ archive \in [files : Versions, todo : SUBSET File]
    /\ failures \in 0..MaxFaults
    /\ ("sub" \in watched => sub) /\ (~sub => \A f \in SubFile : local[f] = 0)

Pc == loop[1]
Goto(pc) == loop' = <<pc, loop[2]>>
\* pushOnce packs from the beginning.
Fresh == [files |-> [f \in File |-> 0], todo |-> File]
\* The first push ends the program if it fails; later ones are reported.
Pushed(ok) ==
    loop' = IF loop[2] = "again" THEN <<"select", "again">>
            ELSE IF ok THEN <<"watch", "first">> ELSE <<"stopped", "first">>

Init ==
    /\ sub \in BOOLEAN
    /\ local = [f \in File |-> IF f \in SubFile /\ ~sub THEN 0 ELSE 1]
    /\ hub = [f \in File |-> 0]
    /\ watched = {} /\ events = {} /\ armed = FALSE /\ fire = FALSE
    /\ loop = <<"pack", "first">> /\ archive = Fresh
    /\ inflight = {} /\ failures = 0 /\ excused = {}

-----------------------------------------------------------------------------
(* The user.  What is done before there is a watch is not noticed.         *)

Noticed(d, e) ==
    /\ events' = IF d \in watched THEN events \cup {e} ELSE events
    /\ excused' = excused \cup (IF watched = {} THEN {"unwatched"} ELSE {})

Write(f) ==
    /\ local[f] < MaxEdits /\ (f \in SubFile => sub)
    /\ local' = [local EXCEPT ![f] = @ + 1]
    /\ Noticed(IF f \in SubFile THEN "sub" ELSE "root", "change")
    /\ UNCHANGED <<sub, watched, armed, fire, loop, archive, inflight, hub, failures>>

Mkdir ==
    /\ ~sub /\ sub' = TRUE
    /\ Noticed("root", "mkdir")
    /\ UNCHANGED <<local, watched, armed, fire, loop, archive, inflight, hub, failures>>

-----------------------------------------------------------------------------
(* Watch. *)

\* The directories that there are.
Trees == IF sub THEN {"root", "sub"} ELSE {"root"}

StartWatch ==
    /\ Pc = "watch"
    /\ watched' = Trees /\ loop' = <<"select", "again">>
    /\ UNCHANGED <<local, sub, events, armed, fire, archive, inflight, hub, failures, excused>>

\* Variant of addWatchTree: the watch is not recursive.
addWatchTree_Root(e) == UNCHANGED watched

\* A directory that appears is watched too.
addWatchTree(e) == watched' = IF e = "mkdir" THEN Trees ELSE watched

\* The timer is made by the first event and reset by each one after it.
HandleEvent ==
    /\ Pc = "select"
    /\ \E e \in events : addWatchTree(e) /\ events' = events \ {e}
    /\ armed' = TRUE
    /\ UNCHANGED <<local, sub, fire, loop, archive, inflight, hub, failures, excused>>

TimerFires ==
    /\ armed /\ armed' = FALSE /\ fire' = TRUE
    /\ UNCHANGED <<local, sub, watched, events, loop, archive, inflight, hub, failures, excused>>

\* onChange.  A push still on its way may undo this one, and a directory whose
\* event was lost stays without a watch.
Fire ==
    /\ Pc = "select" /\ fire
    /\ fire' = FALSE /\ Goto("pack") /\ archive' = Fresh
    /\ excused' = (excused \cap {"blind"}) \cup (IF inflight # {} THEN {"late"} ELSE {})
    /\ UNCHANGED <<local, sub, watched, events, armed, inflight, hub, failures>>

-----------------------------------------------------------------------------
(* pushOnce. *)

PackFile ==
    /\ Pc = "pack"
    /\ \E f \in archive.todo :
          archive' = [files |-> [archive.files EXCEPT ![f] = local[f]], todo |-> archive.todo \ {f}]
    /\ UNCHANGED <<local, sub, watched, events, armed, fire, loop, inflight, hub, failures, excused>>

Post ==
    /\ Pc = "pack" /\ archive.todo = {}
    /\ inflight' = inflight \cup {archive.files} /\ Goto("post")
    /\ UNCHANGED <<local, sub, watched, events, armed, fire, archive, hub, failures, excused>>

\* The hub replaces the canvas, whether the client still waits or not.
HubApply ==
    /\ \E a \in inflight :
          LET awaited == Pc = "post" /\ a = archive.files
          IN  /\ hub' = a /\ inflight' = inflight \ {a}
              /\ IF awaited THEN Goto("wait") ELSE UNCHANGED loop
              /\ excused' = excused \cup (IF awaited THEN {} ELSE {"late"})
    /\ UNCHANGED <<local, sub, watched, events, armed, fire, archive, failures>>

\* Variant of Response: what was noticed meanwhile is taken as pushed.
Response_Drains ==
    /\ Pc = "wait" /\ Pushed(TRUE) /\ events' = {}
    /\ UNCHANGED <<local, sub, watched, armed, fire, archive, inflight, hub, failures, excused>>

Response ==
    /\ Pc = "wait" /\ Pushed(TRUE)
    /\ UNCHANGED <<local, sub, watched, events, armed, fire, archive, inflight, hub, failures, excused>>

Fails(kind) ==
    /\ kind \in Faults /\ failures < MaxFaults /\ failures' = failures + 1
    /\ UNCHANGED <<local, sub, watched, armed, fire, archive, hub>>

Because(why) == excused' = excused \cup {why}

\* A file that is gone when Pack opens it.
PackFails == Pc = "pack" /\ Fails("pack") /\ Pushed(FALSE) /\ Because("failed")
             /\ UNCHANGED <<events, inflight>>

\* The hub does not take the push.
Refused ==
    /\ Pc = "post" /\ Fails("refused") /\ Pushed(FALSE) /\ Because("failed")
    /\ inflight' = inflight \ {archive.files} /\ UNCHANGED events

\* No answer in 30 seconds: the push may be applied later, or was.
Timeout ==
    /\ Pc \in {"post", "wait"} /\ Fails("timeout") /\ Pushed(FALSE) /\ Because("failed")
    /\ UNCHANGED <<events, inflight>>

\* The kernel's queue is full; the error that says so is ignored.
Overflow ==
    /\ events # {} /\ Fails("overflow")
    /\ events' \in (SUBSET events) \ {events}
    /\ Because(IF "mkdir" \in events \ events' THEN "blind" ELSE "failed") /\ UNCHANGED <<loop, inflight>>

\* SIGINT or SIGTERM.
Signal ==
    /\ Pc # "stopped" /\ Fails("signal") /\ Goto("stopped") /\ Because("failed")
    /\ UNCHANGED <<events, inflight>>

Next ==
    \/ \E f \in File : Write(f)
    \/ Mkdir \/ StartWatch \/ HandleEvent \/ TimerFires \/ Fire
    \/ PackFile \/ Post \/ HubApply \/ Response
    \/ PackFails \/ Refused \/ Timeout \/ Overflow \/ Signal

Spec == Init /\ [][Next]_vars

\* The loop is always ready, a timer fires, and the hub answers in the end.
Fairness ==
    /\ WF_vars(StartWatch) /\ WF_vars(HandleEvent) /\ WF_vars(TimerFires)
    /\ SF_vars(Fire) /\ WF_vars(PackFile) /\ WF_vars(Post)
    /\ WF_vars(HubApply) /\ WF_vars(Response)

FairSpec == Spec /\ Fairness

-----------------------------------------------------------------------------
(* Properties.                                                             *)

Settled == Pc = "select" /\ events = {} /\ ~armed /\ ~fire

\* `--watch' pushes again on every change: with no failure at all, the hub
\* shows the canvas whenever nothing is under way.
EveryChange == Settled /\ failures = 0 => hub = local

\* When the client rests, the hub has the canvas as it is on disk, or one of the pushes
\* or events that count was lost: no change falls between a push and the next, whatever
\* is written while files are packed or posted (Watch, pushOnce).
NothingForgotten == Settled => hub = local \/ excused # {}

\* When the writing stops, the hub has the last of it in the end: no change falls
\* between a push and the next, whatever is written while files are packed or
\* posted, unless a push failed with nothing written after it, or the client was
\* stopped (Watch, pushOnce).
CatchesUp == <>[](hub = local \/ excused # {})
=============================================================================

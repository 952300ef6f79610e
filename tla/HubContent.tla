----------------------------- MODULE HubContent -----------------------------
(***************************************************************************)
(* How the hub's handlers change the contents of a canvas                  *)
(* (src/internal/server/handlers_push.go, handlers_copy.go,                *)
(* handlers_hub_files.go, handlers_hub_snapshots.go, and the creation and  *)
(* deletion of handlers_api.go), with the snapshots of                     *)
(* src/internal/snapshot: a lock per canvas id, a staged directory swapped *)
(* into place by two renames, and a rollback when the second one fails.    *)
(*                                                                         *)
(* A request runs once.  A directory is a function from its files to their *)
(* contents, a content the set of requests that contributed to it.  Trees  *)
(* are copied a file at a time.  os.RemoveAll of a canvas is one step.     *)
(***************************************************************************)
EXTENDS Integers, Sequences, FiniteSets

CONSTANTS
    Canvas,     \* numbers, in the lexical order of the ids
    File, Req, Absent, None,
    Scenarios   \* who asks for what, of which canvases, and whether the hub may crash

Kind == {"push", "copy", "snapshot", "revert", "put", "edit", "create", "delete"}
Dir == UNION {[F -> SUBSET Req] : F \in SUBSET File}

ASSUME HubContentAssumption ==
    /\ Canvas \subseteq Nat /\ None \notin Req /\ Absent \notin Dir
    /\ Scenarios \subseteq [who : SUBSET Req, ids : SUBSET Canvas, kinds : SUBSET Kind,
                           crashes : BOOLEAN]

VARIABLES
    may,      \* the scenario of this behaviour
    live,     \* the directory at canvas.Dir, or Absent
    aside,    \* the directory the current swap moved out of the way, or Absent
    orphans,  \* directories moved aside that no request will put back
    snaps,    \* the directories under the versions dir, oldest first
    lock,     \* s.hubCfg.pushLocks: the request that holds each
    op,       \* what each request asks for
    pc,       \* where its handler is
    staged,   \* the directory or file it is about to put in place
    tree,     \* the directory its walk is writing
    todo,     \* the files its walk has yet to copy
    ack       \* the directory left by the last change that took effect

vars == <<may, live, aside, orphans, snaps, lock, op, pc, staged, tree, todo, ack>>
dirVars == <<live, aside, orphans, ack>>
walkVars == <<tree, todo>>

EmptyDir == [f \in {} |-> {}]
Original == [f \in File |-> {}]

Step == {"idle", "locking", "locking2", "checking", "walking", "snapping",
         "clearing", "aside", "swap", "dropping", "writing", "removing", "done"}

\* exists is what a copy's handler finds out about its target.
Op == [kind : Kind, id : Canvas, from : Canvas, exists : BOOLEAN]
Id(r) == op[r].id
Goto(r, step) == pc' = [pc EXCEPT ![r] = step]

TypeOK ==
    /\ may \in Scenarios
    /\ live \in [Canvas -> Dir \cup {Absent}]
    /\ aside \in [Canvas -> Dir \cup {Absent}]
    /\ orphans \in [Canvas -> SUBSET [dir : Dir, revert : BOOLEAN]]
    /\ snaps \in [Canvas -> Seq(Dir)]
    /\ lock \in [Canvas -> Req \cup {None}]
    /\ op \in [Req -> Op \cup {None}]
    /\ pc \in [Req -> Step]
    /\ staged \in [Req -> Dir] /\ tree \in [Req -> Dir]
    /\ todo \in [Req -> SUBSET File]
    /\ ack \in [Canvas -> Dir \cup {Absent}]
    /\ \A i \in Canvas : aside[i] # Absent =>
          lock[i] # None /\ pc[lock[i]] \in {"swap", "dropping"} /\ Id(lock[i]) = i

Init ==
    /\ may \in Scenarios
    /\ live \in [Canvas -> {Absent, Original}] /\ ack = live
    /\ \A i \in Canvas \ may.ids : live[i] = Absent
    /\ aside = [i \in Canvas |-> Absent]
    /\ orphans = [i \in Canvas |-> {}]
    /\ snaps = [i \in Canvas |-> <<>>]
    /\ lock = [i \in Canvas |-> None]
    /\ op = [r \in Req |-> None]
    /\ pc = [r \in Req |-> "idle"]
    /\ staged = [r \in Req |-> EmptyDir] /\ tree = [r \in Req |-> EmptyDir]
    /\ todo = [r \in Req |-> {}]

-----------------------------------------------------------------------------
(* A request arrives, takes its locks, and ends. *)

\* A push has staged its archive before it takes the lock, a write and an edit
\* have read their body.  A copy has found its source, and a deletion its canvas.
Begin(r) ==
    /\ pc[r] = "idle" /\ r \in may.who
    /\ \E o \in Op :
          /\ o.kind \in may.kinds /\ {o.id, o.from} \subseteq may.ids
          /\ o.from # o.id <=> o.kind = "copy"
          /\ ~o.exists
          /\ o.kind = "copy" => live[o.from] # Absent
          /\ o.kind = "delete" => live[o.id] # Absent
          /\ op' = [op EXCEPT ![r] = o]
          /\ staged' = IF o.kind = "push"
                       THEN [staged EXCEPT ![r] = [f \in File |-> {r}]] ELSE staged
          /\ Goto(r, CASE o.kind = "delete" -> "removing"
                       [] o.kind = "create" -> "writing"
                       [] OTHER -> "locking")
    /\ UNCHANGED <<dirVars, snaps, lock, walkVars>>

\* Variant of firstKey: the copy's locks in the order source, target.
firstKey_AsNamed(r) == op[r].from

\* Two ids are locked in lexical order.
firstKey(r) == IF op[r].from < op[r].id THEN op[r].from ELSE op[r].id
Keys(r) == {firstKey(r), op[r].from + op[r].id - firstKey(r)}

Lock(r) ==
    /\ pc[r] = "locking" /\ lock[firstKey(r)] = None
    /\ lock' = [lock EXCEPT ![firstKey(r)] = r]
    /\ Goto(r, IF op[r].kind = "copy" THEN "locking2" ELSE "checking")
    /\ UNCHANGED <<dirVars, snaps, op, staged, walkVars>>

\* Variant of LockSecond: one of a copy's two canvases is not locked.
LockSecond_Skipped(r) ==
    /\ pc[r] = "locking2" /\ Goto(r, "checking")
    /\ UNCHANGED <<dirVars, snaps, lock, op, staged, walkVars>>

LockSecond(r) ==
    /\ pc[r] = "locking2"
    /\ \E key \in Keys(r) \ {firstKey(r)} :
          lock[key] = None /\ lock' = [lock EXCEPT ![key] = r]
    /\ Goto(r, "checking")
    /\ UNCHANGED <<dirVars, snaps, op, staged, walkVars>>

\* The handler returns: the deferred unlocks, and what it had staged is removed.
Finish(r) ==
    /\ lock' = [i \in Canvas |-> IF lock[i] = r THEN None ELSE lock[i]]
    /\ Goto(r, "done")
    /\ staged' = [staged EXCEPT ![r] = EmptyDir]
    /\ tree' = [tree EXCEPT ![r] = EmptyDir] /\ todo' = [todo EXCEPT ![r] = {}]
    /\ UNCHANGED op

\* An operation other than the swap fails: the handler gives up, and undoes
\* nothing because it has changed nothing.
IOError(r) ==
    /\ pc[r] \in {"checking", "walking", "snapping", "clearing", "aside", "writing"}
    /\ Finish(r)
    /\ UNCHANGED <<dirVars, snaps>>

-----------------------------------------------------------------------------
(* What each handler looks at once it has its locks. *)

Refuse(r) == Finish(r) /\ UNCHANGED <<dirVars, snaps>>

\* A walk of directory d starts: its entries are listed, the copy is empty.
StartWalk(r, d) == /\ todo' = [todo EXCEPT ![r] = DOMAIN d]
                   /\ tree' = [tree EXCEPT ![r] = EmptyDir]

PushStat(r) ==
    /\ pc[r] = "checking" /\ op[r].kind = "push"
    /\ Goto(r, IF live[Id(r)] # Absent THEN "aside" ELSE "swap")
    /\ UNCHANGED <<dirVars, snaps, lock, op, staged, walkVars>>

\* A target that exists is a conflict, unless the copy overwrites.
CopyStat(r) ==
    /\ pc[r] = "checking" /\ op[r].kind = "copy"
    /\ \/ live[Id(r)] # Absent /\ Refuse(r)
       \/ live[op[r].from] = Absent /\ Refuse(r)
       \/ /\ live[op[r].from] # Absent
          /\ op' = [op EXCEPT ![r].exists = live[Id(r)] # Absent]
          /\ StartWalk(r, live[op[r].from]) /\ Goto(r, "walking")
          /\ UNCHANGED <<dirVars, snaps, lock, staged>>

SnapshotStat(r) ==
    /\ pc[r] = "checking" /\ op[r].kind = "snapshot"
    /\ \/ live[Id(r)] = Absent /\ Refuse(r)
       \/ /\ live[Id(r)] # Absent
          /\ StartWalk(r, live[Id(r)]) /\ Goto(r, "snapping")
          /\ UNCHANGED <<dirVars, snaps, lock, op, staged>>

\* Variant of RevertResolve: no snapshot is taken of what is live.
RevertResolve_Unsafe(r) ==
    /\ pc[r] = "checking" /\ op[r].kind = "revert"
    /\ \/ Refuse(r)
       \/ \E k \in DOMAIN snaps[Id(r)] :
             /\ staged' = [staged EXCEPT ![r] = snaps[Id(r)][k]] /\ Goto(r, "clearing")
             /\ UNCHANGED <<dirVars, snaps, lock, op, walkVars>>

\* RevertWithSafety: the snapshot, named or the latest, is resolved before the
\* safety snapshot of what is live.
RevertResolve(r) ==
    /\ pc[r] = "checking" /\ op[r].kind = "revert"
    /\ \/ Refuse(r)
       \/ \E k \in DOMAIN snaps[Id(r)] :
             /\ staged' = [staged EXCEPT ![r] = snaps[Id(r)][k]]
             /\ IF live[Id(r)] # Absent
                THEN StartWalk(r, live[Id(r)]) /\ Goto(r, "snapping")
                ELSE UNCHANGED walkVars /\ Goto(r, "clearing")
             /\ UNCHANGED <<dirVars, snaps, lock, op>>

PutStat(r) ==
    /\ pc[r] = "checking" /\ op[r].kind = "put"
    /\ \/ live[Id(r)] = Absent /\ Refuse(r)
       \/ /\ live[Id(r)] # Absent
          /\ \E f \in File : staged' = [staged EXCEPT ![r] = [g \in {f} |-> {r}]]
          /\ Goto(r, "writing")
          /\ UNCHANGED <<dirVars, snaps, lock, op, walkVars>>

\* The edited file is read, and the edit applied to what was read.
EditRead(r) ==
    /\ pc[r] = "checking" /\ op[r].kind = "edit"
    /\ \/ live[Id(r)] = Absent /\ Refuse(r)
       \/ /\ live[Id(r)] # Absent
          /\ \E f \in DOMAIN live[Id(r)] :
                staged' = [staged EXCEPT ![r] = [g \in {f} |-> live[Id(r)][f] \cup {r}]]
          /\ Goto(r, "writing")
          /\ UNCHANGED <<dirVars, snaps, lock, op, walkVars>>

-----------------------------------------------------------------------------
(* Walking a directory: dircopy.Copy for a copy's source, and snapshot's    *)
(* copyTree.                                                                *)

Source(r) == IF pc[r] = "walking" THEN op[r].from ELSE Id(r)
Walking(r) == pc[r] \in {"walking", "snapping"}
Has(d, f) == d # Absent /\ f \in DOMAIN d
Overlay(new, d) == [f \in DOMAIN new \cup DOMAIN d |->
                       IF f \in DOMAIN new THEN new[f] ELSE d[f]]

WalkFile(r) ==
    /\ Walking(r)
    /\ \E f \in todo[r] :
          /\ Has(live[Source(r)], f)
          /\ tree' = [tree EXCEPT ![r] = Overlay([g \in {f} |-> live[Source(r)][f]], @)]
          /\ todo' = [todo EXCEPT ![r] = @ \ {f}]
    /\ UNCHANGED <<dirVars, snaps, lock, op, pc, staged>>

\* The walk fails, and what it had copied is removed.
WalkGone(r) ==
    /\ Walking(r)
    /\ \E f \in todo[r] : ~Has(live[Source(r)], f)
    /\ Refuse(r)

\* The source is staged.  A target to overwrite is snapshotted first.
CopyStaged(r) ==
    /\ pc[r] = "walking" /\ todo[r] = {}
    /\ IF op[r].exists /\ live[Id(r)] = Absent THEN Refuse(r)
       ELSE /\ staged' = [staged EXCEPT ![r] = tree[r]]
            /\ IF op[r].exists
               THEN StartWalk(r, live[Id(r)]) /\ Goto(r, "snapping")
               ELSE UNCHANGED walkVars /\ Goto(r, "swap")
            /\ UNCHANGED <<dirVars, snaps, lock, op>>

\* A snapshot is complete.
SnapshotDone(r) ==
    /\ pc[r] = "snapping" /\ todo[r] = {}
    /\ snaps' = [snaps EXCEPT ![Id(r)] = Append(@, tree[r])]
    /\ IF op[r].kind = "snapshot" THEN Finish(r)
       ELSE /\ Goto(r, IF op[r].kind = "revert" THEN "clearing" ELSE "aside")
            /\ UNCHANGED <<lock, op, staged, walkVars>>
    /\ UNCHANGED dirVars

\* Revert clears what an interrupted revert left, then copies the snapshot.
ClearStale(r) ==
    /\ pc[r] = "clearing" /\ Goto(r, "aside")
    /\ orphans' = [orphans EXCEPT ![Id(r)] = {o \in @ : ~o.revert}]
    /\ UNCHANGED <<live, aside, ack, snaps, lock, op, staged, walkVars>>

-----------------------------------------------------------------------------
(* The swap. *)

\* Only a revert tolerates that there is nothing to move.
MoveAside(r) ==
    /\ pc[r] = "aside"
    /\ IF live[Id(r)] = Absent /\ op[r].kind # "revert" THEN Refuse(r)
       ELSE /\ aside' = [aside EXCEPT ![Id(r)] = live[Id(r)]]
            /\ live' = [live EXCEPT ![Id(r)] = Absent]
            /\ Goto(r, "swap")
            /\ UNCHANGED <<orphans, ack, snaps, lock, op, staged, walkVars>>

\* os.Rename does not replace a directory.
SwapIn(r) ==
    /\ pc[r] = "swap" /\ live[Id(r)] = Absent
    /\ live' = [live EXCEPT ![Id(r)] = staged[r]]
    /\ ack' = [ack EXCEPT ![Id(r)] = staged[r]]
    /\ IF aside[Id(r)] # Absent
       THEN Goto(r, "dropping") /\ UNCHANGED <<lock, op, staged, walkVars>>
       ELSE Finish(r)
    /\ UNCHANGED <<aside, orphans, snaps>>

\* The second rename fails: whatever was moved aside is renamed back, which
\* only succeeds if nothing has taken its place meanwhile.
SwapFails(r) ==
    /\ pc[r] = "swap" /\ aside' = [aside EXCEPT ![Id(r)] = Absent]
    /\ \/ aside[Id(r)] = Absent /\ UNCHANGED <<live, orphans>>
       \/ /\ aside[Id(r)] # Absent /\ live[Id(r)] = Absent
          /\ live' = [live EXCEPT ![Id(r)] = aside[Id(r)]]
          /\ UNCHANGED orphans
       \/ /\ aside[Id(r)] # Absent /\ live[Id(r)] # Absent
          /\ orphans' = [orphans EXCEPT ![Id(r)] =
                @ \cup {[dir |-> aside[Id(r)], revert |-> op[r].kind = "revert"]}]
          /\ UNCHANGED live
    /\ Finish(r)
    /\ UNCHANGED <<ack, snaps>>

DropAside(r) ==
    /\ pc[r] = "dropping"
    /\ aside' = [aside EXCEPT ![Id(r)] = Absent]
    /\ Finish(r)
    /\ UNCHANGED <<live, orphans, ack, snaps>>

-----------------------------------------------------------------------------
(* Files are written, and canvases created and deleted, in place. *)

\* atomicWriteFile.  A write, unlike an edit, first makes the directories above
\* its file.
WriteFile(r) ==
    /\ pc[r] = "writing" /\ op[r].kind \in {"put", "edit"}
    /\ IF live[Id(r)] = Absent /\ op[r].kind = "edit" THEN Refuse(r)
       ELSE /\ live' = [live EXCEPT ![Id(r)] =
                           Overlay(staged[r], IF @ = Absent THEN EmptyDir ELSE @)]
            /\ ack' = [ack EXCEPT ![Id(r)] = live'[Id(r)]]
            /\ Finish(r)
            /\ UNCHANGED <<aside, orphans, snaps>>

\* canvas.Create makes the directory, without pushLocks.
Create(r) ==
    /\ pc[r] = "writing" /\ op[r].kind = "create"
    /\ live' = [live EXCEPT ![Id(r)] = IF @ = Absent THEN EmptyDir ELSE @]
    /\ ack' = [ack EXCEPT ![Id(r)] =
                  IF @ = Absent /\ live[Id(r)] = Absent THEN EmptyDir ELSE @]
    /\ Finish(r)
    /\ UNCHANGED <<aside, orphans, snaps>>

\* canvas.Delete, without pushLocks.  The versions dir is not touched.
Delete(r) ==
    /\ pc[r] = "removing"
    /\ live' = [live EXCEPT ![Id(r)] = Absent]
    /\ ack' = [ack EXCEPT ![Id(r)] = Absent]
    /\ Finish(r)
    /\ UNCHANGED <<aside, orphans, snaps>>

\* The hub is killed and started again.  A snapshot it was writing stays behind
\* under its name, as far as it got.
Crash ==
    /\ may.crashes /\ \E r \in Req : pc[r] \notin {"idle", "done"}
    /\ pc' = [r \in Req |-> IF pc[r] = "idle" THEN "idle" ELSE "done"]
    /\ lock' = [i \in Canvas |-> None]
    /\ aside' = [i \in Canvas |-> Absent]
    /\ orphans' = [i \in Canvas |-> IF aside[i] = Absent THEN orphans[i]
          ELSE orphans[i] \cup {[dir |-> aside[i], revert |-> op[lock[i]].kind = "revert"]}]
    /\ snaps' = [i \in Canvas |->
          IF lock[i] # None /\ pc[lock[i]] = "snapping" /\ Id(lock[i]) = i
             /\ tree[lock[i]] # EmptyDir
          THEN Append(snaps[i], tree[lock[i]]) ELSE snaps[i]]
    /\ staged' = [r \in Req |-> EmptyDir] /\ tree' = [r \in Req |-> EmptyDir]
    /\ todo' = [r \in Req |-> {}]
    /\ UNCHANGED <<live, ack, op>>

Serve(r) == \/ Lock(r) \/ LockSecond(r) \/ IOError(r)
            \/ PushStat(r) \/ CopyStat(r) \/ SnapshotStat(r) \/ RevertResolve(r)
            \/ PutStat(r) \/ EditRead(r)
            \/ WalkFile(r) \/ WalkGone(r) \/ CopyStaged(r) \/ SnapshotDone(r)
            \/ ClearStale(r) \/ MoveAside(r) \/ SwapIn(r) \/ SwapFails(r)
            \/ DropAside(r) \/ WriteFile(r) \/ Create(r) \/ Delete(r)

Next == /\ Crash \/ \E r \in Req : Begin(r) \/ Serve(r)
        /\ UNCHANGED may

Spec == Init /\ [][Next]_vars

-----------------------------------------------------------------------------
(* Properties. *)

\* The directory of a canvas as a request that waits for its lock will find it.
Content(i) == IF aside[i] # Absent /\ \E r \in Req : lock[i] = r /\ pc[r] = "swap"
              THEN aside[i] ELSE live[i]

Store == INSTANCE CanvasStore WITH content <- [i \in Canvas |-> Content(i)],
                                   versions <- snaps

\* Requests that create and delete canvases take no lock, and a crash stops a swap
\* between its renames.
Steady == ~may.crashes /\ may.kinds \cap {"create", "delete"} = {}

\* Without those the handlers implement the atomic store, whatever fails: a push,
\* copy or revert shows whole or not at all, no edit is lost, a snapshot is a
\* content that the canvas had, and a request that fails changes nothing
\* (handlePush's swap and rollback, handlers_hub_files.go's lock).
AtomicStore == Store!Init /\ [][Steady => [Store!Next]_(Store!vars)]_vars

\* The files that the last change left are still on disk: live, moved aside, or in
\* a snapshot, wherever a handler fails or the hub stops.
AckedOnDisk ==
    \A i \in Canvas : ack[i] \notin {Absent, EmptyDir} =>
        \/ ack[i] \in {live[i], aside[i]}
        \/ \E o \in orphans[i] : o.dir = ack[i]
        \/ \E k \in DOMAIN snaps[i] : snaps[i][k] = ack[i]

\* A revert can be undone: the files it replaces are in a snapshot by the time
\* it replaces them.
UndoableSwap ==
    \A r \in Req : SwapIn(r) /\ op[r].kind = "revert" =>
       \/ aside[Id(r)] \in {Absent, EmptyDir}
       \/ \E k \in DOMAIN snaps[Id(r)] : snaps[Id(r)][k] = aside[Id(r)]

\* Whatever fails and wherever the hub crashes, no files are lost that were
\* acknowledged (swapCanvasDir's rollback, RevertWithSafety's safety snapshot).
NothingLost == []AckedOnDisk /\ [][UndoableSwap]_vars

\* Whatever pairs of canvases copies name, no handlers wait for each other: of any
\* that there are, one waits for none of them.
Waits(r, q) == \/ pc[r] = "locking" /\ lock[firstKey(r)] = q
               \/ pc[r] = "locking2" /\ \E key \in Keys(r) \ {firstKey(r)} : lock[key] = q
NoCircularWait ==
    \A S \in SUBSET Req : S # {} /\ IsFiniteSet(S) => \E r \in S : \A q \in S : ~Waits(r, q)

\* A directory is moved aside only by a request that holds its canvas's lock, until
\* it is put back or dropped; and the handlers that take two locks take them in an
\* order that keeps them from waiting for each other (handleCopyCanvas).
LocksSound == TypeOK /\ NoCircularWait

\* "never leave the canvas stranded": a canvas that had files still has some
\* once no handler holds its lock.
NotStranded ==
    \A i \in Canvas : lock[i] = None /\ ack[i] \notin {Absent, EmptyDir} =>
        live[i] \notin {Absent, EmptyDir}

-----------------------------------------------------------------------------
(* Documented promises the code does not keep: README.md tells how.        *)

\* "a reader sees the old canvas or the new one, never neither"
NeverNeither == \A i \in Canvas : ack[i] # Absent => live[i] # Absent

\* "a missing canvas is a 404 rather than being created implicitly"
NoImplicitCreate ==
    [][\A r \in Req : WriteFile(r) /\ live'[Id(r)] # Absent => live[Id(r)] # Absent]_vars

\* "canvas bytes, metadata, grants, and snapshots go together"
DeletionComplete == [][\A r \in Req : Delete(r) => snaps'[Id(r)] = <<>>]_vars
=============================================================================

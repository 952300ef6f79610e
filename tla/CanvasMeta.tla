----------------------------- MODULE CanvasMeta -----------------------------
(***************************************************************************)
(* Who owns a canvas and whom it is shared with: the metadata file of      *)
(* src/internal/canvas/canvas.go, and the hub's handlers that read it,     *)
(* decide, and change it (handlers_push.go, handlers_claim.go,             *)
(* handlers_grants.go, handlers_copy.go, handlers_api.go).                 *)
(*                                                                         *)
(* Create, SetOwner, AddGrant and RemoveGrant read, change and rename the  *)
(* file under the canvas's metaLock; CopyMeta and Delete take no lock.  A  *)
(* request runs once.  Titles and icons are left out: the hub's Create     *)
(* always has an owner, so it always writes.                               *)
(***************************************************************************)
EXTENDS Integers, FiniteSets

CONSTANTS
    Canvas, Req,
    Principal, Admin,   \* Admin is the push token's principal
    Target,             \* whom a grant may name
    Kind,               \* the kinds of request made
    Absent, Torn, None

ASSUME CanvasMetaAssumption ==
    /\ Admin \in Principal /\ None \notin Principal \cup Req
    /\ Kind \subseteq {"push", "create", "claim", "share", "revoke", "copy", "delete"}

VARIABLES
    dirs,      \* canvases whose directory exists
    file,      \* their metadata files
    metaLock,  \* canvas.metaLocks: the request that holds each
    pushLock,  \* s.hubCfg.pushLocks
    op,        \* what each request asks for
    pc,        \* where its handler is
    meta,      \* the metadata it has read
    seen,      \* what it has learnt: the owner (push), or whether the canvas is new
    shared,    \* grants whose request was told they were recorded
    revoked    \* grants whose removal was confirmed

vars == <<dirs, file, metaLock, pushLock, op, pc, meta, seen, shared, revoked>>
fileVars == <<file, shared, revoked>>

\* A link is addressed by an id of its own: here, the request that minted it.
Ref == Target \cup Req
Grant == [ref : Ref, by : Req, auto : BOOLEAN]
Meta == [owner : Principal \cup {None}, grants : SUBSET Grant]
ASSUME NoFileAssumption == Absent \notin Meta /\ Torn \notin Meta \cup {Absent}

EmptyMeta == [owner |-> None, grants |-> {}]

Op == [kind : Kind, id : Canvas, from : Canvas, who : Principal, ref : Ref,
       auto : BOOLEAN]
Step == {"idle", "start", "owner", "mkdir", "create", "setOwner", "addGrant",
         "removeGrant", "writeCreate", "writeOwner", "writeAdd", "writeRemove",
         "copyRead", "copyOpen", "copyWrite", "rmdir", "rmmeta", "done"}

Id(r) == op[r].id
Goto(r, step) == pc' = [pc EXCEPT ![r] = step]

TypeOK ==
    /\ dirs \subseteq Canvas
    /\ file \in [Canvas -> Meta \cup {Absent, Torn}]
    /\ metaLock \in [Canvas -> Req \cup {None}]
    /\ pushLock \in [Canvas -> Req \cup {None}]
    /\ op \in [Req -> Op \cup {None}]
    /\ pc \in [Req -> Step]
    /\ meta \in [Req -> Meta]
    /\ seen \in [Req -> Principal \cup {None}]
    /\ shared \in [Canvas -> SUBSET Grant] /\ revoked \in [Canvas -> SUBSET Grant]
    /\ \A r \in Req : pc[r] \in {"writeCreate", "writeOwner", "writeAdd", "writeRemove"} =>
          metaLock[Id(r)] = r

\* A canvas may exist already, owned by the admin (migrateLegacyOwners).
Init ==
    /\ dirs \in SUBSET Canvas
    /\ file = [i \in Canvas |-> IF i \in dirs THEN [owner |-> Admin, grants |-> {}]
                                ELSE Absent]
    /\ metaLock = [i \in Canvas |-> None] /\ pushLock = [i \in Canvas |-> None]
    /\ op = [r \in Req |-> None] /\ pc = [r \in Req |-> "idle"]
    /\ meta = [r \in Req |-> EmptyMeta] /\ seen = [r \in Req |-> None]
    /\ shared = [i \in Canvas |-> {}] /\ revoked = [i \in Canvas |-> {}]

\* readMeta: what cannot be read or parsed is empty.
readMeta(i) == IF file[i] \in {Absent, Torn} THEN EmptyMeta ELSE file[i]
ownerOrAdmin(p) == IF p = None THEN Admin ELSE p
CanWrite(i, p) == p = Admin \/ ownerOrAdmin(readMeta(i).owner) = p

-----------------------------------------------------------------------------
(* Requests and the gate. *)

\* The gate (serveWrite): anyone may create, or claim; writing a canvas that
\* exists takes its owner or the admin.
Admitted(o) ==
    CASE o.kind = "create" -> TRUE
      [] o.kind = "claim" -> o.who # Admin
      [] OTHER -> o.from \in dirs => CanWrite(o.from, o.who)

\* The gate, then the checks a handler makes before its first lock.
Begin(r) ==
    /\ pc[r] = "idle"
    /\ \E o \in Op :
          /\ o.from # o.id <=> o.kind = "copy"
          /\ o.kind = "share" => o.ref \in Target \cup {r}
          /\ o.auto => o.kind \in {"push", "create"} /\ o.who # Admin /\ o.ref \in Target
          /\ o.kind \in {"share", "revoke"} \/ o.auto \/ o.ref = r
          /\ o.kind \notin {"push", "create"} => o.from \in dirs
          /\ Admitted(o)
          /\ op' = [op EXCEPT ![r] = o]
    /\ Goto(r, "start")
    /\ UNCHANGED <<dirs, fileVars, metaLock, pushLock, meta, seen>>

\* The handler returns, with its deferred unlocks.
Finish(r) ==
    /\ Goto(r, "done")
    /\ metaLock' = [i \in Canvas |-> IF metaLock[i] = r THEN None ELSE metaLock[i]]
    /\ pushLock' = [i \in Canvas |-> IF pushLock[i] = r THEN None ELSE pushLock[i]]
    /\ meta' = [meta EXCEPT ![r] = EmptyMeta] /\ seen' = [seen EXCEPT ![r] = None]
    /\ UNCHANGED op

\* handlePush takes the push lock and swaps the content in (see HubContent) ...
PushSwap(r) ==
    /\ pc[r] = "start" /\ op[r].kind = "push" /\ pushLock[Id(r)] = None
    /\ pushLock' = [pushLock EXCEPT ![Id(r)] = r]
    /\ dirs' = dirs \cup {Id(r)}
    /\ Goto(r, "owner")
    /\ UNCHANGED <<fileVars, metaLock, op, meta, seen>>

\* ... reads the owner, without the metadata's lock, and makes the directory.
PushOwner(r) ==
    /\ pc[r] = "owner"
    /\ seen' = [seen EXCEPT ![r] = readMeta(Id(r)).owner]
    /\ dirs' = dirs \cup {Id(r)}
    /\ Goto(r, "create")
    /\ UNCHANGED <<fileVars, metaLock, pushLock, op, meta>>

\* handleCreateCanvas: isNew.
CreateIsNew(r) ==
    /\ pc[r] = "start" /\ op[r].kind = "create"
    /\ seen' = [seen EXCEPT ![r] = IF Id(r) \in dirs THEN Admin ELSE None]
    /\ Goto(r, "mkdir")
    /\ UNCHANGED <<dirs, fileVars, metaLock, pushLock, op, meta>>
CreateMkdir(r) ==
    /\ pc[r] = "mkdir"
    /\ dirs' = dirs \cup {Id(r)}
    /\ Goto(r, "create")
    /\ UNCHANGED <<fileVars, metaLock, pushLock, op, meta, seen>>

\* handleClaimCanvas: the owner is read without a lock; only the admin's
\* canvases can be claimed.
ClaimRead(r) ==
    /\ pc[r] = "start" /\ op[r].kind = "claim"
    /\ IF ownerOrAdmin(readMeta(Id(r)).owner) # Admin
       THEN Finish(r)
       ELSE Goto(r, "setOwner") /\ UNCHANGED <<metaLock, pushLock, op, meta, seen>>
    /\ UNCHANGED <<dirs, fileVars>>

\* handleCreateGrant: a target already granted is not granted twice.
ShareDedup(r) ==
    /\ pc[r] = "start" /\ op[r].kind = "share"
    /\ IF \E g \in readMeta(Id(r)).grants : g.ref = op[r].ref
       THEN Finish(r)
       ELSE Goto(r, "addGrant") /\ UNCHANGED <<metaLock, pushLock, op, meta, seen>>
    /\ UNCHANGED <<dirs, fileVars>>

Revoke(r) ==
    /\ pc[r] = "start" /\ op[r].kind = "revoke" /\ Goto(r, "removeGrant")
    /\ UNCHANGED <<dirs, fileVars, metaLock, pushLock, op, meta, seen>>

-----------------------------------------------------------------------------
(* The read-modify-write of canvas.go. *)

\* Variant of LockMeta: the file is read, but the lock not awaited.
LockMeta_NoWait(r, from, to) ==
    /\ pc[r] = from
    /\ metaLock' = [metaLock EXCEPT ![Id(r)] = r]
    /\ meta' = [meta EXCEPT ![r] = readMeta(Id(r))]
    /\ Goto(r, to)
    /\ UNCHANGED <<dirs, fileVars, pushLock, op, seen>>

\* The lock is taken, and the file read.
LockMeta(r, from, to) ==
    /\ pc[r] = from /\ metaLock[Id(r)] = None
    /\ metaLock' = [metaLock EXCEPT ![Id(r)] = r]
    /\ meta' = [meta EXCEPT ![r] = readMeta(Id(r))]
    /\ Goto(r, to)
    /\ UNCHANGED <<dirs, fileVars, pushLock, op, seen>>

\* writeMeta renames a complete file into place.
writeMeta(r, m) == file' = [file EXCEPT ![Id(r)] = m]

\* The lock is released, but the handler goes on to its auto-share grants, if
\* its canvas is new.
Created(r) ==
    IF op[r].auto /\ seen[r] = None
    THEN /\ Goto(r, "addGrant")
         /\ metaLock' = [metaLock EXCEPT ![Id(r)] = None]
         /\ UNCHANGED <<pushLock, op, meta, seen>>
    ELSE Finish(r)

\* Variant of WriteCreate: the grants are not carried over.
WriteCreate_DropsGrants(r) ==
    /\ pc[r] = "writeCreate"
    /\ writeMeta(r, [meta[r] EXCEPT !.grants = {}, !.owner =
          IF op[r].kind = "push" /\ seen[r] # None THEN seen[r] ELSE op[r].who])
    /\ Created(r)
    /\ UNCHANGED <<dirs, shared, revoked>>

\* Create: the grants are kept.  A push names the owner it found; a creation its
\* own principal.
WriteCreate(r) ==
    /\ pc[r] = "writeCreate"
    /\ writeMeta(r, [meta[r] EXCEPT !.owner =
          IF op[r].kind = "push" /\ seen[r] # None THEN seen[r] ELSE op[r].who])
    /\ Created(r)
    /\ UNCHANGED <<dirs, shared, revoked>>

SetOwner(r) ==
    /\ pc[r] = "writeOwner"
    /\ writeMeta(r, [meta[r] EXCEPT !.owner = op[r].who])
    /\ Finish(r)
    /\ UNCHANGED <<dirs, shared, revoked>>

GrantOf(r) == [ref |-> op[r].ref, by |-> r, auto |-> op[r].auto]

AddGrant(r) ==
    /\ pc[r] = "writeAdd"
    /\ writeMeta(r, [meta[r] EXCEPT !.grants = @ \cup {GrantOf(r)}])
    /\ shared' = [shared EXCEPT ![Id(r)] = @ \cup {GrantOf(r)}]
    /\ Finish(r)
    /\ UNCHANGED <<dirs, revoked>>

Matching(r, grants) == {g \in grants : g.ref = op[r].ref}

\* RemoveGrant writes nothing when nothing matches.
RemoveGrant(r) ==
    /\ pc[r] = "writeRemove"
    /\ IF Matching(r, meta[r].grants) = {} THEN UNCHANGED fileVars
       ELSE /\ writeMeta(r, [meta[r] EXCEPT !.grants = @ \ Matching(r, @)])
            /\ shared' = [shared EXCEPT ![Id(r)] = @ \ Matching(r, @)]
            /\ revoked' = [revoked EXCEPT ![Id(r)] = @ \cup Matching(r, meta[r].grants)]
    /\ Finish(r)
    /\ UNCHANGED dirs

-----------------------------------------------------------------------------
(* CopyMeta and Delete: no metadata lock. *)

Forget(i) == /\ shared' = [shared EXCEPT ![i] = {}]
             /\ revoked' = [revoked EXCEPT ![i] = {}]

\* handleCopyCanvas: both push locks, and the content in place (see HubContent).
CopySwap(r) ==
    /\ pc[r] = "start" /\ op[r].kind = "copy"
    /\ pushLock[Id(r)] = None /\ pushLock[op[r].from] = None
    /\ pushLock' = [pushLock EXCEPT ![Id(r)] = r, ![op[r].from] = r]
    /\ dirs' = dirs \cup {Id(r)}
    /\ Goto(r, "copyRead")
    /\ UNCHANGED <<fileVars, metaLock, op, meta, seen>>

\* The source's file is read; if there is none, the target's is removed.
CopyRead(r) ==
    /\ pc[r] = "copyRead"
    /\ IF file[op[r].from] = Absent
       THEN /\ file' = [file EXCEPT ![Id(r)] = Absent] /\ Forget(Id(r))
            /\ Finish(r)
       ELSE /\ meta' = [meta EXCEPT ![r] = file[op[r].from]]
            /\ Goto(r, "copyOpen")
            /\ UNCHANGED <<fileVars, metaLock, pushLock, op, seen>>
    /\ UNCHANGED dirs

\* os.WriteFile truncates the target's file ...
CopyOpen(r) ==
    /\ pc[r] = "copyOpen"
    /\ file' = [file EXCEPT ![Id(r)] = Torn] /\ Forget(Id(r))
    /\ Goto(r, "copyWrite")
    /\ UNCHANGED <<dirs, metaLock, pushLock, op, meta, seen>>

\* ... and writes it, unless the name stands for another file by now.
CopyWrite(r) ==
    /\ pc[r] = "copyWrite"
    /\ IF file[Id(r)] = Torn
       THEN file' = [file EXCEPT ![Id(r)] = meta[r]] /\ Forget(Id(r))
       ELSE UNCHANGED fileVars
    /\ Finish(r)
    /\ UNCHANGED dirs

DeleteDir(r) ==
    /\ pc[r] = "start" /\ op[r].kind = "delete"
    /\ dirs' = dirs \ {Id(r)} /\ Goto(r, "rmmeta")
    /\ UNCHANGED <<fileVars, metaLock, pushLock, op, meta, seen>>
DeleteMeta(r) ==
    /\ pc[r] = "rmmeta"
    /\ file' = [file EXCEPT ![Id(r)] = Absent] /\ Forget(Id(r))
    /\ Finish(r)
    /\ UNCHANGED dirs

Handler(r) ==
    \/ PushSwap(r) \/ PushOwner(r) \/ CreateIsNew(r) \/ CreateMkdir(r)
    \/ ClaimRead(r) \/ ShareDedup(r) \/ Revoke(r)
    \/ LockMeta(r, "create", "writeCreate") \/ LockMeta(r, "setOwner", "writeOwner")
    \/ LockMeta(r, "addGrant", "writeAdd") \/ LockMeta(r, "removeGrant", "writeRemove")
    \/ WriteCreate(r) \/ SetOwner(r) \/ AddGrant(r) \/ RemoveGrant(r)
    \/ CopySwap(r) \/ CopyRead(r) \/ CopyOpen(r) \/ CopyWrite(r)
    \/ DeleteDir(r) \/ DeleteMeta(r)

Next == \E r \in Req : Begin(r) \/ Handler(r)

Spec == Init /\ [][Next]_vars

-----------------------------------------------------------------------------
(* Properties. *)

\* A grant that was reported recorded is in force until it is revoked, or its
\* canvas deleted or copied over: no writer of the file loses another's update.
SharesKept == \A i \in Canvas : shared[i] \subseteq readMeta(i).grants

\* A grant that was reported revoked does not come back on that canvas, unless
\* the canvas is deleted or copied over.
RevokedStaysRevoked == \A i \in Canvas : revoked[i] \cap readMeta(i).grants = {}

\* The grants in force are those that were confirmed, whatever requests race
\* (AddGrant, RemoveGrant, Create, SetOwner).
GrantsAsConfirmed == SharesKept /\ RevokedStaysRevoked

\* "never clobber an existing owner -- a later claim/transfer must win over a
\* re-push"
RepushKeepsOwner ==
    [][\A r \in Req : WriteCreate(r) /\ op[r].kind = "push" =>
          readMeta(Id(r)).owner \in {None, readMeta(Id(r))'.owner}]_vars

-----------------------------------------------------------------------------
(* Documented promises the code does not keep: README.md tells how.        *)

\* "a canvas already owned by a different non-admin principal is 409"
ClaimConflicts ==
    [][\A r \in Req : SetOwner(r) =>
          readMeta(Id(r)).owner \in {None, Admin, op[r].who}]_vars

\* "canvas bytes, metadata, grants, and snapshots go together"
NoMetaLeft ==
    (\A r \in Req : pc[r] \in {"idle", "done"}) =>
        \A i \in Canvas : file[i] # Absent => i \in dirs
=============================================================================

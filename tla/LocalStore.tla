----------------------------- MODULE LocalStore -----------------------------
(***************************************************************************)
(* Canvases on a local disk: what the MCP server's local backend and the   *)
(* command line do to them without going through the daemon -- edit_file   *)
(* and write_file, snap, revert, copy and rm (internal/mcpserver,          *)
(* internal/snapshot, internal/fileedit).  Nothing locks a canvas, so the  *)
(* calls of two processes interleave system call by system call.           *)
(*                                                                         *)
(* A directory maps the names in it to contents; a name is a file of the   *)
(* canvas, or a process for the temporary file it writes before a rename.  *)
(* Contents are sequences of tokens, and an edit replaces one token.       *)
(* Metadata and grants are in CanvasMeta, the hub's handlers in HubContent.*)
(***************************************************************************)
EXTENDS FileEdit

CONSTANTS
    Proc, Canvas, File, Token,
    MaxSnaps,              \* bound: snapshots that are started
    Scenarios,             \* per scenario the calls of each process, in order
    Contents,              \* what the canvases hold at the start
    Faults,                \* subset of {"disk", "crash"}
    None

VARIABLES
    dir,       \* every directory, or None where there is none
    clock,     \* snapshots started, and the name of the last
    left,      \* per process the calls it has yet to make
    proc,      \* per process where it is in a call
    whole,     \* history: snapshots that Create has returned
    crashed,   \* history: a process died in a call
    hist       \* history, per process; see Watch

vars == <<dir, clock, left, proc, whole, crashed, hist>>

Name == File \cup Proc
Dir == [Name -> Seq(Token) \cup {None}]
Empty == [n \in Name |-> None]

\* Where directories are.
live(c) == <<"live", c>>
tmpDir(c) == <<"revert-tmp", c>>
oldDir(c) == <<"revert-old", c>>
staging(p) == <<"scrim-copy", p>>
aside(p) == <<"scrim-copy-old", p>>
snapshot(c, n) == <<"snapshot", c, n>>
Place == {live(c) : c \in Canvas} \cup {tmpDir(c) : c \in Canvas} \cup {oldDir(c) : c \in Canvas}
         \cup {staging(p) : p \in Proc} \cup {aside(p) : p \in Proc}
         \cup {snapshot(c, n) : c \in Canvas, n \in 1..MaxSnaps}

\* What a process is called to do.
Request ==
    [op : {"edit"}, c : Canvas, f : File, edits : Seq(Edits(Token))]
    \cup [op : {"write"}, c : Canvas, f : File, body : Seq(Token)]
    \cup [op : {"snap", "rm"}, c : Canvas]
    \cup [op : {"revert"}, c : Canvas, name : Nat]
    \cup [op : {"copy"}, c : Canvas, to : Canvas, overwrite : BOOLEAN]

ASSUME LocalStoreAssumption ==
    /\ \A s \in Scenarios : s \in [Proc -> Seq(Request)]
    /\ \A contents \in Contents :
          /\ DOMAIN contents \subseteq {live(c) : c \in Canvas}
          /\ \A x \in DOMAIN contents : contents[x] \in Dir
    /\ File \cap Proc = {} /\ MaxSnaps \in Nat
    /\ None \notin Seq(Token) /\ None \notin Dir /\ None \notin Request

Exists(x) == dir[x] # None
Has(x, n) == Exists(x) /\ dir[x][n] # None
Entries(d) == {n \in Name : d[n] # None}
MkdirAll(x) == IF Exists(x) THEN dir[x] ELSE Empty
Removed(xs) == [x \in Place |-> IF x \in xs THEN None ELSE dir[x]]
Renamed(x, y) == [dir EXCEPT ![y] = dir[x], ![x] = None]

Idle == [pc |-> "idle", call |-> None, todo |-> {}, stamp |-> 0, target |-> 0,
         had |-> FALSE, base |-> None, buf |-> None]
Unwatched == [alone |-> FALSE, orig |-> None, dirty |-> {}]

\* Where a call can be, for each operation.
Stages(op) ==
    CASE op \in {"edit", "write"} -> {"begin", "temp", "rename"}
      [] op = "snap" -> {"begin", "create", "snap"}
      [] op = "revert" -> {"begin", "create", "snap", "clear", "start", "restore", "out", "in", "drop"}
      [] op = "copy" -> {"begin", "stage", "create", "snap", "out", "in", "drop"}
      [] op = "rm" -> {"begin"}

Pcs == {"idle", "begin", "temp", "rename", "create", "snap", "clear", "start", "restore",
        "stage", "out", "in", "drop"}

TypeOK ==
    /\ dir \in [Place -> Dir \cup {None}]
    /\ clock \in 0..MaxSnaps
    /\ left \in [Proc -> Seq(Request)]
    /\ proc \in [Proc -> [pc : Pcs, call : Request \cup {None}, todo : SUBSET Name,
                         stamp : 0..clock, target : 0..clock, had : BOOLEAN,
                         base : Seq(Token) \cup {None}, buf : Seq(Token) \cup {None}]]
    /\ \A p \in Proc :
          IF proc[p].call = None THEN proc[p] = Idle ELSE proc[p].pc \in Stages(proc[p].call.op)
    /\ hist \in [Proc -> [alone : BOOLEAN, orig : Dir \cup {None}, dirty : SUBSET File]]
    /\ \A s \in whole : Exists(s) /\ \E c \in Canvas, n \in 1..clock : s = snapshot(c, n)
    /\ crashed \in BOOLEAN

Init ==
    /\ \E contents \in Contents :
          dir = [x \in Place |-> IF x \in DOMAIN contents THEN contents[x] ELSE None]
    /\ clock = 0
    /\ left \in Scenarios
    /\ proc = [p \in Proc |-> Idle]
    /\ whole = {} /\ crashed = FALSE
    /\ hist = [p \in Proc |-> Unwatched]

-----------------------------------------------------------------------------
(* Calls.  A canvas that a call replaces is its destination; the new       *)
(* directory is made beside it, and the one it had is kept until the end.  *)

Call(p) == proc[p].call
Dest(p) == live(IF Call(p).op = "copy" THEN Call(p).to ELSE Call(p).c)
Fresh(p) == IF Call(p).op = "copy" THEN staging(p) ELSE tmpDir(Call(p).c)
Spare(p) == IF Call(p).op = "copy" THEN aside(p) ELSE oldDir(Call(p).c)
Mine(p) == snapshot(Dest(p)[2], proc[p].stamp)

\* History of a call: whether no other call ran with it, what its
\* destination held at its beginning, and which files of that others have
\* written or put there since its snapshot was started.
Others(p) == {q \in Proc \ {p} : proc[q].pc # "idle"}
Watch(p, c) ==
    [q \in Proc |->
        IF q = p THEN [alone |-> Others(p) = {}, orig |-> dir[live(c)], dirty |-> {}]
        ELSE [hist[q] EXCEPT !.alone = FALSE]]
Dirty(p, files) ==
    [q \in Proc |-> IF q # p /\ proc[q].pc # "idle" /\ Dest(q) = Dest(p)
                    THEN [hist[q] EXCEPT !.dirty = @ \cup files] ELSE hist[q]]

Goto(p, pc) == proc' = [proc EXCEPT ![p].pc = pc]
\* A call is over: its history is left for RevertIsExact to look at.
Over(p) == proc' = [proc EXCEPT ![p] = Idle]

Begin(p) ==
    /\ proc[p].pc = "idle" /\ left[p] # <<>>
    /\ LET call == Head(left[p])
       IN  /\ proc' = [proc EXCEPT ![p].pc = "begin", ![p].call = call]
           /\ hist' = Watch(p, IF call.op = "copy" THEN call.to ELSE call.c)
    /\ left' = [left EXCEPT ![p] = Tail(@)]
    /\ UNCHANGED <<dir, clock, whole, crashed>>

At(p, op, pc) == proc[p].pc = pc /\ Call(p).op = op
Unchanged == UNCHANGED <<clock, left, whole, crashed>>

-----------------------------------------------------------------------------
(* edit_file and write_file.                                               *)

\* The file is read and the edits made, in memory.
EditFile(p) ==
    /\ At(p, "edit", "begin")
    /\ LET data == IF Exists(Dest(p)) THEN dir[Dest(p)][Call(p).f] ELSE None
           edited == ApplyBatch(data, Call(p).edits)
       IN  IF data = None \/ Len(data) > MaxBytes \/ edited = Failed
           THEN Over(p)
           ELSE proc' = [proc EXCEPT ![p].pc = "temp", ![p].base = data, ![p].buf = edited]
    /\ UNCHANGED <<dir, hist>> /\ Unchanged

WriteFile(p) ==
    /\ At(p, "write", "begin")
    /\ IF Len(Call(p).body) > MaxBytes \/ ~Exists(Dest(p))
       THEN Over(p)
       ELSE proc' = [proc EXCEPT ![p].pc = "temp", ![p].buf = Call(p).body]
    /\ UNCHANGED <<dir, hist>> /\ Unchanged

\* atomicWriteFileLocal: the temporary file.  A write has made the file's
\* directory first, and the canvas with it if that has gone.
CreateTemp(p) ==
    /\ proc[p].pc = "temp"
    /\ IF Exists(Dest(p)) \/ Call(p).op = "write"
       THEN /\ dir' = [dir EXCEPT ![Dest(p)] = [MkdirAll(Dest(p)) EXCEPT ![p] = proc[p].buf]]
            /\ Goto(p, "rename")
       ELSE Over(p) /\ UNCHANGED dir
    /\ UNCHANGED hist /\ Unchanged

\* ... and its rename, by path: the directory may be another by now.
Rename(p) ==
    /\ proc[p].pc = "rename"
    /\ IF Has(Dest(p), p)
       THEN /\ dir' = [dir EXCEPT ![Dest(p)] =
                          [@ EXCEPT ![Call(p).f] = dir[Dest(p)][p], ![p] = None]]
            /\ hist' = Dirty(p, {Call(p).f})
       ELSE UNCHANGED <<dir, hist>>
    /\ Over(p) /\ Unchanged

RemoveCanvas(p) ==
    /\ At(p, "rm", "begin")
    /\ dir' = Removed({Dest(p)})
    /\ Over(p) /\ UNCHANGED hist /\ Unchanged

-----------------------------------------------------------------------------
(* Copying a directory, for a snapshot, a revert or a copy: the names are  *)
(* read once, and the files then one at a time.                            *)

Copying(p) ==
    CASE proc[p].pc = "snap" -> [from |-> Dest(p), to |-> Mine(p)]
      [] proc[p].pc = "restore" -> [from |-> snapshot(Call(p).c, proc[p].target), to |-> Fresh(p)]
      [] proc[p].pc = "stage" -> [from |-> live(Call(p).c), to |-> Fresh(p)]

IsCopying(p) == proc[p].pc \in {"snap", "restore", "stage"}

\* What a call that fails takes away again.
Debris(p) ==
    (IF IsCopying(p) THEN {Copying(p).to} ELSE {})
    \cup (IF Call(p).op = "copy" THEN {staging(p)} ELSE {})

Fail(p) == dir' = Removed(Debris(p)) /\ Over(p)

CopyFile(p) ==
    /\ IsCopying(p)
    /\ \E n \in proc[p].todo :
          LET from == Copying(p).from
              to == Copying(p).to
          IN  \/ /\ Has(from, n)
                 /\ dir' = [dir EXCEPT ![to] = [MkdirAll(to) EXCEPT ![n] = dir[from][n]]]
                 /\ proc' = [proc EXCEPT ![p].todo = @ \ {n}]
              \/ /\ ~Has(from, n) \/ "disk" \in Faults
                 /\ Fail(p)
    /\ UNCHANGED hist /\ Unchanged

\* What is done when the last file is there.
Copied(p) ==
    /\ IsCopying(p) /\ proc[p].todo = {}
    /\ LET call == Call(p)
       IN  CASE proc[p].pc = "snap" /\ call.op = "snap" -> Over(p)
             [] proc[p].pc = "snap" /\ call.op = "revert" -> Goto(p, "clear")
             [] proc[p].pc = "snap" /\ call.op = "copy" -> Goto(p, "out")
             [] proc[p].pc = "restore" -> Goto(p, "out")
             [] proc[p].pc = "stage" ->
                  Goto(p, IF proc[p].had THEN "create" ELSE "in")
    /\ whole' = IF proc[p].pc = "snap" THEN whole \cup {Mine(p)} ELSE whole
    /\ UNCHANGED <<dir, clock, left, crashed, hist>>

-----------------------------------------------------------------------------
(* snap; and the safety snapshots of revert and copy.                      *)

BeginSnap(p) == At(p, "snap", "begin") /\ Goto(p, "create") /\ UNCHANGED <<dir, hist>> /\ Unchanged

Create(p) ==
    /\ proc[p].pc = "create"
    /\ IF Exists(Dest(p))
       THEN /\ clock < MaxSnaps /\ clock' = clock + 1
            /\ dir' = [dir EXCEPT ![snapshot(Dest(p)[2], clock')] = Empty]
            /\ proc' = [proc EXCEPT ![p].pc = "snap", ![p].stamp = clock',
                                    ![p].todo = Entries(dir[Dest(p)])]
            /\ hist' = [hist EXCEPT ![p].dirty = {}]
       ELSE Fail(p) /\ UNCHANGED <<clock, hist>>
    /\ UNCHANGED <<left, whole, crashed>>

-----------------------------------------------------------------------------
(* revert: RevertWithSafety, and copy.                                     *)

Snapshots(c) == {n \in 1..clock : Exists(snapshot(c, n))}
Latest(c) == CHOOSE n \in Snapshots(c) : \A m \in Snapshots(c) : m <= n

\* The snapshot that a revert is to; 0 names the latest.
Target(p) == IF Call(p).name = 0 THEN Latest(Call(p).c) ELSE Call(p).name

\* Variant of Safety: none for a snapshot that was named.
Safety_Latest(p) == Call(p).name = 0 /\ Exists(Dest(p))

Safety(p) == Exists(Dest(p))

Resolve(p) ==
    /\ At(p, "revert", "begin")
    /\ IF Snapshots(Call(p).c) # {} /\ Call(p).name \in {0} \cup Snapshots(Call(p).c)
       THEN proc' = [proc EXCEPT ![p].target = Target(p),
                                 ![p].pc = IF Safety(p) THEN "create" ELSE "clear"]
       ELSE Over(p)
    /\ UNCHANGED <<dir, hist>> /\ Unchanged

\* The snapshot must still be there.  The names of the temporary directories
\* are fixed: whatever is in them goes, another process's revert included.
Clear(p) ==
    /\ proc[p].pc = "clear"
    /\ IF Exists(snapshot(Call(p).c, proc[p].target))
       THEN dir' = Removed({Fresh(p), Spare(p)}) /\ Goto(p, "start")
       ELSE Over(p) /\ UNCHANGED dir
    /\ UNCHANGED hist /\ Unchanged

\* copyTree of the snapshot begins.
Restore(p) ==
    /\ proc[p].pc = "start"
    /\ LET from == snapshot(Call(p).c, proc[p].target)
       IN  IF Exists(from)
           THEN /\ dir' = [dir EXCEPT ![Fresh(p)] = MkdirAll(Fresh(p))]
                /\ proc' = [proc EXCEPT ![p].pc = "restore", ![p].todo = Entries(dir[from])]
           ELSE dir' = Removed({Fresh(p)}) /\ Over(p)
    /\ UNCHANGED hist /\ Unchanged

CopyCanvas(p) ==
    /\ At(p, "copy", "begin")
    /\ LET from == live(Call(p).c)
       IN  IF Call(p).c # Call(p).to /\ Exists(from) /\ (Exists(Dest(p)) => Call(p).overwrite)
           THEN /\ dir' = [dir EXCEPT ![Fresh(p)] = Empty]
                /\ proc' = [proc EXCEPT ![p].pc = "stage", ![p].had = Exists(Dest(p)),
                                        ![p].todo = Entries(dir[from])]
           ELSE Over(p) /\ UNCHANGED dir
    /\ UNCHANGED hist /\ Unchanged

\* The canvas is moved out of the way.  A revert goes on without one.
MoveAside(p) ==
    /\ proc[p].pc = "out"
    /\ \/ /\ Exists(Dest(p)) /\ ~Exists(Spare(p))
          /\ dir' = Renamed(Dest(p), Spare(p)) /\ Goto(p, "in")
       \/ /\ ~Exists(Dest(p)) /\ Call(p).op = "revert"
          /\ Goto(p, "in") /\ UNCHANGED dir
       \/ /\ IF Exists(Dest(p)) THEN Exists(Spare(p)) \/ "disk" \in Faults
              ELSE Call(p).op = "copy"
          /\ dir' = Removed({Fresh(p)}) /\ Over(p)
    /\ UNCHANGED hist /\ Unchanged

\* Variant of PutBack: it stays aside.
PutBack_Never(p) == dir

\* The best-effort restore of what was moved aside.
PutBack(p) ==
    IF Exists(Spare(p)) /\ ~Exists(Dest(p)) THEN Renamed(Spare(p), Dest(p)) ELSE dir

\* The new directory takes its place.
SwapIn(p) ==
    /\ proc[p].pc = "in"
    /\ \/ /\ Exists(Fresh(p)) /\ ~Exists(Dest(p))
          /\ dir' = Renamed(Fresh(p), Dest(p)) /\ Goto(p, "drop")
       \/ /\ ~Exists(Fresh(p)) \/ Exists(Dest(p)) \/ "disk" \in Faults
          /\ dir' = [x \in Place |-> IF Call(p).op = "copy" /\ x = Fresh(p) THEN None
                                     ELSE PutBack(p)[x]]
          /\ Over(p)
    /\ hist' = Dirty(p, File) /\ Unchanged

\* What it replaced is deleted.
DropOld(p) ==
    /\ proc[p].pc = "drop"
    /\ dir' = Removed({Spare(p)})
    /\ Over(p) /\ UNCHANGED hist /\ Unchanged

-----------------------------------------------------------------------------

\* A process is killed, and nothing it deferred is done.
Crash(p) ==
    /\ "crash" \in Faults /\ ~crashed /\ proc[p].pc \notin {"idle", "begin"}
    /\ crashed' = TRUE
    /\ Over(p)
    /\ UNCHANGED <<dir, clock, left, whole, hist>>

Step(p) ==
    \/ Begin(p) \/ EditFile(p) \/ WriteFile(p) \/ CreateTemp(p) \/ Rename(p) \/ RemoveCanvas(p)
    \/ CopyFile(p) \/ Copied(p) \/ BeginSnap(p) \/ Create(p)
    \/ Resolve(p) \/ Clear(p) \/ Restore(p) \/ CopyCanvas(p)
    \/ MoveAside(p) \/ SwapIn(p) \/ DropOld(p)

Next == \E p \in Proc : Step(p) \/ Crash(p)

Spec == Init /\ [][Next]_vars

-----------------------------------------------------------------------------
(* Properties.                                                             *)

\* The snapshots that `snaps' lists are finished, or will be by a process that
\* is at it: a snapshot that fails is taken away.
SnapshotsAreWhole ==
    crashed \/ \A c \in Canvas : \A n \in Snapshots(c) :
                  \/ snapshot(c, n) \in whole
                  \/ \E p \in Proc : proc[p].pc = "snap" /\ Mine(p) = snapshot(c, n)

\* Whatever a revert or a copy takes away can be had back: each file that it
\* moves aside is in the snapshot that the call took first, unless another
\* process wrote the file, or put back or replaced the canvas, in the meantime.
\* And no snapshot that is listed is a part of one (Create, RevertWithSafety).
Undoable ==
    /\ []SnapshotsAreWhole
    /\ [][\A p \in Proc :
            proc[p].pc = "out" /\ proc'[p].pc = "in" /\ Exists(Dest(p)) =>
               \A f \in File \ hist[p].dirty :
                   dir[Dest(p)][f] # None =>
                       /\ proc[p].stamp # 0 /\ Mine(p) \in whole
                       /\ dir[Mine(p)][f] = dir[Dest(p)][f]]_vars

\* An edit is the edits that it was asked for, all of them and in order, made in
\* contents that the file had.
EditIsWhole ==
    \A p \in Proc :
        proc[p].buf # None /\ Call(p).op = "edit" =>
            LET edits == Call(p).edits
                done == Replaced(proc[p].base, edits)
            IN  /\ proc[p].buf = done[Len(edits)]
                /\ \A i \in DOMAIN edits :
                      LET count == Count(done[i - 1], edits[i].old)
                      IN  count # 0 /\ (count > 1 => edits[i].all)

\* A revert that runs alone leaves the canvas what it was or, all of it, the
\* snapshot that was named or was the latest before the revert began, at
\* whatever step it fails.
RevertIsExact ==
    [][\A p \in Proc :
         LET c == Call(p).c
             asked == {n \in Snapshots(c) \ {proc[p].stamp} :
                          IF Call(p).name # 0 THEN n = Call(p).name
                          ELSE \A m \in Snapshots(c) \ {proc[p].stamp} : m <= n}
         IN  /\ proc[p].pc # "idle" /\ Call(p).op = "revert" /\ hist[p].alone
             /\ proc'[p].pc = "idle" /\ ~crashed'
             => dir'[live(c)] \in {hist[p].orig} \cup {dir[snapshot(c, n)] : n \in asked}]_vars

\* A call has its whole effect or none, whatever fails and whoever interferes with an
\* edit: no batch is written that stopped half way, and no revert leaves a mixture
\* (editFile, ApplyBatch, Revert).
WholeOrNothing == []EditIsWhole /\ RevertIsExact
=============================================================================

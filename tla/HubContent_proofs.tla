------------------------- MODULE HubContent_proofs -------------------------
(***************************************************************************)
(* For any canvases, files and requests: the locks exclude and no handlers *)
(* wait for each other; the handlers implement the atomic store            *)
(* as long as nothing changes a canvas without its lock; and whatever      *)
(* fails, and wherever the hub crashes, no files are lost that were        *)
(* acknowledged.                                                           *)
(***************************************************************************)
EXTENDS HubContent, SequenceTheorems, FiniteSetTheorems, TLAPS

-----------------------------------------------------------------------------
(* Directories. *)

LEMMA InDir ==
    ASSUME NEW F \in SUBSET File, NEW d \in [F -> SUBSET Req]
    PROVE  d \in Dir
  BY DEF Dir

LEMMA OfDir ==
    ASSUME NEW d \in Dir
    PROVE  DOMAIN d \in SUBSET File /\ d \in [DOMAIN d -> SUBSET Req] /\ d # Absent
  BY HubContentAssumption DEF Dir

LEMMA KnownDirs ==
    /\ EmptyDir \in Dir /\ Original \in Dir
    /\ \A r \in Req : [f \in File |-> {r}] \in Dir
    /\ \A f \in File, c \in SUBSET Req : [g \in {f} |-> c] \in Dir
<1>1. EmptyDir \in [{} -> SUBSET Req] /\ Original \in [File -> SUBSET Req]
  BY DEF EmptyDir, Original
<1>2. \A r \in Req : [f \in File |-> {r}] \in [File -> SUBSET Req]
  OBVIOUS
<1>3. \A f \in File, c \in SUBSET Req : [g \in {f} |-> c] \in [{f} -> SUBSET Req]
  OBVIOUS
<1>4. {} \in SUBSET File /\ File \in SUBSET File /\ \A f \in File : {f} \in SUBSET File
  OBVIOUS
<1> QED
  BY <1>1, <1>2, <1>3, <1>4, InDir

\* What Overlay adds to a directory covers what was there.
LEMMA OverlayDir ==
    ASSUME NEW new \in Dir, NEW d \in Dir
    PROVE  /\ Overlay(new, d) \in Dir
           /\ DOMAIN Overlay(new, d) = DOMAIN new \cup DOMAIN d
           /\ \A f \in DOMAIN new : Overlay(new, d)[f] = new[f]
           /\ \A f \in DOMAIN d \ DOMAIN new : Overlay(new, d)[f] = d[f]
<1>1. Overlay(new, d) \in [DOMAIN new \cup DOMAIN d -> SUBSET Req]
  BY OfDir DEF Overlay
<1>2. DOMAIN new \cup DOMAIN d \in SUBSET File
  BY OfDir
<1> QED
  BY <1>1, <1>2, InDir DEF Overlay

\* Two directories with the same files and contents are the same.
LEMMA SameDir ==
    ASSUME NEW a \in Dir, NEW b \in Dir, DOMAIN a = DOMAIN b, \A f \in DOMAIN a : a[f] = b[f]
    PROVE  a = b
  BY OfDir

-----------------------------------------------------------------------------
(* Where a request can be, and what it holds there. *)

Kinds(step) ==
    CASE step \in {"locking", "checking"} -> Kind \ {"create", "delete"}
      [] step \in {"locking2", "walking"} -> {"copy"}
      [] step = "snapping" -> {"copy", "snapshot", "revert"}
      [] step = "clearing" -> {"revert"}
      [] step \in {"aside", "swap", "dropping"} -> {"push", "copy", "revert"}
      [] step = "writing" -> {"put", "edit", "create"}
      [] step = "removing" -> {"delete"}
      [] OTHER -> Kind

Routed == \A r \in Req : pc[r] # "idle" =>
    op[r] \in Op /\ (op[r].from # op[r].id <=> op[r].kind = "copy") /\ op[r].kind \in Kinds(pc[r])

Both(r) == {op[r].from, op[r].id}
Holds(r) ==
    CASE pc[r] = "locking2" -> {firstKey(r)}
      [] pc[r] \in {"checking", "walking", "snapping", "clearing", "aside", "swap", "dropping"}
            -> Both(r)
      [] pc[r] = "writing" /\ op[r].kind # "create" -> Both(r)
      [] OTHER -> {}
Locked == \A r \in Req, i \in Canvas : lock[i] = r <=> i \in Holds(r)

Control == TypeOK /\ Routed /\ Locked

LEMMA KeysBoth ==
    ASSUME NEW r \in Req, op[r] \in Op
    PROVE  /\ Keys(r) = Both(r) /\ Both(r) \subseteq Canvas /\ Id(r) \in Both(r)
           /\ firstKey(r) \in Both(r) /\ \A i \in Both(r) : firstKey(r) <= i
           /\ op[r].from = op[r].id => Both(r) = {Id(r)} /\ firstKey(r) = Id(r)
<1>1. op[r].from \in Nat /\ op[r].id \in Nat /\ op[r].from \in Canvas /\ op[r].id \in Canvas
  BY HubContentAssumption DEF Op
<1>2. CASE op[r].from < op[r].id
  <2>1. firstKey(r) = op[r].from /\ op[r].from + op[r].id - firstKey(r) = op[r].id
    BY <1>1, <1>2 DEF firstKey
  <2> QED
    BY <1>1, <1>2, <2>1 DEF Keys, Both, Id
<1>3. CASE ~(op[r].from < op[r].id)
  <2>1. firstKey(r) = op[r].id /\ op[r].from + op[r].id - firstKey(r) = op[r].from
    BY <1>1, <1>3 DEF firstKey
  <2> QED
    BY <1>1, <1>3, <2>1 DEF Keys, Both, Id
<1> QED
  BY <1>2, <1>3

\* A request changes no other's state, no other's locks, and one canvas.
Frame(r) ==
    /\ \A q \in Req \ {r} :
          /\ pc'[q] = pc[q] /\ op'[q] = op[q] /\ staged'[q] = staged[q]
          /\ tree'[q] = tree[q] /\ todo'[q] = todo[q]
          /\ \A i \in Canvas : lock'[i] = q <=> lock[i] = q
    /\ \A i \in Canvas : i # Id(r) =>
          /\ live'[i] = live[i] /\ aside'[i] = aside[i] /\ orphans'[i] = orphans[i]
          /\ snaps'[i] = snaps[i] /\ ack'[i] = ack[i]

LEMMA FinishFrame ==
    ASSUME TypeOK, NEW r \in Req, Finish(r)
    PROVE  /\ pc' = [pc EXCEPT ![r] = "done"] /\ pc' \in [Req -> Step] /\ op' = op
           /\ lock' \in [Canvas -> Req \cup {None}]
           /\ \A i \in Canvas : lock'[i] # r /\ \A q \in Req \ {r} : lock'[i] = q <=> lock[i] = q
           /\ staged' \in [Req -> Dir] /\ tree' \in [Req -> Dir] /\ todo' \in [Req -> SUBSET File]
           /\ \A q \in Req \ {r} :
                 pc'[q] = pc[q] /\ staged'[q] = staged[q] /\ tree'[q] = tree[q] /\ todo'[q] = todo[q]
<1>1. /\ pc' = [pc EXCEPT ![r] = "done"] /\ op' = op
      /\ lock' = [i \in Canvas |-> IF lock[i] = r THEN None ELSE lock[i]]
      /\ staged' = [staged EXCEPT ![r] = EmptyDir] /\ tree' = [tree EXCEPT ![r] = EmptyDir]
      /\ todo' = [todo EXCEPT ![r] = {}]
  BY DEF Finish, Goto
<1>2. /\ pc' \in [Req -> Step] /\ staged' \in [Req -> Dir] /\ tree' \in [Req -> Dir]
      /\ todo' \in [Req -> SUBSET File] /\ lock' \in [Canvas -> Req \cup {None}]
  BY <1>1, KnownDirs DEF TypeOK, Step
<1>3. \A i \in Canvas : lock'[i] # r /\ \A q \in Req \ {r} : lock'[i] = q <=> lock[i] = q
  BY <1>1, HubContentAssumption
<1> QED
  BY <1>1, <1>2, <1>3 DEF TypeOK

LEMMA WalkStarts ==
    ASSUME TypeOK, NEW r \in Req, NEW d \in Dir, StartWalk(r, d)
    PROVE  /\ tree' = [tree EXCEPT ![r] = EmptyDir] /\ tree' \in [Req -> Dir]
           /\ todo' = [todo EXCEPT ![r] = DOMAIN d] /\ todo' \in [Req -> SUBSET File]
  BY KnownDirs, OfDir DEF StartWalk, TypeOK

\* What every step of a request leaves alone.
LEMMA BeginFrame ==
    ASSUME TypeOK, NEW r \in Req, Begin(r)
    PROVE  Frame(r)
  BY DEF TypeOK, Begin, Goto, Frame, dirVars, walkVars

LEMMA ServeFrame ==
    ASSUME TypeOK, NEW r \in Req, Serve(r)
    PROVE  Frame(r)
<1>1. CASE Lock(r) \/ LockSecond(r)
  <2>1. \E key \in Canvas \cup Keys(r) \cup {firstKey(r)} :
            lock[key] = None /\ lock' = [lock EXCEPT ![key] = r]
    BY <1>1 DEF Lock, LockSecond
  <2>2. \A q \in Req \ {r}, i \in Canvas : lock'[i] = q <=> lock[i] = q
    BY <2>1, HubContentAssumption DEF TypeOK
  <2> QED
    BY <1>1, <2>2 DEF TypeOK, Lock, LockSecond, Goto, Frame, dirVars, walkVars
<1>2. CASE IOError(r) \/ WalkGone(r)
  BY <1>2, FinishFrame DEF IOError, WalkGone, Refuse, Frame, dirVars
<1>3. CASE PushStat(r) \/ WalkFile(r)
  BY <1>3 DEF TypeOK, PushStat, WalkFile, Goto, Frame, dirVars, walkVars
<1>4. CASE CopyStat(r) \/ SnapshotStat(r) \/ RevertResolve(r) \/ PutStat(r) \/ EditRead(r) \/ CopyStaged(r)
  <2>1. CASE Refuse(r)
    BY <2>1, FinishFrame DEF Refuse, Frame, dirVars
  <2>2. CASE ~Refuse(r)
    BY <1>4, <2>2 DEF TypeOK, CopyStat, SnapshotStat, RevertResolve, PutStat, EditRead, CopyStaged,
                      StartWalk, Goto, Frame, dirVars, walkVars
  <2> QED
    BY <2>1, <2>2
<1>5. CASE SnapshotDone(r)
  <2>1. \A i \in Canvas : i # Id(r) => snaps'[i] = snaps[i]
    BY <1>5 DEF SnapshotDone, TypeOK
  <2>2. CASE Finish(r)
    BY <1>5, <2>1, <2>2, FinishFrame DEF SnapshotDone, Frame, dirVars
  <2>3. CASE ~Finish(r)
    BY <1>5, <2>1, <2>3 DEF TypeOK, SnapshotDone, Goto, Frame, dirVars, walkVars
  <2> QED
    BY <2>2, <2>3
<1>6. CASE ClearStale(r)
  BY <1>6 DEF TypeOK, ClearStale, Goto, Frame, walkVars
<1>7. CASE MoveAside(r)
  <2>1. CASE Refuse(r)
    BY <2>1, FinishFrame DEF Refuse, Frame, dirVars
  <2>2. CASE ~Refuse(r)
    BY <1>7, <2>2 DEF TypeOK, MoveAside, Goto, Frame, walkVars
  <2> QED
    BY <2>1, <2>2
<1>8. CASE SwapIn(r)
  <2>1. \A i \in Canvas : i # Id(r) => live'[i] = live[i] /\ ack'[i] = ack[i]
    BY <1>8 DEF SwapIn, TypeOK
  <2>2. CASE Finish(r)
    BY <1>8, <2>1, <2>2, FinishFrame DEF SwapIn, Frame
  <2>3. CASE ~Finish(r)
    BY <1>8, <2>1, <2>3 DEF TypeOK, SwapIn, Goto, Frame, walkVars
  <2> QED
    BY <2>2, <2>3
<1>9. CASE SwapFails(r) \/ DropAside(r)
  <2>1. /\ \A i \in Canvas : i # Id(r) => live'[i] = live[i] /\ aside'[i] = aside[i] /\ orphans'[i] = orphans[i]
        /\ Finish(r) /\ UNCHANGED <<ack, snaps>>
    BY <1>9 DEF SwapFails, DropAside, TypeOK
  <2> QED
    BY <2>1, FinishFrame DEF Frame
<1>10. CASE WriteFile(r) \/ Create(r) \/ Delete(r)
  <2>1. CASE Refuse(r)
    BY <2>1, FinishFrame DEF Refuse, Frame, dirVars
  <2>2. CASE ~Refuse(r)
    <3>1. /\ \A i \in Canvas : i # Id(r) => live'[i] = live[i] /\ ack'[i] = ack[i]
          /\ Finish(r) /\ UNCHANGED <<aside, orphans, snaps>>
      BY <1>10, <2>2 DEF WriteFile, Create, Delete, TypeOK
    <3> QED
      BY <3>1, FinishFrame DEF Frame
  <2> QED
    BY <2>1, <2>2
<1> QED
  BY <1>1, <1>2, <1>3, <1>4, <1>5, <1>6, <1>7, <1>8, <1>9, <1>10 DEF Serve

AsideHeld == \A i \in Canvas : aside[i] # Absent =>
    lock[i] # None /\ pc[lock[i]] \in {"swap", "dropping"} /\ Id(lock[i]) = i

\* The handler at the end: nothing held, nothing staged.
LEMMA FinishControl ==
    ASSUME Control, NEW r \in Req, pc[r] # "idle", Finish(r)
    PROVE  /\ pc' \in [Req -> Step] /\ op' \in [Req -> Op \cup {None}]
           /\ lock' \in [Canvas -> Req \cup {None}]
           /\ staged' \in [Req -> Dir] /\ tree' \in [Req -> Dir] /\ todo' \in [Req -> SUBSET File]
           /\ Routed' /\ Locked'
<1>1. TypeOK
  BY DEF Control
<1>2. pc'[r] = "done" /\ \A q \in Req : op'[q] = op[q] /\ (q # r => pc'[q] = pc[q])
  BY <1>1, FinishFrame DEF TypeOK
<1>3. Routed'
  BY <1>2 DEF Control, Routed, Kinds, Op
<1>4. Holds(r)' = {} /\ \A q \in Req \ {r} : Holds(q)' = Holds(q)
  BY <1>1, <1>2, FinishFrame DEF Holds, Both, firstKey
<1>5. Locked'
  BY <1>1, <1>4, FinishFrame DEF Control, Locked
<1> QED
  BY <1>1, <1>3, <1>5, FinishFrame DEF TypeOK

\* A step within the handler, with the locks it has.
LEMMA MoveControl ==
    ASSUME Control, NEW r \in Req, Frame(r), UNCHANGED lock,
           pc' \in [Req -> Step], op' \in [Req -> Op \cup {None}],
           pc[r] # "idle", op'[r] \in Op, op'[r].kind = op[r].kind,
           op'[r].from = op[r].from, op'[r].id = op[r].id,
           op[r].kind \in Kinds(pc'[r]),
           Holds(r)' = Holds(r)
    PROVE  Routed' /\ Locked'
<1>1. Routed'
  BY DEF Control, Routed, Frame
<1>2. \A q \in Req \ {r} : Holds(q)' = Holds(q)
  BY DEF Frame, Holds, Both, firstKey
<1>3. Locked'
  BY <1>2 DEF Control, Locked
<1> QED
  BY <1>1, <1>3

LEMMA BeginControl ==
    ASSUME Control, NEW r \in Req, Begin(r), UNCHANGED may
    PROVE  Control'
<1>1. TypeOK
  BY DEF Control
<1>2. PICK o \in Op :
         /\ o.from # o.id <=> o.kind = "copy"
         /\ op' = [op EXCEPT ![r] = o]
         /\ staged' = IF o.kind = "push" THEN [staged EXCEPT ![r] = [f \in File |-> {r}]] ELSE staged
         /\ Goto(r, CASE o.kind = "delete" -> "removing"
                      [] o.kind = "create" -> "writing"
                      [] OTHER -> "locking")
  BY DEF Begin
<1>3. pc[r] = "idle" /\ UNCHANGED <<dirVars, snaps, lock, walkVars>>
  BY DEF Begin
<1>4. /\ pc' = [pc EXCEPT ![r] = pc'[r]] /\ pc'[r] \in {"removing", "writing", "locking"}
      /\ op'[r] = o /\ o.kind \in Kinds(pc'[r])
      /\ pc'[r] = "writing" => o.kind = "create"
  BY <1>1, <1>2 DEF TypeOK, Goto, Kinds, Op, Kind
<1>5. TypeOK'
  <2>1. staged' \in [Req -> Dir]
    BY <1>1, <1>2, KnownDirs DEF TypeOK
  <2>2. pc' \in [Req -> Step] /\ op' \in [Req -> Op \cup {None}]
    <3>1. pc' \in [Req -> Step]
      BY <1>1, <1>4 DEF TypeOK, Step
    <3>2. op' \in [Req -> Op \cup {None}]
      BY <1>1, <1>2 DEF TypeOK
    <3> QED
      BY <3>1, <3>2
  <2>3. AsideHeld'
    BY <1>1, <1>2, <1>3, <1>4 DEF AsideHeld, TypeOK, Id, dirVars
  <2> QED
    BY <1>1, <1>3, <2>1, <2>2, <2>3 DEF TypeOK, AsideHeld, dirVars, walkVars
<1>6. Frame(r)
  BY <1>1, BeginFrame
<1>7. Routed'
  BY <1>2, <1>4, <1>6 DEF Control, Routed, Frame
<1>8. Holds(r) = {} /\ Holds(r)' = {} /\ \A q \in Req \ {r} : Holds(q)' = Holds(q)
  BY <1>3, <1>4, <1>6 DEF Holds, Frame, Both, firstKey
<1>9. Locked'
  BY <1>3, <1>8 DEF Control, Locked
<1> QED
  BY <1>5, <1>7, <1>9 DEF Control

LEMMA LockControl ==
    ASSUME Control, NEW r \in Req, Lock(r) \/ LockSecond(r), UNCHANGED may
    PROVE  Control'
<1>1. TypeOK /\ Frame(r)
  BY ServeFrame DEF Control, Serve
<1>2. op[r] \in Op /\ op[r].kind \in Kinds(pc[r]) /\ (op[r].from # op[r].id <=> op[r].kind = "copy")
  BY DEF Control, Routed, Lock, LockSecond
<1>3. UNCHANGED <<dirVars, snaps, op, staged, walkVars>>
  BY DEF Lock, LockSecond
<1>4. PICK key \in Canvas : /\ lock[key] = None /\ lock' = [lock EXCEPT ![key] = r]
                            /\ Holds(r)' = Holds(r) \cup {key}
                            /\ pc' \in [Req -> Step] /\ op[r].kind \in Kinds(pc'[r])
                            /\ pc'[r] \in {"locking2", "checking"}
  <2>1. CASE Lock(r)
    <3>1. firstKey(r) \in Canvas /\ firstKey(r)' = firstKey(r) /\ Both(r)' = Both(r)
      BY <1>2, <1>3, KeysBoth DEF firstKey, Both
    <3>2. /\ pc[r] = "locking" /\ lock[firstKey(r)] = None /\ lock' = [lock EXCEPT ![firstKey(r)] = r]
          /\ pc' \in [Req -> Step]
          /\ pc'[r] = IF op[r].kind = "copy" THEN "locking2" ELSE "checking"
      BY <1>1, <2>1 DEF Lock, Goto, TypeOK, Step
    <3>3. Holds(r) = {} /\ Holds(r)' = {firstKey(r)}
      BY <1>2, <3>1, <3>2, KeysBoth DEF Holds
    <3>4. op[r].kind \in Kinds(pc'[r])
      BY <1>2, <3>2 DEF Kinds
    <3> QED
      BY <3>1, <3>2, <3>3, <3>4
  <2>2. CASE LockSecond(r)
    <3>1. PICK key \in Keys(r) \ {firstKey(r)} : lock[key] = None /\ lock' = [lock EXCEPT ![key] = r]
      BY <2>2 DEF LockSecond
    <3>2. key \in Canvas /\ Both(r) = {firstKey(r), key} /\ firstKey(r)' = firstKey(r) /\ Both(r)' = Both(r)
      BY <1>2, <1>3, <3>1, KeysBoth DEF firstKey, Both
    <3>3. pc[r] = "locking2" /\ pc' \in [Req -> Step] /\ pc'[r] = "checking"
      BY <1>1, <2>2 DEF LockSecond, Goto, TypeOK, Step
    <3>4. Holds(r) = {firstKey(r)} /\ Holds(r)' = {firstKey(r), key}
      BY <3>2, <3>3 DEF Holds
    <3>5. op[r].kind \in Kinds(pc'[r])
      BY <1>2, <3>3 DEF Kinds, Kind
    <3> QED
      BY <3>1, <3>2, <3>3, <3>4, <3>5
  <2> QED
    BY <2>1, <2>2
<1>5. Routed'
  BY <1>1, <1>2, <1>3, <1>4 DEF Control, Routed, Frame
<1>6. Locked'
  <2>1. \A q \in Req \ {r} : Holds(q)' = Holds(q)
    BY <1>1 DEF Frame, Holds, Both, firstKey
  <2>2. \A i \in Canvas : lock'[i] = r <=> i \in Holds(r)'
    BY <1>1, <1>4, HubContentAssumption DEF Control, Locked, TypeOK
  <2> QED
    BY <1>1, <2>1, <2>2 DEF Control, Locked, Frame
<1>7. TypeOK'
  <2>1. lock' \in [Canvas -> Req \cup {None}]
    BY <1>1, <1>4 DEF TypeOK
  <2>2. AsideHeld'
    <3>1. \A i \in Canvas : aside[i] # Absent => i # key /\ lock[i] # r
      BY <1>1, <1>4 DEF TypeOK, Lock, LockSecond
    <3> QED
      BY <1>1, <1>3, <1>4, <3>1 DEF AsideHeld, TypeOK, Frame, Id, dirVars
  <2> QED
    BY <1>1, <1>3, <1>4, <2>1, <2>2 DEF TypeOK, AsideHeld, dirVars, walkVars
<1> QED
  BY <1>5, <1>6, <1>7 DEF Control

\* No request in the middle of a swap moves.
LEMMA AsideQuiet ==
    ASSUME Control, NEW r \in Req, Frame(r), pc[r] \notin {"swap", "dropping"}, UNCHANGED aside
    PROVE  AsideHeld'
<1> SUFFICES ASSUME NEW i \in Canvas, aside[i] # Absent
             PROVE  lock'[i] # None /\ pc'[lock'[i]] \in {"swap", "dropping"} /\ op'[lock'[i]].id = i
  BY DEF AsideHeld, Id
<1>1. lock[i] \in Req \ {r} /\ pc[lock[i]] \in {"swap", "dropping"} /\ Id(lock[i]) = i
  BY DEF Control, TypeOK
<1>2. lock'[i] = lock[i]
  BY <1>1 DEF Frame
<1> QED
  BY <1>1, <1>2, HubContentAssumption DEF Frame, Id

\* Steps that look, copy and snapshot.
LEMMA LookControl ==
    ASSUME Control, NEW r \in Req, ~Finish(r), UNCHANGED may,
           \/ PushStat(r) \/ CopyStat(r) \/ SnapshotStat(r) \/ RevertResolve(r) \/ PutStat(r)
           \/ EditRead(r) \/ WalkFile(r) \/ CopyStaged(r) \/ SnapshotDone(r) \/ ClearStale(r)
    PROVE  Control'
<1>1. TypeOK /\ Frame(r)
  BY ServeFrame DEF Control, Serve
<1>2. /\ UNCHANGED <<lock, live, aside, ack>>
      /\ pc[r] \in {"checking", "walking", "snapping", "clearing"}
  <2>1. CASE PushStat(r) \/ CopyStat(r) \/ SnapshotStat(r) \/ RevertResolve(r)
    BY <2>1 DEF PushStat, CopyStat, SnapshotStat, RevertResolve, Refuse, dirVars
  <2>2. CASE PutStat(r) \/ EditRead(r) \/ WalkFile(r)
    BY <2>2 DEF PutStat, EditRead, WalkFile, Walking, Refuse, dirVars
  <2>3. CASE CopyStaged(r) \/ SnapshotDone(r) \/ ClearStale(r)
    BY <2>3 DEF CopyStaged, SnapshotDone, ClearStale, Refuse, dirVars
  <2> QED
    BY <2>1, <2>2, <2>3
<1>3. /\ op[r] \in Op /\ op[r].kind \in Kinds(pc[r]) /\ (op[r].from # op[r].id <=> op[r].kind = "copy")
      /\ Id(r) \in Canvas /\ op[r].from \in Canvas
  BY <1>2 DEF Control, Routed, Op, Id
<1>4. op' \in [Req -> Op \cup {None}] /\ op'[r] \in Op
      /\ op'[r].kind = op[r].kind /\ op'[r].from = op[r].from /\ op'[r].id = op[r].id
  <2>1. \A b \in BOOLEAN : [op[r] EXCEPT !.exists = b] \in Op
    BY <1>3 DEF Op
  <2>2. CASE UNCHANGED op
    BY <1>1, <1>3, <2>2 DEF TypeOK
  <2>3. CASE op' = [op EXCEPT ![r].exists = live[Id(r)] # Absent]
    BY <1>1, <1>3, <2>1, <2>3 DEF TypeOK, Op
  <2> QED
    BY <2>2, <2>3 DEF PushStat, CopyStat, SnapshotStat, RevertResolve, PutStat, EditRead, WalkFile,
                      CopyStaged, SnapshotDone, ClearStale, Refuse
<1>5. /\ pc' \in [Req -> Step] /\ op[r].kind \in Kinds(pc'[r])
      /\ pc'[r] \in {"walking", "snapping", "clearing", "aside", "swap", "writing"}
      /\ pc'[r] = "writing" => op[r].kind # "create"
  <2>1. /\ pc' \in [Req -> Step] /\ op[r].kind \in Kinds(pc'[r])
        /\ pc'[r] \in {"walking", "snapping", "clearing", "aside", "swap", "writing"}
        /\ pc'[r] = "writing" => op[r].kind # "create"
    <3>1. CASE PushStat(r)
      BY <1>1, <1>3, <3>1 DEF PushStat, Goto, TypeOK, Step, Kinds
    <3>2. CASE CopyStat(r)
      BY <1>1, <1>3, <3>2 DEF CopyStat, Refuse, Goto, TypeOK, Step, Kinds
    <3>3. CASE SnapshotStat(r) \/ RevertResolve(r)
      BY <1>1, <1>3, <3>3 DEF SnapshotStat, RevertResolve, Refuse, Goto, TypeOK, Step, Kinds
    <3>4. CASE PutStat(r) \/ EditRead(r)
      BY <1>1, <1>3, <3>4 DEF PutStat, EditRead, Refuse, Goto, TypeOK, Step, Kinds
    <3>5. CASE WalkFile(r)
      BY <1>1, <1>3, <3>5 DEF WalkFile, Walking, TypeOK, Step, Kinds
    <3>6. CASE CopyStaged(r)
      BY <1>1, <1>3, <3>6 DEF CopyStaged, Refuse, Goto, TypeOK, Step, Kinds
    <3>7. CASE SnapshotDone(r)
      <4>1. /\ op[r].kind \in {"copy", "revert"} /\ pc[r] = "snapping"
            /\ pc' = [pc EXCEPT ![r] = IF op[r].kind = "revert" THEN "clearing" ELSE "aside"]
        BY <1>1, <1>3, <3>7 DEF SnapshotDone, Goto, Kinds
      <4> QED
        BY <1>1, <4>1 DEF TypeOK, Step, Kinds
    <3>8. CASE ClearStale(r)
      BY <1>1, <1>3, <3>8 DEF ClearStale, Goto, TypeOK, Step, Kinds
    <3> QED
      BY <3>1, <3>2, <3>3, <3>4, <3>5, <3>6, <3>7, <3>8
  <2> QED
    BY <1>1, <2>1 DEF TypeOK
<1>6. Holds(r)' = Holds(r)
  BY <1>2, <1>4, <1>5 DEF Holds, Both
<1>7. Routed' /\ Locked'
  BY <1>1, <1>2, <1>3, <1>4, <1>5, <1>6, MoveControl
<1>8. staged' \in [Req -> Dir] /\ tree' \in [Req -> Dir] /\ todo' \in [Req -> SUBSET File]
  <2>1. CASE PushStat(r) \/ ClearStale(r) \/ SnapshotDone(r)
    BY <1>1, <2>1 DEF PushStat, ClearStale, SnapshotDone, walkVars, TypeOK
  <2>2. CASE CopyStat(r) \/ SnapshotStat(r)
    BY <1>1, <1>3, <2>2, WalkStarts DEF CopyStat, SnapshotStat, Refuse, TypeOK
  <2>3. CASE RevertResolve(r)
    <3>1. \A k \in DOMAIN snaps[Id(r)] : snaps[Id(r)][k] \in Dir
      BY <1>1, <1>3 DEF TypeOK
    <3>2. staged' \in [Req -> Dir]
      BY <1>1, <2>3, <3>1 DEF RevertResolve, Refuse, TypeOK
    <3>3. tree' \in [Req -> Dir] /\ todo' \in [Req -> SUBSET File]
      BY <1>1, <1>3, <2>3, WalkStarts DEF RevertResolve, Refuse, TypeOK, walkVars
    <3> QED
      BY <3>2, <3>3
  <2>4. CASE PutStat(r)
    <3>1. PICK f \in File : staged' = [staged EXCEPT ![r] = [g \in {f} |-> {r}]]
      BY <2>4 DEF PutStat, Refuse
    <3>2. [g \in {f} |-> {r}] \in Dir
      BY KnownDirs
    <3> QED
      BY <1>1, <2>4, <3>1, <3>2 DEF PutStat, Refuse, TypeOK, walkVars
  <2>5. CASE EditRead(r)
    <3>1. live[Id(r)] # Absent /\ live[Id(r)] \in Dir
      BY <1>1, <1>3, <2>5 DEF EditRead, Refuse, TypeOK
    <3>2. \A f \in DOMAIN live[Id(r)] : f \in File /\ live[Id(r)][f] \cup {r} \in SUBSET Req
      BY <3>1, OfDir
    <3>3. PICK f \in DOMAIN live[Id(r)] :
            staged' = [staged EXCEPT ![r] = [g \in {f} |-> live[Id(r)][f] \cup {r}]]
      BY <2>5 DEF EditRead, Refuse
    <3>4. [g \in {f} |-> live[Id(r)][f] \cup {r}] \in Dir
      BY <3>2, KnownDirs
    <3> QED
      BY <1>1, <2>5, <3>3, <3>4 DEF EditRead, Refuse, TypeOK, walkVars
  <2>6. CASE WalkFile(r)
    <3>1. PICK f \in todo[r] :
            /\ Has(live[Source(r)], f)
            /\ tree' = [tree EXCEPT ![r] = Overlay([g \in {f} |-> live[Source(r)][f]], @)]
            /\ todo' = [todo EXCEPT ![r] = @ \ {f}]
      BY <2>6 DEF WalkFile
    <3>2. live[Source(r)] \in Dir /\ f \in File /\ live[Source(r)][f] \in SUBSET Req
      BY <1>1, <1>3, <3>1, OfDir DEF Has, Source, TypeOK
    <3>3. Overlay([g \in {f} |-> live[Source(r)][f]], tree[r]) \in Dir
      BY <1>1, <3>2, KnownDirs, OverlayDir DEF TypeOK
    <3> QED
      BY <1>1, <2>6, <3>1, <3>3 DEF TypeOK, WalkFile
  <2>7. CASE CopyStaged(r)
    <3>1. op[r].exists => live[Id(r)] \in Dir
      BY <1>1, <1>3, <2>7 DEF CopyStaged, Refuse, TypeOK
    <3>2. tree' \in [Req -> Dir] /\ todo' \in [Req -> SUBSET File]
      BY <1>1, <2>7, <3>1, WalkStarts DEF CopyStaged, Refuse, TypeOK, walkVars
    <3>3. staged' \in [Req -> Dir]
      BY <1>1, <2>7 DEF CopyStaged, Refuse, TypeOK
    <3> QED
      BY <3>2, <3>3
  <2> QED
    BY <2>1, <2>2, <2>3, <2>4, <2>5, <2>6, <2>7
<1>9. snaps' \in [Canvas -> Seq(Dir)] /\ orphans' \in [Canvas -> SUBSET [dir : Dir, revert : BOOLEAN]]
  <2>1. CASE SnapshotDone(r)
    <3>1. Append(snaps[Id(r)], tree[r]) \in Seq(Dir)
      BY <1>1, <1>3, AppendProperties DEF TypeOK
    <3> QED
      BY <1>1, <2>1, <3>1 DEF SnapshotDone, TypeOK, dirVars
  <2>2. CASE ClearStale(r)
    BY <1>1, <2>2 DEF ClearStale, TypeOK
  <2> QED
    BY <1>1, <2>1, <2>2 DEF TypeOK, PushStat, CopyStat, SnapshotStat, RevertResolve, PutStat, EditRead,
         WalkFile, CopyStaged, Refuse, dirVars
<1>10. AsideHeld'
  BY <1>1, <1>2, AsideQuiet
<1> QED
  BY <1>1, <1>2, <1>4, <1>5, <1>7, <1>8, <1>9, <1>10 DEF Control, TypeOK, AsideHeld

\* The handler gives up, having changed nothing.
LEMMA RefuseControl ==
    ASSUME Control, NEW r \in Req, pc[r] \notin {"idle", "swap", "dropping"}, Refuse(r), UNCHANGED may
    PROVE  Control' /\ UNCHANGED <<dirVars, snaps>>
<1>1. Finish(r) /\ UNCHANGED <<dirVars, snaps>>
  BY DEF Refuse
<1>2. Frame(r)
  BY <1>1, FinishFrame DEF Control, Frame, dirVars
<1>3. AsideHeld'
  BY <1>1, <1>2, AsideQuiet DEF dirVars
<1> QED
  BY <1>1, <1>3, FinishControl DEF Control, TypeOK, AsideHeld, dirVars

\* A handler that holds the only lock on what it has changed, and ends.
LEMMA EndControl ==
    ASSUME Control, NEW r \in Req, pc[r] # "idle", Finish(r), Frame(r), UNCHANGED <<may, snaps>>,
           live' \in [Canvas -> Dir \cup {Absent}], aside' \in [Canvas -> Dir \cup {Absent}],
           ack' \in [Canvas -> Dir \cup {Absent}],
           orphans' \in [Canvas -> SUBSET [dir : Dir, revert : BOOLEAN]],
           \A i \in Canvas : aside'[i] # Absent => aside[i] # Absent /\ lock[i] # r
    PROVE  Control'
<1>1. \A i \in Canvas : aside[i] # Absent =>
          lock[i] \in Req /\ pc[lock[i]] \in {"swap", "dropping"} /\ Id(lock[i]) = i
  BY DEF Control, TypeOK
<1>2. AsideHeld'
  <2> SUFFICES ASSUME NEW i \in Canvas, aside'[i] # Absent
               PROVE  lock'[i] # None /\ pc'[lock'[i]] \in {"swap", "dropping"} /\ op'[lock'[i]].id = i
    BY DEF AsideHeld, Id
  <2>1. lock[i] \in Req \ {r} /\ pc[lock[i]] \in {"swap", "dropping"} /\ op[lock[i]].id = i
    BY <1>1 DEF Id
  <2>2. lock'[i] = lock[i]
    BY <2>1 DEF Frame
  <2> QED
    BY <2>1, <2>2, HubContentAssumption DEF Frame
<1> QED
  BY <1>2, FinishControl DEF Control, TypeOK, AsideHeld

LEMMA SwapControl ==
    ASSUME Control, NEW r \in Req, UNCHANGED may,
           MoveAside(r) \/ SwapIn(r) \/ SwapFails(r) \/ DropAside(r)
    PROVE  Control'
<1>1. TypeOK /\ Frame(r)
  BY ServeFrame DEF Control, Serve
<1>2. pc[r] \in {"aside", "swap", "dropping"} /\ op[r] \in Op /\ op[r].kind \in {"push", "copy", "revert"}
      /\ Id(r) \in Canvas /\ lock[Id(r)] = r
  <2>1. pc[r] \in {"aside", "swap", "dropping"}
    BY DEF MoveAside, SwapIn, SwapFails, DropAside
  <2>2. op[r] \in Op /\ op[r].kind \in {"push", "copy", "revert"}
    BY <2>1 DEF Control, Routed, Kinds
  <2>3. Id(r) \in Canvas /\ Id(r) \in Holds(r)
    BY <2>1, <2>2 DEF Op, Id, Holds, Both
  <2> QED
    BY <2>1, <2>2, <2>3 DEF Control, Locked
<1>3. \A i \in Canvas : aside[i] # Absent /\ lock[i] = r => i = Id(r)
  BY <1>1, HubContentAssumption DEF TypeOK
<1>4. CASE MoveAside(r)
  <2>1. CASE Refuse(r)
    BY <1>4, <2>1, RefuseControl DEF MoveAside
  <2>2. CASE ~Refuse(r)
    <3>1. /\ pc[r] = "aside" /\ pc' = [pc EXCEPT ![r] = "swap"]
          /\ aside' = [aside EXCEPT ![Id(r)] = live[Id(r)]]
          /\ live' = [live EXCEPT ![Id(r)] = Absent]
          /\ UNCHANGED <<orphans, ack, snaps, lock, op, staged, walkVars>>
      BY <1>4, <2>2 DEF MoveAside, Goto
    <3>2. pc' \in [Req -> Step] /\ pc'[r] = "swap"
      BY <1>1, <3>1 DEF TypeOK, Step
    <3>3. Holds(r)' = Holds(r)
      BY <3>1, <3>2 DEF Holds, Both
    <3>4. Routed' /\ Locked'
      BY <1>1, <1>2, <3>1, <3>2, <3>3, MoveControl DEF TypeOK, Kinds
    <3>5. AsideHeld'
      <4> SUFFICES ASSUME NEW i \in Canvas, aside'[i] # Absent
                   PROVE  lock'[i] # None /\ pc'[lock'[i]] \in {"swap", "dropping"}
                          /\ op'[lock'[i]].id = i
        BY DEF AsideHeld, Id
      <4>1. CASE i = Id(r)
        BY <1>2, <3>1, <3>2, <4>1, HubContentAssumption DEF Id
      <4>2. CASE i # Id(r)
        <5>1. aside[i] # Absent /\ lock[i] # None /\ pc[lock[i]] \in {"swap", "dropping"} /\ Id(lock[i]) = i
          BY <1>1, <3>1, <4>2 DEF TypeOK
        <5>2. lock[i] \in Req \ {r}
          BY <1>1, <4>2, <5>1 DEF TypeOK
        <5> QED
          BY <1>1, <3>1, <5>1, <5>2 DEF Frame, Id
      <4> QED
        BY <4>1, <4>2
    <3> QED
      BY <1>1, <1>2, <3>1, <3>2, <3>4, <3>5 DEF Control, TypeOK, AsideHeld, walkVars
  <2> QED
    BY <2>1, <2>2
<1>5. CASE SwapIn(r)
  <2>1. /\ pc[r] = "swap" /\ live' = [live EXCEPT ![Id(r)] = staged[r]]
        /\ ack' = [ack EXCEPT ![Id(r)] = staged[r]] /\ UNCHANGED <<aside, orphans, snaps>>
    BY <1>5 DEF SwapIn
  <2>2. live' \in [Canvas -> Dir \cup {Absent}] /\ ack' \in [Canvas -> Dir \cup {Absent}]
    BY <1>1, <1>2, <2>1 DEF TypeOK
  <2>3. CASE aside[Id(r)] # Absent
    <3>1. pc' = [pc EXCEPT ![r] = "dropping"] /\ UNCHANGED <<lock, op, staged, walkVars>>
      BY <1>5, <2>3 DEF SwapIn, Goto
    <3>2. pc' \in [Req -> Step] /\ pc'[r] = "dropping"
      BY <1>1, <3>1 DEF TypeOK, Step
    <3>3. Holds(r)' = Holds(r)
      BY <2>1, <3>1, <3>2 DEF Holds, Both
    <3>4. Routed' /\ Locked'
      BY <1>1, <1>2, <2>1, <3>1, <3>2, <3>3, MoveControl DEF TypeOK, Kinds
    <3>5. AsideHeld'
      BY <1>1, <1>2, <2>1, <3>1, <3>2 DEF TypeOK, AsideHeld, Id
    <3> QED
      BY <1>1, <2>1, <2>2, <3>1, <3>2, <3>4, <3>5 DEF Control, TypeOK, AsideHeld, walkVars
  <2>4. CASE aside[Id(r)] = Absent
    <3>1. Finish(r)
      BY <1>5, <2>4 DEF SwapIn
    <3> QED
      BY <1>1, <1>2, <1>3, <2>1, <2>2, <2>4, <3>1, EndControl DEF TypeOK
  <2> QED
    BY <2>3, <2>4
<1>6. CASE SwapFails(r) \/ DropAside(r)
  <2>1. /\ Finish(r) /\ UNCHANGED <<ack, snaps>> /\ aside' = [aside EXCEPT ![Id(r)] = Absent]
        /\ \/ UNCHANGED live
           \/ aside[Id(r)] # Absent /\ live' = [live EXCEPT ![Id(r)] = aside[Id(r)]]
        /\ \/ UNCHANGED orphans
           \/ /\ aside[Id(r)] # Absent
              /\ orphans' = [orphans EXCEPT ![Id(r)] =
                    @ \cup {[dir |-> aside[Id(r)], revert |-> op[r].kind = "revert"]}]
    BY <1>6 DEF SwapFails, DropAside
  <2>2. aside' \in [Canvas -> Dir \cup {Absent}] /\ live' \in [Canvas -> Dir \cup {Absent}]
    BY <1>1, <1>2, <2>1 DEF TypeOK
  <2>3. orphans' \in [Canvas -> SUBSET [dir : Dir, revert : BOOLEAN]]
    <3>1. aside[Id(r)] # Absent =>
             [dir |-> aside[Id(r)], revert |-> op[r].kind = "revert"] \in [dir : Dir, revert : BOOLEAN]
      BY <1>1, <1>2 DEF TypeOK
    <3>2. CASE UNCHANGED orphans
      BY <1>1, <3>2 DEF TypeOK
    <3>3. CASE /\ aside[Id(r)] # Absent
               /\ orphans' = [orphans EXCEPT ![Id(r)] =
                     @ \cup {[dir |-> aside[Id(r)], revert |-> op[r].kind = "revert"]}]
      <4>1. orphans[Id(r)] \cup {[dir |-> aside[Id(r)], revert |-> op[r].kind = "revert"]}
              \in SUBSET [dir : Dir, revert : BOOLEAN]
        BY <1>1, <1>2, <3>1, <3>3 DEF TypeOK
      <4> QED
        BY <1>1, <1>2, <3>3, <4>1 DEF TypeOK
    <3> QED
      BY <2>1, <3>2, <3>3
  <2>4. \A i \in Canvas : aside'[i] # Absent => aside[i] # Absent /\ lock[i] # r
    BY <1>1, <1>2, <1>3, <2>1 DEF TypeOK
  <2> QED
    BY <1>1, <1>2, <2>1, <2>2, <2>3, <2>4, EndControl DEF TypeOK
<1> QED
  BY <1>4, <1>5, <1>6

LEMMA WriteControl ==
    ASSUME Control, NEW r \in Req, UNCHANGED may, WriteFile(r) \/ Create(r) \/ Delete(r)
    PROVE  Control'
<1>1. TypeOK /\ Frame(r)
  BY ServeFrame DEF Control, Serve
<1>2. pc[r] \in {"writing", "removing"} /\ Id(r) \in Canvas
  <2>1. pc[r] \in {"writing", "removing"}
    BY DEF WriteFile, Create, Delete
  <2> QED
    BY <2>1 DEF Control, Routed, Op, Id
<1>3. CASE Refuse(r)
  BY <1>2, <1>3, RefuseControl
<1>4. CASE ~Refuse(r)
  <2>1. Finish(r) /\ UNCHANGED <<aside, orphans, snaps>>
    BY <1>4 DEF WriteFile, Create, Delete
  <2>2. live' \in [Canvas -> Dir \cup {Absent}] /\ ack' \in [Canvas -> Dir \cup {Absent}]
    <3>1. CASE WriteFile(r)
      <4>1. \A d \in Dir : Overlay(staged[r], d) \in Dir
        BY <1>1, OverlayDir DEF TypeOK
      <4>2. (IF live[Id(r)] = Absent THEN EmptyDir ELSE live[Id(r)]) \in Dir
        BY <1>1, <1>2, KnownDirs DEF TypeOK
      <4>3. live' = [live EXCEPT ![Id(r)] =
                        Overlay(staged[r], IF live[Id(r)] = Absent THEN EmptyDir ELSE live[Id(r)])]
            /\ ack' = [ack EXCEPT ![Id(r)] = live'[Id(r)]]
        BY <1>4, <3>1 DEF WriteFile
      <4>4. live' \in [Canvas -> Dir \cup {Absent}]
        BY <1>1, <4>1, <4>2, <4>3 DEF TypeOK
      <4> QED
        BY <1>1, <1>2, <4>3, <4>4 DEF TypeOK
    <3>2. CASE Create(r)
      <4>1. PICK b \in BOOLEAN :
              /\ live' = [live EXCEPT ![Id(r)] = IF live[Id(r)] = Absent THEN EmptyDir ELSE live[Id(r)]]
              /\ ack' = [ack EXCEPT ![Id(r)] = IF b THEN EmptyDir ELSE ack[Id(r)]]
        BY <3>2 DEF Create
      <4> QED
        BY <1>1, <1>2, <4>1, KnownDirs DEF TypeOK
    <3>3. CASE Delete(r)
      BY <1>1, <1>2, <3>3 DEF Delete, TypeOK
    <3> QED
      BY <1>4, <3>1, <3>2, <3>3
  <2>3. \A i \in Canvas : aside[i] # Absent => lock[i] # r
    BY <1>1, <1>2 DEF TypeOK
  <2> QED
    BY <1>1, <1>2, <2>1, <2>2, <2>3, EndControl DEF TypeOK
<1> QED
  BY <1>3, <1>4

LEMMA CrashControl ==
    ASSUME Control, Crash, UNCHANGED may
    PROVE  Control'
<1>1. TypeOK
  BY DEF Control
<1>2. /\ pc' = [r \in Req |-> IF pc[r] = "idle" THEN "idle" ELSE "done"] /\ pc' \in [Req -> Step]
      /\ lock' = [i \in Canvas |-> None] /\ aside' = [i \in Canvas |-> Absent]
      /\ staged' = [r \in Req |-> EmptyDir] /\ tree' = [r \in Req |-> EmptyDir]
      /\ todo' = [r \in Req |-> {}] /\ UNCHANGED <<live, ack, op>>
  BY <1>1 DEF Crash, Step, TypeOK
<1>3. orphans' \in [Canvas -> SUBSET [dir : Dir, revert : BOOLEAN]]
  <2>1. \A i \in Canvas : aside[i] # Absent =>
            [dir |-> aside[i], revert |-> op[lock[i]].kind = "revert"] \in [dir : Dir, revert : BOOLEAN]
    BY <1>1 DEF TypeOK
  <2>2. \A i \in Canvas : orphans[i] \in SUBSET [dir : Dir, revert : BOOLEAN]
    BY <1>1 DEF TypeOK
  <2>3. orphans' = [i \in Canvas |-> IF aside[i] = Absent THEN orphans[i]
            ELSE orphans[i] \cup {[dir |-> aside[i], revert |-> op[lock[i]].kind = "revert"]}]
    BY DEF Crash
  <2> QED
    BY <2>1, <2>2, <2>3
<1>4. snaps' \in [Canvas -> Seq(Dir)]
  <2>1. \A i \in Canvas : lock[i] # None => Append(snaps[i], tree[lock[i]]) \in Seq(Dir)
    BY <1>1, AppendProperties DEF TypeOK
  <2> QED
    BY <1>1, <2>1 DEF Crash, TypeOK
<1>5. Routed'
  BY <1>2 DEF Control, Routed, Kinds, Op
<1>6. Locked'
  BY <1>2, HubContentAssumption DEF Locked, Holds
<1> QED
  BY <1>1, <1>2, <1>3, <1>4, <1>5, <1>6, KnownDirs DEF Control, TypeOK

LEMMA InitControl == Init => Control
<1> SUFFICES ASSUME Init PROVE Control
  OBVIOUS
<1>1. TypeOK
  BY KnownDirs DEF Init, TypeOK, Step
<1>2. Routed
  BY DEF Init, Routed
<1>3. Locked
  BY HubContentAssumption DEF Init, Locked, Holds
<1> QED
  BY <1>1, <1>2, <1>3 DEF Control

LEMMA ServeControl ==
    ASSUME Control, NEW r \in Req, Serve(r), UNCHANGED may
    PROVE  Control'
<1>1. CASE Lock(r) \/ LockSecond(r)
  BY <1>1, LockControl
<1>2. CASE IOError(r) \/ WalkGone(r)
  <2>1. Refuse(r) /\ pc[r] \notin {"idle", "swap", "dropping"}
    BY <1>2 DEF IOError, WalkGone, Walking, Refuse
  <2> QED
    BY <2>1, RefuseControl
<1>3. CASE \/ PushStat(r) \/ CopyStat(r) \/ SnapshotStat(r) \/ RevertResolve(r) \/ PutStat(r)
           \/ EditRead(r) \/ WalkFile(r) \/ CopyStaged(r) \/ SnapshotDone(r) \/ ClearStale(r)
  <2>1. CASE Finish(r) /\ ~SnapshotDone(r)
    <3>1. pc[r] \in {"checking", "walking", "snapping", "clearing"}
      BY <1>3 DEF PushStat, CopyStat, SnapshotStat, RevertResolve, PutStat, EditRead, WalkFile,
                  Walking, CopyStaged, SnapshotDone, ClearStale
    <3>2. pc'[r] = "done"
      BY <2>1 DEF Finish, Goto, Control, TypeOK
    <3>3. Refuse(r)
      <4>1. CASE PushStat(r) \/ WalkFile(r) \/ ClearStale(r)
        BY <3>2, <4>1 DEF PushStat, WalkFile, Walking, ClearStale, Goto, Control, TypeOK
      <4>2. CASE CopyStat(r) \/ SnapshotStat(r) \/ RevertResolve(r)
        BY <2>1, <4>2 DEF CopyStat, SnapshotStat, RevertResolve, Refuse
      <4>3. CASE PutStat(r) \/ EditRead(r) \/ CopyStaged(r)
        BY <2>1, <4>3 DEF PutStat, EditRead, CopyStaged, Refuse
      <4> QED
        BY <1>3, <2>1, <4>1, <4>2, <4>3
    <3> QED
      BY <3>1, <3>3, RefuseControl
  <2>2. CASE SnapshotDone(r) /\ Finish(r)
    <3>1. TypeOK /\ Id(r) \in Canvas /\ pc[r] = "snapping"
      BY <2>2 DEF Control, Routed, SnapshotDone, Op, Id
    <3>2. snaps' = [snaps EXCEPT ![Id(r)] = Append(@, tree[r])] /\ UNCHANGED dirVars
      BY <2>2 DEF SnapshotDone
    <3>3. Append(snaps[Id(r)], tree[r]) \in Seq(Dir)
      BY <3>1, AppendProperties DEF TypeOK
    <3>4. snaps' \in [Canvas -> Seq(Dir)]
      BY <3>1, <3>2, <3>3 DEF TypeOK
    <3>5. Frame(r)
      BY <2>2, <3>1, ServeFrame
    <3>6. AsideHeld'
      BY <3>1, <3>2, <3>5, AsideQuiet DEF dirVars
    <3> QED
      BY <2>2, <3>1, <3>2, <3>4, <3>6, FinishControl DEF Control, TypeOK, AsideHeld, dirVars
  <2>3. CASE ~Finish(r)
    BY <1>3, <2>3, LookControl
  <2> QED
    BY <2>1, <2>2, <2>3
<1>4. CASE MoveAside(r) \/ SwapIn(r) \/ SwapFails(r) \/ DropAside(r)
  BY <1>4, SwapControl
<1>5. CASE WriteFile(r) \/ Create(r) \/ Delete(r)
  BY <1>5, WriteControl
<1> QED
  BY <1>1, <1>2, <1>3, <1>4, <1>5 DEF Serve

LEMMA NextControl ==
    ASSUME Control, [Next]_vars
    PROVE  Control'
<1>1. CASE UNCHANGED vars
  BY <1>1 DEF vars, Control, TypeOK, Routed, Locked, Holds, Both, firstKey, Id
<1>2. CASE Crash /\ UNCHANGED may
  BY <1>2, CrashControl
<1>3. ASSUME NEW r \in Req, Begin(r) \/ Serve(r), UNCHANGED may PROVE Control'
  BY <1>3, BeginControl, ServeControl
<1> QED
  BY <1>1, <1>2, <1>3 DEF Next

\* A request between its locks and its return has the locks.
LEMMA Holding ==
    ASSUME Control, NEW r \in Req,
           \/ pc[r] \in {"checking", "walking", "snapping", "clearing", "aside", "swap", "dropping"}
           \/ pc[r] = "writing" /\ op[r].kind # "create"
    PROVE  /\ op[r] \in Op /\ op[r].kind \in Kinds(pc[r])
           /\ op[r].from # op[r].id <=> op[r].kind = "copy"
           /\ Id(r) \in Canvas /\ op[r].from \in Canvas
           /\ lock[Id(r)] = r /\ lock[op[r].from] = r
<1>1. op[r] \in Op /\ op[r].kind \in Kinds(pc[r]) /\ (op[r].from # op[r].id <=> op[r].kind = "copy")
  BY DEF Control, Routed
<1>2. Id(r) \in Canvas /\ op[r].from \in Canvas /\ Holds(r) = {op[r].from, Id(r)}
  BY <1>1 DEF Op, Id, Holds, Both
<1> QED
  BY <1>1, <1>2 DEF Control, Locked

\* Whatever does not hold a canvas's lock can only create or delete it.
LEMMA Unlocked ==
    ASSUME Control, NEW r \in Req, Begin(r) \/ Serve(r), NEW i \in Canvas, lock[i] # r
    PROVE  /\ aside'[i] = aside[i] /\ orphans'[i] = orphans[i] /\ snaps'[i] = snaps[i]
           /\ \/ live'[i] = live[i] /\ ack'[i] = ack[i]
              \/ /\ pc[r] # "idle" /\ op[r].kind \in {"create", "delete"}
                 /\ \/ live'[i] = Absent /\ ack'[i] = Absent
                    \/ live[i] = Absent /\ live'[i] = EmptyDir /\ ack'[i] \in {ack[i], EmptyDir}
<1>1. TypeOK /\ Frame(r)
  BY BeginFrame, ServeFrame DEF Control
<1>2. CASE i # Id(r)
  BY <1>1, <1>2 DEF Frame
<1>3. CASE i = Id(r) /\ Begin(r)
  BY <1>3 DEF Begin, dirVars
<1>4. CASE i = Id(r) /\ Serve(r)
  <2>1. /\ pc[r] \notin {"checking", "walking", "snapping", "clearing", "aside", "swap", "dropping"}
        /\ pc[r] = "writing" => op[r].kind = "create"
    BY <1>4, Holding
  <2>2. Lock(r) \/ LockSecond(r) \/ IOError(r) \/ Create(r) \/ Delete(r)
    <3>1. ~PushStat(r) /\ ~CopyStat(r) /\ ~SnapshotStat(r) /\ ~RevertResolve(r)
      BY <2>1 DEF PushStat, CopyStat, SnapshotStat, RevertResolve
    <3>2. ~PutStat(r) /\ ~EditRead(r) /\ ~WalkFile(r) /\ ~WalkGone(r) /\ ~CopyStaged(r)
      BY <2>1 DEF PutStat, EditRead, WalkFile, WalkGone, Walking, CopyStaged
    <3>3. ~SnapshotDone(r) /\ ~ClearStale(r) /\ ~MoveAside(r) /\ ~SwapIn(r) /\ ~SwapFails(r)
          /\ ~DropAside(r) /\ ~WriteFile(r)
      BY <2>1 DEF SnapshotDone, ClearStale, MoveAside, SwapIn, SwapFails, DropAside, WriteFile
    <3> QED
      BY <1>4, <3>1, <3>2, <3>3 DEF Serve
  <2>3. CASE Lock(r) \/ LockSecond(r) \/ IOError(r)
    BY <2>3 DEF Lock, LockSecond, IOError, dirVars
  <2>4. CASE Create(r)
    BY <1>1, <1>4, <2>4 DEF Create, TypeOK
  <2>5. CASE Delete(r)
    <3>1. op[r].kind = "delete"
      BY <2>5 DEF Delete, Control, Routed, Kinds
    <3> QED
      BY <1>1, <1>4, <2>5, <3>1 DEF Delete, TypeOK
  <2> QED
    BY <2>2, <2>3, <2>4, <2>5
<1> QED
  BY <1>2, <1>3, <1>4

-----------------------------------------------------------------------------
(* What a failure or a crash leaves. *)

\* Directory d of canvas i has no files, or can be had back from a snapshot.
Saved(i, d) == d \in {Absent, EmptyDir} \/ \E k \in DOMAIN snaps[i] : snaps[i][k] = d

\* What a walk has copied is what it copies from.
Matches(r) ==
    /\ live[Source(r)] # Absent
    /\ DOMAIN tree[r] \cup todo[r] = DOMAIN live[Source(r)]
    /\ \A f \in DOMAIN tree[r] : tree[r][f] = live[Source(r)][f]

WalkTrue(r) == Walking(r) => live[Source(r)] \in {Absent, EmptyDir} \/ Matches(r)

\* A revert replaces nothing that is not saved.
RevertSafe(r) ==
    /\ pc[r] \in {"clearing", "aside"} /\ op[r].kind = "revert" => Saved(Id(r), live[Id(r)])
    /\ pc[r] \in {"swap", "dropping"} /\ op[r].kind = "revert" => Saved(Id(r), aside[Id(r)])

\* The orphan of a revert, which the next one deletes, is saved.
OrphanSafe(i) == \A o \in orphans[i] : o.revert => Saved(i, o.dir)

AckSafe(i) == ack[i] \notin {Absent, EmptyDir} =>
    \/ live[i] = ack[i]
    \/ aside[i] = ack[i] /\ pc[lock[i]] = "swap"
    \/ \E o \in orphans[i] : o.dir = ack[i]
    \/ Saved(i, ack[i])

Durable ==
    /\ \A r \in Req : WalkTrue(r) /\ RevertSafe(r)
    /\ \A i \in Canvas : OrphanSafe(i) /\ AckSafe(i)

SnapsGrow == \A i \in Canvas : \A k \in DOMAIN snaps[i] :
                 k \in DOMAIN snaps'[i] /\ snaps'[i][k] = snaps[i][k]

LEMMA AppendGrows ==
    ASSUME NEW s \in Seq(Dir), NEW d \in Dir
    PROVE  /\ \A k \in DOMAIN s : k \in DOMAIN Append(s, d) /\ Append(s, d)[k] = s[k]
           /\ \E k \in DOMAIN Append(s, d) : Append(s, d)[k] = d
<1>1. Len(s) \in Nat /\ DOMAIN s = 1 .. Len(s)
  BY LenProperties
<1>2. Append(s, d) \in Seq(Dir) /\ Len(Append(s, d)) = Len(s) + 1 /\ Append(s, d)[Len(s) + 1] = d
      /\ \A k \in 1 .. Len(s) : Append(s, d)[k] = s[k]
  BY AppendProperties
<1>3. DOMAIN Append(s, d) = 1 .. (Len(s) + 1)
  BY <1>2, LenProperties
<1> QED
  BY <1>1, <1>2, <1>3

LEMMA ServeGrows ==
    ASSUME Control, NEW r \in Req, Begin(r) \/ Serve(r)
    PROVE  SnapsGrow
<1>1. CASE SnapshotDone(r)
  <2>1. TypeOK /\ Id(r) \in Canvas
    BY <1>1, Holding DEF Control, SnapshotDone
  <2>2. snaps' = [snaps EXCEPT ![Id(r)] = Append(snaps[Id(r)], tree[r])]
    BY <1>1 DEF SnapshotDone
  <2>3. snaps[Id(r)] \in Seq(Dir) /\ tree[r] \in Dir
    BY <2>1 DEF TypeOK
  <2>4. \A k \in DOMAIN snaps[Id(r)] :
           k \in DOMAIN Append(snaps[Id(r)], tree[r]) /\ Append(snaps[Id(r)], tree[r])[k] = snaps[Id(r)][k]
    BY <2>3, AppendGrows
  <2>5. \A i \in Canvas : snaps'[i] = IF i = Id(r) THEN Append(snaps[Id(r)], tree[r]) ELSE snaps[i]
    BY <2>1, <2>2 DEF TypeOK
  <2> QED
    BY <2>4, <2>5 DEF SnapsGrow
<1>2. CASE ~SnapshotDone(r)
  <2>1. CASE Begin(r) \/ Lock(r) \/ LockSecond(r) \/ IOError(r) \/ PushStat(r) \/ CopyStat(r)
    BY <2>1 DEF SnapsGrow, Begin, Lock, LockSecond, IOError, PushStat, CopyStat, Refuse
  <2>2. CASE SnapshotStat(r) \/ RevertResolve(r) \/ PutStat(r) \/ EditRead(r)
    BY <2>2 DEF SnapsGrow, SnapshotStat, RevertResolve, PutStat, EditRead, Refuse
  <2>3. CASE WalkFile(r) \/ WalkGone(r) \/ CopyStaged(r) \/ ClearStale(r) \/ MoveAside(r)
    BY <2>3 DEF SnapsGrow, WalkFile, WalkGone, CopyStaged, ClearStale, MoveAside, Refuse
  <2>4. CASE SwapIn(r) \/ SwapFails(r) \/ DropAside(r) \/ WriteFile(r) \/ Create(r) \/ Delete(r)
    BY <2>4 DEF SnapsGrow, SwapIn, SwapFails, DropAside, WriteFile, Create, Delete, Refuse
  <2> QED
    BY <1>2, <2>1, <2>2, <2>3, <2>4 DEF Serve
<1> QED
  BY <1>1, <1>2

LEMMA StaysSaved ==
    ASSUME NEW i \in Canvas, NEW d, Saved(i, d), SnapsGrow
    PROVE  d \in {Absent, EmptyDir} \/ \E k \in DOMAIN snaps'[i] : snaps'[i][k] = d
  BY DEF Saved, SnapsGrow

\* What a request relies on is not changed by another one.
LEMMA OthersDurable ==
    ASSUME Control, NEW r \in Req, Begin(r) \/ Serve(r),
           NEW q \in Req \ {r}, WalkTrue(q), RevertSafe(q)
    PROVE  WalkTrue(q)' /\ RevertSafe(q)'
<1>1. Frame(r) /\ SnapsGrow
  BY BeginFrame, ServeFrame, ServeGrows DEF Control
<1>2. /\ pc'[q] = pc[q] /\ op'[q] = op[q] /\ tree'[q] = tree[q] /\ todo'[q] = todo[q]
      /\ Source(q)' = Source(q) /\ Id(q)' = Id(q) /\ Walking(q)' = Walking(q)
  BY <1>1 DEF Frame, Source, Id, Walking
<1>3. WalkTrue(q)'
  <2> SUFFICES ASSUME Walking(q)
               PROVE  live'[Source(q)] \in {Absent, EmptyDir} \/ Matches(q)'
    BY <1>2 DEF WalkTrue
  <2>1. Source(q) \in Canvas /\ lock[Source(q)] # r
    BY Holding DEF Walking, Source
  <2>2. live'[Source(q)] = live[Source(q)] \/ live'[Source(q)] \in {Absent, EmptyDir}
    BY <2>1, Unlocked
  <2> QED
    BY <1>2, <2>2 DEF WalkTrue, Matches
<1>4. RevertSafe(q)'
  <2> SUFFICES ASSUME pc[q] \in {"clearing", "aside", "swap", "dropping"}
               PROVE  RevertSafe(q)'
    BY <1>2 DEF RevertSafe
  <2>1. Id(q) \in Canvas /\ lock[Id(q)] # r
    BY Holding
  <2>2. /\ aside'[Id(q)] = aside[Id(q)]
        /\ live'[Id(q)] = live[Id(q)] \/ live'[Id(q)] \in {Absent, EmptyDir}
    BY <2>1, Unlocked
  <2>3. \A d : Saved(Id(q), d) => Saved(Id(q), d)'
    BY <1>1, <1>2, <2>1, StaysSaved DEF Saved
  <2> QED
    BY <1>2, <2>2, <2>3 DEF RevertSafe, Saved
<1> QED
  BY <1>3, <1>4

LEMMA WalkMatches ==
    ASSUME TypeOK, NEW r \in Req, NEW d \in Dir, StartWalk(r, d), (live[Source(r)])' = d
    PROVE  Matches(r)'
<1>1. tree'[r] = EmptyDir /\ todo'[r] = DOMAIN d /\ d # Absent
  BY WalkStarts, OfDir DEF TypeOK
<1>2. DOMAIN EmptyDir = {}
  BY DEF EmptyDir
<1> QED
  BY <1>1, <1>2 DEF Matches

\* A file more has been copied.
LEMMA WalkGoesOn ==
    ASSUME Control, NEW r \in Req, WalkFile(r), Matches(r)
    PROVE  Matches(r)'
<1>1. TypeOK /\ pc[r] \in {"walking", "snapping"} /\ Source(r) \in Canvas
  BY Holding DEF Control, WalkFile, Walking, Source
<1>2. UNCHANGED <<live, pc, op>>
  BY DEF WalkFile, dirVars
<1>3. Source(r)' = Source(r)
  BY <1>2 DEF Source, Id
<1>4. PICK f \in todo[r] :
        /\ Has(live[Source(r)], f)
        /\ tree' = [tree EXCEPT ![r] = Overlay([g \in {f} |-> live[Source(r)][f]], tree[r])]
        /\ todo' = [todo EXCEPT ![r] = todo[r] \ {f}]
  BY DEF WalkFile
<1>5. DEFINE new == [g \in {f} |-> live[Source(r)][f]]
<1>6. new \in Dir /\ DOMAIN new = {f} /\ new[f] = live[Source(r)][f]
  <2>1. live[Source(r)] \in Dir /\ f \in File /\ live[Source(r)][f] \in SUBSET Req
    BY <1>1, <1>4, OfDir DEF Has, TypeOK
  <2> QED
    BY <2>1, KnownDirs
<1>7. tree'[r] = Overlay(new, tree[r]) /\ todo'[r] = todo[r] \ {f} /\ tree[r] \in Dir
  BY <1>1, <1>4 DEF TypeOK
<1> HIDE DEF new
<1>8. /\ DOMAIN tree'[r] = {f} \cup DOMAIN tree[r] /\ tree'[r][f] = live[Source(r)][f]
      /\ \A g \in DOMAIN tree[r] \ {f} : tree'[r][g] = tree[r][g]
  <2>1. /\ DOMAIN Overlay(new, tree[r]) = DOMAIN new \cup DOMAIN tree[r]
        /\ \A g \in DOMAIN new : Overlay(new, tree[r])[g] = new[g]
        /\ \A g \in DOMAIN tree[r] \ DOMAIN new : Overlay(new, tree[r])[g] = tree[r][g]
    BY <1>6, <1>7, OverlayDir
  <2>2. f \in DOMAIN new
    BY <1>6
  <2>3. tree'[r][f] = live[Source(r)][f] /\ DOMAIN tree'[r] = {f} \cup DOMAIN tree[r]
    BY <1>6, <1>7, <2>1, <2>2
  <2> QED
    BY <1>6, <1>7, <2>1, <2>3
<1> QED
  BY <1>2, <1>3, <1>4, <1>7, <1>8 DEF Matches

\* A walk that has nothing left to copy has copied everything.
LEMMA WalkEnds ==
    ASSUME Control, NEW r \in Req, Walking(r), Matches(r), todo[r] = {}
    PROVE  tree[r] = live[Source(r)]
<1>1. Source(r) \in Canvas /\ live[Source(r)] \in Dir /\ tree[r] \in Dir
  BY Holding DEF Control, TypeOK, Walking, Source, Matches
<1> QED
  BY <1>1, SameDir DEF Matches

LEMMA OwnDurable ==
    ASSUME Control, NEW r \in Req, Begin(r) \/ Serve(r), WalkTrue(r), RevertSafe(r)
    PROVE  WalkTrue(r)' /\ RevertSafe(r)'
<1>1. TypeOK /\ SnapsGrow
  BY ServeGrows DEF Control
<1>2. ASSUME pc'[r] \notin {"walking", "snapping", "clearing", "aside", "swap", "dropping"}
      PROVE  WalkTrue(r)' /\ RevertSafe(r)'
  BY <1>2 DEF WalkTrue, Walking, RevertSafe
<1>3. CASE Finish(r)
  BY <1>1, <1>2, <1>3, FinishFrame DEF TypeOK
<1>4. CASE Begin(r)
  <2>1. pc'[r] \in {"removing", "writing", "locking"}
    BY <1>1, <1>4 DEF Begin, Goto, TypeOK
  <2> QED
    BY <1>2, <2>1
<1>5. CASE Lock(r) \/ LockSecond(r) \/ PutStat(r) \/ EditRead(r)
  <2>1. CASE Refuse(r)
    BY <1>3, <2>1 DEF Refuse
  <2>2. CASE ~Refuse(r)
    <3>1. pc'[r] \in {"locking2", "checking", "writing"}
      BY <1>1, <1>5, <2>2 DEF Lock, LockSecond, PutStat, EditRead, Goto, TypeOK
    <3> QED
      BY <1>2, <3>1
  <2> QED
    BY <2>1, <2>2
<1>6. CASE IOError(r) \/ WalkGone(r) \/ SwapFails(r) \/ DropAside(r) \/ Create(r) \/ Delete(r) \/ WriteFile(r)
  <2>1. Finish(r)
    BY <1>6 DEF IOError, WalkGone, SwapFails, DropAside, Create, Delete, WriteFile, Refuse
  <2> QED
    BY <1>3, <2>1
<1>7. CASE PushStat(r)
  <2>1. op'[r].kind = "push" /\ pc'[r] \in {"aside", "swap"}
    BY <1>1, <1>7 DEF PushStat, Goto, TypeOK
  <2> QED
    BY <2>1 DEF WalkTrue, Walking, RevertSafe
<1>8. CASE CopyStat(r) /\ ~Finish(r)
  <2>1. /\ StartWalk(r, live[op[r].from]) /\ live[op[r].from] # Absent
        /\ op' = [op EXCEPT ![r].exists = live[Id(r)] # Absent] /\ pc' = [pc EXCEPT ![r] = "walking"]
        /\ UNCHANGED live
    BY <1>8 DEF CopyStat, Refuse, Goto, dirVars
  <2>2. op[r] \in Op /\ op[r].from \in Canvas /\ live[op[r].from] \in Dir
    BY <1>1, <1>8, <2>1, Holding DEF CopyStat, TypeOK
  <2>3. pc'[r] = "walking" /\ op'[r].from = op[r].from
    BY <1>1, <2>1, <2>2 DEF TypeOK, Op
  <2>4. (live[Source(r)])' = live[op[r].from]
    BY <2>1, <2>3 DEF Source
  <2> QED
    BY <1>1, <2>1, <2>2, <2>3, <2>4, WalkMatches DEF WalkTrue, RevertSafe
<1>9. CASE SnapshotStat(r) /\ ~Finish(r)
  <2>1. /\ StartWalk(r, live[Id(r)]) /\ live[Id(r)] # Absent /\ pc' = [pc EXCEPT ![r] = "snapping"]
        /\ UNCHANGED <<live, op>>
    BY <1>9 DEF SnapshotStat, Refuse, Goto, dirVars
  <2>2. live[Id(r)] \in Dir
    BY <1>1, <1>9, <2>1, Holding DEF SnapshotStat, TypeOK
  <2>3. pc'[r] = "snapping" /\ (live[Source(r)])' = live[Id(r)]
    BY <1>1, <2>1 DEF TypeOK, Source, Id
  <2> QED
    BY <1>1, <2>1, <2>2, <2>3, WalkMatches DEF WalkTrue, RevertSafe
<1>10. CASE RevertResolve(r) /\ ~Finish(r)
  <2>1. UNCHANGED <<live, op>>
    BY <1>10 DEF RevertResolve, Refuse, dirVars
  <2>2. CASE live[Id(r)] = Absent
    <3>1. pc'[r] = "clearing"
      BY <1>1, <1>10, <2>2 DEF RevertResolve, Refuse, Goto, TypeOK
    <3> QED
      BY <2>1, <2>2, <3>1 DEF WalkTrue, Walking, RevertSafe, Saved, Id
  <2>3. CASE live[Id(r)] # Absent
    <3>1. StartWalk(r, live[Id(r)]) /\ pc' = [pc EXCEPT ![r] = "snapping"]
      BY <1>10, <2>3 DEF RevertResolve, Refuse, Goto
    <3>2. live[Id(r)] \in Dir
      BY <1>1, <1>10, <2>3, Holding DEF RevertResolve, TypeOK
    <3>3. pc'[r] = "snapping" /\ (live[Source(r)])' = live[Id(r)]
      BY <1>1, <2>1, <3>1 DEF TypeOK, Source, Id
    <3> QED
      BY <1>1, <3>1, <3>2, <3>3, WalkMatches DEF WalkTrue, RevertSafe
  <2> QED
    BY <2>2, <2>3
<1>11. CASE WalkFile(r)
  <2>1. UNCHANGED <<live, pc, op>>
    BY <1>11 DEF WalkFile, dirVars
  <2>2. pc[r] \in {"walking", "snapping"} /\ Source(r)' = Source(r)
    BY <1>11, <2>1 DEF WalkFile, Walking, Source, Id
  <2>3. CASE Matches(r)
    BY <1>11, <2>1, <2>2, <2>3, WalkGoesOn DEF WalkTrue, RevertSafe
  <2>4. CASE live[Source(r)] \in {Absent, EmptyDir}
    BY <2>1, <2>2, <2>4 DEF WalkTrue, RevertSafe
  <2> QED
    BY <2>2, <2>3, <2>4 DEF WalkTrue, Walking
<1>12. CASE CopyStaged(r) /\ ~Finish(r)
  <2>1. UNCHANGED <<live, op>> /\ pc[r] = "walking"
    BY <1>12 DEF CopyStaged, Refuse, dirVars
  <2>2. op[r].kind = "copy" /\ Id(r) \in Canvas
    BY <2>1, Holding DEF Kinds
  <2>3. CASE ~op[r].exists
    <3>1. pc'[r] = "swap"
      BY <1>1, <1>12, <2>3 DEF CopyStaged, Refuse, Goto, TypeOK
    <3> QED
      BY <2>1, <2>2, <3>1 DEF WalkTrue, Walking, RevertSafe
  <2>4. CASE op[r].exists
    <3>1. StartWalk(r, live[Id(r)]) /\ pc' = [pc EXCEPT ![r] = "snapping"] /\ live[Id(r)] # Absent
      BY <1>12, <2>4 DEF CopyStaged, Refuse, Goto
    <3>2. pc'[r] = "snapping" /\ (live[Source(r)])' = live[Id(r)] /\ live[Id(r)] \in Dir
      BY <1>1, <2>1, <2>2, <3>1 DEF TypeOK, Source, Id
    <3> QED
      BY <1>1, <3>1, <3>2, WalkMatches DEF WalkTrue, RevertSafe
  <2> QED
    BY <2>3, <2>4
<1>13. CASE SnapshotDone(r) /\ ~Finish(r)
  <2>1. /\ pc[r] = "snapping" /\ todo[r] = {} /\ UNCHANGED <<live, op>>
        /\ snaps' = [snaps EXCEPT ![Id(r)] = Append(snaps[Id(r)], tree[r])]
        /\ pc' = [pc EXCEPT ![r] = IF op[r].kind = "revert" THEN "clearing" ELSE "aside"]
    BY <1>13 DEF SnapshotDone, Goto, dirVars
  <2>2. Id(r) \in Canvas /\ Source(r) = Id(r) /\ Walking(r)
    BY <2>1, Holding DEF Source, Walking
  <2>3. pc'[r] = IF op[r].kind = "revert" THEN "clearing" ELSE "aside"
    BY <1>1, <2>1 DEF TypeOK
  <2>4. Saved(Id(r), live[Id(r)])'
    <3>1. CASE live[Id(r)] \in {Absent, EmptyDir}
      BY <2>1, <3>1 DEF Saved, Id
    <3>2. CASE Matches(r)
      <4>1. tree[r] = live[Id(r)] /\ snaps[Id(r)] \in Seq(Dir) /\ tree[r] \in Dir
        BY <1>1, <2>1, <2>2, <3>2, WalkEnds DEF TypeOK
      <4>2. \E k \in DOMAIN Append(snaps[Id(r)], tree[r]) : Append(snaps[Id(r)], tree[r])[k] = tree[r]
        BY <4>1, AppendGrows
      <4>3. snaps'[Id(r)] = Append(snaps[Id(r)], tree[r]) /\ Id(r)' = Id(r)
        BY <1>1, <2>1, <2>2 DEF TypeOK, Id
      <4> QED
        BY <2>1, <4>1, <4>2, <4>3 DEF Saved
    <3> QED
      BY <2>2, <3>1, <3>2 DEF WalkTrue
  <2> QED
    BY <2>1, <2>3, <2>4 DEF WalkTrue, Walking, RevertSafe
<1>14. CASE ClearStale(r)
  <2>1. pc[r] = "clearing" /\ UNCHANGED <<live, op, snaps>> /\ pc'[r] = "aside"
    BY <1>1, <1>14 DEF ClearStale, Goto, TypeOK
  <2> QED
    BY <2>1 DEF WalkTrue, Walking, RevertSafe, Saved, Id
<1>15. CASE MoveAside(r) /\ ~Finish(r)
  <2>1. /\ pc[r] = "aside" /\ UNCHANGED <<op, snaps>> /\ pc' = [pc EXCEPT ![r] = "swap"]
        /\ aside' = [aside EXCEPT ![Id(r)] = live[Id(r)]]
    BY <1>15 DEF MoveAside, Refuse, Goto
  <2>2. Id(r) \in Canvas /\ Id(r)' = Id(r)
    BY <2>1, Holding DEF Id
  <2>3. pc'[r] = "swap" /\ aside'[Id(r)] = live[Id(r)]
    BY <1>1, <2>1, <2>2 DEF TypeOK
  <2> QED
    BY <2>1, <2>2, <2>3 DEF WalkTrue, Walking, RevertSafe, Saved
<1>16. CASE SwapIn(r) /\ ~Finish(r)
  <2>1. pc[r] = "swap" /\ pc'[r] = "dropping" /\ UNCHANGED <<aside, snaps, op>>
    BY <1>1, <1>16 DEF SwapIn, Goto, TypeOK
  <2> QED
    BY <2>1 DEF WalkTrue, Walking, RevertSafe, Saved, Id
<1> QED
  BY <1>3, <1>4, <1>5, <1>6, <1>7, <1>8, <1>9, <1>10, <1>11, <1>12, <1>13, <1>14, <1>15, <1>16 DEF Serve

\* What is kept of a canvas, whoever changes it.
LEMMA CanvasDurable ==
    ASSUME Control, NEW r \in Req, Begin(r) \/ Serve(r), WalkTrue(r), RevertSafe(r),
           NEW i \in Canvas, OrphanSafe(i), AckSafe(i)
    PROVE  OrphanSafe(i)' /\ AckSafe(i)'
<1>1. TypeOK /\ SnapsGrow /\ Frame(r)
  BY ServeGrows, BeginFrame, ServeFrame DEF Control
<1>2. \A d : Saved(i, d) => Saved(i, d)'
  BY <1>1, StaysSaved DEF Saved
<1>3. CASE lock[i] # r
  <2>1. /\ aside'[i] = aside[i] /\ orphans'[i] = orphans[i]
        /\ \/ live'[i] = live[i] /\ ack'[i] = ack[i]
           \/ live'[i] = Absent /\ ack'[i] = Absent
           \/ live[i] = Absent /\ ack'[i] \in {ack[i], EmptyDir}
    BY <1>3, Unlocked
  <2>2. ack[i] \notin {Absent, EmptyDir} /\ aside[i] = ack[i] => lock'[i] = lock[i] /\ pc'[lock[i]] = pc[lock[i]]
    <3>1. aside[i] # Absent => lock[i] \in Req \ {r}
      BY <1>1, <1>3 DEF TypeOK
    <3> QED
      BY <1>1, <3>1 DEF Frame
  <2> QED
    BY <1>2, <2>1, <2>2 DEF OrphanSafe, AckSafe
<1>4. CASE lock[i] = r /\ i # Id(r)
  <2>1. UNCHANGED <<>> /\ live'[i] = live[i] /\ aside'[i] = aside[i] /\ orphans'[i] = orphans[i] /\ ack'[i] = ack[i]
    BY <1>1, <1>4 DEF Frame
  <2>2. aside[i] = Absent
    BY <1>1, <1>4, HubContentAssumption DEF TypeOK
  <2> QED
    BY <1>2, <2>1, <2>2 DEF OrphanSafe, AckSafe
<1>5. CASE lock[i] = r /\ i = Id(r)
  <2>1. CASE /\ live'[i] = live[i] /\ aside'[i] = aside[i] /\ orphans'[i] = orphans[i] /\ ack'[i] = ack[i]
             /\ pc[r] # "swap"
    BY <1>2, <1>5, <2>1 DEF OrphanSafe, AckSafe
  <2>2. CASE ClearStale(r)
    <3>1. /\ orphans'[i] = {o \in orphans[i] : ~o.revert} /\ live'[i] = live[i] /\ ack'[i] = ack[i]
          /\ pc[r] = "clearing"
      BY <1>1, <1>5, <2>2 DEF ClearStale, TypeOK
    <3>2. \A o \in orphans[i] : o \in orphans'[i] \/ Saved(i, o.dir)
      BY <3>1 DEF OrphanSafe
    <3> QED
      BY <1>2, <1>5, <3>1, <3>2 DEF OrphanSafe, AckSafe
  <2>3. CASE MoveAside(r) /\ ~Refuse(r)
    <3>1. /\ pc[r] = "aside" /\ aside'[i] = live[i] /\ orphans'[i] = orphans[i] /\ ack'[i] = ack[i]
          /\ lock'[i] = r /\ pc'[r] = "swap"
      BY <1>1, <1>5, <2>3 DEF MoveAside, Goto, TypeOK
    <3> QED
      BY <1>2, <1>5, <3>1 DEF OrphanSafe, AckSafe
  <2>4. CASE SwapIn(r)
    <3>1. live'[i] = ack'[i] /\ orphans'[i] = orphans[i]
      BY <1>1, <1>5, <2>4 DEF SwapIn, TypeOK
    <3> QED
      BY <1>2, <3>1 DEF OrphanSafe, AckSafe
  <2>5. CASE SwapFails(r)
    <3>1. /\ pc[r] = "swap" /\ ack'[i] = ack[i]
          /\ \/ aside[i] = Absent /\ live'[i] = live[i] /\ orphans'[i] = orphans[i]
             \/ aside[i] # Absent /\ live[i] = Absent /\ live'[i] = aside[i] /\ orphans'[i] = orphans[i]
             \/ /\ aside[i] # Absent /\ live'[i] = live[i]
                /\ orphans'[i] = orphans[i] \cup
                      {[dir |-> aside[i], revert |-> op[r].kind = "revert"]}
      BY <1>1, <1>5, <2>5 DEF SwapFails, TypeOK
    <3>2. op[r].kind = "revert" => Saved(i, aside[i])
      BY <1>5, <3>1 DEF RevertSafe
    <3>3. OrphanSafe(i)'
      <4> SUFFICES ASSUME NEW o \in orphans'[i], o.revert PROVE Saved(i, o.dir)'
        BY DEF OrphanSafe
      <4>1. CASE o \in orphans[i]
        BY <1>2, <4>1 DEF OrphanSafe
      <4>2. CASE o = [dir |-> aside[i], revert |-> op[r].kind = "revert"]
        <5>1. o.dir = aside[i] /\ o.revert = (op[r].kind = "revert")
          BY <4>2
        <5> QED
          BY <1>2, <3>2, <5>1
      <4> QED
        BY <3>1, <4>1, <4>2
    <3>4. AckSafe(i)'
      <4> SUFFICES ASSUME ack[i] \notin {Absent, EmptyDir}
                   PROVE  \/ live'[i] = ack[i]
                          \/ \E o \in orphans'[i] : o.dir = ack[i]
                          \/ \E d : d = ack[i] /\ Saved(i, d)'
        BY <3>1 DEF AckSafe, Saved
      <4>1. \A o \in orphans[i] : o \in orphans'[i]
        BY <3>1
      <4>2. CASE live[i] = ack[i]
        BY <3>1, <4>2
      <4>3. CASE aside[i] = ack[i]
        <5>1. \/ live'[i] = ack[i]
              \/ [dir |-> aside[i], revert |-> op[r].kind = "revert"] \in orphans'[i]
          BY <3>1, <4>3
        <5> QED
          BY <4>3, <5>1
      <4> QED
        BY <1>2, <4>1, <4>2, <4>3 DEF AckSafe
    <3> QED
      BY <3>3, <3>4
  <2>6. CASE DropAside(r)
    <3>1. /\ live'[i] = live[i] /\ orphans'[i] = orphans[i] /\ ack'[i] = ack[i] /\ pc[r] = "dropping"
      BY <1>1, <1>5, <2>6 DEF DropAside, TypeOK
    <3> QED
      BY <1>2, <1>5, <3>1 DEF OrphanSafe, AckSafe
  <2>7. CASE WriteFile(r) /\ ~Refuse(r)
    <3>1. live'[i] = ack'[i] /\ orphans'[i] = orphans[i]
      <4>1. ack' = [ack EXCEPT ![i] = live'[i]] /\ UNCHANGED orphans
        BY <1>5, <2>7 DEF WriteFile
      <4> QED
        BY <1>1, <4>1 DEF TypeOK
    <3> QED
      BY <1>2, <3>1 DEF OrphanSafe, AckSafe
  <2>8. CASE Refuse(r) /\ pc[r] # "swap"
    BY <2>1, <2>8 DEF Refuse, dirVars
  <2>9. ~Begin(r) /\ ~Lock(r) /\ ~Create(r) /\ ~Delete(r)
    <3>1. i \in Holds(r)
      BY <1>5 DEF Control, Locked
    <3>2. ~Begin(r) /\ ~Lock(r) /\ ~Create(r) /\ ~Delete(r)
      BY <3>1 DEF Holds, Begin, Lock, Create, Delete
    <3> QED
      BY <3>2
  <2>10. CASE LockSecond(r)
    BY <2>1, <2>10 DEF LockSecond, dirVars
  <2>11. CASE \/ IOError(r) \/ PushStat(r) \/ CopyStat(r) \/ SnapshotStat(r) \/ RevertResolve(r)
              \/ PutStat(r) \/ EditRead(r) \/ WalkFile(r) \/ WalkGone(r) \/ CopyStaged(r) \/ SnapshotDone(r)
    <3>1. pc[r] # "swap"
      BY <2>11 DEF IOError, PushStat, CopyStat, SnapshotStat, RevertResolve, PutStat, EditRead, WalkFile,
                  WalkGone, Walking, CopyStaged, SnapshotDone
    <3>2. UNCHANGED dirVars
      BY <2>11 DEF IOError, PushStat, CopyStat, SnapshotStat, RevertResolve, PutStat, EditRead, WalkFile,
                  WalkGone, CopyStaged, SnapshotDone, Refuse
    <3> QED
      BY <2>1, <3>1, <3>2 DEF dirVars
  <2>12. pc[r] = "swap" => ~MoveAside(r) /\ ~WriteFile(r)
    BY DEF MoveAside, WriteFile
  <2> QED
    BY <2>2, <2>3, <2>4, <2>5, <2>6, <2>7, <2>8, <2>9, <2>10, <2>11, <2>12 DEF Serve
<1> QED
  BY <1>3, <1>4, <1>5

LEMMA CrashDurable ==
    ASSUME Control, Durable, Crash
    PROVE  Durable'
<1>1. TypeOK
  BY DEF Control
<1>2. /\ \A r \in Req : pc'[r] \in {"idle", "done"}
      /\ \A i \in Canvas : /\ live'[i] = live[i] /\ ack'[i] = ack[i]
                           /\ \A o \in orphans[i] : o \in orphans'[i]
  BY DEF Crash
<1>3. SnapsGrow
  <2>1. \A i \in Canvas : lock[i] # None =>
            /\ snaps[i] \in Seq(Dir) /\ tree[lock[i]] \in Dir
            /\ \A k \in DOMAIN snaps[i] : k \in DOMAIN Append(snaps[i], tree[lock[i]])
                                        /\ Append(snaps[i], tree[lock[i]])[k] = snaps[i][k]
    BY <1>1, AppendGrows DEF TypeOK
  <2>2. \A i \in Canvas :
            \/ snaps'[i] = snaps[i]
            \/ lock[i] # None /\ snaps'[i] = Append(snaps[i], tree[lock[i]])
    BY DEF Crash
  <2> QED
    BY <2>1, <2>2 DEF SnapsGrow
<1>4. \A i \in Canvas : \A d : Saved(i, d) => Saved(i, d)'
  BY <1>3, StaysSaved DEF Saved
<1>5. ASSUME NEW r \in Req PROVE WalkTrue(r)' /\ RevertSafe(r)'
  <2>1. pc'[r] \in {"idle", "done"}
    BY <1>2
  <2> QED
    BY <2>1 DEF WalkTrue, Walking, RevertSafe
<1>6. ASSUME NEW i \in Canvas PROVE OrphanSafe(i)' /\ AckSafe(i)'
  <2>1. CASE aside[i] = Absent
    <3>1. orphans'[i] = orphans[i]
      BY <2>1 DEF Crash
    <3> QED
      BY <1>2, <1>4, <2>1, <3>1 DEF Durable, OrphanSafe, AckSafe
  <2>2. CASE aside[i] # Absent
    <3>1. orphans'[i] = orphans[i] \cup {[dir |-> aside[i], revert |-> op[lock[i]].kind = "revert"]}
      BY <2>2 DEF Crash
    <3>2. lock[i] \in Req /\ pc[lock[i]] \in {"swap", "dropping"} /\ Id(lock[i]) = i
      BY <1>1, <2>2 DEF TypeOK
    <3>3. op[lock[i]].kind = "revert" => Saved(i, aside[i])
      BY <3>2 DEF Durable, RevertSafe
    <3>4. [dir |-> aside[i], revert |-> op[lock[i]].kind = "revert"] \in orphans'[i]
      BY <3>1
    <3>5. aside[i] = ack[i] => \E o \in orphans'[i] : o.dir = ack[i]
      BY <3>4
    <3>6. AckSafe(i)'
      BY <1>2, <1>4, <3>5 DEF Durable, AckSafe
    <3>7. OrphanSafe(i)'
      <4> SUFFICES ASSUME NEW o \in orphans'[i], o.revert PROVE Saved(i, o.dir)'
        BY DEF OrphanSafe
      <4>1. CASE o \in orphans[i]
        BY <1>4, <4>1 DEF Durable, OrphanSafe
      <4>2. CASE o = [dir |-> aside[i], revert |-> op[lock[i]].kind = "revert"]
        <5>1. o.dir = aside[i] /\ o.revert = (op[lock[i]].kind = "revert")
          BY <4>2
        <5> QED
          BY <1>4, <3>3, <5>1
      <4> QED
        BY <3>1, <4>1, <4>2
    <3> QED
      BY <3>6, <3>7
  <2> QED
    BY <2>1, <2>2
<1> QED
  BY <1>5, <1>6 DEF Durable

LEMMA DurableInductive ==
    ASSUME Control, Durable, [Next]_vars
    PROVE  Durable'
<1>1. CASE UNCHANGED vars
  BY <1>1 DEF vars, Durable, WalkTrue, RevertSafe, OrphanSafe, AckSafe, Saved, Matches, Walking, Source, Id
<1>2. CASE Crash
  BY <1>2, CrashDurable
<1>3. ASSUME NEW r \in Req, Begin(r) \/ Serve(r) PROVE Durable'
  <2>1. \A q \in Req : WalkTrue(q)' /\ RevertSafe(q)'
    BY <1>3, OwnDurable, OthersDurable DEF Durable
  <2>2. \A i \in Canvas : OrphanSafe(i)' /\ AckSafe(i)'
    BY <1>3, CanvasDurable DEF Durable
  <2> QED
    BY <2>1, <2>2 DEF Durable
<1> QED
  BY <1>1, <1>2, <1>3 DEF Next

LEMMA InitDurable == Init => Durable
  BY DEF Init, Durable, WalkTrue, Walking, RevertSafe, OrphanSafe, AckSafe

LEMMA Inductive == Spec => [](Control /\ Durable)
<1>1. Init => Control /\ Durable
  BY InitControl, InitDurable
<1>2. Control /\ Durable /\ [Next]_vars => (Control /\ Durable)'
  BY NextControl, DurableInductive
<1> QED
  BY <1>1, <1>2, PTL DEF Spec

\* For any canvases, files and requests, whatever fails and wherever the hub
\* crashes, no files are lost that were acknowledged (swapCanvasDir's rollback and
\* RevertWithSafety's safety snapshot).
THEOREM NothingIsLost == Spec => NothingLost
<1>1. Control /\ Durable => AckedOnDisk
  <2> SUFFICES ASSUME Durable, NEW i \in Canvas, ack[i] \notin {Absent, EmptyDir}
               PROVE  \/ ack[i] \in {live[i], aside[i]}
                      \/ \E o \in orphans[i] : o.dir = ack[i]
                      \/ \E k \in DOMAIN snaps[i] : snaps[i][k] = ack[i]
    BY DEF AckedOnDisk
  <2> QED
    BY DEF Durable, AckSafe, Saved
<1>2. Control /\ Durable => UndoableSwap
  <2> SUFFICES ASSUME Durable, NEW r \in Req, SwapIn(r), op[r].kind = "revert"
               PROVE  \/ aside[Id(r)] \in {Absent, EmptyDir}
                      \/ \E k \in DOMAIN snaps[Id(r)] : snaps[Id(r)][k] = aside[Id(r)]
    BY DEF UndoableSwap
  <2>1. pc[r] = "swap"
    BY DEF SwapIn
  <2> QED
    BY <2>1 DEF Durable, RevertSafe, Saved
<1> QED
  BY <1>1, <1>2, Inductive, PTL DEF NothingLost

-----------------------------------------------------------------------------
(* Who waits for whom.                                                     *)

LEMMA LeastNat ==
    ASSUME NEW T \in SUBSET Nat, T # {}
    PROVE  \E m \in T : \A n \in T : m <= n
<1> DEFINE R == {ss \in Nat \X Nat : ss[1] < ss[2]}
<1>1. IsWellFoundedOn(R, Nat)
  BY NatLessThanWellFounded DEF OpToRel
<1>2. \E x \in T : \A y \in T : ~ (<<y, x>> \in R)
  BY <1>1, WFMin
<1>3. \A x, y \in T : ~(<<y, x>> \in R) => x <= y
  OBVIOUS
<1> QED
  BY <1>2, <1>3

\* Of finitely many numbers one is the largest.
LEMMA Largest ==
    ASSUME NEW n \in Nat, NEW g, \A i \in 1 .. n : g[i] \in Nat, n # 0
    PROVE  \E i \in 1 .. n : \A j \in 1 .. n : g[j] <= g[i]
<1> DEFINE HasLargest(k) == \E i \in 1 .. k : \A j \in 1 .. k : g[j] <= g[i]
           T == {k \in 1 .. n : ~HasLargest(k)}
<1> SUFFICES ASSUME T # {} PROVE FALSE
  <2>1. n \in 1 .. n
    OBVIOUS
  <2> QED
    BY <2>1
<1>1. PICK k \in T : \A m \in T : k <= m
  <2>1. T \in SUBSET Nat
    OBVIOUS
  <2> HIDE DEF T
  <2> QED
    BY <2>1, LeastNat
<1>2. k # 1
  <2> SUFFICES ASSUME k = 1 PROVE HasLargest(1)
    BY <1>1
  <2>1. 1 \in 1 .. 1 /\ \A j \in 1 .. 1 : j = 1 /\ g[j] \in Nat
    OBVIOUS
  <2> QED
    BY <2>1
<1>3. k - 1 \in 1 .. n /\ HasLargest(k - 1)
  <2>1. k - 1 \in 1 .. n /\ ~(k <= k - 1)
    BY <1>1, <1>2
  <2>2. k - 1 \notin T
    BY <1>1, <2>1
  <2> QED
    BY <2>1, <2>2
<1>4. PICK i \in 1 .. (k - 1) : \A j \in 1 .. (k - 1) : g[j] <= g[i]
  BY <1>3
<1>5. g[i] \in Nat /\ g[k] \in Nat /\ i \in 1 .. k /\ k \in 1 .. k
  BY <1>1, <1>4
<1>6. \A j \in 1 .. k : j = k \/ j \in 1 .. (k - 1)
  BY <1>1
<1>7. CASE g[k] <= g[i]
  BY <1>1, <1>4, <1>5, <1>6, <1>7
<1>8. CASE g[i] <= g[k]
  <2>1. \A j \in 1 .. k : g[j] <= g[k]
    <3> TAKE j \in 1 .. k
    <3>1. CASE j = k
      BY <1>5, <3>1
    <3>2. CASE j \in 1 .. (k - 1)
      <4>1. g[j] <= g[i] /\ g[j] \in Nat
        BY <1>1, <1>4, <3>2
      <4> QED
        BY <1>5, <1>8, <4>1
    <3> QED
      BY <1>6, <3>1, <3>2
  <2> QED
    BY <1>1, <1>5, <2>1
<1> QED
  BY <1>5, <1>7, <1>8

\* Who waits for a handler that waits too, waits for the only lock that it has; and
\* has itself none, or a lock before that one.
LEMMA WaitsInOrder ==
    ASSUME Control, NEW r \in Req, NEW q \in Req, NEW s \in Req, Waits(r, q), Waits(q, s)
    PROVE  /\ pc[q] = "locking2" /\ firstKey(q) \in Nat
           /\ pc[r] = "locking2" => firstKey(r) \in Nat /\ firstKey(r) < firstKey(q)
<1>1. ASSUME NEW a \in Req, NEW b \in Req, Waits(a, b)
      PROVE  /\ op[a] \in Op /\ pc[a] \in {"locking", "locking2"}
             /\ \E key \in Holds(b) \cap Both(a) :
                   pc[a] = "locking2" => Holds(a) = {firstKey(a)} /\ key # firstKey(a)
  <2>1. op[a] \in Op /\ pc[a] \in {"locking", "locking2"}
    BY <1>1 DEF Waits, Control, Routed
  <2>2. Keys(a) = Both(a) /\ firstKey(a) \in Both(a) /\ Both(a) \subseteq Canvas
    BY <2>1, KeysBoth
  <2>3. \A i \in Canvas : lock[i] = b => i \in Holds(b)
    BY DEF Control, Locked
  <2>4. CASE pc[a] = "locking"
    BY <1>1, <2>1, <2>2, <2>3, <2>4 DEF Waits
  <2>5. CASE pc[a] = "locking2"
    <3>1. Holds(a) = {firstKey(a)}
      BY <2>5 DEF Holds
    <3> QED
      BY <1>1, <2>1, <2>2, <2>3, <2>5, <3>1 DEF Waits
  <2> QED
    BY <2>1, <2>4, <2>5
<1>2. PICK k \in Holds(q) \cap Both(r) : pc[r] = "locking2" => Holds(r) = {firstKey(r)} /\ k # firstKey(r)
  BY <1>1
<1>3. pc[q] = "locking2" /\ Holds(q) = {firstKey(q)} /\ k = firstKey(q)
  <2>1. pc[q] \in {"locking", "locking2"}
    BY <1>1
  <2> QED
    BY <1>2, <2>1 DEF Holds
<1>4. op[r] \in Op /\ op[q] \in Op
  BY <1>1
<1>5. firstKey(r) <= k /\ firstKey(r) \in Nat /\ k \in Nat
  BY <1>2, <1>4, KeysBoth, HubContentAssumption
<1> QED
  BY <1>2, <1>3, <1>5

\* Whatever pairs of canvases copies name, the locks of the handlers exclude, and
\* no handlers wait for each other, however many (withCanvasLocks, copy.go).
THEOREM LocksAreSound == Spec => []LocksSound
<1>1. Control => NoCircularWait
  <2> SUFFICES ASSUME Control, NEW S \in SUBSET Req, S # {}, IsFiniteSet(S),
                      \A r \in S : \E q \in S : Waits(r, q)
               PROVE  FALSE
    BY DEF NoCircularWait
  <2>1. PICK n \in Nat : ExistsSurjection(1 .. n, S)
    BY FS_NatSurjection
  <2>2. PICK f \in [1 .. n -> S] : \A r \in S : \E i \in 1 .. n : f[i] = r
    BY <2>1 DEF ExistsSurjection, Surjection
  <2> DEFINE g == [i \in 1 .. n |-> IF pc[f[i]] = "locking2" THEN firstKey(f[i]) + 1 ELSE 0]
  <2>3. \A q \in S : pc[q] = "locking2" => firstKey(q) \in Nat
    <3> TAKE q \in S
    <3>1. pc[q] = "locking2" => op[q] \in Op
      BY DEF Control, Routed
    <3> QED
      BY <3>1, KeysBoth, HubContentAssumption
  <2>4. \A i \in 1 .. n : g[i] \in Nat
    <3> TAKE i \in 1 .. n
    <3>1. f[i] \in S
      BY <2>2
    <3>2. g[i] = IF pc[f[i]] = "locking2" THEN firstKey(f[i]) + 1 ELSE 0
      OBVIOUS
    <3> QED
      BY <2>3, <3>1, <3>2
  <2>5. n # 0
    BY <2>2
  <2>6. PICK i \in 1 .. n : \A j \in 1 .. n : g[j] <= g[i]
    <3> HIDE DEF g
    <3> QED
      BY <2>4, <2>5, Largest
  <2>7. PICK q \in S : Waits(f[i], q)
    BY <2>2
  <2>8. PICK s \in S : Waits(q, s)
    OBVIOUS
  <2>9. PICK j \in 1 .. n : f[j] = q
    BY <2>2
  <2>10. /\ pc[q] = "locking2" /\ firstKey(q) \in Nat
         /\ pc[f[i]] = "locking2" => firstKey(f[i]) \in Nat /\ firstKey(f[i]) < firstKey(q)
    BY <2>2, <2>7, <2>8, WaitsInOrder
  <2>11. g[j] = firstKey(q) + 1 /\ g[j] <= g[i]
    BY <2>6, <2>9, <2>10
  <2> QED
    BY <2>10, <2>11
<1> QED
  BY <1>1, Inductive, PTL DEF Control, LocksSound

-----------------------------------------------------------------------------
(* While nothing changes a canvas without its lock: the atomic store.      *)

CopyWhole(r) ==
    /\ pc[r] = "walking" => (op[r].exists <=> live[Id(r)] # Absent)
    /\ pc[r] \in {"snapping", "aside", "swap"} => staged[r] = live[op[r].from]
PushWhole(r) ==
    pc[r] \in {"locking", "checking", "aside", "swap"} => staged[r] = [f \in File |-> {r}]
RevertWhole(r) ==
    pc[r] \in {"snapping", "clearing", "aside", "swap"} =>
        \E k \in DOMAIN snaps[Id(r)] : snaps[Id(r)][k] = staged[r]
WriteWhole(r) == pc[r] = "writing" =>
    /\ live[Id(r)] # Absent
    /\ op[r].kind = "put" => \E f \in File : staged[r] = [g \in {f} |-> {r}]
    /\ op[r].kind = "edit" => \E f \in DOMAIN live[Id(r)] :
                                 staged[r] = [g \in {f} |-> live[Id(r)][f] \cup {r}]

\* What a handler is about to put in place is what the request asked for, as the
\* canvases are at that moment.
Whole(r) ==
    /\ Walking(r) => Matches(r)
    /\ pc[r] = "swap" => live[Id(r)] = Absent
    /\ op[r].kind = "copy" => CopyWhole(r)
    /\ op[r].kind = "push" => PushWhole(r)
    /\ op[r].kind = "revert" => RevertWhole(r)
    /\ WriteWhole(r)
    /\ op[r].kind \notin {"create", "delete"}

AllWhole == \A r \in Req : pc[r] # "idle" => Whole(r)

\* What a request relies on is not changed by another one.
LEMMA OthersWhole ==
    ASSUME Control, NEW r \in Req, Begin(r) \/ Serve(r), pc[r] # "idle" => Whole(r),
           NEW q \in Req \ {r}, pc[q] # "idle" => Whole(q)
    PROVE  (pc[q] # "idle" => Whole(q))'
<1>1. Frame(r) /\ SnapsGrow
  BY BeginFrame, ServeFrame, ServeGrows DEF Control
<1>2. /\ pc'[q] = pc[q] /\ op'[q] = op[q] /\ tree'[q] = tree[q] /\ todo'[q] = todo[q]
      /\ staged'[q] = staged[q]
      /\ Source(q)' = Source(q) /\ Id(q)' = Id(q) /\ Walking(q)' = Walking(q)
  BY <1>1 DEF Frame, Source, Id, Walking
<1> SUFFICES ASSUME pc[q] # "idle", Whole(q)
             PROVE  Whole(q)'
  BY <1>2
<1>3. CASE pc[q] \in {"checking", "walking", "snapping", "clearing", "aside", "swap", "dropping", "writing"}
  <2>1. /\ Id(q) \in Canvas /\ op[q].from \in Canvas /\ lock[Id(q)] # r /\ lock[op[q].from] # r
    BY <1>3, Holding DEF Whole
  <2>2. /\ live'[Id(q)] = live[Id(q)] /\ live'[op[q].from] = live[op[q].from]
        /\ snaps'[Id(q)] = snaps[Id(q)]
    BY <2>1, Unlocked DEF Whole
  <2>3. live'[Source(q)] = live[Source(q)]
    BY <2>2 DEF Source
  <2>4. (Walking(q) => Matches(q))'
    BY <1>2, <2>3 DEF Whole, Matches
  <2>5. (CopyWhole(q) <=> CopyWhole(q)') /\ (PushWhole(q) <=> PushWhole(q)')
    BY <1>2, <2>2 DEF CopyWhole, PushWhole
  <2>6. (RevertWhole(q) <=> RevertWhole(q)') /\ (WriteWhole(q) <=> WriteWhole(q)')
    BY <1>2, <2>2 DEF RevertWhole, WriteWhole
  <2> QED
    BY <1>2, <2>2, <2>4, <2>5, <2>6 DEF Whole
<1>4. CASE pc[q] \notin {"checking", "walking", "snapping", "clearing", "aside", "swap", "dropping", "writing"}
  BY <1>2, <1>4 DEF Whole, Walking, CopyWhole, PushWhole, RevertWhole, WriteWhole
<1> QED
  BY <1>3, <1>4

LEMMA ServeBusy ==
    ASSUME NEW r \in Req, Serve(r)
    PROVE  pc[r] # "idle"
<1>1. CASE \/ Lock(r) \/ LockSecond(r) \/ IOError(r) \/ PushStat(r) \/ CopyStat(r) \/ SnapshotStat(r)
           \/ RevertResolve(r) \/ PutStat(r) \/ EditRead(r)
  BY <1>1 DEF Lock, LockSecond, IOError, PushStat, CopyStat, SnapshotStat, RevertResolve, PutStat, EditRead
<1>2. CASE \/ WalkFile(r) \/ WalkGone(r) \/ CopyStaged(r) \/ SnapshotDone(r) \/ ClearStale(r)
  BY <1>2 DEF WalkFile, WalkGone, Walking, CopyStaged, SnapshotDone, ClearStale
<1>3. CASE \/ MoveAside(r) \/ SwapIn(r) \/ SwapFails(r) \/ DropAside(r) \/ WriteFile(r) \/ Create(r) \/ Delete(r)
  BY <1>3 DEF MoveAside, SwapIn, SwapFails, DropAside, WriteFile, Create, Delete
<1> QED
  BY <1>1, <1>2, <1>3 DEF Serve

\* A request that walks, with what it copies from as it is.
LEMMA WalkWhole ==
    ASSUME TypeOK, NEW r \in Req, NEW d \in Dir, StartWalk(r, d), (live[Source(r)])' = d,
           pc'[r] \in {"walking", "snapping"},
           op'[r].kind \in {"copy", "snapshot", "revert"},
           op'[r].kind = "copy" => CopyWhole(r)', op'[r].kind = "revert" => RevertWhole(r)'
    PROVE  Whole(r)'
<1>1. Matches(r)'
  BY WalkMatches
<1> QED
  BY <1>1 DEF Whole, WriteWhole

LEMMA OwnWhole ==
    ASSUME Control, NEW r \in Req, Begin(r) \/ Serve(r), pc[r] # "idle" => Whole(r),
           may.kinds \cap {"create", "delete"} = {}
    PROVE  Whole(r)'
<1>1. TypeOK
  BY DEF Control
<1>2. CASE Begin(r)
  <2>1. PICK o \in Op :
          /\ o.kind \in may.kinds /\ op' = [op EXCEPT ![r] = o]
          /\ staged' = IF o.kind = "push" THEN [staged EXCEPT ![r] = [f \in File |-> {r}]] ELSE staged
          /\ Goto(r, CASE o.kind = "delete" -> "removing"
                       [] o.kind = "create" -> "writing"
                       [] OTHER -> "locking")
    BY <1>2 DEF Begin
  <2>2. o.kind \notin {"create", "delete"} /\ pc'[r] = "locking" /\ op'[r] = o
    BY <1>1, <2>1 DEF Goto, TypeOK
  <2>3. o.kind = "push" => staged'[r] = [f \in File |-> {r}]
    BY <1>1, <2>1 DEF TypeOK
  <2> QED
    BY <2>2, <2>3 DEF Whole, Walking, CopyWhole, PushWhole, RevertWhole, WriteWhole
<1> SUFFICES ASSUME Serve(r), Whole(r)
             PROVE  Whole(r)'
  BY <1>2, ServeBusy
<1>3. CASE Finish(r)
  <2>1. pc'[r] = "done" /\ UNCHANGED op
    BY <1>1, <1>3, FinishFrame DEF TypeOK
  <2> QED
    BY <2>1 DEF Whole, Walking, CopyWhole, PushWhole, RevertWhole, WriteWhole
<1>4. CASE Lock(r) \/ LockSecond(r)
  <2>1. pc'[r] \in {"locking2", "checking"} /\ UNCHANGED <<op, staged>>
        /\ pc[r] \in {"locking", "locking2"} /\ (pc[r] = "locking2" => op[r].kind = "copy")
    BY <1>1, <1>4 DEF Lock, LockSecond, Goto, TypeOK, Control, Routed, Kinds
  <2> QED
    BY <2>1 DEF Whole, Walking, CopyWhole, PushWhole, RevertWhole, WriteWhole
<1>5. CASE PushStat(r)
  <2>1. /\ pc'[r] = IF live[Id(r)] # Absent THEN "aside" ELSE "swap"
        /\ pc[r] = "checking" /\ op[r].kind = "push" /\ UNCHANGED <<live, op, staged>>
    BY <1>1, <1>5 DEF PushStat, Goto, TypeOK, dirVars
  <2> QED
    BY <2>1 DEF Whole, Walking, PushWhole, WriteWhole, Id
<1>6. CASE CopyStat(r) /\ ~Finish(r)
  <2>1. /\ StartWalk(r, live[op[r].from]) /\ live[op[r].from] # Absent
        /\ op' = [op EXCEPT ![r].exists = live[Id(r)] # Absent] /\ pc' = [pc EXCEPT ![r] = "walking"]
        /\ op[r].kind = "copy" /\ UNCHANGED live
    BY <1>6 DEF CopyStat, Refuse, Goto, dirVars
  <2>2. op[r] \in Op /\ op[r].from \in Canvas /\ live[op[r].from] \in Dir
    BY <1>1, <1>6, <2>1, Holding DEF CopyStat, TypeOK
  <2>3. pc'[r] = "walking"
    BY <1>1, <2>1 DEF TypeOK
  <2>4. op'[r].from = op[r].from /\ op'[r].id = op[r].id /\ op'[r].kind = "copy"
        /\ op'[r].exists = (live[Id(r)] # Absent)
    BY <1>1, <2>1, <2>2 DEF TypeOK, Op
  <2>5. (live[Source(r)])' = live[op[r].from]
    BY <2>1, <2>3, <2>4 DEF Source
  <2>6. CopyWhole(r)'
    BY <2>1, <2>3, <2>4 DEF CopyWhole, Id
  <2> QED
    BY <1>1, <2>1, <2>2, <2>3, <2>4, <2>5, <2>6, WalkWhole
<1>7. CASE SnapshotStat(r) /\ ~Finish(r)
  <2>1. /\ StartWalk(r, live[Id(r)]) /\ live[Id(r)] # Absent /\ pc' = [pc EXCEPT ![r] = "snapping"]
        /\ op[r].kind = "snapshot" /\ UNCHANGED <<live, op>>
    BY <1>7 DEF SnapshotStat, Refuse, Goto, dirVars
  <2>2. live[Id(r)] \in Dir
    BY <1>1, <1>7, <2>1, Holding DEF SnapshotStat, TypeOK
  <2>3. pc'[r] = "snapping" /\ (live[Source(r)])' = live[Id(r)]
    BY <1>1, <2>1 DEF TypeOK, Source, Id
  <2> QED
    BY <1>1, <2>1, <2>2, <2>3, WalkWhole
<1>8. CASE RevertResolve(r) /\ ~Finish(r)
  <2>1. /\ op[r].kind = "revert" /\ pc[r] = "checking" /\ UNCHANGED <<live, op, snaps>>
        /\ \E k \in DOMAIN snaps[Id(r)] : staged' = [staged EXCEPT ![r] = snaps[Id(r)][k]]
    BY <1>8 DEF RevertResolve, Refuse, dirVars
  <2>2. RevertWhole(r)'
    BY <1>1, <2>1 DEF RevertWhole, TypeOK, Id
  <2>3. CASE live[Id(r)] = Absent
    <3>1. pc'[r] = "clearing"
      BY <1>1, <1>8, <2>3 DEF RevertResolve, Refuse, Goto, TypeOK
    <3> QED
      BY <2>1, <2>2, <3>1 DEF Whole, Walking, WriteWhole
  <2>4. CASE live[Id(r)] # Absent
    <3>1. StartWalk(r, live[Id(r)]) /\ pc' = [pc EXCEPT ![r] = "snapping"]
      BY <1>8, <2>4 DEF RevertResolve, Refuse, Goto
    <3>2. live[Id(r)] \in Dir
      BY <1>1, <2>1, <2>4, Holding DEF TypeOK
    <3>3. pc'[r] = "snapping" /\ (live[Source(r)])' = live[Id(r)]
      BY <1>1, <2>1, <3>1 DEF TypeOK, Source, Id
    <3> QED
      BY <1>1, <2>1, <2>2, <3>1, <3>2, <3>3, WalkWhole
  <2> QED
    BY <2>3, <2>4
<1>9. CASE PutStat(r) /\ ~Finish(r)
  <2>1. PICK f \in File :
          /\ staged' = [staged EXCEPT ![r] = [g \in {f} |-> {r}]]
          /\ op[r].kind = "put" /\ live[Id(r)] # Absent /\ UNCHANGED <<live, op>>
    BY <1>9 DEF PutStat, Refuse, dirVars
  <2>2. pc'[r] = "writing" /\ staged'[r] = [g \in {f} |-> {r}]
    BY <1>1, <1>9, <2>1 DEF PutStat, Refuse, Goto, TypeOK
  <2> QED
    BY <2>1, <2>2 DEF Whole, Walking, WriteWhole, Id
<1>10. CASE EditRead(r) /\ ~Finish(r)
  <2>1. PICK f \in DOMAIN live[Id(r)] :
          /\ staged' = [staged EXCEPT ![r] = [g \in {f} |-> live[Id(r)][f] \cup {r}]]
          /\ op[r].kind = "edit" /\ live[Id(r)] # Absent /\ UNCHANGED <<live, op>>
    BY <1>10 DEF EditRead, Refuse, dirVars
  <2>2. pc'[r] = "writing" /\ staged'[r] = [g \in {f} |-> live[Id(r)][f] \cup {r}]
    BY <1>1, <1>10, <2>1 DEF EditRead, Refuse, Goto, TypeOK
  <2>3. /\ (live[Id(r)])' = live[Id(r)] /\ op'[r].kind = "edit"
        /\ staged'[r] = [g \in {f} |-> (live[Id(r)])'[f] \cup {r}] /\ f \in DOMAIN (live[Id(r)])'
    BY <2>1, <2>2 DEF Id
  <2>4. \E e \in DOMAIN (live[Id(r)])' : staged'[r] = [g \in {e} |-> (live[Id(r)])'[e] \cup {r}]
    BY <2>3
  <2>5. (live[Id(r)])' # Absent /\ op'[r].kind # "put"
    BY <2>1, <2>3
  <2>6. WriteWhole(r)'
    BY <2>4, <2>5, Zenon DEF WriteWhole
  <2> QED
    BY <2>2, <2>3, <2>6 DEF Whole, Walking
<1>11. CASE WalkFile(r)
  <2>1. UNCHANGED <<live, pc, op, snaps, staged>> /\ pc[r] \in {"walking", "snapping"}
    BY <1>11 DEF WalkFile, Walking, dirVars
  <2>2. Matches(r)'
    BY <1>11, <2>1, WalkGoesOn DEF Whole, Walking
  <2>3. (CopyWhole(r) => CopyWhole(r)') /\ (PushWhole(r) => PushWhole(r)') /\ WriteWhole(r)'
    BY <2>1 DEF CopyWhole, PushWhole, WriteWhole, Id
  <2>4. RevertWhole(r) => RevertWhole(r)'
    BY <2>1 DEF RevertWhole, Id
  <2> QED
    BY <2>1, <2>2, <2>3, <2>4 DEF Whole
<1>12. CASE CopyStaged(r) /\ ~Finish(r)
  <2>1. /\ UNCHANGED <<live, op>> /\ pc[r] = "walking" /\ todo[r] = {}
        /\ staged' = [staged EXCEPT ![r] = tree[r]]
    BY <1>12 DEF CopyStaged, Refuse, dirVars
  <2>2. op[r].kind = "copy" /\ Id(r) \in Canvas
    BY <2>1, Holding DEF Kinds
  <2>3. staged'[r] = live[op[r].from]
    <3>1. tree[r] = live[op[r].from]
      BY <2>1, WalkEnds DEF Whole, Walking, Source
    <3> QED
      BY <1>1, <2>1, <3>1 DEF TypeOK
  <2>4. CASE ~op[r].exists
    <3>1. pc'[r] = "swap"
      BY <1>1, <1>12, <2>4 DEF CopyStaged, Refuse, Goto, TypeOK
    <3> QED
      BY <2>1, <2>2, <2>3, <2>4, <3>1 DEF Whole, Walking, CopyWhole, WriteWhole, Id
  <2>5. CASE op[r].exists
    <3>1. StartWalk(r, live[Id(r)]) /\ pc' = [pc EXCEPT ![r] = "snapping"] /\ live[Id(r)] # Absent
      BY <1>12, <2>5 DEF CopyStaged, Refuse, Goto
    <3>2. pc'[r] = "snapping" /\ (live[Source(r)])' = live[Id(r)] /\ live[Id(r)] \in Dir
      BY <1>1, <2>1, <2>2, <3>1 DEF TypeOK, Source, Id
    <3>3. CopyWhole(r)'
      BY <2>1, <2>3, <3>2 DEF CopyWhole
    <3> QED
      BY <1>1, <2>1, <2>2, <3>1, <3>2, <3>3, WalkWhole
  <2> QED
    BY <2>4, <2>5
<1>13. CASE SnapshotDone(r) /\ ~Finish(r)
  <2>1. /\ pc[r] = "snapping" /\ UNCHANGED <<live, op, staged>>
        /\ pc' = [pc EXCEPT ![r] = IF op[r].kind = "revert" THEN "clearing" ELSE "aside"]
        /\ op[r].kind # "snapshot"
    BY <1>13 DEF SnapshotDone, Goto, dirVars
  <2>2. Id(r) \in Canvas /\ op[r].kind \in {"copy", "revert"} /\ SnapsGrow
    BY <2>1, Holding, ServeGrows DEF Kinds
  <2>3. pc'[r] = IF op[r].kind = "revert" THEN "clearing" ELSE "aside"
    BY <1>1, <2>1 DEF TypeOK
  <2>4. op[r].kind = "revert" => RevertWhole(r)'
    BY <2>1, <2>2 DEF Whole, RevertWhole, SnapsGrow, Id
  <2>5. op[r].kind = "copy" => CopyWhole(r)'
    BY <2>1, <2>3 DEF Whole, CopyWhole
  <2> QED
    BY <2>1, <2>2, <2>3, <2>4, <2>5 DEF Whole, Walking, WriteWhole
<1>14. CASE ClearStale(r)
  <2>1. pc[r] = "clearing" /\ UNCHANGED <<live, op, snaps, staged>> /\ pc'[r] = "aside"
        /\ op[r].kind = "revert"
    BY <1>1, <1>14, Holding DEF ClearStale, Goto, TypeOK, Kinds
  <2> QED
    BY <2>1 DEF Whole, Walking, RevertWhole, WriteWhole, Id
<1>15. CASE MoveAside(r) /\ ~Finish(r)
  <2>1. /\ pc[r] = "aside" /\ UNCHANGED <<op, snaps, staged>> /\ pc' = [pc EXCEPT ![r] = "swap"]
        /\ live' = [live EXCEPT ![Id(r)] = Absent]
    BY <1>15 DEF MoveAside, Refuse, Goto
  <2>2. Id(r) \in Canvas /\ Id(r)' = Id(r) /\ (op[r].kind = "copy" => op[r].from # Id(r))
        /\ op[r].from \in Canvas
    BY <2>1, Holding DEF Id
  <2>3. pc'[r] = "swap" /\ live'[Id(r)] = Absent /\ (op[r].kind = "copy" => live'[op[r].from] = live[op[r].from])
    BY <1>1, <2>1, <2>2 DEF TypeOK
  <2> QED
    BY <2>1, <2>2, <2>3 DEF Whole, Walking, CopyWhole, PushWhole, RevertWhole, WriteWhole
<1>16. CASE SwapIn(r) /\ ~Finish(r)
  <2>1. pc'[r] = "dropping" /\ UNCHANGED op
    BY <1>1, <1>16 DEF SwapIn, Goto, TypeOK
  <2> QED
    BY <2>1 DEF Whole, Walking, CopyWhole, PushWhole, RevertWhole, WriteWhole
<1>17. CASE IOError(r) \/ WalkGone(r) \/ SwapFails(r) \/ DropAside(r) \/ Create(r) \/ Delete(r) \/ WriteFile(r)
  <2>1. Finish(r)
    BY <1>17 DEF IOError, WalkGone, SwapFails, DropAside, Create, Delete, WriteFile, Refuse
  <2> QED
    BY <1>3, <2>1
<1> QED
  BY <1>3, <1>4, <1>5, <1>6, <1>7, <1>8, <1>9, <1>10, <1>11, <1>12, <1>13, <1>14, <1>15, <1>16, <1>17 DEF Serve

LEMMA WholeInductive ==
    ASSUME Control, Steady => AllWhole, [Next]_vars
    PROVE  (Steady => AllWhole)'
<1>1. CASE UNCHANGED vars
  <2>1. UNCHANGED <<may, live, snaps, op, pc, staged, tree, todo>>
    BY <1>1 DEF vars
  <2>2. ASSUME NEW r \in Req, Whole(r) PROVE Whole(r)'
    <3>1. (Walking(r) => Matches(r))'
      BY <2>1, <2>2 DEF Whole, Matches, Walking, Source, Id
    <3>2. (CopyWhole(r) => CopyWhole(r)') /\ (PushWhole(r) => PushWhole(r)')
      BY <2>1 DEF CopyWhole, PushWhole, Id
    <3>3. (RevertWhole(r) => RevertWhole(r)') /\ (WriteWhole(r) => WriteWhole(r)')
      BY <2>1 DEF RevertWhole, WriteWhole, Id
    <3> QED
      BY <2>1, <2>2, <3>1, <3>2, <3>3 DEF Whole, Id
  <2> QED
    BY <2>1, <2>2 DEF Steady, AllWhole
<1>2. CASE Crash /\ UNCHANGED may
  BY <1>2 DEF Crash, Steady
<1>3. ASSUME NEW r \in Req, Begin(r) \/ Serve(r), UNCHANGED may, Steady
      PROVE  AllWhole'
  BY <1>3, OwnWhole, OthersWhole DEF AllWhole, Steady
<1>4. UNCHANGED may => (Steady' <=> Steady)
  BY DEF Steady
<1> QED
  BY <1>1, <1>2, <1>3, <1>4 DEF Next

LEMMA AlwaysWhole == Spec => [](Control /\ (Steady => AllWhole))
<1>1. Init => Control /\ (Steady => AllWhole)
  BY InitControl DEF Init, AllWhole
<1>2. Control /\ (Steady => AllWhole) /\ [Next]_vars => (Control /\ (Steady => AllWhole))'
  BY NextControl, WholeInductive
<1> QED
  BY <1>1, <1>2, PTL DEF Spec

\* The directory that the store has for a canvas.
LEMMA ContentIs ==
    ASSUME Control, NEW i \in Canvas
    PROVE  /\ Content(i) = IF aside[i] # Absent /\ pc[lock[i]] = "swap" THEN aside[i] ELSE live[i]
           /\ aside[i] # Absent => lock[i] \in Req /\ Id(lock[i]) = i /\ pc[lock[i]] \in {"swap", "dropping"}
<1>1. aside[i] # Absent => lock[i] \in Req /\ Id(lock[i]) = i /\ pc[lock[i]] \in {"swap", "dropping"}
  BY DEF Control, TypeOK
<1>2. (\E r \in Req : lock[i] = r /\ pc[r] = "swap") <=> lock[i] \in Req /\ pc[lock[i]] = "swap"
  OBVIOUS
<1> QED
  BY <1>1, <1>2 DEF Content

\* A canvas that a request leaves as it is, or does not hold, has the same content.
LEMMA ContentSame ==
    ASSUME Control, Control', NEW r \in Req, Frame(r), NEW i \in Canvas,
           live'[i] = live[i], aside'[i] = aside[i],
           aside[i] = Absent \/ lock[i] # r
    PROVE  Content(i)' = Content(i)
<1>1. Content(i) = IF aside[i] # Absent /\ pc[lock[i]] = "swap" THEN aside[i] ELSE live[i]
  BY ContentIs
<1>2. Content(i)' = IF aside[i] # Absent /\ pc'[lock'[i]] = "swap" THEN aside[i] ELSE live[i]
  <2>1. aside'[i] # Absent => lock'[i] \in Req
    BY DEF Control, TypeOK
  <2> QED
    BY <2>1 DEF Content
<1>3. CASE aside[i] = Absent
  BY <1>1, <1>2, <1>3
<1>4. CASE aside[i] # Absent
  <2>1. lock[i] \in Req \ {r}
    BY <1>4, ContentIs
  <2>2. lock'[i] = lock[i] /\ pc'[lock[i]] = pc[lock[i]]
    BY <2>1 DEF Frame
  <2> QED
    BY <1>1, <1>2, <2>2
<1> QED
  BY <1>3, <1>4

\* A request changes the content of its own canvas only.
LEMMA ContentFrame ==
    ASSUME Control, Control', NEW r \in Req, Begin(r) \/ Serve(r), NEW i \in Canvas, i # Id(r)
    PROVE  Content(i)' = Content(i)
<1>1. Frame(r)
  BY BeginFrame, ServeFrame DEF Control
<1>2. live'[i] = live[i] /\ aside'[i] = aside[i]
  BY <1>1 DEF Frame
<1>3. aside[i] = Absent \/ lock[i] # r
  BY ContentIs
<1> QED
  BY <1>1, <1>2, <1>3, ContentSame

LEMMA Stutters ==
    ASSUME Control, Control', NEW r \in Req, Begin(r) \/ Serve(r), UNCHANGED <<snaps, op>>,
           Content(Id(r))' = Content(Id(r))
    PROVE  UNCHANGED Store!vars
<1>1. ASSUME NEW i \in Canvas PROVE Content(i)' = Content(i)
  <2>1. CASE i # Id(r)
    BY <2>1, ContentFrame
  <2>2. CASE i = Id(r)
    <3>1. Id(r)' = i
      BY <2>2 DEF Id
    <3> QED
      BY <2>2, <3>1
  <2> QED
    BY <2>1, <2>2
<1> QED
  BY <1>1 DEF Store!vars

LEMMA Replaces ==
    ASSUME Control, Control', NEW r \in Req, Begin(r) \/ Serve(r), UNCHANGED op,
           NEW d, Content(Id(r))' = d
    PROVE  [i \in Canvas |-> Content(i)]' = [[i \in Canvas |-> Content(i)] EXCEPT ![Id(r)] = d]
<1>1. \A i \in Canvas : i # Id(r) => Content(i)' = Content(i)
  BY ContentFrame
<1>2. \A i \in Canvas : i = Id(r) => Content(i)' = d
  <2>1. Id(r)' = Id(r)
    BY DEF Id
  <2> QED
    BY <2>1
<1> QED
  BY <1>1, <1>2

\* Steps that leave the directories and the snapshots alone.
LEMMA QuietStutters ==
    ASSUME Control, Control', NEW r \in Req, Begin(r) \/ Serve(r), UNCHANGED <<live, aside, snaps>>,
           pc[r] \notin {"swap", "dropping"}
    PROVE  UNCHANGED Store!vars
<1>1. Frame(r)
  BY BeginFrame, ServeFrame DEF Control
<1>2. ASSUME NEW i \in Canvas PROVE Content(i)' = Content(i)
  <2>1. aside[i] = Absent \/ lock[i] # r
    BY ContentIs
  <2> QED
    BY <1>1, <2>1, ContentSame
<1> QED
  BY <1>2 DEF Store!vars

LEMMA SwapRefines ==
    ASSUME Control, Control', AllWhole, NEW r \in Req,
           MoveAside(r) \/ SwapIn(r) \/ SwapFails(r) \/ DropAside(r)
    PROVE  [Store!Next]_(Store!vars)
<1>1. TypeOK /\ TypeOK' /\ Serve(r)
  BY DEF Control, Serve
<1>2. /\ pc[r] \in {"aside", "swap", "dropping"} /\ op[r] \in Op /\ op[r].kind \in {"push", "copy", "revert"}
      /\ Id(r) \in Canvas /\ op[r].from \in Canvas /\ lock[Id(r)] = r /\ lock[op[r].from] = r
      /\ op[r].kind = "copy" => op[r].from # Id(r)
      /\ Whole(r)
  <2>1. pc[r] \in {"aside", "swap", "dropping"}
    BY DEF MoveAside, SwapIn, SwapFails, DropAside
  <2>2. op[r].kind \in {"push", "copy", "revert"}
    BY <2>1, Holding DEF Kinds
  <2> QED
    BY <2>1, <2>2, Holding DEF AllWhole, Id
<1>3. Content(Id(r)) = IF aside[Id(r)] # Absent /\ pc[r] = "swap" THEN aside[Id(r)] ELSE live[Id(r)]
  BY <1>2, ContentIs
<1>4. CASE MoveAside(r) /\ Refuse(r)
  <2>1. UNCHANGED <<live, aside, snaps>> /\ pc[r] = "aside"
    BY <1>4 DEF MoveAside, Refuse, dirVars
  <2> QED
    BY <1>1, <2>1, QuietStutters
<1>5. CASE MoveAside(r) /\ ~Refuse(r)
  <2>1. /\ pc[r] = "aside" /\ aside' = [aside EXCEPT ![Id(r)] = live[Id(r)]]
        /\ live' = [live EXCEPT ![Id(r)] = Absent] /\ pc' = [pc EXCEPT ![r] = "swap"]
        /\ UNCHANGED <<lock, snaps, op>>
    BY <1>5 DEF MoveAside, Goto
  <2>2. aside'[Id(r)] = live[Id(r)] /\ live'[Id(r)] = Absent /\ pc'[r] = "swap" /\ lock'[Id(r)] = r
    BY <1>1, <1>2, <2>1 DEF TypeOK
  <2>3. Content(Id(r))' = live[Id(r)]
    BY <2>1, <2>2 DEF Content, Id
  <2>4. Content(Id(r)) = live[Id(r)]
    BY <1>3, <2>1
  <2> QED
    BY <1>1, <2>1, <2>3, <2>4, Stutters
<1>6. CASE SwapIn(r)
  <2>1. /\ pc[r] = "swap" /\ live' = [live EXCEPT ![Id(r)] = staged[r]] /\ UNCHANGED <<aside, snaps, op>>
    BY <1>6 DEF SwapIn, Finish
  <2>2. live'[Id(r)] = staged[r] /\ Id(r)' = Id(r) /\ aside'[Id(r)] = aside[Id(r)]
    BY <1>1, <1>2, <2>1 DEF TypeOK, Id
  <2>3. Content(Id(r))' = staged[r]
    <3>1. CASE aside[Id(r)] = Absent
      BY <2>2, <3>1 DEF Content
    <3>2. CASE aside[Id(r)] # Absent
      <4>1. pc'[r] = "dropping" /\ lock'[Id(r)] = r
        BY <1>1, <1>2, <1>6, <3>2 DEF SwapIn, Goto, TypeOK
      <4> QED
        BY <2>2, <4>1 DEF Content
    <3> QED
      BY <3>1, <3>2
  <2>4. [i \in Canvas |-> Content(i)]' = [[i \in Canvas |-> Content(i)] EXCEPT ![Id(r)] = staged[r]]
    BY <1>1, <2>1, <2>3, Replaces
  <2>5. CASE op[r].kind = "push"
    <3>1. staged[r] = [f \in File |-> {r}]
      BY <1>2, <2>1, <2>5 DEF Whole, PushWhole
    <3>2. Store!Push(Id(r), r)
      BY <2>1, <2>4, <3>1 DEF Store!Push, Store!Pushed
    <3> QED
      BY <1>2, <3>2 DEF Store!Next
  <2>6. CASE op[r].kind = "copy"
    <3>1. staged[r] = live[op[r].from] /\ staged[r] # Absent
      BY <1>1, <1>2, <2>1, <2>6, OfDir DEF Whole, CopyWhole, TypeOK
    <3>2. Content(op[r].from) = staged[r]
      <4>1. aside[op[r].from] = Absent
        BY <1>2, <2>6, ContentIs
      <4> QED
        BY <1>2, <3>1, <4>1, ContentIs
    <3>3. Store!Copy(op[r].from, Id(r))
      BY <1>2, <2>1, <2>4, <3>1, <3>2 DEF Store!Copy
    <3> QED
      BY <1>2, <3>3 DEF Store!Next
  <2>7. CASE op[r].kind = "revert"
    <3>1. PICK k \in DOMAIN snaps[Id(r)] : snaps[Id(r)][k] = staged[r]
      BY <1>2, <2>1, <2>7 DEF Whole, RevertWhole
    <3>2. Store!Revert(Id(r), k)
      BY <2>1, <2>4, <3>1 DEF Store!Revert
    <3> QED
      BY <1>2, <3>1, <3>2 DEF Store!Next
  <2> QED
    BY <1>2, <2>5, <2>6, <2>7
<1>7. CASE SwapFails(r)
  <2>1. pc[r] = "swap" /\ live[Id(r)] = Absent /\ Finish(r) /\ UNCHANGED <<snaps, op>>
    BY <1>2, <1>7 DEF SwapFails, Finish, Whole
  <2>2. aside'[Id(r)] = Absent /\ live'[Id(r)] = aside[Id(r)]
    BY <1>1, <1>2, <1>7, <2>1 DEF SwapFails, TypeOK
  <2>3. Content(Id(r))' = aside[Id(r)]
    BY <2>1, <2>2 DEF Content, Id
  <2>4. Content(Id(r)) = aside[Id(r)]
    BY <1>3, <2>1
  <2> QED
    BY <1>1, <2>1, <2>3, <2>4, Stutters
<1>8. CASE DropAside(r)
  <2>1. pc[r] = "dropping" /\ UNCHANGED <<live, snaps, op>>
    BY <1>8 DEF DropAside, Finish
  <2>2. aside'[Id(r)] = Absent
    BY <1>1, <1>2, <1>8 DEF DropAside, TypeOK
  <2>3. Content(Id(r))' = live[Id(r)]
    BY <2>1, <2>2 DEF Content, Id
  <2> QED
    BY <1>1, <1>3, <2>1, <2>3, Stutters
<1> QED
  BY <1>4, <1>5, <1>6, <1>7, <1>8

LEMMA WriteRefines ==
    ASSUME Control, Control', AllWhole, NEW r \in Req, WriteFile(r), ~Refuse(r)
    PROVE  Store!Next
<1>1. TypeOK /\ TypeOK' /\ Serve(r)
  BY DEF Control, Serve
<1>2. /\ pc[r] = "writing" /\ op[r].kind \in {"put", "edit"} /\ WriteWhole(r)
      /\ Id(r) \in Canvas /\ lock[Id(r)] = r /\ live[Id(r)] \in Dir
  <2>1. pc[r] = "writing" /\ op[r].kind \in {"put", "edit"}
    BY DEF WriteFile
  <2>2. WriteWhole(r) /\ Id(r) \in Canvas /\ lock[Id(r)] = r
    BY <2>1, Holding DEF AllWhole, Whole
  <2> QED
    BY <1>1, <2>1, <2>2 DEF WriteWhole, TypeOK
<1>3. live' = [live EXCEPT ![Id(r)] = Overlay(staged[r], live[Id(r)])] /\ UNCHANGED <<aside, snaps, op>>
  BY <1>2 DEF WriteFile, WriteWhole, Finish
<1>4. aside[Id(r)] = Absent /\ Content(Id(r)) = live[Id(r)] /\ live[Id(r)] # Absent
  BY <1>2, ContentIs DEF WriteWhole
<1>5. Content(Id(r))' = Overlay(staged[r], live[Id(r)])
  <2>1. live'[Id(r)] = Overlay(staged[r], live[Id(r)]) /\ aside'[Id(r)] = Absent /\ Id(r)' = Id(r)
    BY <1>1, <1>2, <1>3, <1>4 DEF TypeOK, Id
  <2> QED
    BY <2>1 DEF Content
<1>6. [i \in Canvas |-> Content(i)]' =
        [[i \in Canvas |-> Content(i)] EXCEPT ![Id(r)] = Overlay(staged[r], live[Id(r)])]
  BY <1>1, <1>3, <1>5, Replaces
<1>7. CASE op[r].kind = "put"
  <2>1. PICK f \in File : staged[r] = [g \in {f} |-> {r}]
    BY <1>2, <1>7 DEF WriteWhole
  <2>2. Overlay(staged[r], live[Id(r)]) =
          [g \in DOMAIN live[Id(r)] \cup {f} |-> IF g = f THEN {r} ELSE live[Id(r)][g]]
    BY <2>1 DEF Overlay
  <2>3. Store!Put(Id(r), f, r)
    BY <1>2, <1>3, <1>4, <1>6, <2>2 DEF Store!Put
  <2> QED
    BY <1>2, <2>3 DEF Store!Next
<1>8. CASE op[r].kind = "edit"
  <2>1. PICK f \in DOMAIN live[Id(r)] : staged[r] = [g \in {f} |-> live[Id(r)][f] \cup {r}]
    BY <1>2, <1>8 DEF WriteWhole
  <2>2. Overlay(staged[r], live[Id(r)]) = [live[Id(r)] EXCEPT ![f] = live[Id(r)][f] \cup {r}]
    BY <1>2, <2>1, OfDir DEF Overlay
  <2>3. Store!Edit(Id(r), f, r)
    BY <1>2, <1>3, <1>4, <1>6, <2>1, <2>2 DEF Store!Edit
  <2> QED
    BY <1>2, <2>1, <2>3, OfDir DEF Store!Next
<1> QED
  BY <1>2, <1>7, <1>8

LEMMA SnapshotRefines ==
    ASSUME Control, Control', AllWhole, NEW r \in Req, SnapshotDone(r)
    PROVE  Store!Next
<1>1. TypeOK /\ Serve(r)
  BY DEF Control, Serve
<1>2. /\ pc[r] = "snapping" /\ todo[r] = {} /\ UNCHANGED dirVars
      /\ snaps' = [snaps EXCEPT ![Id(r)] = Append(snaps[Id(r)], tree[r])]
  BY DEF SnapshotDone
<1>3. Id(r) \in Canvas /\ lock[Id(r)] = r /\ Whole(r)
  BY <1>2, Holding DEF AllWhole
<1>4. tree[r] = live[Id(r)] /\ live[Id(r)] # Absent
  BY <1>2, <1>3, WalkEnds DEF Whole, Walking, Source, Matches
<1>5. aside[Id(r)] = Absent /\ Content(Id(r)) = live[Id(r)]
  BY <1>2, <1>3, ContentIs
<1>6. Content(Id(r))' = live[Id(r)]
  <2>1. UNCHANGED op /\ live' = live /\ aside' = aside
    BY <1>2 DEF SnapshotDone, Finish, dirVars
  <2> QED
    BY <1>5, <2>1 DEF Content, Id
<1>7. [i \in Canvas |-> Content(i)]' = [i \in Canvas |-> Content(i)]
  <2>1. \A i \in Canvas : i # Id(r) => Content(i)' = Content(i)
    BY <1>1, ContentFrame
  <2>2. \A i \in Canvas : i = Id(r) => Content(i)' = Content(i)
    <3>1. Id(r)' = Id(r)
      BY DEF SnapshotDone, Finish, Id
    <3> QED
      BY <1>5, <1>6, <3>1
  <2> QED
    BY <2>1, <2>2
<1>8. Store!Snapshot(Id(r))
  BY <1>2, <1>3, <1>4, <1>5, <1>7 DEF Store!Snapshot
<1> QED
  BY <1>3, <1>8 DEF Store!Next

\* Every step is a step of the store, or none.
LEMMA ServeRefines ==
    ASSUME Control, Control', AllWhole, may.kinds \cap {"create", "delete"} = {},
           NEW r \in Req, Begin(r) \/ Serve(r)
    PROVE  [Store!Next]_(Store!vars)
<1>1. CASE Begin(r) \/ Lock(r) \/ LockSecond(r)
  <2>1. UNCHANGED <<live, aside, snaps>> /\ pc[r] \notin {"swap", "dropping"}
    BY <1>1 DEF Begin, Lock, LockSecond, dirVars
  <2> QED
    BY <2>1, QuietStutters
<1>2. CASE \/ IOError(r) \/ PushStat(r) \/ CopyStat(r) \/ SnapshotStat(r) \/ RevertResolve(r)
           \/ PutStat(r) \/ EditRead(r)
  <2>1. UNCHANGED <<live, aside, snaps>> /\ pc[r] \notin {"swap", "dropping"}
    BY <1>2 DEF IOError, PushStat, CopyStat, SnapshotStat, RevertResolve, PutStat, EditRead, Refuse, dirVars
  <2> QED
    BY <2>1, QuietStutters
<1>3. CASE WalkFile(r) \/ WalkGone(r) \/ CopyStaged(r) \/ ClearStale(r)
  <2>1. UNCHANGED <<live, aside, snaps>> /\ pc[r] \notin {"swap", "dropping"}
    BY <1>3 DEF WalkFile, WalkGone, Walking, CopyStaged, ClearStale, Refuse, dirVars
  <2> QED
    BY <2>1, QuietStutters
<1>4. CASE WriteFile(r) /\ Refuse(r)
  <2>1. UNCHANGED <<live, aside, snaps>> /\ pc[r] \notin {"swap", "dropping"}
    BY <1>4 DEF WriteFile, Refuse, dirVars
  <2> QED
    BY <2>1, QuietStutters
<1>5. ~Create(r) /\ ~Delete(r)
  <2>1. Create(r) \/ Delete(r) => pc[r] # "idle" /\ op[r].kind \in {"create", "delete"}
    BY DEF Create, Delete, Control, Routed, Kinds
  <2> QED
    BY <2>1 DEF AllWhole, Whole
<1> QED
  BY <1>1, <1>2, <1>3, <1>4, <1>5, SwapRefines, WriteRefines, SnapshotRefines DEF Serve

\* For any canvases, files and requests: as long as nothing changes a canvas
\* without its lock and the hub does not stop, the handlers implement the atomic
\* store, whatever fails (handlePush's swap and rollback, handlers_hub_files.go's
\* lock).
THEOREM StoreIsAtomic == Spec => AtomicStore
<1>1. Init => Store!Init
  <2> SUFFICES ASSUME Init PROVE Store!Init
    OBVIOUS
  <2>1. \A i \in Canvas : Content(i) = live[i]
    BY DEF Init, Content
  <2>2. [i \in Canvas |-> Content(i)] \in [Canvas -> {Absent, Original}]
    BY <2>1 DEF Init
  <2> QED
    BY <2>2 DEF Init, Store!Init, Store!Original, Original
<1>2. ASSUME Control, Control', Steady => AllWhole, [Next]_vars
      PROVE  Steady => [Store!Next]_(Store!vars)
  <2> SUFFICES ASSUME Steady, AllWhole PROVE [Store!Next]_(Store!vars)
    BY <1>2
  <2>1. CASE UNCHANGED vars
    BY <2>1 DEF vars, Store!vars, Content
  <2>2. ~Crash
    BY DEF Crash, Steady
  <2>3. ASSUME NEW r \in Req, Begin(r) \/ Serve(r) PROVE [Store!Next]_(Store!vars)
    BY <1>2, <2>3, ServeRefines DEF Steady
  <2> QED
    BY <1>2, <2>1, <2>2, <2>3 DEF Next
<1>3. Init /\ [][Next]_vars /\ [](Control /\ (Steady => AllWhole))
        => Store!Init /\ [][Steady => [Store!Next]_(Store!vars)]_vars
  BY <1>1, <1>2, PTL
<1> QED
  BY <1>3, AlwaysWhole DEF Spec, AtomicStore

=============================================================================

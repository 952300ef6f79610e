---------------------------- MODULE Access_proofs ----------------------------
(***************************************************************************)
(* No grant that was confirmed is lost and none that was revoked comes     *)
(* back; tokens and revocations survive whatever uses the store at once;   *)
(* and no plane gives back what another has lost: for any principals,      *)
(* canvases, tokens and requests.                                          *)
(***************************************************************************)
EXTENDS Access, TLAPS

-----------------------------------------------------------------------------
(* Owners and grants.                                                      *)

Writing == {"writeCreate", "writeOwner", "writeAdd", "writeRemove"}
Copying == {"copyRead", "copyOpen", "copyWrite"}

\* A request past the gate says what it asks for.
OpKnown == \A r \in Req : pc[r] # "idle" => op[r] \in Op

\* A copy holds the push locks of both its canvases, and only a copy that is
\* about to write leaves a file torn.
CopyHolds ==
    /\ \A r \in Req : pc[r] \in Copying => pushLock[Id(r)] = r /\ pushLock[op[r].from] = r
    /\ \A i \in Canvas : file[i] = Torn => \E r \in Req : pc[r] = "copyWrite" /\ Id(r) = i

\* What a lock holder has read is out of date only by grants it would add.
InHand ==
    \A r \in Req : pc[r] \in Writing =>
        /\ shared[Id(r)] \subseteq meta[r].grants
        /\ revoked[Id(r)] \cap meta[r].grants = {}

NoneBy(r, gs) == \A g \in gs : g.by # r

\* A request records its grant once, as the last thing it does.
OnceOnly ==
    \A r \in Req : pc[r] # "done" =>
        /\ \A i \in Canvas : NoneBy(r, readMeta(i).grants) /\ NoneBy(r, revoked[i])
        /\ \A q \in Req : NoneBy(r, meta[q].grants)

Frame == TypeOK /\ OpKnown /\ CopyHolds
Books == InHand /\ OnceOnly /\ SharesKept /\ RevokedStaysRevoked
IInv == Frame /\ Books

LEMMA EmptyMetaType == EmptyMeta \in Meta /\ EmptyMeta.grants = {} /\ EmptyMeta.owner = None
BY DEF EmptyMeta, Meta

LEMMA ReadMetaType == ASSUME TypeOK, NEW i \in Canvas PROVE readMeta(i) \in Meta
BY EmptyMetaType DEF TypeOK, readMeta

LEMMA InitInv == Init => IInv
<1> SUFFICES ASSUME Init PROVE IInv
  OBVIOUS
<1> USE DEF Init
<1>1. TypeOK
  BY EmptyMetaType, CanvasMetaAssumption DEF TypeOK, Step, Meta
<1>2. OpKnown /\ InHand
  BY DEF OpKnown, InHand, Writing
<1>3. [owner |-> Admin, grants |-> {}] \in Meta
  BY CanvasMetaAssumption DEF Meta
<1>4. CopyHolds
  BY <1>3, NoFileAssumption DEF CopyHolds, Copying
<1>5. \A i \in Canvas : readMeta(i).grants = {}
  BY EmptyMetaType DEF readMeta
<1>6. OnceOnly /\ SharesKept /\ RevokedStaysRevoked
  BY <1>5, EmptyMetaType DEF OnceOnly, NoneBy, SharesKept, RevokedStaysRevoked
<1> QED
  BY <1>1, <1>2, <1>4, <1>6 DEF IInv, Frame, Books

-----------------------------------------------------------------------------
(* Steps that leave the files alone. *)

\* Such a step of r keeps the books, if r is not left writing and forgets at
\* most what it had read.
LEMMA QuietStep ==
    ASSUME IInv, NEW r \in Req, UNCHANGED fileVars,
           pc[r] # "done", pc'[r] \notin Writing,
           \A q \in Req \ {r} : pc'[q] = pc[q] /\ meta'[q] = meta[q] /\ op'[q] = op[q],
           meta'[r] \in {meta[r], EmptyMeta}
    PROVE  Books'
<1> USE DEF IInv, Books, fileVars
<1>1. \A i \in Canvas : readMeta(i)' = readMeta(i)
  BY DEF readMeta
<1>2. InHand'
  BY DEF InHand, Id
<1>3. OnceOnly'
  BY <1>1, EmptyMetaType DEF OnceOnly, NoneBy
<1>4. SharesKept' /\ RevokedStaysRevoked'
  BY <1>1 DEF SharesKept, RevokedStaysRevoked
<1> QED
  BY <1>2, <1>3, <1>4

\* The handlers' steps of that kind that only move on.
Quiet(r) == \/ PushSwap(r) \/ PushOwner(r) \/ CreateIsNew(r) \/ CreateMkdir(r)
            \/ Revoke(r) \/ CopySwap(r) \/ DeleteDir(r)

\* What every return of a handler leaves behind.
LEMMA FinishFrame ==
    ASSUME TypeOK, OpKnown, CopyHolds, NEW r \in Req, pc[r] # "idle", Finish(r),
           dirs' \subseteq Canvas, file' \in [Canvas -> Meta \cup {Absent, Torn}],
           shared' \in [Canvas -> SUBSET Grant], revoked' \in [Canvas -> SUBSET Grant],
           \A i \in Canvas : file'[i] = Torn =>
               file[i] = Torn /\ ~(pc[r] = "copyWrite" /\ Id(r) = i)
    PROVE  Frame'
<1> USE DEF Finish, Goto, TypeOK
<1>1. metaLock' \in [Canvas -> Req \cup {None}] /\ pushLock' \in [Canvas -> Req \cup {None}]
  OBVIOUS
<1>2. meta' \in [Req -> Meta] /\ seen' \in [Req -> Principal \cup {None}]
  BY EmptyMetaType
<1>3. pc' \in [Req -> Step] /\ op' = op /\ \A q \in Req \ {r} : pc'[q] = pc[q]
  BY DEF Step
<1>4. pc'[r] = "done"
  OBVIOUS
<1>5. \A q \in Req : q # r /\ pc[q] \in Writing => metaLock'[Id(q)] = q
  BY DEF Writing, Id, Op, OpKnown
<1>6. TypeOK'
  BY <1>1, <1>2, <1>3, <1>4, <1>5 DEF Writing, Id
<1>7. OpKnown'
  BY <1>3, <1>4 DEF OpKnown
<1>8. CopyHolds'
  <2>1. \A q \in Req : pc'[q] \in Copying => q # r /\ pc[q] \in Copying
    BY <1>3, <1>4 DEF Copying
  <2>2. \A q \in Req : pc'[q] \in Copying =>
            pushLock'[Id(q)] = q /\ pushLock'[op[q].from] = q
    BY <2>1 DEF CopyHolds, Copying, OpKnown, Op, Id
  <2>3. \A i \in Canvas : file'[i] = Torn => \E q \in Req : pc'[q] = "copyWrite" /\ Id(q) = i
    BY <1>3 DEF CopyHolds
  <2> QED
    BY <2>2, <2>3, <1>3 DEF CopyHolds, Id
<1> QED
  BY <1>6, <1>7, <1>8 DEF Frame

LEMMA QuietInv == ASSUME IInv, NEW r \in Req, Quiet(r) PROVE IInv'
<1> USE DEF IInv, Frame
<1>1. UNCHANGED <<fileVars, metaLock, op, meta>> /\ pc[r] \in {"start", "owner", "mkdir"}
  BY DEF Quiet, PushSwap, PushOwner, CreateIsNew, CreateMkdir, Revoke, CopySwap, DeleteDir
<1>2. PICK s \in Step \ Writing : Goto(r, s)
  BY DEF Quiet, PushSwap, PushOwner, CreateIsNew, CreateMkdir, Revoke, CopySwap,
         DeleteDir, Step, Writing
<1>3. pc' \in [Req -> Step] /\ pc'[r] = s /\ \A q \in Req \ {r} : pc'[q] = pc[q]
  BY <1>2 DEF Goto, TypeOK
<1>4. op[r] \in Op
  BY <1>1 DEF OpKnown
<1>5. dirs' \subseteq Canvas /\ seen' \in [Req -> Principal \cup {None}]
  BY <1>4, ReadMetaType, CanvasMetaAssumption
  DEF Quiet, PushSwap, PushOwner, CreateIsNew, CreateMkdir, Revoke, CopySwap,
      DeleteDir, TypeOK, Id, Op, Meta
<1>6. \/ pushLock' = pushLock /\ s \notin Copying
      \/ s \notin Copying /\ pushLock[Id(r)] = None /\ pushLock' = [pushLock EXCEPT ![Id(r)] = r]
      \/ /\ pushLock[Id(r)] = None /\ pushLock[op[r].from] = None
         /\ pushLock' = [pushLock EXCEPT ![Id(r)] = r, ![op[r].from] = r]
  BY <1>2, <1>3
  DEF Quiet, PushSwap, PushOwner, CreateIsNew, CreateMkdir, Revoke, CopySwap,
      DeleteDir, Copying, Goto, TypeOK
<1>7. TypeOK'
  BY <1>1, <1>3, <1>4, <1>5, <1>6 DEF TypeOK, fileVars, Writing, Id, Op
<1>8. OpKnown'
  BY <1>1, <1>3, <1>4 DEF OpKnown
<1>9. CopyHolds'
  <2>1. \A q \in Req \ {r} : pc[q] \in Copying =>
            pushLock'[Id(q)] = q /\ pushLock'[op[q].from] = q
    BY <1>4, <1>6, CanvasMetaAssumption DEF CopyHolds, TypeOK, OpKnown, Op, Id, Copying
  <2>2. pc'[r] \in Copying => pushLock'[Id(r)] = r /\ pushLock'[op[r].from] = r
    BY <1>1, <1>3, <1>4, <1>6 DEF TypeOK, Op, Id
  <2> QED
    BY <1>1, <1>3, <2>1, <2>2 DEF CopyHolds, Copying, Id, fileVars
<1> QED
  BY <1>1, <1>3, <1>7, <1>8, <1>9, QuietStep

LEMMA BeginInv == ASSUME IInv, NEW r \in Req, Begin(r) PROVE IInv'
<1> USE DEF IInv, Frame
<1>1. PICK o \in Op : op' = [op EXCEPT ![r] = o]
  BY DEF Begin
<1>2. pc[r] = "idle" /\ pc' = [pc EXCEPT ![r] = "start"]
  BY DEF Begin, Goto
<1>3. UNCHANGED <<dirs, fileVars, metaLock, pushLock, meta, seen>>
  BY DEF Begin
<1>4. TypeOK'
  BY <1>1, <1>2, <1>3 DEF TypeOK, Step, Id, fileVars
<1>5. OpKnown' /\ CopyHolds'
  BY <1>1, <1>2, <1>3 DEF TypeOK, OpKnown, CopyHolds, Copying, Id, fileVars
<1> QED
  BY <1>1, <1>2, <1>3, <1>4, <1>5, QuietStep DEF TypeOK, Writing

\* A claim or a share that is refused, or has nothing to do.
LEMMA CheckInv ==
    ASSUME IInv, NEW r \in Req, ClaimRead(r) \/ ShareDedup(r)
    PROVE  IInv'
<1> USE DEF IInv, Frame
<1>1. UNCHANGED <<dirs, fileVars>> /\ pc[r] = "start"
  BY DEF ClaimRead, ShareDedup
<1>2. CASE Finish(r)
  <2>1. Frame'
    BY <1>1, <1>2, FinishFrame DEF TypeOK, fileVars
  <2> QED
    BY <1>1, <1>2, <2>1, QuietStep DEF Finish, Goto, TypeOK, Writing
<1>3. CASE ~Finish(r)
  <2>1. UNCHANGED <<metaLock, pushLock, op, meta, seen>>
    BY <1>3 DEF ClaimRead, ShareDedup
  <2>2. Goto(r, "setOwner") \/ Goto(r, "addGrant")
    BY <1>3 DEF ClaimRead, ShareDedup
  <2>3. TypeOK' /\ OpKnown' /\ CopyHolds'
    BY <1>1, <2>1, <2>2
    DEF TypeOK, OpKnown, CopyHolds, Copying, Step, Goto, Id, fileVars
  <2> QED
    BY <1>1, <2>1, <2>2, <2>3, QuietStep DEF Goto, TypeOK, Writing
<1> QED
  BY <1>2, <1>3

-----------------------------------------------------------------------------
(* The read-modify-write. *)

LEMMA LockInv ==
    ASSUME IInv, NEW r \in Req, NEW from \in {"create", "setOwner", "addGrant", "removeGrant"},
           NEW to \in Writing, LockMeta(r, from, to)
    PROVE  IInv'
<1> USE DEF IInv, Frame, Books
<1>1. /\ pc[r] = from /\ pc' = [pc EXCEPT ![r] = to]
      /\ metaLock[Id(r)] = None /\ metaLock' = [metaLock EXCEPT ![Id(r)] = r]
      /\ meta' = [meta EXCEPT ![r] = readMeta(Id(r))]
      /\ UNCHANGED <<dirs, fileVars, pushLock, op, seen>>
  BY DEF LockMeta, Goto
<1>2. op[r] \in Op /\ Id(r) \in Canvas
  BY <1>1 DEF OpKnown, Op, Id
<1>3. \A q \in Req \ {r} : pc'[q] = pc[q] /\ meta'[q] = meta[q]
  BY <1>1 DEF TypeOK
<1>4. TypeOK'
  <2>1. \A q \in Req : pc'[q] \in Writing => metaLock'[Id(q)] = q
    BY <1>1, <1>2, <1>3, CanvasMetaAssumption DEF TypeOK, OpKnown, Op, Id, Writing
  <2>2. pc' \in [Req -> Step] /\ meta' \in [Req -> Meta]
        /\ metaLock' \in [Canvas -> Req \cup {None}]
    BY <1>1, <1>2, ReadMetaType DEF TypeOK, Step, Writing
  <2> QED
    BY <1>1, <2>1, <2>2 DEF TypeOK, Id, fileVars, Writing
<1>5. OpKnown' /\ CopyHolds'
  BY <1>1, <1>2, <1>3 DEF TypeOK, OpKnown, CopyHolds, Copying, Writing, Id, fileVars
<1>6. meta'[r] = readMeta(Id(r)) /\ \A i \in Canvas : readMeta(i)' = readMeta(i)
  BY <1>1 DEF TypeOK, readMeta, fileVars
<1>7. InHand'
  BY <1>1, <1>2, <1>3, <1>6 DEF InHand, SharesKept, RevokedStaysRevoked, Id, fileVars
<1>8. OnceOnly'
  <2>1. \A q \in Req : pc'[q] # "done" => pc[q] # "done"
    BY <1>1, <1>3
  <2> QED
    BY <1>1, <1>2, <1>3, <1>6, <2>1 DEF OnceOnly, NoneBy, fileVars
<1>9. SharesKept' /\ RevokedStaysRevoked'
  BY <1>1, <1>6 DEF SharesKept, RevokedStaysRevoked, fileVars
<1> QED
  BY <1>4, <1>5, <1>7, <1>8, <1>9

\* What a write under the lock does to the other requests: nothing, because
\* none of them is writing the same file.
LEMMA Exclusion ==
    ASSUME TypeOK, NEW r \in Req, NEW q \in Req, q # r,
           pc[r] \in Writing, pc[q] \in Writing
    PROVE  Id(q) # Id(r)
BY DEF TypeOK, Writing

\* A lock holder's write keeps the books, if what it writes has the grants it
\* recorded and none that it removed.
LEMMA WriteStep ==
    ASSUME IInv, NEW r \in Req, pc[r] \in Writing, pc'[r] \notin Writing, op' = op,
           \A q \in Req \ {r} : pc'[q] = pc[q] /\ meta'[q] = meta[q],
           meta'[r] \in {meta[r], EmptyMeta},
           NEW m \in Meta, file' = [file EXCEPT ![Id(r)] = m],
           \A i \in Canvas \ {Id(r)} : shared'[i] = shared[i] /\ revoked'[i] = revoked[i],
           shared'[Id(r)] \subseteq m.grants, revoked'[Id(r)] \cap m.grants = {},
           \A g \in m.grants \cup revoked'[Id(r)] :
               \/ g \in meta[r].grants \cup revoked[Id(r)]
               \/ g.by = r /\ pc'[r] = "done"
    PROVE  Books'
<1> USE DEF IInv, Frame, Books
<1>1. Id(r) \in Canvas
  BY DEF OpKnown, Op, Id, Writing
<1>2. m \notin {Absent, Torn}
  BY NoFileAssumption
<1>3. \A i \in Canvas : readMeta(i)' = IF i = Id(r) THEN m ELSE readMeta(i)
  BY <1>1, <1>2 DEF readMeta, TypeOK
<1>4. InHand'
  BY <1>1, Exclusion DEF InHand, Id, Writing, OpKnown, Op
<1>5. SharesKept' /\ RevokedStaysRevoked'
  BY <1>1, <1>3 DEF SharesKept, RevokedStaysRevoked
<1>6. OnceOnly'
  <2> SUFFICES ASSUME NEW q \in Req, pc'[q] # "done"
               PROVE  /\ \A i \in Canvas : NoneBy(q, readMeta(i).grants)' /\ NoneBy(q, revoked[i])'
                      /\ \A p \in Req : NoneBy(q, meta[p].grants)'
    BY DEF OnceOnly
  <2>1. pc[q] # "done"
    BY DEF Writing
  <2>2. NoneBy(q, m.grants \cup revoked'[Id(r)])
    BY <1>1, <2>1 DEF OnceOnly, NoneBy
  <2>3. \A p \in Req : NoneBy(q, meta[p].grants)'
    BY <2>1, EmptyMetaType DEF OnceOnly, NoneBy
  <2> QED
    BY <1>1, <1>3, <2>1, <2>2, <2>3 DEF OnceOnly, NoneBy
<1> QED
  BY <1>4, <1>5, <1>6

LEMMA WriteInv ==
    ASSUME IInv, NEW r \in Req,
           WriteCreate(r) \/ SetOwner(r) \/ AddGrant(r) \/ RemoveGrant(r)
    PROVE  IInv'
<1> USE DEF IInv, Frame
<1>1. pc[r] \in Writing /\ pc[r] # "copyWrite" /\ op[r] \in Op /\ Id(r) \in Canvas
  BY DEF WriteCreate, SetOwner, AddGrant, RemoveGrant, Writing, OpKnown, Op, Id
<1>2. meta[r] \in Meta /\ meta[r].grants \subseteq Grant
  BY DEF TypeOK, Meta
<1>3. shared[Id(r)] \subseteq meta[r].grants /\ revoked[Id(r)] \cap meta[r].grants = {}
  BY <1>1 DEF Books, InHand
<1>4. CASE WriteCreate(r)
  <2> DEFINE m == [meta[r] EXCEPT !.owner =
                 IF op[r].kind = "push" /\ seen[r] # None THEN seen[r] ELSE op[r].who]
  <2>1. /\ file' = [file EXCEPT ![Id(r)] = m] /\ UNCHANGED <<dirs, shared, revoked>>
        /\ Created(r)
    BY <1>4 DEF WriteCreate, writeMeta
  <2>2. m \in Meta /\ m.grants = meta[r].grants
    BY <1>1, <1>2 DEF Meta, TypeOK, Op
  <2>3. file' \in [Canvas -> Meta \cup {Absent, Torn}] /\ file'[Id(r)] # Torn
    BY <1>1, <2>1, <2>2, NoFileAssumption DEF TypeOK
  <2>4. Frame'
    <3>1. CASE Finish(r)
      BY <1>1, <2>1, <2>3, <3>1, FinishFrame DEF TypeOK, Writing
    <3>2. CASE ~Finish(r)
      <4>1. /\ pc' = [pc EXCEPT ![r] = "addGrant"]
            /\ metaLock' = [metaLock EXCEPT ![Id(r)] = None]
            /\ UNCHANGED <<pushLock, op, meta, seen>>
        BY <2>1, <3>2 DEF Created, Goto
      <4>2. \A q \in Req : pc'[q] \in Writing => metaLock'[Id(q)] = q
        BY <1>1, <4>1, Exclusion DEF TypeOK, Writing, Id, OpKnown, Op
      <4>3. TypeOK'
        BY <2>1, <2>3, <4>1, <4>2 DEF TypeOK, Step, Id, Writing
      <4>4. OpKnown' /\ CopyHolds'
        BY <1>1, <2>1, <2>3, <4>1 DEF TypeOK, OpKnown, CopyHolds, Copying, Id
      <4> QED
        BY <4>3, <4>4
    <3> QED
      BY <3>1, <3>2
  <2>5. /\ pc'[r] \notin Writing /\ op' = op /\ meta'[r] \in {meta[r], EmptyMeta}
        /\ \A q \in Req \ {r} : pc'[q] = pc[q] /\ meta'[q] = meta[q]
    BY <2>1 DEF Created, Finish, Goto, TypeOK, Writing
  <2> HIDE DEF m
  <2>6. Books'
    BY <1>1, <1>3, <2>1, <2>2, <2>5, WriteStep
  <2> QED
    BY <2>4, <2>6
<1>5. CASE ~WriteCreate(r)
  <2>1. Finish(r) /\ UNCHANGED dirs
    BY <1>5 DEF SetOwner, AddGrant, RemoveGrant
  <2>2. /\ pc'[r] = "done" /\ op' = op /\ meta'[r] = EmptyMeta
        /\ \A q \in Req \ {r} : pc'[q] = pc[q] /\ meta'[q] = meta[q]
    BY <2>1 DEF Finish, Goto, TypeOK
  <2>3. CASE UNCHANGED fileVars
    <3>1. Frame'
      BY <1>1, <2>1, <2>3, FinishFrame DEF TypeOK, fileVars, Writing
    <3> QED
      BY <1>1, <2>2, <2>3, <3>1, QuietStep DEF Writing
  <2>4. CASE ~UNCHANGED fileVars
    <3>1. PICK m \in Meta :
            /\ file' = [file EXCEPT ![Id(r)] = m]
            /\ shared' \in [Canvas -> SUBSET Grant] /\ revoked' \in [Canvas -> SUBSET Grant]
            /\ \A i \in Canvas \ {Id(r)} : shared'[i] = shared[i] /\ revoked'[i] = revoked[i]
            /\ shared'[Id(r)] \subseteq m.grants /\ revoked'[Id(r)] \cap m.grants = {}
            /\ \A g \in m.grants \cup revoked'[Id(r)] :
                 g \in meta[r].grants \cup revoked[Id(r)] \/ g.by = r
      <4>1. CASE SetOwner(r)
        <5> DEFINE m == [meta[r] EXCEPT !.owner = op[r].who]
        <5>1. m \in Meta /\ m.grants = meta[r].grants
          BY <1>1, <1>2 DEF Meta, Op
        <5>2. file' = [file EXCEPT ![Id(r)] = m] /\ UNCHANGED <<shared, revoked>>
          BY <4>1 DEF SetOwner, writeMeta
        <5> HIDE DEF m
        <5> QED
          BY <1>3, <5>1, <5>2 DEF TypeOK
      <4>2. CASE AddGrant(r)
        <5> DEFINE m == [meta[r] EXCEPT !.grants = @ \cup {GrantOf(r)}]
        <5>1. GrantOf(r) \in Grant /\ GrantOf(r).by = r
          BY <1>1 DEF GrantOf, Grant, Op
        <5>2. m \in Meta /\ m.grants = meta[r].grants \cup {GrantOf(r)}
          BY <1>2, <5>1 DEF Meta
        <5>3. /\ file' = [file EXCEPT ![Id(r)] = m] /\ UNCHANGED revoked
              /\ shared' = [shared EXCEPT ![Id(r)] = @ \cup {GrantOf(r)}]
          BY <4>2 DEF AddGrant, writeMeta
        <5>4. GrantOf(r) \notin revoked[Id(r)]
          BY <1>1, <5>1 DEF Books, OnceOnly, NoneBy, Writing
        <5>5. /\ shared' \in [Canvas -> SUBSET Grant] /\ revoked' \in [Canvas -> SUBSET Grant]
              /\ shared'[Id(r)] = shared[Id(r)] \cup {GrantOf(r)}
              /\ \A i \in Canvas \ {Id(r)} : shared'[i] = shared[i]
          BY <1>1, <5>1, <5>3 DEF TypeOK
        <5> HIDE DEF m
        <5>6. shared'[Id(r)] \subseteq m.grants /\ revoked'[Id(r)] \cap m.grants = {}
          BY <1>3, <5>2, <5>3, <5>4, <5>5
        <5>7. \A g \in m.grants \cup revoked'[Id(r)] :
                  g \in meta[r].grants \cup revoked[Id(r)] \/ g.by = r
          BY <5>1, <5>2, <5>3
        <5>8. \A i \in Canvas \ {Id(r)} : shared'[i] = shared[i] /\ revoked'[i] = revoked[i]
          BY <5>3, <5>5
        <5> m \in Meta
          BY <5>2
        <5> WITNESS m \in Meta
        <5> QED
          BY <5>3, <5>5, <5>6, <5>7, <5>8
      <4>3. CASE RemoveGrant(r)
        <5> DEFINE out == Matching(r, meta[r].grants)
                   m == [meta[r] EXCEPT !.grants = @ \ out]
        <5>1. m \in Meta /\ m.grants = meta[r].grants \ out /\ out \subseteq meta[r].grants
          BY <1>2 DEF Meta, Matching
        <5>2. /\ file' = [file EXCEPT ![Id(r)] = m]
              /\ shared' = [shared EXCEPT ![Id(r)] = @ \ Matching(r, @)]
              /\ revoked' = [revoked EXCEPT ![Id(r)] = @ \cup out]
          BY <2>4, <4>3 DEF RemoveGrant, writeMeta
        <5>3. /\ revoked' \in [Canvas -> SUBSET Grant] /\ revoked'[Id(r)] = revoked[Id(r)] \cup out
              /\ \A i \in Canvas \ {Id(r)} : revoked'[i] = revoked[i]
          BY <1>1, <1>2, <5>1, <5>2 DEF TypeOK
        <5>4. /\ shared' \in [Canvas -> SUBSET Grant]
              /\ shared'[Id(r)] \subseteq meta[r].grants \ out
              /\ \A i \in Canvas \ {Id(r)} : shared'[i] = shared[i]
          BY <1>1, <1>3, <5>2 DEF TypeOK, Matching
        <5> HIDE DEF m, out
        <5>5. shared'[Id(r)] \subseteq m.grants /\ revoked'[Id(r)] \cap m.grants = {}
          BY <1>3, <5>1, <5>3, <5>4
        <5>6. \A g \in m.grants \cup revoked'[Id(r)] :
                  g \in meta[r].grants \cup revoked[Id(r)]
          BY <5>1, <5>3
        <5>7. \A i \in Canvas \ {Id(r)} : shared'[i] = shared[i] /\ revoked'[i] = revoked[i]
          BY <5>3, <5>4
        <5> m \in Meta
          BY <5>1
        <5> WITNESS m \in Meta
        <5> QED
          BY <5>2, <5>3, <5>4, <5>5, <5>6, <5>7
      <4> QED
        BY <1>5, <4>1, <4>2, <4>3
    <3>2. file' \in [Canvas -> Meta \cup {Absent, Torn}] /\ file'[Id(r)] # Torn
      BY <1>1, <3>1, NoFileAssumption DEF TypeOK
    <3>3. Frame'
      BY <1>1, <2>1, <3>1, <3>2, FinishFrame DEF TypeOK, Writing
    <3>4. Books'
      BY <1>1, <2>2, <3>1, WriteStep DEF Writing
    <3> QED
      BY <3>3, <3>4
  <2> QED
    BY <2>3, <2>4
<1> QED
  BY <1>4, <1>5

-----------------------------------------------------------------------------
(* CopyMeta and Delete. *)

\* Replacing a file without its lock keeps the books, since they are closed on
\* that canvas: what goes in is nothing, a torn file, or what a copy has read.
LEMMA ForgetStep ==
    ASSUME IInv, NEW r \in Req, pc[r] # "done", pc'[r] \notin Writing, op' = op,
           \A q \in Req \ {r} : pc'[q] = pc[q] /\ meta'[q] = meta[q],
           meta'[r] \in {meta[r], EmptyMeta},
           NEW i \in Canvas, NEW m \in {Absent, Torn, meta[r]},
           file' = [file EXCEPT ![i] = m], Forget(i)
    PROVE  Books'
<1> USE DEF IInv, Frame, Books
<1>1. \A j \in Canvas \ {i} : readMeta(j)' = readMeta(j)
  BY DEF readMeta, TypeOK
<1>2. readMeta(i)' \in {EmptyMeta, meta[r]}
  BY DEF readMeta, TypeOK
<1>3. /\ shared'[i] = {} /\ revoked'[i] = {}
      /\ \A j \in Canvas \ {i} : shared'[j] = shared[j] /\ revoked'[j] = revoked[j]
  BY DEF Forget, TypeOK
<1>4. \A q \in Req : pc'[q] \in Writing => q # r /\ Id(q) \in Canvas
  BY DEF Writing, OpKnown, Op, Id
<1>5. InHand'
  BY <1>3, <1>4 DEF InHand, Id
<1>6. OnceOnly'
  <2>1. \A q \in Req : pc'[q] # "done" => pc[q] # "done"
    OBVIOUS
  <2>2. \A q \in Req : pc'[q] # "done" => NoneBy(q, readMeta(i)'.grants)
    BY <1>2, <2>1, EmptyMetaType DEF OnceOnly, NoneBy
  <2>3. \A p, q \in Req : pc'[q] # "done" => NoneBy(q, meta'[p].grants)
    BY <2>1, EmptyMetaType DEF OnceOnly, NoneBy
  <2> QED
    BY <1>1, <1>3, <2>1, <2>2, <2>3 DEF OnceOnly, NoneBy
<1>7. SharesKept' /\ RevokedStaysRevoked'
  BY <1>1, <1>3 DEF SharesKept, RevokedStaysRevoked
<1> QED
  BY <1>5, <1>6, <1>7

\* A copy never reads its source half-written: the copy that is writing it would
\* hold the source's push lock.
LEMMA SourceWhole ==
    ASSUME TypeOK, OpKnown, CopyHolds, NEW r \in Req, pc[r] = "copyRead"
    PROVE  op[r].from \in Canvas /\ file[op[r].from] # Torn
<1>1. op[r].from \in Canvas
  BY DEF OpKnown, Op
<1>2. pushLock[op[r].from] = r
  BY DEF CopyHolds, Copying
<1>3. \A q \in Req : pc[q] = "copyWrite" => pushLock[Id(q)] = q
  BY DEF CopyHolds, Copying
<1> QED
  BY <1>1, <1>2, <1>3 DEF CopyHolds

LEMMA UnlockedInv ==
    ASSUME IInv, NEW r \in Req,
           CopyRead(r) \/ CopyOpen(r) \/ CopyWrite(r) \/ DeleteMeta(r)
    PROVE  IInv'
<1> USE DEF IInv, Frame
<1>1. /\ pc[r] \in {"copyRead", "copyOpen", "copyWrite", "rmmeta"} /\ UNCHANGED dirs
      /\ op[r] \in Op /\ Id(r) \in Canvas
  BY DEF CopyRead, CopyOpen, CopyWrite, DeleteMeta, OpKnown, Op, Id
<1>2. \A i \in Canvas : Forget(i) =>
          shared' \in [Canvas -> SUBSET Grant] /\ revoked' \in [Canvas -> SUBSET Grant]
  BY DEF Forget, TypeOK
<1>3. Absent # Torn /\ meta[r] \in Meta /\ meta[r] # Torn
  BY NoFileAssumption DEF TypeOK
<1>4. Finish(r) => /\ pc'[r] = "done" /\ op' = op /\ meta'[r] = EmptyMeta
                   /\ \A q \in Req \ {r} : pc'[q] = pc[q] /\ meta'[q] = meta[q]
  BY DEF Finish, Goto, TypeOK
<1>5. ASSUME NEW m \in {Absent, meta[r]},
             file' = [file EXCEPT ![Id(r)] = m], Forget(Id(r)), Finish(r)
      PROVE  IInv'
  <2>1. /\ file' \in [Canvas -> Meta \cup {Absent, Torn}]
        /\ \A i \in Canvas : file'[i] = Torn => file[i] = Torn /\ Id(r) # i
    BY <1>1, <1>3, <1>5 DEF TypeOK
  <2>2. Frame'
    BY <1>1, <1>2, <1>5, <2>1, FinishFrame DEF TypeOK
  <2>3. Books'
    BY <1>1, <1>4, <1>5, ForgetStep DEF Writing
  <2> QED
    BY <2>2, <2>3
<1>6. CASE CopyRead(r)
  <2>1. CASE file[op[r].from] = Absent
    BY <1>5, <1>6, <2>1 DEF CopyRead
  <2>2. CASE file[op[r].from] # Absent
    <3> DEFINE m == file[op[r].from]
    <3>1. /\ pc' = [pc EXCEPT ![r] = "copyOpen"] /\ meta' = [meta EXCEPT ![r] = m]
          /\ UNCHANGED <<fileVars, metaLock, pushLock, op, seen>>
      BY <1>6, <2>2 DEF CopyRead, Goto
    <3>2. op[r].from \in Canvas /\ m \in Meta /\ m = readMeta(op[r].from)
      BY <1>6, <2>2, SourceWhole DEF CopyRead, TypeOK, readMeta
    <3>3. TypeOK'
      BY <1>1, <3>1, <3>2 DEF TypeOK, Step, Id, fileVars
    <3>4. OpKnown' /\ CopyHolds'
      BY <1>1, <1>6, <3>1 DEF CopyRead, TypeOK, OpKnown, CopyHolds, Copying, Id, fileVars
    <3>5. \A i \in Canvas : readMeta(i)' = readMeta(i)
      BY <3>1 DEF readMeta, fileVars
    <3>6. InHand' /\ SharesKept' /\ RevokedStaysRevoked'
      BY <3>1, <3>5 DEF Books, InHand, SharesKept, RevokedStaysRevoked, Writing, Id,
                        TypeOK, fileVars
    <3>7. OnceOnly'
      <4>1. \A q \in Req : pc'[q] # "done" => pc[q] # "done"
        BY <1>1, <3>1 DEF TypeOK
      <4>2. \A p \in Req : meta'[p] = IF p = r THEN m ELSE meta[p]
        BY <3>1 DEF TypeOK
      <4> QED
        BY <3>1, <3>2, <3>5, <4>1, <4>2 DEF Books, OnceOnly, NoneBy, fileVars
    <3> QED
      BY <3>3, <3>4, <3>6, <3>7 DEF Books
  <2> QED
    BY <2>1, <2>2
<1>7. CASE CopyOpen(r)
  <2>1. /\ pc[r] = "copyOpen" /\ pc' = [pc EXCEPT ![r] = "copyWrite"]
        /\ file' = [file EXCEPT ![Id(r)] = Torn] /\ Forget(Id(r))
        /\ UNCHANGED <<dirs, metaLock, pushLock, op, meta, seen>>
    BY <1>7 DEF CopyOpen, Goto
  <2>2. TypeOK'
    BY <1>1, <1>2, <2>1 DEF TypeOK, Step, Id
  <2>3. OpKnown' /\ CopyHolds'
    BY <1>1, <2>1 DEF TypeOK, OpKnown, CopyHolds, Copying, Id
  <2>4. Books'
    BY <1>1, <2>1, ForgetStep DEF TypeOK, Writing
  <2> QED
    BY <2>2, <2>3, <2>4
<1>8. CASE CopyWrite(r)
  <2>1. CASE file[Id(r)] = Torn
    BY <1>5, <1>8, <2>1 DEF CopyWrite
  <2>2. CASE file[Id(r)] # Torn
    <3>1. UNCHANGED <<dirs, fileVars>> /\ Finish(r)
      BY <1>8, <2>2 DEF CopyWrite
    <3>2. Frame'
      BY <1>1, <2>2, <3>1, FinishFrame DEF TypeOK, fileVars
    <3> QED
      BY <1>1, <1>4, <3>1, <3>2, QuietStep DEF Writing
  <2> QED
    BY <2>1, <2>2
<1>9. CASE DeleteMeta(r)
  BY <1>5, <1>9 DEF DeleteMeta
<1> QED
  BY <1>6, <1>7, <1>8, <1>9

-----------------------------------------------------------------------------

LEMMA NextInv == IInv /\ [Next]_vars => IInv'
<1> SUFFICES ASSUME IInv, [Next]_vars PROVE IInv'
  OBVIOUS
<1>1. CASE UNCHANGED vars
  BY <1>1 DEF IInv, Frame, Books, vars, fileVars, TypeOK, OpKnown, CopyHolds, InHand,
              OnceOnly, SharesKept, RevokedStaysRevoked, NoneBy, readMeta, Id
<1>2. CASE Next
  <2>1. PICK r \in Req : Begin(r) \/ Handler(r)
    BY <1>2 DEF Next
  <2>2. CASE Begin(r)
    BY <2>2, BeginInv
  <2>3. CASE Quiet(r)
    BY <2>3, QuietInv
  <2>4. CASE ClaimRead(r) \/ ShareDedup(r)
    BY <2>4, CheckInv
  <2>5. CASE \/ LockMeta(r, "create", "writeCreate") \/ LockMeta(r, "setOwner", "writeOwner")
             \/ LockMeta(r, "addGrant", "writeAdd") \/ LockMeta(r, "removeGrant", "writeRemove")
    BY <2>5, LockInv DEF Writing
  <2>6. CASE WriteCreate(r) \/ SetOwner(r) \/ AddGrant(r) \/ RemoveGrant(r)
    BY <2>6, WriteInv
  <2>7. CASE CopyRead(r) \/ CopyOpen(r) \/ CopyWrite(r) \/ DeleteMeta(r)
    BY <2>7, UnlockedInv
  <2> QED
    BY <2>1, <2>2, <2>3, <2>4, <2>5, <2>6, <2>7 DEF Handler, Quiet
<1> QED
  BY <1>1, <1>2

THEOREM Invariance == Spec => []IInv
<1>1. Init => IInv
  BY InitInv
<1>2. IInv /\ [Next]_vars => IInv'
  BY NextInv
<1> QED
  BY <1>1, <1>2, PTL DEF Spec

\* The read-modify-write of canvas.go loses no recorded grant, whatever pushes,
\* creations, claims, shares, revocations, copies and deletions run beside it.
THEOREM NoGrantLost == Spec => []SharesKept
<1>1. IInv => SharesKept
  BY DEF IInv, Books
<1> QED
  BY <1>1, Invariance, PTL

\* No stale write of the file brings a revoked grant back.
THEOREM NoGrantRestored == Spec => []RevokedStaysRevoked
<1>1. IInv => RevokedStaysRevoked
  BY DEF IInv, Books
<1> QED
  BY <1>1, Invariance, PTL

\* The grants in force are those that were confirmed, for any canvases, requests and
\* principals.
THEOREM GrantsSound == Spec => []GrantsAsConfirmed
<1>1. SharesKept /\ RevokedStaysRevoked => GrantsAsConfirmed
  BY DEF GrantsAsConfirmed
<1> QED
  BY <1>1, NoGrantLost, NoGrantRestored, PTL

-----------------------------------------------------------------------------
(* The gate and its tokens.                                                *)

\* A session stands for a principal, and the push token for nobody.
Standing(c) ==
    /\ c \in Gate!Claims
    /\ c.plane = "session" => c.who \in GatePrincipal
    /\ c.plane = "admin" => c.who = None

\* A request is one of the workload until it is answered, and who it stands for is
\* known from the gate on; only a session or the admin gets to act on an account.
Known ==
    \A r \in GateReq :
        /\ at[r] # "idle" => req[r] \in work
        /\ at[r] \in {"lookup", "bump"} => req[r].cred.bearer \in Token
        /\ at[r] \in {"gate", "handler", "save"} => Standing(claims[r])
        /\ claims[r] # None => at[r] \in {"gate", "handler", "save"}
        /\ at[r] = "save" => req[r].op \in {"mint", "revokeToken"}
        /\ at[r] \in {"handler", "save"} /\ req[r].op \in Gate!SessionOnly =>
              claims[r].plane \in {"admin", "session"}

\* What the mutex's holder has read is the file, until it is damaged.
Held == ~damaged => \A r \in GateReq : list[r] # None => tokens # Corrupt /\ list[r] = tokens

\* A revoked token is revoked or gone in the file, and in what has been read of it.
EndedOut ==
    \A t \in ended :
        /\ Gate!load[t] = None \/ Gate!load[t].revoked
        /\ \A r \in GateReq : list[r] # None => list[r][t] = None \/ list[r][t].revoked

\* Only tokens handed out are in the file, or in what has been read of it.
Sourced ==
    \A t \in Token :
        /\ Gate!load[t] # None => t \in minted
        /\ \A r \in GateReq : list[r] # None /\ list[r][t] # None => t \in minted

Kept ==
    ~damaged => /\ tokens # Corrupt
                /\ \A t \in minted : tokens[t] # None /\ (tokens[t].revoked <=> t \in ended)

LateRefused ==
    \A r \in GateReq : late[r] =>
        /\ at[r] # "idle" /\ req[r].cred.bearer \in ended
        /\ claims[r] # None => claims[r].plane # "token"

Store == Held /\ EndedOut /\ Sourced /\ Kept
GateInv == Gate!TypeOK /\ Known /\ Store /\ LateRefused

-----------------------------------------------------------------------------

LEMMA GateInitInv == Gate!Init => GateInv
<1> SUFFICES ASSUME Gate!Init PROVE GateInv
  OBVIOUS
<1>1. Gate!NoTokens \in Gate!TokenList /\ Gate!NoTokens # Corrupt
  BY AccessAssumption DEF Gate!NoTokens, Gate!TokenList, Gate!HubGateAssumption
<1>2. Gate!TypeOK
  BY AccessAssumption, <1>1 DEF Gate!Init, Gate!TypeOK, Gate!HubGateAssumption
<1>3. Known /\ Store /\ LateRefused
  BY <1>1 DEF Gate!Init, Known, Store, Held, EndedOut, Sourced, Kept, LateRefused, Gate!load, Gate!NoTokens
<1> QED
  BY <1>2, <1>3 DEF GateInv

\* What a request of the workload is.
LEMMA Asked ==
    ASSUME GateInv, NEW r \in GateReq, at[r] # "idle"
    PROVE  /\ req[r] \in Gate!Request /\ req[r].cred \in Gate!Credential /\ req[r].op \in Gate!Op
           /\ req[r].id \in GateCanvas /\ req[r].to \in GateCanvas /\ req[r].ref \in Gate!Ref
           /\ req[r].op = "revokeToken" => req[r].tok \in Token
<1>1. req[r] \in work /\ work \in Workloads
  BY DEF GateInv, Known, Gate!TypeOK
<1>2. req[r] \in Gate!Request /\ (req[r].op = "revokeToken" => req[r].tok \in Token)
  BY AccessAssumption, <1>1 DEF Gate!HubGateAssumption
<1> QED
  BY <1>2 DEF Gate!Request

LEMMA Resolved ==
    ASSUME GateInv, NEW q \in Gate!Credential, NEW x \in Gate!TokenRecord \cup {None}
    PROVE  /\ Standing(Gate!resolveClaims(q, x))
           /\ Gate!resolveClaims(q, x).plane = "session" => Gate!resolveClaims(q, x).who \in live
           /\ Gate!resolveClaims(q, x).plane = "token" => x # None /\ Gate!resolveClaims(q, x).who = x.owner
           /\ Gate!resolveClaims(q, x).plane \in {"admin", "anonymous"} => Gate!resolveClaims(q, x).who = None
<1>1. live \subseteq GatePrincipal /\ q.actor \in GatePrincipal \cup {None}
      /\ (x # None => x.owner \in GatePrincipal \cup {Admin})
  BY DEF GateInv, Gate!TypeOK, Gate!Credential, Gate!TokenRecord
<1>2. CASE q.bearer = "push" /\ q.actor = None
  BY <1>2 DEF Gate!resolveClaims, Standing, Gate!Claims, Gate!Plane
<1>3. CASE q.bearer = "push" /\ q.actor # None
  BY <1>1, <1>3 DEF Gate!resolveClaims, Standing, Gate!Claims, Gate!Plane
<1>4. CASE q.bearer # "push" /\ x # None
  BY <1>1, <1>4 DEF Gate!resolveClaims, Standing, Gate!Claims, Gate!Plane
<1>5. CASE q.bearer # "push" /\ x = None /\ oidc /\ q.cookie \in live
  BY <1>1, <1>5 DEF Gate!resolveClaims, Standing, Gate!Claims, Gate!Plane
<1>6. CASE q.bearer # "push" /\ x = None /\ ~(oidc /\ q.cookie \in live)
  BY <1>6 DEF Gate!resolveClaims, Standing, Gate!Claims, Gate!Plane
<1> QED
  BY <1>2, <1>3, <1>4, <1>5, <1>6

LEMMA LoadType ==
    ASSUME GateInv
    PROVE  Gate!load \in Gate!TokenList /\ Gate!load # None
  BY AccessAssumption DEF Gate!load, Gate!NoTokens, Gate!TokenList, Gate!HubGateAssumption, GateInv, Gate!TypeOK

LEMMA StoreQuiet == GateInv /\ UNCHANGED Gate!storeVars => Store'
  BY DEF GateInv, Store, Held, EndedOut, Sourced, Kept, Gate!load, Gate!storeVars

\* The requests other than r stay as they are.
Others(r) ==
    \A q \in GateReq : q # r =>
        at'[q] = at[q] /\ req'[q] = req[q] /\ claims'[q] = claims[q] /\ late'[q] = late[q]

LEMMA OthersKnown ==
    ASSUME GateInv, NEW r \in GateReq, Others(r), UNCHANGED work, ended \subseteq ended'
    PROVE  \A q \in GateReq : q # r =>
              /\ at'[q] # "idle" => req'[q] \in work'
              /\ at'[q] \in {"lookup", "bump"} => req'[q].cred.bearer \in Token
              /\ at'[q] \in {"gate", "handler", "save"} => Standing(claims'[q])
              /\ claims'[q] # None => at'[q] \in {"gate", "handler", "save"}
              /\ at'[q] = "save" => req'[q].op \in {"mint", "revokeToken"}
              /\ at'[q] \in {"handler", "save"} /\ req'[q].op \in Gate!SessionOnly =>
                    claims'[q].plane \in {"admin", "session"}
              /\ late'[q] => /\ at'[q] # "idle" /\ req'[q].cred.bearer \in ended'
                             /\ claims'[q] # None => claims'[q].plane # "token"
  BY DEF GateInv, Known, LateRefused, Others

\* An answer leaves nothing of the request behind.
LEMMA AnswerKnown ==
    ASSUME GateInv, NEW r \in GateReq, Gate!Answer(r), UNCHANGED work, ended \subseteq ended'
    PROVE  /\ Known' /\ LateRefused'
           /\ at' = [at EXCEPT ![r] = "idle"]
           /\ req' \in [GateReq -> Gate!Request \cup {None}] /\ claims' \in [GateReq -> Gate!Claims \cup {None}]
           /\ late' \in [GateReq -> BOOLEAN] /\ Others(r) /\ claims'[r] = None
<1>1. /\ at' = [at EXCEPT ![r] = "idle"] /\ req' = [req EXCEPT ![r] = None]
      /\ claims' = [claims EXCEPT ![r] = None] /\ late' = [late EXCEPT ![r] = FALSE]
  BY DEF Gate!Answer, Gate!Goto
<1>2. Others(r)
  BY <1>1 DEF GateInv, Gate!TypeOK, Others
<1>3. at'[r] = "idle" /\ claims'[r] = None /\ ~late'[r]
  BY <1>1 DEF GateInv, Gate!TypeOK
<1>4. Known' /\ LateRefused'
  BY <1>2, <1>3, OthersKnown DEF Known, LateRefused
<1> QED
  BY <1>1, <1>2, <1>3, <1>4 DEF GateInv, Gate!TypeOK

-----------------------------------------------------------------------------

LEMMA ArriveStep ==
    ASSUME GateInv, NEW r \in GateReq, Gate!Arrive(r)
    PROVE  GateInv'
<1>1. PICK q \in work :
        /\ req' = [req EXCEPT ![r] = q] /\ late' = [late EXCEPT ![r] = q.cred.bearer \in ended]
        /\ at' = [at EXCEPT ![r] = IF q.cred.bearer \in Token THEN "lookup" ELSE "resolve"]
  BY DEF Gate!Arrive, Gate!Goto
<1>2. at[r] = "idle" /\ UNCHANGED <<Gate!canvasVars, Gate!loginVars, Gate!storeVars, claims>>
  BY DEF Gate!Arrive
<1>3. /\ Others(r) /\ at'[r] \in {"lookup", "resolve"} /\ req'[r] = q
      /\ at'[r] = "lookup" => q.cred.bearer \in Token
      /\ late'[r] => q.cred.bearer \in ended
      /\ claims'[r] = None
  BY <1>1, <1>2 DEF GateInv, Gate!TypeOK, Others, Known
<1>4. q \in Gate!Request
  BY AccessAssumption DEF Gate!HubGateAssumption, GateInv, Gate!TypeOK
<1>5. Gate!TypeOK'
  <2>1. at' \in [GateReq -> {"idle", "lookup", "bump", "resolve", "gate", "handler", "save"}]
    BY <1>1 DEF GateInv, Gate!TypeOK
  <2>2. req' \in [GateReq -> Gate!Request \cup {None}] /\ late' \in [GateReq -> BOOLEAN]
    BY <1>1, <1>4 DEF GateInv, Gate!TypeOK
  <2>3. \A s \in GateReq : (at'[s] \in {"bump", "save"} <=> mu = s) /\ (list[s] # None <=> mu = s)
    BY <1>2, <1>3 DEF GateInv, Gate!TypeOK, Others
  <2> QED
    BY <1>2, <2>1, <2>2, <2>3 DEF GateInv, Gate!TypeOK, Gate!canvasVars, Gate!loginVars, Gate!storeVars
<1>6. Known' /\ LateRefused'
  BY <1>2, <1>3, OthersKnown DEF Known, LateRefused, Gate!canvasVars, Gate!storeVars
<1>7. Store'
  BY <1>2, StoreQuiet
<1> QED
  BY <1>5, <1>6, <1>7 DEF GateInv

LEMMA ResolveStep ==
    ASSUME GateInv, NEW r \in GateReq, Gate!Resolve(r)
    PROVE  GateInv'
<1> DEFINE c == Gate!resolveClaims(req[r].cred, None)
<1>1. /\ at[r] = "resolve" /\ claims' = [claims EXCEPT ![r] = c] /\ at' = [at EXCEPT ![r] = "gate"]
      /\ UNCHANGED <<Gate!canvasVars, Gate!loginVars, Gate!storeVars, req, late>>
  BY DEF Gate!Resolve, Gate!Goto
<1>2. Standing(c) /\ c \in Gate!Claims /\ c.plane # "token"
  BY <1>1, Asked, Resolved DEF Standing
<1>3. Others(r) /\ claims'[r] = c /\ at'[r] = "gate"
  BY <1>1 DEF GateInv, Gate!TypeOK, Others
<1>4. Gate!TypeOK'
  <2>1. /\ at' \in [GateReq -> {"idle", "lookup", "bump", "resolve", "gate", "handler", "save"}]
        /\ claims' \in [GateReq -> Gate!Claims \cup {None}]
    BY <1>1, <1>2 DEF GateInv, Gate!TypeOK
  <2>2. \A s \in GateReq : (at'[s] \in {"bump", "save"} <=> mu = s) /\ (list[s] # None <=> mu = s)
    BY <1>1, <1>3 DEF GateInv, Gate!TypeOK, Others
  <2> QED
    BY <1>1, <2>1, <2>2 DEF GateInv, Gate!TypeOK, Gate!canvasVars, Gate!loginVars, Gate!storeVars
<1>5. Known' /\ LateRefused'
  <2>1. req'[r] \in work /\ (late'[r] => req'[r].cred.bearer \in ended)
    BY <1>1 DEF GateInv, Known, LateRefused
  <2> QED
    BY <1>1, <1>2, <1>3, <2>1, OthersKnown DEF Known, LateRefused, Gate!canvasVars, Gate!storeVars
<1>6. Store'
  BY <1>1, StoreQuiet
<1> QED
  BY <1>4, <1>5, <1>6 DEF GateInv

\* The mutex is taken, and the file read.
LEMMA ReadStep ==
    ASSUME GateInv, NEW r \in GateReq, Gate!LookupRead(r) \/ Gate!StoreRead(r)
    PROVE  GateInv'
<1>1. /\ mu = None /\ mu' = r /\ list' = [list EXCEPT ![r] = Gate!load]
      /\ UNCHANGED <<Gate!canvasVars, Gate!loginVars, tokens, minted, ended, damaged, req, claims, late>>
  BY DEF Gate!LookupRead, Gate!StoreRead, Gate!LockStore
<1>2. \/ at[r] = "lookup" /\ at' = [at EXCEPT ![r] = "bump"]
      \/ at[r] = "handler" /\ at' = [at EXCEPT ![r] = "save"] /\ req[r].op \in {"mint", "revokeToken"}
  BY DEF Gate!LookupRead, Gate!StoreRead, Gate!Goto
<1>3. Gate!load \in Gate!TokenList /\ Gate!load # None
  BY LoadType
<1>4. /\ Others(r) /\ at'[r] \in {"bump", "save"}
      /\ \A s \in GateReq : list'[s] = IF s = r THEN Gate!load ELSE None
      /\ \A s \in GateReq : s # r => at[s] \notin {"bump", "save"}
  BY AccessAssumption, <1>1, <1>2 DEF GateInv, Gate!TypeOK, Others, Gate!HubGateAssumption
<1>5. Gate!TypeOK'
  <2>1. /\ at' \in [GateReq -> {"idle", "lookup", "bump", "resolve", "gate", "handler", "save"}]
        /\ list' \in [GateReq -> Gate!TokenList \cup {None}]
    BY <1>1, <1>2, <1>3 DEF GateInv, Gate!TypeOK
  <2>2. \A s \in GateReq : (at'[s] \in {"bump", "save"} <=> mu' = s) /\ (list'[s] # None <=> mu' = s)
    BY <1>1, <1>3, <1>4 DEF Others
  <2> QED
    BY <1>1, <2>1, <2>2 DEF GateInv, Gate!TypeOK, Gate!canvasVars, Gate!loginVars
<1>6. Known' /\ LateRefused'
  <2>1. at'[r] = "bump" \/ at'[r] = "save"
    BY <1>4
  <2>2. at'[r] = "bump" => at[r] = "lookup"
    BY <1>2 DEF GateInv, Gate!TypeOK
  <2>3. at'[r] = "save" => at[r] = "handler" /\ req[r].op \in {"mint", "revokeToken"}
    BY <1>2 DEF GateInv, Gate!TypeOK
  <2> QED
    BY <1>1, <1>4, <2>1, <2>2, <2>3, OthersKnown
    DEF GateInv, Known, LateRefused, Gate!canvasVars
<1>7. Store'
  <2>1. ~damaged => tokens # Corrupt /\ Gate!load = tokens
    BY DEF GateInv, Store, Kept, Gate!load
  <2>2. Held'
    BY <1>1, <1>4, <2>1 DEF Held
  <2>3. EndedOut'
    BY <1>1, <1>4 DEF GateInv, Store, EndedOut, Gate!load
  <2>4. Kept'
    BY <1>1 DEF GateInv, Store, Kept
  <2>5. Sourced'
    BY <1>1, <1>4 DEF GateInv, Store, Sourced, Gate!load
  <2> QED
    BY <2>2, <2>3, <2>4, <2>5 DEF Store
<1> QED
  BY <1>5, <1>6, <1>7 DEF GateInv

\* The mutex is released: nobody holds anything read.
LEMMA Unlocked ==
    ASSUME GateInv, NEW r \in GateReq, mu = r, Gate!UnlockStore(r), Others(r),
           at'[r] \notin {"bump", "save"}
    PROVE  /\ mu' = None /\ list' \in [GateReq -> Gate!TokenList \cup {None}]
           /\ \A s \in GateReq : list'[s] = None /\ at'[s] \notin {"bump", "save"} /\ mu' # s
           /\ list[r] \in Gate!TokenList
           /\ ~damaged => tokens # Corrupt /\ list[r] = tokens
           /\ \A t \in ended : list[r][t] = None \/ list[r][t].revoked
           /\ \A t \in Token : list[r][t] # None => t \in minted
<1>1. mu' = None /\ list' = [list EXCEPT ![r] = None]
  BY DEF Gate!UnlockStore
<1>2. list[r] # None /\ list[r] \in Gate!TokenList
  BY DEF GateInv, Gate!TypeOK
<1>3. \A s \in GateReq : s # None
  BY AccessAssumption DEF Gate!HubGateAssumption
<1>4. \A s \in GateReq : list'[s] = None /\ at'[s] \notin {"bump", "save"}
  BY <1>1 DEF GateInv, Gate!TypeOK, Others
<1> QED
  BY <1>1, <1>2, <1>3, <1>4 DEF GateInv, Gate!TypeOK, Store, Held, EndedOut, Sourced

LEMMA LookupSaveStep ==
    ASSUME GateInv, NEW r \in GateReq, Gate!LookupSave(r)
    PROVE  GateInv'
<1> DEFINE bearer == req[r].cred.bearer
           x == list[r][bearer]
           found == x # None /\ ~x.revoked
           c == Gate!resolveClaims(req[r].cred, IF found THEN x ELSE None)
<1>1. /\ at[r] = "bump" /\ mu = r /\ Gate!UnlockStore(r)
      /\ claims' = [claims EXCEPT ![r] = c] /\ at' = [at EXCEPT ![r] = "gate"]
      /\ tokens' \in {tokens, list[r]}
      /\ UNCHANGED <<Gate!canvasVars, Gate!loginVars, minted, ended, damaged, req, late>>
  BY DEF Gate!LookupSave, Gate!save, Gate!Goto, GateInv, Gate!TypeOK
<1>2. Others(r) /\ claims'[r] = c /\ at'[r] = "gate"
  BY <1>1 DEF GateInv, Gate!TypeOK, Others
<1>3. /\ mu' = None /\ list' \in [GateReq -> Gate!TokenList \cup {None}]
      /\ \A s \in GateReq : list'[s] = None /\ at'[s] \notin {"bump", "save"} /\ mu' # s
      /\ list[r] \in Gate!TokenList
      /\ ~damaged => tokens # Corrupt /\ list[r] = tokens
      /\ \A t \in ended : list[r][t] = None \/ list[r][t].revoked
      /\ \A t \in Token : list[r][t] # None => t \in minted
  BY <1>1, <1>2, Unlocked
<1>4. bearer \in Token /\ req[r].cred \in Gate!Credential /\ x \in Gate!TokenRecord \cup {None}
  BY <1>1, <1>3, Asked DEF GateInv, Known, Gate!TokenList
<1>5. /\ Standing(c) /\ c \in Gate!Claims
      /\ c.plane = "token" => found
  BY <1>4, Resolved DEF Standing
<1>6. Gate!TypeOK'
  <2>1. /\ at' \in [GateReq -> {"idle", "lookup", "bump", "resolve", "gate", "handler", "save"}]
        /\ claims' \in [GateReq -> Gate!Claims \cup {None}]
    BY <1>1, <1>5 DEF GateInv, Gate!TypeOK
  <2>2. tokens' \in Gate!TokenList \cup {Corrupt}
    BY <1>1, <1>3 DEF GateInv, Gate!TypeOK
  <2> QED
    BY <1>1, <1>3, <2>1, <2>2 DEF GateInv, Gate!TypeOK, Gate!canvasVars, Gate!loginVars
<1>7. Known' /\ LateRefused'
  <2>1. req'[r] \in work /\ (late'[r] => bearer \in ended)
    BY <1>1 DEF GateInv, Known, LateRefused
  <2>2. late'[r] => c.plane # "token"
    BY <1>3, <1>5, <2>1
  <2>3. /\ Standing(claims'[r])
        /\ late'[r] => claims'[r].plane # "token" /\ req'[r].cred.bearer \in ended
    BY <1>1, <1>2, <1>5, <2>1, <2>2
  <2>4. UNCHANGED <<work, ended>>
    BY <1>1 DEF Gate!canvasVars
  <2> HIDE DEF c, x, found, bearer
  <2>5. Known'
    BY <1>2, <2>1, <2>3, <2>4, OthersKnown DEF Known
  <2>6. LateRefused'
    BY <1>2, <2>3, <2>4, OthersKnown DEF LateRefused
  <2> QED
    BY <2>5, <2>6
<1>8. Store'
  <2>1. Held'
    BY <1>3 DEF Held
  <2>2. EndedOut' /\ Sourced'
    <3>1. /\ \A t \in ended : Gate!load'[t] = None \/ Gate!load'[t].revoked
          /\ \A t \in Token : Gate!load'[t] # None => t \in minted
      <4>1. CASE tokens' = tokens
        BY <4>1 DEF GateInv, Store, EndedOut, Sourced, Gate!load
      <4>2. CASE tokens' = list[r]
        <5>1. Gate!load' = list[r]
          BY AccessAssumption, <1>3, <4>2 DEF Gate!load, Gate!HubGateAssumption
        <5> QED
          BY <1>3, <5>1
      <4> QED
        BY <1>1, <4>1, <4>2
    <3> QED
      BY <1>1, <1>3, <3>1 DEF EndedOut, Sourced
  <2>3. Kept'
    BY <1>1, <1>3 DEF GateInv, Store, Kept
  <2> QED
    BY <2>1, <2>2, <2>3 DEF Store
<1> QED
  BY <1>6, <1>7, <1>8 DEF GateInv

\* Only a session, or the admin, gets past the gate with an account's operation.
LEMMA AccountGate ==
    ASSUME NEW q, NEW c, Gate!Verdict(q, c) = "next", q.op \in Gate!SessionOnly
    PROVE  c.plane \in {"admin", "session"}
<1>1. ~Gate!Refused(q, c)
  <2> SUFFICES ASSUME Gate!Refused(q, c) PROVE Gate!Verdict(q, c) = "403"
    OBVIOUS
  <2> QED
    BY DEF Gate!Verdict, Gate!Refused
<1>2. c.plane # "admin" => Gate!serveWrite(q, c)
  BY <1>1 DEF Gate!Verdict, Gate!SessionOnly
<1> QED
  BY <1>2 DEF Gate!serveWrite, Gate!SessionOnly

LEMMA GateStep ==
    ASSUME GateInv, NEW r \in GateReq, Gate!Gate(r)
    PROVE  GateInv'
<1>1. at[r] = "gate" /\ UNCHANGED <<Gate!canvasVars, Gate!loginVars, Gate!storeVars>>
  BY DEF Gate!Gate
<1>2. Store'
  BY <1>1, StoreQuiet
<1>3. CASE Gate!Verdict(req[r], claims[r]) = "next"
  <2>1. at' = [at EXCEPT ![r] = "handler"] /\ UNCHANGED <<req, claims, late>>
    BY <1>3 DEF Gate!Gate, Gate!Goto
  <2>2. Others(r) /\ at'[r] = "handler"
    BY <2>1 DEF GateInv, Gate!TypeOK, Others
  <2>3. Gate!TypeOK'
    <3>1. at' \in [GateReq -> {"idle", "lookup", "bump", "resolve", "gate", "handler", "save"}]
      BY <2>1 DEF GateInv, Gate!TypeOK
    <3>2. \A s \in GateReq : (at'[s] \in {"bump", "save"} <=> mu = s) /\ (list[s] # None <=> mu = s)
      BY <1>1, <2>2 DEF GateInv, Gate!TypeOK, Others
    <3> QED
      BY <1>1, <2>1, <3>1, <3>2 DEF GateInv, Gate!TypeOK, Gate!canvasVars, Gate!loginVars, Gate!storeVars
  <2>4. req[r].op \in Gate!SessionOnly => claims[r].plane \in {"admin", "session"}
    BY <1>3, AccountGate
  <2>5. UNCHANGED <<work, ended>>
    BY <1>1 DEF Gate!canvasVars, Gate!storeVars
  <2>6. Known' /\ LateRefused'
    BY <1>1, <2>1, <2>2, <2>4, <2>5, OthersKnown DEF GateInv, Known, LateRefused
  <2> QED
    BY <1>2, <2>3, <2>6 DEF GateInv
<1>4. CASE Gate!Verdict(req[r], claims[r]) # "next"
  <2>1. Gate!Answer(r)
    BY <1>4 DEF Gate!Gate
  <2>2. Gate!TypeOK'
    <3>1. \A s \in GateReq : (at'[s] \in {"bump", "save"} <=> mu = s) /\ (list[s] # None <=> mu = s)
      BY <1>1, <2>1, AnswerKnown DEF GateInv, Gate!TypeOK, Gate!canvasVars, Gate!storeVars
    <3> QED
      BY <1>1, <2>1, <3>1, AnswerKnown DEF GateInv, Gate!TypeOK, Gate!canvasVars, Gate!loginVars, Gate!storeVars
  <2>3. Known' /\ LateRefused'
    BY <1>1, <2>1, AnswerKnown DEF Gate!canvasVars, Gate!storeVars
  <2> QED
    BY <1>2, <2>2, <2>3 DEF GateInv
<1> QED
  BY <1>3, <1>4

\* What a handler may find out about itself.
LEMMA AtHandler ==
    ASSUME GateInv, NEW r \in GateReq, at[r] \in {"handler", "save"}
    PROVE  /\ claims[r] \in Gate!Claims
           /\ claims[r].who \in GatePrincipal \cup {Admin, None}
           /\ claims[r].plane = "session" => claims[r].who \in GatePrincipal
           /\ claims[r].plane = "admin" => claims[r].who = None
           /\ req[r].op \in Gate!SessionOnly => claims[r].plane \in {"admin", "session"}
           /\ req[r].id \in GateCanvas /\ req[r].to \in GateCanvas /\ req[r].ref \in Gate!Ref
  BY Asked DEF GateInv, Known, Standing, Gate!Claims

\* An answered request leaves the store's part of the type as it is.
LEMMA AnswerType ==
    ASSUME GateInv, NEW r \in GateReq, at[r] = "handler", Gate!Answer(r),
           UNCHANGED <<work, oidc, Gate!storeVars>>,
           owner' \in [GateCanvas -> GatePrincipal \cup {Admin, None}],
           grants' \in [GateCanvas -> SUBSET Gate!Ref],
           live' \subseteq GatePrincipal, cutOff' \subseteq GatePrincipal
    PROVE  GateInv'
<1>1. \A s \in GateReq : (at'[s] \in {"bump", "save"} <=> mu = s) /\ (list[s] # None <=> mu = s)
  BY AnswerKnown DEF GateInv, Gate!TypeOK, Gate!storeVars
<1>2. Gate!TypeOK'
  BY <1>1, AnswerKnown DEF GateInv, Gate!TypeOK, Gate!storeVars
<1>3. Known' /\ LateRefused'
  BY AnswerKnown DEF Gate!storeVars
<1> QED
  BY <1>2, <1>3, StoreQuiet DEF GateInv

LEMMA HandlerStep ==
    ASSUME GateInv, NEW r \in GateReq, Gate!Serve(r) \/ Gate!WriteCanvas(r) \/ Gate!EndLogin(r)
    PROVE  GateInv'
<1>1. at[r] = "handler" /\ Gate!Answer(r) /\ UNCHANGED <<work, oidc, Gate!storeVars>>
  BY DEF Gate!Serve, Gate!WriteCanvas, Gate!EndLogin, Gate!canvasVars
<1> DEFINE c == claims[r]
           i == req[r].id
           to == req[r].to
<1>2. /\ c.who \in GatePrincipal \cup {Admin, None} /\ i \in GateCanvas /\ req[r].ref \in Gate!Ref
      /\ c.plane = "session" => c.who \in GatePrincipal
      /\ to \in GateCanvas
  BY <1>1, AtHandler
<1>3. CASE Gate!Serve(r)
  <2>1. UNCHANGED <<owner, grants, live, cutOff>>
    BY <1>3 DEF Gate!Serve, Gate!canvasVars, Gate!loginVars
  <2> QED
    BY <1>1, <2>1, AnswerType DEF GateInv, Gate!TypeOK
<1>4. CASE Gate!WriteCanvas(r)
  <2>1. Gate!Owner(c) \in GatePrincipal \cup {Admin}
    BY <1>2 DEF Gate!Owner
  <2>2. /\ owner[i] \in GatePrincipal \cup {Admin, None} /\ grants[i] \in SUBSET Gate!Ref
        /\ owner \in [GateCanvas -> GatePrincipal \cup {Admin, None}] /\ grants \in [GateCanvas -> SUBSET Gate!Ref]
    BY <1>2 DEF GateInv, Gate!TypeOK
  <2>3. \/ UNCHANGED <<owner, grants>>
        \/ \E k \in {i, to}, p \in GatePrincipal \cup {Admin, None}, g \in SUBSET Gate!Ref :
              Gate!SetCanvas(k, p, g)
    BY <1>2, <1>4, <2>1, <2>2 DEF Gate!WriteCanvas
  <2>4. owner' \in [GateCanvas -> GatePrincipal \cup {Admin, None}] /\ grants' \in [GateCanvas -> SUBSET Gate!Ref]
    BY <1>2, <2>2, <2>3 DEF Gate!SetCanvas
  <2>5. UNCHANGED <<live, cutOff>>
    BY <1>4 DEF Gate!WriteCanvas, Gate!loginVars
  <2> QED
    BY <1>1, <2>4, <2>5, AnswerType DEF GateInv, Gate!TypeOK
<1>5. CASE Gate!EndLogin(r)
  <2>1. req[r].op \in Gate!SessionOnly /\ UNCHANGED <<owner, grants>>
    BY <1>5 DEF Gate!EndLogin, Gate!SessionOnly, Gate!canvasVars
  <2>2. /\ c.plane \in {"admin", "session"} /\ c.who # Admin
    BY AccessAssumption, <1>1, <1>2, <2>1, AtHandler DEF Gate!HubGateAssumption
  <2>3. live' \subseteq GatePrincipal /\ cutOff' \subseteq GatePrincipal
    BY <1>2, <1>5, <2>2 DEF Gate!EndLogin, GateInv, Gate!TypeOK
  <2> QED
    BY <1>1, <2>1, <2>3, AnswerType DEF GateInv, Gate!TypeOK
<1> QED
  BY <1>3, <1>4, <1>5

\* A request ends, having saved what it made of the list, or failed to.
LEMMA SaveStep ==
    ASSUME GateInv, NEW r \in GateReq, at[r] = "save",
           Gate!Answer(r), Gate!UnlockStore(r), UNCHANGED <<Gate!canvasVars, Gate!loginVars, damaged>>,
           NEW new \in Gate!TokenList,
           \/ UNCHANGED <<tokens, minted, ended>>
           \/ /\ tokens' = new
              /\ minted \subseteq minted' /\ minted' \subseteq Token
              /\ ended \subseteq ended' /\ ended' \subseteq minted'
              /\ \A t \in ended' : new[t] = None \/ new[t].revoked
              /\ \A t \in Token : new[t] # None => t \in minted'
              /\ ~damaged => \A t \in minted' : new[t] # None /\ (new[t].revoked <=> t \in ended')
    PROVE  GateInv'
<1>1. mu = r /\ work' = work
  BY DEF GateInv, Gate!TypeOK, Gate!canvasVars
<1>2. /\ Known' /\ LateRefused' /\ Others(r) /\ at'[r] = "idle"
      /\ at' = [at EXCEPT ![r] = "idle"]
      /\ req' \in [GateReq -> Gate!Request \cup {None}] /\ claims' \in [GateReq -> Gate!Claims \cup {None}]
      /\ late' \in [GateReq -> BOOLEAN]
  BY <1>1, AnswerKnown DEF GateInv, Gate!TypeOK
<1>3. /\ mu' = None /\ list' \in [GateReq -> Gate!TokenList \cup {None}]
      /\ \A s \in GateReq : list'[s] = None /\ at'[s] \notin {"bump", "save"} /\ mu' # s
      /\ ~damaged => tokens # Corrupt
  BY <1>1, <1>2, Unlocked
<1>4. Gate!TypeOK'
  <2>1. /\ at' \in [GateReq -> {"idle", "lookup", "bump", "resolve", "gate", "handler", "save"}]
        /\ tokens' \in Gate!TokenList \cup {Corrupt}
    BY <1>2 DEF GateInv, Gate!TypeOK
  <2> QED
    BY <1>2, <1>3, <2>1 DEF GateInv, Gate!TypeOK, Gate!canvasVars, Gate!loginVars
<1>5. new # Corrupt
  BY AccessAssumption DEF Gate!HubGateAssumption
<1>6. Held'
  BY <1>3 DEF Held
<1>7. EndedOut' /\ Sourced'
  <2>1. CASE UNCHANGED <<tokens, minted, ended>>
    <3>1. Gate!load' = Gate!load
      BY <2>1 DEF Gate!load
    <3> QED
      BY <1>3, <2>1, <3>1 DEF GateInv, Store, EndedOut, Sourced
  <2>2. CASE tokens' = new /\ ~UNCHANGED <<tokens, minted, ended>>
    <3>1. Gate!load' = new
      BY <1>5, <2>2 DEF Gate!load
    <3> QED
      BY <1>3, <2>2, <3>1 DEF EndedOut, Sourced
  <2> QED
    BY <2>1, <2>2
<1>8. Kept'
  BY <1>5 DEF GateInv, Store, Kept
<1> QED
  BY <1>2, <1>4, <1>6, <1>7, <1>8 DEF GateInv, Store

\* What the mutex's holder is about to change.
LEMMA HeldList ==
    ASSUME GateInv, NEW r \in GateReq, at[r] = "save"
    PROVE  /\ list[r] \in Gate!TokenList
           /\ \A t \in ended : list[r][t] = None \/ list[r][t].revoked
           /\ ~damaged => \A t \in minted : list[r][t] # None /\ (list[r][t].revoked <=> t \in ended)
           /\ minted \subseteq Token /\ ended \subseteq minted
           /\ \A t \in Token : list[r][t] # None => t \in minted
<1>1. mu = r /\ list[r] # None
  BY DEF GateInv, Gate!TypeOK
<1> QED
  BY <1>1 DEF GateInv, Gate!TypeOK, Store, Held, EndedOut, Sourced, Kept

LEMMA MintStep ==
    ASSUME GateInv, NEW r \in GateReq, Gate!Mint(r)
    PROVE  GateInv'
<1> DEFINE p == IF claims[r].plane = "admin"
                THEN IF req[r].ref \in GatePrincipal THEN req[r].ref ELSE Admin
                ELSE claims[r].who
<1>1. /\ at[r] = "save" /\ req[r].op = "mint" /\ Gate!Answer(r) /\ Gate!UnlockStore(r)
      /\ UNCHANGED <<Gate!canvasVars, Gate!loginVars, ended, damaged>>
  BY DEF Gate!Mint
<1>2. p \in GatePrincipal \cup {Admin}
  BY <1>1, AtHandler DEF Gate!SessionOnly
<1>3. PICK t \in Token \ minted, ok \in BOOLEAN :
        /\ Gate!save([list[r] EXCEPT ![t] = [owner |-> p, revoked |-> FALSE]], ok)
        /\ minted' = IF ok THEN minted \cup {t} ELSE minted
  BY DEF Gate!Mint
<1> DEFINE x == [owner |-> p, revoked |-> FALSE]
           new == [list[r] EXCEPT ![t] = x]
<1>4. x \in Gate!TokenRecord /\ x # None /\ x.revoked = FALSE
  BY AccessAssumption, <1>2 DEF Gate!TokenRecord, Gate!HubGateAssumption
<1>5. /\ list[r] \in Gate!TokenList /\ minted \subseteq Token /\ ended \subseteq minted
      /\ \A u \in ended : list[r][u] = None \/ list[r][u].revoked
      /\ ~damaged => \A u \in minted : list[r][u] # None /\ (list[r][u].revoked <=> u \in ended)
      /\ \A u \in Token : list[r][u] # None => u \in minted
  BY <1>1, HeldList
<1> HIDE DEF p, x
<1>6. new \in Gate!TokenList /\ \A u \in Token : new[u] = IF u = t THEN x ELSE list[r][u]
  BY <1>4, <1>5 DEF Gate!TokenList
<1>7. t \notin ended /\ \A u \in ended : new[u] = None \/ new[u].revoked
  BY <1>5, <1>6
<1>8. ~damaged => \A u \in minted \cup {t} : new[u] # None /\ (new[u].revoked <=> u \in ended)
  BY <1>4, <1>5, <1>6, <1>7
<1>9. tokens' \in {tokens, new} /\ (ok => tokens' = new) /\ minted' \in {minted, minted \cup {t}}
  BY <1>3 DEF Gate!save, x, p
<1> HIDE DEF new
<1>10. CASE ~ok
  <2>1. UNCHANGED <<tokens, minted, ended>>
    BY <1>1, <1>3, <1>10 DEF Gate!save
  <2> QED
    BY <1>1, <1>6, <2>1, SaveStep
<1>11. CASE ok
  <2>1. tokens' = new /\ minted' = minted \cup {t} /\ ended' = ended
    BY <1>1, <1>3, <1>9, <1>11
  <2>2. /\ minted' \subseteq Token /\ ended' \subseteq minted'
        /\ \A u \in Token : new[u] # None => u \in minted'
    BY <1>5, <1>6, <2>1
  <2> QED
    BY <1>1, <1>6, <1>7, <1>8, <2>1, <2>2, SaveStep
<1> QED
  BY <1>10, <1>11

LEMMA RevokeStep ==
    ASSUME GateInv, NEW r \in GateReq, Gate!RevokeToken(r)
    PROVE  GateInv'
<1> DEFINE t == req[r].tok
           x == list[r][t]
<1>1. /\ at[r] = "save" /\ req[r].op = "revokeToken" /\ Gate!Answer(r) /\ Gate!UnlockStore(r)
      /\ UNCHANGED <<Gate!canvasVars, Gate!loginVars, minted, damaged>>
  BY DEF Gate!RevokeToken
<1>2. t \in Token
  BY <1>1, Asked
<1>3. /\ list[r] \in Gate!TokenList /\ minted \subseteq Token /\ ended \subseteq minted
      /\ \A u \in ended : list[r][u] = None \/ list[r][u].revoked
      /\ ~damaged => \A u \in minted : list[r][u] # None /\ (list[r][u].revoked <=> u \in ended)
      /\ \A u \in Token : list[r][u] # None => u \in minted
  BY <1>1, HeldList
<1>4. CASE UNCHANGED <<tokens, ended>>
  BY <1>1, <1>3, <1>4, SaveStep
<1>5. CASE ~UNCHANGED <<tokens, ended>>
  <2>1. PICK ok \in BOOLEAN :
          /\ x # None
          /\ Gate!save([list[r] EXCEPT ![t].revoked = TRUE], ok)
          /\ ended' = IF ok THEN ended \cup {t} ELSE ended
    BY <1>5 DEF Gate!RevokeToken
  <2>2. x \in Gate!TokenRecord
    BY <1>2, <1>3, <2>1 DEF Gate!TokenList
  <2> DEFINE y == [x EXCEPT !.revoked = TRUE]
             new == [list[r] EXCEPT ![t] = y]
  <2>3. y \in Gate!TokenRecord /\ y # None /\ y.revoked = TRUE
    BY AccessAssumption, <2>2 DEF Gate!TokenRecord, Gate!HubGateAssumption
  <2>4. tokens' \in {tokens, new} /\ (ok => tokens' = new)
    BY <2>1 DEF Gate!save
  <2> HIDE DEF y, x, t
  <2>5. new \in Gate!TokenList /\ \A u \in Token : new[u] = IF u = t THEN y ELSE list[r][u]
    BY <1>2, <1>3, <2>3 DEF Gate!TokenList
  <2>6. ok
    BY <1>5, <2>1 DEF Gate!save, x, t
  <2>7. ended' = ended \cup {t} /\ tokens' = new
    BY <2>1, <2>4, <2>6
  <2>8. t \in minted
    BY <1>2, <1>3, <2>1 DEF x
  <2>9. /\ \A u \in ended' : new[u] = None \/ new[u].revoked
        /\ \A u \in Token : new[u] # None => u \in minted
        /\ ended' \subseteq minted /\ ended \subseteq ended'
    BY <1>2, <1>3, <2>3, <2>5, <2>7, <2>8
  <2>10. ~damaged => \A u \in minted : new[u] # None /\ (new[u].revoked <=> u \in ended')
    BY <1>3, <2>3, <2>5, <2>7
  <2> HIDE DEF new
  <2> QED
    BY <1>1, <1>3, <2>5, <2>7, <2>9, <2>10, SaveStep
<1> QED
  BY <1>4, <1>5

LEMMA EnvironmentStep ==
    ASSUME GateInv, Gate!Damage \/ \E p \in GatePrincipal : Gate!Login(p) \/ Gate!Reauthorize(p)
    PROVE  GateInv'
<1>1. /\ UNCHANGED <<Gate!canvasVars, mu, list, minted, ended, req, at, claims, late>>
      /\ live' \subseteq GatePrincipal /\ cutOff' \subseteq GatePrincipal
      /\ \/ UNCHANGED <<tokens, damaged>>
         \/ damaged' = TRUE /\ tokens' = Corrupt
  BY DEF Gate!Damage, Gate!Login, Gate!Reauthorize, Gate!canvasVars, Gate!storeVars, Gate!loginVars, GateInv, Gate!TypeOK
<1>2. Gate!TypeOK'
  BY <1>1 DEF GateInv, Gate!TypeOK, Gate!canvasVars
<1>3. Known' /\ LateRefused'
  BY <1>1 DEF GateInv, Known, LateRefused, Gate!canvasVars
<1>4. Held' /\ Kept'
  BY <1>1 DEF GateInv, Store, Held, Kept
<1>5. EndedOut' /\ Sourced'
  <2>1. CASE tokens' = tokens
    BY <1>1, <2>1 DEF GateInv, Store, EndedOut, Sourced, Gate!load
  <2>2. CASE tokens' = Corrupt
    <3>1. \A t \in Token : Gate!load'[t] = None
      BY <2>2 DEF Gate!load, Gate!NoTokens
    <3>2. ended \subseteq Token
      BY DEF GateInv, Gate!TypeOK
    <3> QED
      BY <1>1, <3>1, <3>2 DEF GateInv, Store, EndedOut, Sourced
  <2> QED
    BY <1>1, <2>1, <2>2
<1> QED
  BY <1>2, <1>3, <1>4, <1>5 DEF GateInv, Store

LEMMA GateNextInv == GateInv /\ [Gate!Next]_(Gate!vars) => GateInv'
<1> SUFFICES ASSUME GateInv, [Gate!Next]_(Gate!vars) PROVE GateInv'
  OBVIOUS
<1>1. ASSUME NEW r \in GateReq,
             Gate!Arrive(r) \/ Gate!Resolve(r) \/ Gate!LookupRead(r) \/ Gate!LookupSave(r) \/ Gate!Gate(r) \/ Gate!Handler(r)
      PROVE  GateInv'
  BY <1>1, ArriveStep, ResolveStep, ReadStep, LookupSaveStep, GateStep, HandlerStep, MintStep,
     RevokeStep DEF Gate!Handler
<1>2. CASE UNCHANGED Gate!vars
  <2>1. Gate!TypeOK'
    BY <1>2 DEF GateInv, Gate!TypeOK, Gate!vars
  <2>2. Known' /\ LateRefused'
    BY <1>2 DEF GateInv, Known, LateRefused, Gate!vars
  <2>3. Store'
    BY <1>2, StoreQuiet DEF Gate!vars, Gate!storeVars
  <2> QED
    BY <2>1, <2>2, <2>3 DEF GateInv
<1> QED
  BY <1>1, <1>2, EnvironmentStep DEF Gate!Next

\* Whoever holds the mutex has read what is in the file, and nothing but what was
\* handed out is in either (usertoken.go, readLocked and save).
THEOREM GateInvariance == Gate!Spec => []GateInv
<1>1. Gate!Init => GateInv
  BY GateInitInv
<1>2. GateInv /\ [Gate!Next]_(Gate!vars) => GateInv'
  BY GateNextInv
<1> QED
  BY <1>1, <1>2, PTL DEF Gate!Spec

\* No token and no revocation is lost, and a revoked token is nobody's
\* (Mint, Lookup, Revoke).
THEOREM NoTokenLost == Gate!Spec => []TokensKept
<1>1. GateInv => TokensKept
  BY DEF GateInv, Store, Kept, LateRefused, Gate!TokensKept, TokensKept
<1> QED
  BY <1>1, GateInvariance, PTL

-----------------------------------------------------------------------------
(* Who has lost every credential. *)

LEMMA PowerStep ==
    ASSUME GateInv, [Gate!Next]_(Gate!vars), NEW p \in GatePrincipal,
           Gate!Powerless(p), p \notin live' \ live, p \notin cutOff \ cutOff',
           ~\E r \in GateReq : Gate!Mint(r) /\ claims[r].plane = "admin"
    PROVE  Gate!Powerless(p)'
<1> DEFINE
      TokensOut == \A t \in Token : Gate!load[t] # None /\ Gate!load[t].owner = p => Gate!load[t].revoked
      ListsOut == \A r \in GateReq, t \in Token :
          list[r] # None /\ list[r][t] # None /\ list[r][t].owner = p => list[r][t].revoked
      RequestsOut == \A r \in GateReq :
          claims[r] # None /\ claims[r].who = p => at[r] = "gate" /\ claims[r].plane = "actor"
<1>1. p \notin live' /\ p \in cutOff' /\ p # None
  BY AccessAssumption DEF Gate!Powerless, Gate!HubGateAssumption
<1>2. TokensOut /\ ListsOut /\ RequestsOut
  BY DEF Gate!Powerless
<1>3. SUFFICES /\ \A t \in Token : Gate!load'[t] # None /\ Gate!load'[t].owner = p => Gate!load'[t].revoked
               /\ \A r \in GateReq, t \in Token :
                     list'[r] # None /\ list'[r][t] # None /\ list'[r][t].owner = p => list'[r][t].revoked
               /\ \A r \in GateReq :
                     claims'[r] # None /\ claims'[r].who = p => at'[r] = "gate" /\ claims'[r].plane = "actor"
  BY <1>1 DEF Gate!Powerless
<1> DEFINE
      TokensOutNext == \A t \in Token : Gate!load'[t] # None /\ Gate!load'[t].owner = p => Gate!load'[t].revoked
      ListsOutNext == \A r \in GateReq, t \in Token :
          list'[r] # None /\ list'[r][t] # None /\ list'[r][t].owner = p => list'[r][t].revoked
      RequestsOutNext == \A r \in GateReq :
          claims'[r] # None /\ claims'[r].who = p => at'[r] = "gate" /\ claims'[r].plane = "actor"
<1>4. UNCHANGED tokens => TokensOutNext
  BY <1>2 DEF Gate!load
<1>5. UNCHANGED list => ListsOutNext
  BY <1>2
<1>6. UNCHANGED <<at, claims>> => RequestsOutNext
  BY <1>2
<1>7. ASSUME NEW r \in GateReq, at[r] # "idle", Gate!Answer(r) PROVE RequestsOutNext
  <2>1. \A q \in GateReq : q # r => at'[q] = at[q] /\ claims'[q] = claims[q]
    BY <1>7 DEF Gate!Answer, Gate!Goto, GateInv, Gate!TypeOK
  <2>2. claims'[r] = None
    BY <1>7 DEF Gate!Answer, GateInv, Gate!TypeOK
  <2> QED
    BY <1>2, <2>1, <2>2
<1>8. ASSUME NEW r \in GateReq, Gate!UnlockStore(r) PROVE ListsOutNext
  <2>1. \A q \in GateReq : list'[q] = list[q] \/ list'[q] = None
    BY <1>8 DEF Gate!UnlockStore, GateInv, Gate!TypeOK
  <2> QED
    BY <1>2, <2>1
<1>9. ASSUME NEW new \in Gate!TokenList, tokens' \in {tokens, new},
             \A t \in Token : new[t] # None /\ new[t].owner = p => new[t].revoked
      PROVE  TokensOutNext
  <2>1. CASE tokens' = tokens
    BY <1>4, <2>1
  <2>2. CASE tokens' = new
    <3>1. Gate!load' = new
      BY AccessAssumption, <2>2 DEF Gate!load, Gate!HubGateAssumption
    <3> QED
      BY <1>9, <3>1
  <2> QED
    BY <1>9, <2>1, <2>2
<1> HIDE DEF TokensOut, ListsOut, RequestsOut, TokensOutNext, ListsOutNext, RequestsOutNext
<1>10. ASSUME NEW r \in GateReq, Gate!Arrive(r) PROVE TokensOutNext /\ ListsOutNext /\ RequestsOutNext
  <2>1. /\ at[r] = "idle" /\ \A q \in GateReq : q # r => at'[q] = at[q]
        /\ UNCHANGED <<tokens, list, claims>>
    BY <1>10 DEF Gate!Arrive, Gate!Goto, Gate!storeVars, GateInv, Gate!TypeOK
  <2>2. RequestsOutNext
    BY <1>2, <2>1 DEF RequestsOut, RequestsOutNext
  <2> QED
    BY <1>4, <1>5, <2>1, <2>2
<1>11. ASSUME NEW r \in GateReq, Gate!Resolve(r) PROVE TokensOutNext /\ ListsOutNext /\ RequestsOutNext
  <2> DEFINE c == Gate!resolveClaims(req[r].cred, None)
  <2>1. /\ at[r] = "resolve" /\ claims'[r] = c /\ at'[r] = "gate"
        /\ \A q \in GateReq : q # r => at'[q] = at[q] /\ claims'[q] = claims[q]
        /\ UNCHANGED <<tokens, list>>
    BY <1>11 DEF Gate!Resolve, Gate!Goto, Gate!storeVars, GateInv, Gate!TypeOK
  <2>2. /\ Standing(c) /\ (c.plane = "session" => c.who \in live) /\ c.plane # "token"
        /\ c.plane \in {"admin", "anonymous"} => c.who = None
    BY <2>1, Asked, Resolved
  <2>3. c.who = p => c.plane = "actor"
    BY <1>1, <2>2 DEF Standing, Gate!Claims, Gate!Plane, Gate!Powerless
  <2> HIDE DEF c
  <2>4. RequestsOutNext
    BY <1>2, <2>1, <2>3 DEF RequestsOut, RequestsOutNext
  <2> QED
    BY <1>4, <1>5, <2>1, <2>4
<1>12. ASSUME NEW r \in GateReq, Gate!LookupRead(r) \/ Gate!StoreRead(r)
       PROVE  TokensOutNext /\ ListsOutNext /\ RequestsOutNext
  <2>1. /\ list' = [list EXCEPT ![r] = Gate!load] /\ UNCHANGED <<tokens, claims>>
        /\ at[r] \in {"lookup", "handler"} /\ \A q \in GateReq : q # r => at'[q] = at[q]
    BY <1>12 DEF Gate!LookupRead, Gate!StoreRead, Gate!LockStore, Gate!Goto, GateInv, Gate!TypeOK
  <2>2. \A q \in GateReq : list'[q] = list[q] \/ list'[q] = Gate!load
    BY <2>1 DEF GateInv, Gate!TypeOK
  <2>3. ListsOutNext
    BY <1>2, <2>2 DEF TokensOut, ListsOut, ListsOutNext
  <2>4. RequestsOutNext
    BY <1>2, <2>1 DEF RequestsOut, RequestsOutNext
  <2> QED
    BY <1>4, <2>1, <2>3, <2>4
<1>13. ASSUME NEW r \in GateReq, Gate!LookupSave(r) PROVE TokensOutNext /\ ListsOutNext /\ RequestsOutNext
  <2> DEFINE x == list[r][req[r].cred.bearer]
             found == x # None /\ ~x.revoked
             c == Gate!resolveClaims(req[r].cred, IF found THEN x ELSE None)
  <2>1. /\ at[r] = "bump" /\ mu = r /\ Gate!UnlockStore(r)
        /\ claims'[r] = c /\ at'[r] = "gate"
        /\ \A q \in GateReq : q # r => at'[q] = at[q] /\ claims'[q] = claims[q]
        /\ tokens' \in {tokens, list[r]}
    BY <1>13 DEF Gate!LookupSave, Gate!save, Gate!Goto, GateInv, Gate!TypeOK
  <2>2. list[r] \in Gate!TokenList /\ list[r] # None /\ req[r].cred.bearer \in Token
    BY <2>1 DEF GateInv, Gate!TypeOK, Known
  <2>3. x \in Gate!TokenRecord \cup {None} /\ req[r].cred \in Gate!Credential
    BY <2>1, <2>2, Asked DEF Gate!TokenList
  <2>4. found => x.owner # p
    BY <1>2, <2>2 DEF ListsOut
  <2>5. /\ Standing(c) /\ (c.plane = "session" => c.who \in live)
        /\ c.plane = "token" => found /\ c.who = x.owner
        /\ c.plane \in {"admin", "anonymous"} => c.who = None
    BY <2>3, Resolved
  <2> HIDE DEF c, x, found
  <2>6. c.who = p => c.plane = "actor"
    <3>1. p \notin live /\ p # None
      BY <1>1 DEF Gate!Powerless
    <3>2. c.plane \in {"admin", "actor", "token", "session", "anonymous"}
      BY <2>5 DEF Standing, Gate!Claims, Gate!Plane
    <3> QED
      BY <2>4, <2>5, <3>1, <3>2
  <2>7. RequestsOutNext
    BY <1>2, <2>1, <2>6 DEF RequestsOut, RequestsOutNext
  <2>8. \A t \in Token : list[r][t] # None /\ list[r][t].owner = p => list[r][t].revoked
    BY <1>2, <2>2 DEF ListsOut
  <2> QED
    BY <1>8, <1>9, <2>1, <2>2, <2>7, <2>8
<1>14. ASSUME NEW r \in GateReq, Gate!Gate(r) PROVE TokensOutNext /\ ListsOutNext /\ RequestsOutNext
  <2>1. at[r] = "gate" /\ UNCHANGED <<tokens, list>>
    BY <1>14 DEF Gate!Gate, Gate!storeVars
  <2>2. CASE Gate!Answer(r)
    BY <1>4, <1>5, <1>7, <2>1, <2>2
  <2>3. CASE Gate!Verdict(req[r], claims[r]) = "next" /\ ~Gate!Answer(r)
    <3>1. /\ UNCHANGED claims /\ \A q \in GateReq : q # r => at'[q] = at[q]
      BY <1>14, <2>3 DEF Gate!Gate, Gate!Goto, GateInv, Gate!TypeOK
    <3>2. ~Gate!Refused(req[r], claims[r])
      <4> SUFFICES ASSUME Gate!Refused(req[r], claims[r]) PROVE Gate!Verdict(req[r], claims[r]) = "403"
        BY <2>3
      <4> QED
        BY DEF Gate!Verdict, Gate!Refused
    <3>3. ~(claims[r] # None /\ claims[r].who = p)
      BY <1>2, <3>2 DEF RequestsOut, Gate!Refused, Gate!Powerless
    <3>4. RequestsOutNext
      BY <1>2, <3>1, <3>3 DEF RequestsOut, RequestsOutNext
    <3> QED
      BY <1>4, <1>5, <2>1, <3>4
  <2> QED
    BY <1>14, <2>2, <2>3 DEF Gate!Gate
<1>15. ASSUME NEW r \in GateReq, Gate!Serve(r) \/ Gate!WriteCanvas(r) \/ Gate!EndLogin(r)
       PROVE  TokensOutNext /\ ListsOutNext /\ RequestsOutNext
  <2>1. at[r] = "handler" /\ Gate!Answer(r) /\ UNCHANGED <<tokens, list>>
    BY <1>15 DEF Gate!Serve, Gate!WriteCanvas, Gate!EndLogin, Gate!storeVars
  <2> QED
    BY <1>4, <1>5, <1>7, <2>1
<1>16. ASSUME NEW r \in GateReq, Gate!Mint(r) PROVE TokensOutNext /\ ListsOutNext /\ RequestsOutNext
  <2>1. /\ at[r] = "save" /\ req[r].op = "mint" /\ Gate!Answer(r) /\ Gate!UnlockStore(r)
        /\ claims[r].plane # "admin"
    BY <1>16 DEF Gate!Mint
  <2>2. claims[r].who \in GatePrincipal /\ claims[r] # None
    <3>1. claims[r] \in Gate!Claims /\ claims[r].plane = "session" /\ claims[r].who \in GatePrincipal
      BY <2>1, AtHandler DEF Gate!SessionOnly
    <3> QED
      BY AccessAssumption, <3>1 DEF Gate!HubGateAssumption
  <2>3. claims[r].who # p
    BY <1>2, <2>1, <2>2 DEF RequestsOut
  <2> DEFINE x == [owner |-> claims[r].who, revoked |-> FALSE]
  <2>4. x \in Gate!TokenRecord /\ x.owner # p
    BY <2>2, <2>3 DEF Gate!TokenRecord
  <2>5. PICK t \in Token \ minted, ok \in BOOLEAN : Gate!save([list[r] EXCEPT ![t] = x], ok)
    BY <1>16, <2>1 DEF Gate!Mint
  <2> DEFINE new == [list[r] EXCEPT ![t] = x]
  <2>6. list[r] \in Gate!TokenList /\ list[r] # None
    BY <2>1 DEF GateInv, Gate!TypeOK
  <2> HIDE DEF x
  <2>7. new \in Gate!TokenList /\ \A u \in Token : new[u] = IF u = t THEN x ELSE list[r][u]
    BY <2>4, <2>6 DEF Gate!TokenList
  <2>8. \A u \in Token : new[u] # None /\ new[u].owner = p => new[u].revoked
    BY <1>2, <2>4, <2>6, <2>7 DEF ListsOut
  <2>9. tokens' \in {tokens, new}
    BY <2>5 DEF Gate!save
  <2> HIDE DEF new
  <2> QED
    BY <1>7, <1>8, <1>9, <2>1, <2>7, <2>8, <2>9
<1>17. ASSUME NEW r \in GateReq, Gate!RevokeToken(r) PROVE TokensOutNext /\ ListsOutNext /\ RequestsOutNext
  <2> DEFINE t == req[r].tok
             x == list[r][t]
             y == [x EXCEPT !.revoked = TRUE]
             new == [list[r] EXCEPT ![t] = y]
  <2>1. at[r] = "save" /\ req[r].op = "revokeToken" /\ Gate!Answer(r) /\ Gate!UnlockStore(r)
    BY <1>17 DEF Gate!RevokeToken
  <2>2. t \in Token /\ list[r] \in Gate!TokenList /\ list[r] # None
    BY <2>1, Asked DEF GateInv, Gate!TypeOK
  <2>3. CASE UNCHANGED tokens
    BY <1>4, <1>7, <1>8, <2>1, <2>3
  <2>4. CASE ~UNCHANGED tokens
    <3>1. x # None /\ tokens' = new
      BY <1>17, <2>4 DEF Gate!RevokeToken, Gate!save
    <3>2. x \in Gate!TokenRecord
      BY <2>2, <3>1 DEF Gate!TokenList
    <3>3. y \in Gate!TokenRecord /\ y.revoked = TRUE
      BY <3>2 DEF Gate!TokenRecord
    <3> HIDE DEF y, x, t
    <3>4. new \in Gate!TokenList /\ \A u \in Token : new[u] = IF u = t THEN y ELSE list[r][u]
      BY <2>2, <3>3 DEF Gate!TokenList
    <3>5. \A u \in Token : new[u] # None /\ new[u].owner = p => new[u].revoked
      BY <1>2, <2>2, <3>3, <3>4 DEF ListsOut
    <3> HIDE DEF new
    <3> QED
      BY <1>7, <1>8, <1>9, <2>1, <3>1, <3>4, <3>5
  <2> QED
    BY <2>3, <2>4
<1>18. ASSUME Gate!Damage PROVE TokensOutNext /\ ListsOutNext /\ RequestsOutNext
  <2>1. tokens' = Corrupt /\ UNCHANGED <<list, at, claims>>
    BY <1>18 DEF Gate!Damage
  <2>2. \A t \in Token : Gate!load'[t] = None
    BY <2>1 DEF Gate!load, Gate!NoTokens
  <2> QED
    BY <1>5, <1>6, <2>1, <2>2 DEF TokensOutNext
<1>19. ASSUME UNCHANGED Gate!vars \/ \E q \in GatePrincipal : Gate!Login(q) \/ Gate!Reauthorize(q)
       PROVE  TokensOutNext /\ ListsOutNext /\ RequestsOutNext
  <2>1. UNCHANGED <<tokens, list, at, claims>>
    BY <1>19 DEF Gate!vars, Gate!Login, Gate!Reauthorize, Gate!storeVars
  <2> QED
    BY <1>4, <1>5, <1>6, <2>1
<1>20. TokensOutNext /\ ListsOutNext /\ RequestsOutNext
  BY <1>10, <1>11, <1>12, <1>13, <1>14, <1>15, <1>16, <1>17, <1>18, <1>19 DEF Gate!Next, Gate!Handler
<1> QED
  BY <1>20 DEF TokensOutNext, ListsOutNext, RequestsOutNext

\* Neither a session, an agent nor a token gives its owner back another of them:
\* not the gate, nor anything that a request under way still does
\* (serveWrite, admitAgentConn).
THEOREM NoWayBack == Gate!Spec => PowerlessStays
<1>1. GateInv /\ [Gate!Next]_(Gate!vars) =>
        [\A p \in GatePrincipal :
            Gate!Powerless(p) /\ ~Gate!Powerless(p)' =>
                \/ p \in live' \ live \/ p \in cutOff \ cutOff'
                \/ \E r \in GateReq : Gate!Mint(r) /\ claims[r].plane = "admin"]_(Gate!vars)
  BY PowerStep
<1> QED
  BY <1>1, GateInvariance, PTL DEF Gate!Spec, Gate!PowerlessStays, PowerlessStays

-----------------------------------------------------------------------------
(* Both.                                                                   *)

\* Metadata and gate are well typed wherever both run: a request that writes has
\* the metadata lock, and one at a time has the token store.
THEOREM Typed == Spec /\ Gate!Spec => []TypesOK
<1>1. IInv /\ GateInv => TypesOK
  BY DEF IInv, Frame, GateInv, TypesOK
<1> QED
  BY <1>1, Invariance, GateInvariance, PTL
=============================================================================

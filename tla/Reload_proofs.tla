---------------------------- MODULE Reload_proofs ----------------------------
(***************************************************************************)
(* The WaitGroup of the watcher is balanced and Close is a barrier; the    *)
(* hub's books are right, the caps hold and the reaper spares whoever      *)
(* stayed: for any canvases, clients and caps, and any finite set of       *)
(* timers.                                                                 *)
(***************************************************************************)
EXTENDS Reload, FiniteSetTheorems, TLAPS

-----------------------------------------------------------------------------
(* The watcher.                                                            *)

\* A timer in use carries the id its closure captured, and a map entry is
\* filed under that id.
OwnersAgree ==
    /\ \A t \in Live : owner[t] \in Canvas
    /\ \A c \in Canvas : timers[c] # None => owner[timers[c]] = c

\* Close stops timers only after the loop is gone, and misses none.
CloseShape ==
    /\ ~loopLive => handling = None
    /\ closing \in {"stopping", "waiting", "returned"} => ~loopLive
    /\ closing = "stopping" => armed \subseteq toStop
    /\ closing \in {"waiting", "returned"} => armed = {}

IInv ==
    /\ TypeOK
    /\ CreditBalance
    /\ ArmedIsCurrent
    /\ OwnersAgree
    /\ CloseShape
    /\ closing = "returned" => Live = {}

\* Live is finite, so the credit counts behave like natural numbers.
LEMMA LiveFinite == Live \subseteq Timer /\ IsFiniteSet(Live) /\ Cardinality(Live) \in Nat
BY WatcherAssumption, FS_Subset, FS_CardinalityType DEF Live

LEMMA InitInv == Init => IInv
<1> SUFFICES ASSUME Init PROVE IInv
  OBVIOUS
<1>1. TypeOK
  BY DEF Init, TypeOK, CloseStep
<1>2. Live = {} /\ OneRun
  BY DEF Init, Live, Idle, OneRun
<1>3. Cardinality(Live) = 0
  BY <1>2, FS_EmptySet
<1> QED
  BY <1>1, <1>2, <1>3
  DEF Init, IInv, CreditBalance, ArmedIsCurrent, OwnersAgree, CloseShape
\* Steps that leave the timers alone, and keep Close's progress consistent.
LEMMA FrameStep ==
    ASSUME IInv, UNCHANGED timerVars,
           TypeOK', CloseShape', closing' = "returned" => Live = {}
    PROVE  IInv'
<1>1. Live' = Live /\ OneRun'
  BY DEF IInv, CreditBalance, OneRun, Live, Idle, timerVars
<1> QED
  BY <1>1 DEF IInv, CreditBalance, ArmedIsCurrent, OwnersAgree, timerVars

LEMMA StartStep ==
    ASSUME IInv, scheduleReload, StartTimer(handling)
    PROVE  IInv'
<1> DEFINE c == handling
<1>1. PICK t \in Timer :
        /\ Unreferenced(t)
        /\ fireWG' = fireWG + 1
        /\ armed' = armed \cup {t}
        /\ owner' = [owner EXCEPT ![t] = c]
        /\ timers' = [timers EXCEPT ![c] = t]
  BY DEF StartTimer
<1> USE DEF IInv
<1>2. c \in Canvas /\ t # None /\ timers[c] \notin armed
  BY WatcherAssumption DEF TypeOK, scheduleReload, StartTimer
<1>3. TypeOK'
  BY <1>1, <1>2 DEF TypeOK, scheduleReload, StartTimer, loopVars, closeVars
<1>4. t \notin Live /\ Live' = Live \cup {t}
  <2>1. UNCHANGED <<fired, running>>
    BY DEF StartTimer
  <2>2. t \notin Live
    BY <1>1 DEF Live, Unreferenced
  <2>3. ASSUME NEW u \in Timer
        PROVE  Idle(u)' <=> Idle(u) /\ u # t
    <3>1. u \in armed' <=> u \in armed \/ u = t
      BY <1>1
    <3> QED
      BY <2>1, <3>1 DEF Idle
  <2> QED
    BY <2>2, <2>3 DEF Live
<1>5. OneRun'
  <2>1. OneRun /\ UNCHANGED <<fired, running>> /\ fired[t] = 0 /\ running[t] = 0
    BY <1>1 DEF CreditBalance, StartTimer, Unreferenced, Idle
  <2> QED
    BY <1>1, <2>1 DEF OneRun
<1>6. CreditBalance'
  BY <1>1, <1>4, <1>5, LiveFinite, FS_AddElement DEF CreditBalance
<1>7. ArmedIsCurrent'
  BY <1>1, <1>2 DEF ArmedIsCurrent, TypeOK, Unreferenced
<1>8. OwnersAgree'
  BY <1>1, <1>2, <1>4 DEF OwnersAgree, TypeOK, Unreferenced
<1>9. CloseShape'
  BY <1>1, <1>2, WatcherAssumption DEF CloseShape, scheduleReload, MuFree, closeVars, TypeOK, CloseStep
<1>10. closing' # "returned"
  BY <1>2, WatcherAssumption DEF CloseShape, scheduleReload, closeVars, TypeOK
<1> QED
  BY <1>3, <1>6, <1>7, <1>8, <1>9, <1>10

LEMMA FireStep ==
    ASSUME IInv, NEW t \in Timer, Fire(t)
    PROVE  IInv'
<1> USE DEF IInv, Fire, loopVars, closeVars
<1>1. TypeOK'
  BY DEF TypeOK
<1>2. OneRun'
  BY DEF CreditBalance, OneRun, TypeOK
<1>3. Live' = Live
  BY DEF Live, Idle, TypeOK
<1>4. ArmedIsCurrent' /\ OwnersAgree' /\ CloseShape'
  BY <1>3 DEF ArmedIsCurrent, OwnersAgree, CloseShape
<1> QED
  BY <1>1, <1>2, <1>3, <1>4 DEF CreditBalance

LEMMA CleanupStep ==
    ASSUME IInv, NEW t \in Timer, CallbackCleanup(t)
    PROVE  IInv'
<1> USE DEF IInv, CallbackCleanup, loopVars, closeVars
<1>1. t \notin armed /\ running[t] = 0 /\ fired[t] = 1
  <2>1. fired[t] \in Nat /\ running[t] \in Nat
    BY DEF TypeOK
  <2>2. fired[t] + running[t] <= 1 /\ (t \in armed => fired[t] + running[t] = 0)
    BY DEF CreditBalance, OneRun
  <2> QED
    BY <2>1, <2>2
<1>2. t \in Live /\ owner[t] \in Canvas
  BY <1>1 DEF Live, Idle, OwnersAgree
<1>3. TypeOK'
  BY <1>1, <1>2 DEF TypeOK
<1>4. OneRun'
  BY <1>1 DEF CreditBalance, OneRun, TypeOK
<1>5. Live' = Live
  BY <1>1 DEF Live, Idle, TypeOK
<1>6. ArmedIsCurrent'
  BY <1>1, <1>2 DEF ArmedIsCurrent, TypeOK
<1>7. OwnersAgree' /\ CloseShape'
  BY <1>1, <1>2, <1>5 DEF OwnersAgree, CloseShape, TypeOK
<1> QED
  BY <1>3, <1>4, <1>5, <1>6, <1>7 DEF CreditBalance

LEMMA ReloadStep ==
    ASSUME IInv, NEW t \in Timer, CallbackReload(t)
    PROVE  IInv'
<1> USE DEF IInv, CallbackReload, loopVars, closeVars
<1>1. t \in Live /\ t \notin armed /\ running[t] = 1 /\ fired[t] = 0
  BY DEF Live, Idle, CreditBalance, OneRun, TypeOK
<1>2. Live' = Live \ {t}
  BY <1>1 DEF Live, Idle, TypeOK
<1>3. OneRun'
  BY <1>1 DEF CreditBalance, OneRun, TypeOK
<1>4. CreditBalance'
  BY <1>1, <1>2, <1>3, LiveFinite, FS_RemoveElement DEF CreditBalance, TypeOK
<1>5. IsFiniteSet(Live') /\ Cardinality(Live') \in Nat
  BY <1>2, LiveFinite, FS_RemoveElement, FS_CardinalityType
<1>6. TypeOK'
  BY <1>1, <1>4, <1>5 DEF TypeOK, CreditBalance
<1>7. ArmedIsCurrent' /\ OwnersAgree' /\ CloseShape'
  BY <1>2 DEF ArmedIsCurrent, OwnersAgree, CloseShape
<1> QED
  BY <1>1, <1>2, <1>4, <1>6, <1>7

LEMMA StopTimerStep ==
    ASSUME IInv, NEW t \in Timer, CloseStopTimer(t)
    PROVE  IInv'
<1> USE DEF IInv, CloseStopTimer, loopVars
<1>1. CASE t \in armed
  <2>1. t \in Live /\ fired[t] = 0 /\ running[t] = 0
    BY <1>1 DEF Live, Idle, CreditBalance, OneRun, TypeOK
  <2>2. Live' = Live \ {t} /\ OneRun'
    BY <2>1 DEF Live, Idle, CreditBalance, OneRun, TypeOK
  <2>3. CreditBalance'
    BY <1>1, <2>1, <2>2, LiveFinite, FS_RemoveElement DEF CreditBalance, TypeOK
  <2>4. IsFiniteSet(Live') /\ Cardinality(Live') \in Nat
    BY <2>2, LiveFinite, FS_RemoveElement, FS_CardinalityType
  <2>5. TypeOK'
    BY <2>3, <2>4 DEF TypeOK, CreditBalance
  <2>6. ArmedIsCurrent' /\ OwnersAgree' /\ CloseShape'
    BY <2>2 DEF ArmedIsCurrent, OwnersAgree, CloseShape
  <2> QED
    BY <2>3, <2>5, <2>6
<1>2. CASE t \notin armed
  <2>1. UNCHANGED timerVars
    BY <1>2 DEF timerVars
  <2>2. TypeOK' /\ CloseShape'
    BY <1>2 DEF TypeOK, CloseShape
  <2> QED
    BY <2>1, <2>2, FrameStep
<1> QED
  BY <1>1, <1>2

LEMMA NextInv == IInv /\ [Next]_vars => IInv'
<1> SUFFICES ASSUME IInv, [Next]_vars PROVE IInv'
  OBVIOUS
<1>1. ASSUME NEW c \in Canvas, Change(c) PROVE IInv'
  <2>1. TypeOK' /\ CloseShape' /\ UNCHANGED <<closing, timerVars>>
    BY <1>1 DEF IInv, Change, TypeOK, CloseShape, timerVars, closeVars
  <2> QED
    BY <2>1, FrameStep DEF IInv
<1>2. ASSUME NEW c \in Canvas, TakeEvent(c) PROVE IInv'
  <2>1. TypeOK' /\ CloseShape' /\ UNCHANGED <<closing, timerVars>>
    BY <1>2 DEF IInv, TakeEvent, TypeOK, CloseShape, timerVars, closeVars
  <2> QED
    BY <2>1, FrameStep DEF IInv
<1>3. CASE LoopExit
  <2>1. TypeOK' /\ CloseShape' /\ UNCHANGED <<closing, timerVars>>
    BY <1>3 DEF IInv, LoopExit, TypeOK, CloseShape, timerVars, closeVars
  <2> QED
    BY <2>1, FrameStep DEF IInv
<1>4. CASE scheduleReload
  <2>1. CASE PushBack(handling)
    <3>1. TypeOK' /\ CloseShape' /\ UNCHANGED <<closing, timerVars>>
      BY <1>4, <2>1 DEF IInv, scheduleReload, PushBack, TypeOK, CloseShape, timerVars, closeVars
    <3> QED
      BY <3>1, FrameStep DEF IInv
  <2> QED
    BY <1>4, <2>1, StartStep DEF scheduleReload
<1>5. ASSUME NEW t \in Timer, Fire(t) \/ Callback(t) PROVE IInv'
  BY <1>5, FireStep, CleanupStep, ReloadStep DEF Callback
<1>6. CASE CloseDone
  <2>1. TypeOK' /\ CloseShape' /\ UNCHANGED timerVars /\ closing' # "returned"
    BY <1>6 DEF IInv, CloseDone, TypeOK, CloseStep, CloseShape, timerVars, loopVars
  <2> QED
    BY <2>1, FrameStep
<1>7. CASE CloseFsw
  <2>1. TypeOK' /\ CloseShape' /\ UNCHANGED timerVars /\ closing' # "returned"
    BY <1>7 DEF IInv, CloseFsw, TypeOK, CloseStep, CloseShape, timerVars, loopVars
  <2> QED
    BY <2>1, FrameStep
<1>8. CASE CloseJoined
  <2>1. UNCHANGED timerVars /\ closing' = "stopping" /\ armed' = armed
    BY <1>8 DEF CloseJoined, timerVars
  <2>2. TypeOK'
    BY <1>8, <2>1 DEF IInv, CloseJoined, TypeOK, CloseStep, timerVars, loopVars
  <2>3. armed \subseteq toStop'
    BY <1>8, WatcherAssumption DEF IInv, CloseJoined, ArmedIsCurrent, TypeOK
  <2>4. CloseShape'
    BY <1>8, <2>1, <2>3 DEF IInv, CloseJoined, CloseShape, loopVars
  <2> QED
    BY <2>1, <2>2, <2>4, FrameStep
<1>9. CASE CloseUnlock
  <2>1. TypeOK' /\ CloseShape' /\ UNCHANGED timerVars /\ closing' # "returned"
    BY <1>9 DEF IInv, CloseUnlock, TypeOK, CloseStep, CloseShape, timerVars, loopVars
  <2> QED
    BY <2>1, FrameStep
<1>10. CASE CloseReturn
  <2>1. TypeOK' /\ CloseShape' /\ UNCHANGED timerVars
    BY <1>10 DEF IInv, CloseReturn, TypeOK, CloseStep, CloseShape, timerVars, loopVars
  <2>2. Live = {}
    BY <1>10, LiveFinite, FS_EmptySet DEF IInv, CreditBalance, CloseReturn
  <2> QED
    BY <2>1, <2>2, FrameStep
<1>11. ASSUME NEW t \in Timer, CloseStopTimer(t) PROVE IInv'
  BY <1>11, StopTimerStep
<1>12. CASE UNCHANGED vars
  <2>1. TypeOK' /\ CloseShape' /\ UNCHANGED <<closing, timerVars>>
    BY <1>12 DEF IInv, vars, TypeOK, CloseShape, timerVars
  <2> QED
    BY <2>1, FrameStep DEF IInv
<1> QED
  BY <1>1, <1>2, <1>3, <1>4, <1>5, <1>6, <1>7, <1>8, <1>9, <1>10, <1>11, <1>12
  DEF Next, Loop, Close

\* The inductive invariant holds of every behaviour.
THEOREM Invariance == Spec => []IInv
<1>1. Init => IInv
  BY InitInv
<1>2. IInv /\ [Next]_vars => IInv'
  BY NextInv
<1> QED
  BY <1>1, <1>2, PTL DEF Spec

\* fireWG is the number of timers whose callback is still to finish, and so never
\* negative: the panic scheduleReload's comment describes cannot happen.
THEOREM WaitGroupBalanced == Spec => [](TypeOK /\ CreditBalance)
<1>1. IInv => TypeOK /\ CreditBalance
  BY DEF IInv
<1> QED
  BY <1>1, Invariance, PTL

\* For any canvases and timers, fireWG counts the timers whose callback is still to
\* finish, and an armed timer is the entry of its canvas, however late a callback is.
THEOREM TimersSound == Spec => []TimersAgree
<1>1. IInv => TimersAgree
  BY DEF IInv, TimersAgree
<1> QED
  BY <1>1, Invariance, PTL

\* Once Close has returned the loop is gone, and no callback runs or will run.
THEOREM Barrier == Spec => []CloseBarrier
<1>1. IInv => CloseBarrier
  BY DEF IInv, CloseShape, CloseBarrier
<1> QED
  BY <1>1, Invariance, PTL

\* No Add is concurrent with Close's Wait: only scheduleReload adds, and the loop
\* that calls it has been joined.
THEOREM WaitUndisturbed == Spec => NoAddDuringWait
<1>1. IInv /\ [Next]_vars => [closing = "waiting" => fireWG' <= fireWG]_vars
  <2> SUFFICES ASSUME IInv, Next, closing = "waiting"
               PROVE  fireWG' <= fireWG
    BY DEF IInv
  <2>1. handling = None
    BY DEF IInv, CloseShape
  <2>2. fireWG \in Nat
    BY DEF IInv, TypeOK
  <2> QED
    BY <2>1, <2>2 DEF Next, Change, Loop, scheduleReload, LoopExit, TakeEvent, Fire,
       Callback, CallbackCleanup, CallbackReload, Close, CloseDone, CloseFsw,
       CloseJoined, CloseUnlock, CloseReturn, CloseStopTimer, timerVars
<1> QED
  BY <1>1, Invariance, PTL DEF Spec, NoAddDuringWait

\* Close is a barrier, and nobody adds to the WaitGroup that it waits for.
THEOREM Quiescence == Spec => CloseQuiesces
<1>1. CloseBarrier' /\ [closing = "waiting" => fireWG' <= fireWG]_vars
        => [CloseBarrier' /\ (closing = "waiting" => fireWG' <= fireWG)]_vars
  OBVIOUS
<1> QED
  BY <1>1, Barrier, WaitUndisturbed, PTL DEF CloseQuiesces, NoAddDuringWait

-----------------------------------------------------------------------------
(* The server.                                                             *)

\* A handler at work has a canvas.
Placed == \A c \in Client : handler[c] # "idle" => want[c] \in Canvas

Caps ==
    /\ MaxGlobal > 0 => total <= MaxGlobal
    /\ MaxPerCanvas > 0 => \A id \in Canvas : Cardinality(clients[id]) <= MaxPerCanvas

\* Whoever stayed is still counted, so a reaper about to stop has seen nobody stay.
Spared ==
    /\ \A c \in stayed : Server!Tracked(c)
    /\ reaper = "reaping" => stayed = {}

ServerInv == Server!TypeOK /\ Placed /\ Server!Accounting /\ Caps /\ Spared

TrackedSet == {c \in Client : Server!Tracked(c)}

\* What LiveServer counts with under an instance is what this module counts with.
LEMMA SameCounts ==
    /\ \A S : Server!IsFiniteSet(S) <=> IsFiniteSet(S)
    /\ \A S : Server!Cardinality(S) = Cardinality(S)
<1>1. \A S : Server!IsFiniteSet(S) <=> IsFiniteSet(S)
  BY DEF Server!IsFiniteSet, IsFiniteSet
<1>2. \A S : Server!Cardinality(S) = Cardinality(S)
  BY DEF Server!Cardinality, Cardinality
<1> QED
  BY <1>1, <1>2

LEMMA ClientsFinite == \A S \in SUBSET Client : IsFiniteSet(S) /\ Cardinality(S) \in Nat
  BY SameCounts, ReloadAssumption, FS_Subset, FS_CardinalityType DEF Server!LiveServerAssumption

LEMMA ServerInit == Server!Init => ServerInv
<1> SUFFICES ASSUME Server!Init PROVE ServerInv
  OBVIOUS
<1>1. Server!TypeOK
  BY DEF Server!Init, Server!TypeOK, Server!HandlerStep, Server!RunStep, Server!ReapStep
<1>2. Placed /\ Spared
  BY DEF Server!Init, Placed, Spared
<1>3. Server!Accounting
  <2>1. \A c \in Client : ~Server!Tracked(c)
    BY DEF Server!Init, Server!Tracked
  <2>2. {c \in Client : Server!Tracked(c)} = {} /\ \A id \in Canvas : Server!TrackedOn(id) = {}
    BY <2>1 DEF Server!TrackedOn
  <2>3. Cardinality({}) = 0
    BY FS_EmptySet
  <2> QED
    BY <2>2, <2>3, SameCounts DEF Server!Init, Server!Accounting
<1>4. Caps
  BY ReloadAssumption, FS_EmptySet DEF Server!Init, Caps, Server!LiveServerAssumption
<1> QED
  BY <1>1, <1>2, <1>3, <1>4 DEF ServerInv

\* A step that neither starts nor ends a connection leaves the books right.
LEMMA SameBooks ==
    ASSUME ServerInv, UNCHANGED <<clients, total>>,
           \A c \in Client : Server!Tracked(c)' <=> Server!Tracked(c),
           \A c \in Client : Server!Tracked(c) => want'[c] = want[c]
    PROVE  Server!Accounting' /\ Caps'
<1>1. {c \in Client : Server!Tracked(c)}' = {c \in Client : Server!Tracked(c)}
  OBVIOUS
<1>2. \A id \in Canvas : Server!TrackedOn(id)' = Server!TrackedOn(id)
  BY DEF Server!TrackedOn
<1> QED
  BY <1>1, <1>2 DEF ServerInv, Server!Accounting, Caps

\* Steps of one handler that keep it where the books have it.
LEMMA HandlerQuiet ==
    ASSUME ServerInv, NEW c \in Client,
           \/ Server!NotFound(c) \/ Server!SendHeaders(c) \/ Server!Receive(c) \/ Server!WriteReload(c)
           \/ Server!ClientGone(c) \/ Server!SeeClosed(c) \/ Server!DeferTouch(c)
    PROVE  ServerInv'
<1>1. /\ UNCHANGED <<clients, total, Server!runVars, Server!reapVars, stayed>>
      /\ \E step \in Server!HandlerStep : handler' = [handler EXCEPT ![c] = step]
      /\ \/ handler[c] = "admitted" /\ handler'[c] = "idle"
            /\ want' = [want EXCEPT ![c] = None]
         \/ Server!Tracked(c) /\ Server!Tracked(c)' /\ UNCHANGED want
  BY DEF Server!NotFound, Server!SendHeaders, Server!Receive, Server!WriteReload, Server!ClientGone, Server!SeeClosed, Server!DeferTouch,
         Server!Finish, Server!Goto, Server!Tracked, Server!hubVars, ServerInv, Server!TypeOK, Server!HandlerStep
<1>2. /\ gone' \in SUBSET Client /\ full' \in SUBSET Client /\ unseen' \in SUBSET Client
      /\ stale' \in BOOLEAN
  BY DEF Server!NotFound, Server!SendHeaders, Server!Receive, Server!WriteReload, Server!ClientGone, Server!SeeClosed, Server!DeferTouch,
         Server!Finish, Server!Touch, Server!hubVars, ServerInv, Server!TypeOK
<1>3. /\ \A d \in Client : d # c => handler'[d] = handler[d] /\ want'[d] = want[d]
      /\ \A d \in Client : Server!Tracked(d)' <=> Server!Tracked(d)
      /\ \A d \in Client : Server!Tracked(d) => want'[d] = want[d]
  BY <1>1 DEF ServerInv, Server!TypeOK, Server!Tracked
<1>4. Server!TypeOK'
  BY <1>1, <1>2 DEF ServerInv, Server!TypeOK, Server!runVars, Server!reapVars
<1>5. Placed'
  BY <1>1, <1>3 DEF ServerInv, Placed, Server!Tracked
<1>6. Server!Accounting' /\ Caps'
  BY <1>1, <1>3, SameBooks
<1>7. Spared'
  BY <1>1, <1>3 DEF ServerInv, Spared, Server!TypeOK, Server!reapVars
<1> QED
  BY <1>4, <1>5, <1>6, <1>7 DEF ServerInv

LEMMA RegisterStep ==
    ASSUME ServerInv, NEW c \in Client, Server!register(c)
    PROVE  ServerInv'
<1>1. /\ handler[c] = "admitted" /\ ~Server!Tracked(c) /\ want[c] \in Canvas
      /\ UNCHANGED <<Server!runVars, Server!reapVars, stale, stayed>>
  BY DEF Server!register, ServerInv, Placed, Server!Tracked
<1>2. CASE Server!OverCap(want[c])
  <2>1. /\ handler' = [handler EXCEPT ![c] = "idle"] /\ want' = [want EXCEPT ![c] = None]
        /\ gone' = gone \ {c} /\ UNCHANGED Server!hubVars
    BY <1>2 DEF Server!register, Server!Finish, Server!Goto
  <2>2. /\ \A d \in Client : Server!Tracked(d)' <=> Server!Tracked(d)
        /\ \A d \in Client : Server!Tracked(d) => want'[d] = want[d]
    BY <1>1, <2>1 DEF ServerInv, Server!TypeOK, Server!Tracked
  <2>3. Server!TypeOK'
    BY <1>1, <2>1 DEF ServerInv, Server!TypeOK, Server!runVars, Server!reapVars, Server!hubVars, Server!HandlerStep
  <2>4. Placed'
    BY <2>1 DEF ServerInv, Server!TypeOK, Placed
  <2>5. Server!Accounting' /\ Caps'
    BY <2>1, <2>2, SameBooks DEF Server!hubVars
  <2>6. Spared'
    BY <1>1, <2>2 DEF ServerInv, Spared, Server!TypeOK, Server!reapVars
  <2> QED
    BY <2>3, <2>4, <2>5, <2>6 DEF ServerInv
<1>3. CASE ~Server!OverCap(want[c])
  <2> DEFINE id == want[c]
  <2>1. /\ clients' = [clients EXCEPT ![id] = clients[id] \cup {c}] /\ total' = total + 1
        /\ handler' = [handler EXCEPT ![c] = "registered"] /\ UNCHANGED <<want, gone, full, unseen>>
    BY <1>3 DEF Server!register, Server!Goto
  <2>2. \A d \in Client : Server!Tracked(d)' <=> Server!Tracked(d) \/ d = c
    BY <2>1 DEF ServerInv, Server!TypeOK, Server!Tracked
  <2>3. Server!TypeOK'
    BY <1>1, <2>1 DEF ServerInv, Server!TypeOK, Server!runVars, Server!reapVars, Server!HandlerStep
  <2>4. Placed'
    BY <1>1, <2>1 DEF ServerInv, Server!TypeOK, Placed
  <2>5. /\ TrackedSet' = TrackedSet \cup {c} /\ c \notin TrackedSet
        /\ total = Cardinality(TrackedSet) /\ \A i \in Canvas : clients[i] = Server!TrackedOn(i)
    BY <1>1, <2>2, SameCounts DEF TrackedSet, ServerInv, Server!Accounting
  <2>6. Cardinality(TrackedSet') = Cardinality(TrackedSet) + 1
    BY <2>5, ClientsFinite, FS_AddElement DEF TrackedSet
  <2>7. \A i \in Canvas : Server!TrackedOn(i)' = IF i = id THEN Server!TrackedOn(i) \cup {c} ELSE Server!TrackedOn(i)
    BY <2>1, <2>2 DEF Server!TrackedOn
  <2>8. Server!Accounting'
    BY <1>1, <2>1, <2>5, <2>6, <2>7, SameCounts DEF ServerInv, Server!TypeOK, Server!Accounting, TrackedSet
  <2>9. Caps'
    <3>1. c \notin clients[id] /\ clients[id] \in SUBSET Client
      BY <1>1, <2>5 DEF Server!TrackedOn
    <3>2. /\ Cardinality(clients[id] \cup {c}) = Cardinality(clients[id]) + 1
          /\ Cardinality(clients[id]) \in Nat /\ total \in Nat
      BY <3>1, ClientsFinite, FS_AddElement DEF ServerInv, Server!TypeOK
    <3>3. \A i \in Canvas : clients'[i] = IF i = id THEN clients[id] \cup {c} ELSE clients[i]
      BY <2>1 DEF ServerInv, Server!TypeOK
    <3>4. MaxGlobal > 0 => total + 1 <= MaxGlobal
      BY ReloadAssumption, SameCounts, <1>3, <3>2 DEF Server!OverCap, Server!LiveServerAssumption
    <3>5. MaxPerCanvas > 0 => Cardinality(clients[id]) + 1 <= MaxPerCanvas
      BY ReloadAssumption, SameCounts, <1>3, <3>2 DEF Server!OverCap, Server!LiveServerAssumption
    <3>6. MaxPerCanvas > 0 => \A i \in Canvas : Cardinality(clients'[i]) <= MaxPerCanvas
      BY <3>2, <3>3, <3>5 DEF ServerInv, Caps
    <3> QED
      BY <2>1, <3>4, <3>6 DEF Caps
  <2>10. Spared'
    BY <1>1, <2>2 DEF ServerInv, Spared, Server!TypeOK, Server!reapVars
  <2> QED
    BY <2>3, <2>4, <2>8, <2>9, <2>10 DEF ServerInv
<1> QED
  BY <1>2, <1>3

LEMMA UnregisterStep ==
    ASSUME ServerInv, NEW c \in Client, Server!unregister(c)
    PROVE  ServerInv'
<1> DEFINE id == want[c]
<1>1. /\ handler[c] = "touched" /\ Server!Tracked(c) /\ id \in Canvas
      /\ handler' = [handler EXCEPT ![c] = "idle"] /\ want' = [want EXCEPT ![c] = None]
      /\ gone' = gone \ {c} /\ clients' = [clients EXCEPT ![id] = clients[id] \ {c}]
      /\ total' = total - 1 /\ full' = full \ {c} /\ unseen' = unseen \ {c} /\ stayed' = stayed \ {c}
      /\ UNCHANGED <<Server!runVars, Server!reapVars, stale>>
  BY DEF Server!unregister, Server!Finish, Server!Goto, ServerInv, Placed, Server!Tracked
<1>2. /\ \A d \in Client : Server!Tracked(d)' <=> Server!Tracked(d) /\ d # c
      /\ \A d \in Client : d # c => want'[d] = want[d]
  BY <1>1 DEF ServerInv, Server!TypeOK, Server!Tracked
<1>3. /\ TrackedSet' = TrackedSet \ {c} /\ c \in TrackedSet
      /\ total = Cardinality(TrackedSet) /\ \A i \in Canvas : clients[i] = Server!TrackedOn(i)
  BY <1>1, <1>2, SameCounts DEF TrackedSet, ServerInv, Server!Accounting
<1>4. Cardinality(TrackedSet') = Cardinality(TrackedSet) - 1 /\ Cardinality(TrackedSet') \in Nat
  BY <1>3, ClientsFinite, FS_RemoveElement DEF TrackedSet
<1>5. Server!TypeOK'
  BY <1>1, <1>3, <1>4 DEF ServerInv, Server!TypeOK, Server!runVars, Server!reapVars, Server!HandlerStep
<1>6. Placed'
  BY <1>1 DEF ServerInv, Server!TypeOK, Placed
<1>7. \A i \in Canvas : Server!TrackedOn(i)' = IF i = id THEN Server!TrackedOn(i) \ {c} ELSE Server!TrackedOn(i)
  BY <1>2 DEF Server!TrackedOn
<1>8. Server!Accounting'
  BY <1>1, <1>3, <1>4, <1>7, SameCounts DEF ServerInv, Server!TypeOK, Server!Accounting, TrackedSet
<1>9. Caps'
  <2>1. \A i \in Canvas : clients'[i] = IF i = id THEN clients[id] \ {c} ELSE clients[i]
    BY <1>1 DEF ServerInv, Server!TypeOK
  <2>2. c \in clients[id] /\ clients[id] \in SUBSET Client
    BY <1>1, <1>3 DEF Server!TrackedOn
  <2>3. /\ Cardinality(clients[id] \ {c}) = Cardinality(clients[id]) - 1
        /\ Cardinality(clients[id]) \in Nat /\ total \in Nat
    BY <2>2, ClientsFinite, FS_RemoveElement DEF ServerInv, Server!TypeOK
  <2>4. MaxGlobal > 0 => total - 1 <= MaxGlobal
    BY ReloadAssumption, <2>3 DEF ServerInv, Caps, Server!LiveServerAssumption
  <2>5. MaxPerCanvas > 0 => Cardinality(clients[id]) - 1 <= MaxPerCanvas
    BY ReloadAssumption, <1>1, <2>3 DEF ServerInv, Caps, Server!LiveServerAssumption
  <2>6. MaxPerCanvas > 0 => \A i \in Canvas : Cardinality(clients'[i]) <= MaxPerCanvas
    BY <2>1, <2>3, <2>5 DEF ServerInv, Caps
  <2> QED
    BY <1>1, <2>4, <2>6 DEF Caps
<1>10. Spared'
  BY <1>1, <1>2 DEF ServerInv, Spared, Server!TypeOK, Server!reapVars
<1> QED
  BY <1>5, <1>6, <1>8, <1>9, <1>10 DEF ServerInv

\* Who asks, and what else happens to the hub.
LEMMA EnvironmentStep ==
    ASSUME ServerInv, Server!Environment
    PROVE  ServerInv'
<1>1. ASSUME NEW c \in Client, NEW id \in Canvas, Server!Request(c, id) PROVE ServerInv'
  <2>1. /\ handler[c] = "idle" /\ handler' = [handler EXCEPT ![c] = "admitted"]
        /\ want' = [want EXCEPT ![c] = id] /\ stale' = FALSE
        /\ UNCHANGED <<gone, Server!hubVars, Server!runVars, Server!reapVars, stayed>>
    BY <1>1 DEF Server!Request, Server!Touch, Server!Goto
  <2>2. /\ \A d \in Client : Server!Tracked(d)' <=> Server!Tracked(d)
        /\ \A d \in Client : Server!Tracked(d) => want'[d] = want[d]
    BY <2>1 DEF ServerInv, Server!TypeOK, Server!Tracked
  <2>3. Server!TypeOK'
    BY <2>1 DEF ServerInv, Server!TypeOK, Server!HandlerStep, Server!hubVars, Server!runVars, Server!reapVars
  <2>4. Placed'
    BY <2>1 DEF ServerInv, Server!TypeOK, Placed
  <2>5. Server!Accounting' /\ Caps'
    BY <2>1, <2>2, SameBooks DEF Server!hubVars
  <2>6. Spared'
    BY <2>1, <2>2 DEF ServerInv, Spared, Server!TypeOK, Server!reapVars
  <2> QED
    BY <2>3, <2>4, <2>5, <2>6 DEF ServerInv
<1>2. ASSUME \/ \E c \in Client : Server!Disconnect(c)
             \/ Server!PlainRequest \/ Server!handleStop \/ Server!Signal \/ Server!IdleElapses
             \/ \E id \in Canvas : Server!broadcast(id)
      PROVE  ServerInv'
  <2>1. UNCHANGED <<handler, want, clients, total, run, Server!reapVars, stayed>>
    BY <1>2 DEF Server!Disconnect, Server!PlainRequest, Server!handleStop, Server!Signal, Server!IdleElapses, Server!broadcast,
                Server!hubVars, Server!runVars
  <2> DEFINE FlagsOK ==
          /\ gone' \in SUBSET Client /\ full' \in SUBSET Client /\ unseen' \in SUBSET Client
          /\ closed' \in BOOLEAN /\ stopping' \in BOOLEAN /\ signalled' \in BOOLEAN /\ stale' \in BOOLEAN
  <2>2. FlagsOK
    <3>1. ASSUME NEW c \in Client, Server!Disconnect(c) PROVE FlagsOK
      BY <3>1 DEF Server!Disconnect, Server!hubVars, Server!runVars, ServerInv, Server!TypeOK
    <3>2. CASE Server!PlainRequest \/ Server!IdleElapses
      BY <3>2 DEF Server!PlainRequest, Server!IdleElapses, Server!Touch, Server!hubVars, Server!runVars, ServerInv, Server!TypeOK
    <3>3. CASE Server!handleStop \/ Server!Signal
      BY <3>3 DEF Server!handleStop, Server!Signal, Server!initiateShutdown, Server!Touch, Server!hubVars, Server!runVars, ServerInv, Server!TypeOK
    <3>4. ASSUME NEW id \in Canvas, Server!broadcast(id) PROVE FlagsOK
      BY <3>4 DEF Server!broadcast, Server!runVars, ServerInv, Server!TypeOK
    <3> QED
      BY <1>2, <3>1, <3>2, <3>3, <3>4
  <2>3. Server!TypeOK'
    BY <2>1, <2>2 DEF ServerInv, Server!TypeOK, Server!reapVars
  <2>4. Placed' /\ Spared'
    BY <2>1 DEF ServerInv, Placed, Spared, Server!Tracked, Server!reapVars
  <2>5. Server!Accounting' /\ Caps'
    BY <2>1, SameBooks DEF Server!Tracked
  <2> QED
    BY <2>3, <2>4, <2>5 DEF ServerInv
<1> QED
  BY <1>1, <1>2 DEF Server!Environment

\* The reaper counts, in one step, whoever stayed since it read the clock.
LEMMA CountSpares ==
    ASSUME ServerInv, Server!ReapCount, Server!shouldReap
    PROVE  stayed = {}
<1>1. TrackedSet = {}
  <2>1. Cardinality(TrackedSet) = 0
    BY SameCounts DEF Server!shouldReap, ServerInv, Server!Accounting, TrackedSet
  <2> QED
    BY <2>1, ClientsFinite, FS_EmptySet DEF TrackedSet
<1> QED
  BY <1>1 DEF ServerInv, Spared, Server!TypeOK, TrackedSet

LEMMA ReaperAndRun ==
    ASSUME ServerInv, Server!Reaper \/ Server!Run
    PROVE  ServerInv'
<1>1. UNCHANGED <<handler, want, gone, Server!hubVars, stale>>
  BY DEF Server!Reaper, Server!Run, Server!ReapRead, Server!ReapCount, Server!ReapStop, Server!ReapCancelled, Server!RunStopped,
         Server!RunServeError, Server!RunCloseAll, Server!RunDrained, Server!RunTimeout
<1>2. /\ closed' \in BOOLEAN /\ stopping' \in BOOLEAN /\ signalled' \in BOOLEAN /\ run' \in Server!RunStep
      /\ reaper' \in Server!ReapStep /\ sawIdle' \in BOOLEAN
  <2>1. CASE Server!Run
    BY <2>1 DEF Server!Run, Server!RunStopped, Server!RunServeError, Server!RunCloseAll, Server!RunDrained, Server!RunTimeout,
                Server!reapVars, ServerInv, Server!TypeOK, Server!RunStep
  <2>2. CASE Server!Reaper
    BY <2>2 DEF Server!Reaper, Server!ReapRead, Server!ReapCount, Server!ReapStop, Server!ReapCancelled, Server!initiateShutdown,
                Server!runVars, ServerInv, Server!TypeOK, Server!ReapStep
  <2> QED
    BY <2>1, <2>2
<1>3. Spared' /\ stayed' \in SUBSET Client
  <2>1. CASE Server!ReapRead
    BY <1>1, <2>1 DEF Server!ReapRead, Spared, Server!Tracked
  <2>2. CASE Server!ReapCount
    BY <1>1, <2>2, CountSpares DEF Server!ReapCount, ServerInv, Server!TypeOK, Spared, Server!Tracked
  <2>3. CASE Server!ReapStop \/ Server!ReapCancelled \/ Server!Run
    BY <1>1, <2>3 DEF Server!ReapStop, Server!ReapCancelled, Server!Run, Server!RunStopped, Server!RunServeError, Server!RunCloseAll,
                      Server!RunDrained, Server!RunTimeout, Server!reapVars, ServerInv, Server!TypeOK, Spared, Server!Tracked
  <2> QED
    BY <2>1, <2>2, <2>3 DEF Server!Reaper
<1>4. Server!TypeOK'
  BY <1>1, <1>2, <1>3 DEF ServerInv, Server!TypeOK, Server!hubVars
<1>5. Placed'
  BY <1>1 DEF ServerInv, Placed
<1>6. Server!Accounting' /\ Caps'
  BY <1>1, SameBooks DEF Server!Tracked, Server!hubVars
<1> QED
  BY <1>3, <1>4, <1>5, <1>6 DEF ServerInv

LEMMA ServerNext == ServerInv /\ [Server!Next]_(Server!vars) => ServerInv'
<1> SUFFICES ASSUME ServerInv, [Server!Next]_(Server!vars) PROVE ServerInv'
  OBVIOUS
<1>1. ASSUME NEW c \in Client, Server!Handler(c) PROVE ServerInv'
  BY <1>1, HandlerQuiet, RegisterStep, UnregisterStep DEF Server!Handler
<1>2. CASE UNCHANGED Server!vars
  <2>1. Server!TypeOK' /\ Placed' /\ Spared'
    BY <1>2 DEF ServerInv, Server!TypeOK, Placed, Spared, Server!Tracked, Server!vars
  <2>2. Server!Accounting' /\ Caps'
    BY <1>2, SameBooks DEF Server!Tracked, Server!vars
  <2> QED
    BY <2>1, <2>2 DEF ServerInv
<1> QED
  BY <1>1, <1>2, ReaperAndRun, EnvironmentStep DEF Server!Next

LEMMA ServerInvariance == Server!Spec => []ServerInv
<1>1. Server!Init => ServerInv
  BY ServerInit
<1>2. ServerInv /\ [Server!Next]_(Server!vars) => ServerInv'
  BY ServerNext
<1> QED
  BY <1>1, <1>2, PTL DEF Server!Spec

\* No interleaving of handlers passes a cap (register, unregister): for any
\* clients, canvases and caps.
THEOREM CapsHold == Server!Spec => []WithinCaps
<1>1. ServerInv => WithinCaps
  BY SameCounts DEF ServerInv, Caps, WithinCaps, Server!WithinCaps
<1> QED
  BY <1>1, ServerInvariance, PTL

\* The reaper does not stop the daemon over whoever was connected when its tick
\* began, and still is (reaper.go, shouldReap).
THEOREM StayersSpared == Server!Spec => StayedNotReaped
<1>1. ServerInv /\ [Server!Next]_(Server!vars) => [Server!ReapStop => stayed = {}]_(Server!vars)
  BY DEF ServerInv, Spared, Server!ReapStop
<1> QED
  BY <1>1, ServerInvariance, PTL DEF Server!Spec, Server!StayedNotReaped, StayedNotReaped

-----------------------------------------------------------------------------
(* Both.                                                                   *)

\* The watcher and the server are well typed wherever both run: fireWG is never
\* negative, and the hub's total is never less than nobody.
THEOREM Typed == Spec /\ Server!Spec => []TypesOK
<1>1. IInv /\ ServerInv => TypesOK
  BY DEF IInv, ServerInv, TypesOK
<1> QED
  BY <1>1, Invariance, ServerInvariance, PTL

==============================================================================

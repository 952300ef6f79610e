------------------------------- MODULE Watcher -------------------------------
(***************************************************************************)
(* The filesystem watcher of src/internal/server/watcher.go: one debounce  *)
(* timer per canvas, whose callbacks are counted by a WaitGroup (fireWG)   *)
(* so that Close can wait for those that could no longer be cancelled.     *)
(*                                                                         *)
(* The actors are the event loop, one goroutine per timer that fires, and  *)
(* the goroutine that calls Close.  The runtime decides when an armed      *)
(* timer fires, without holding any lock.                                  *)
(***************************************************************************)
EXTENDS Integers, FiniteSets

CONSTANTS
    Canvas,    \* canvas ids
    Timer,     \* time.Timer objects; one is reused once nothing refers to it
    None       \* no timer / no canvas

ASSUME WatcherAssumption == IsFiniteSet(Timer) /\ None \notin Timer \cup Canvas

VARIABLES
    events,    \* canvases with an event waiting in fsw.Events
    handling,  \* the canvas whose event the loop has taken, or None
    loopLive,  \* the loop goroutine has not returned
    timers,    \* w.timers: the map from canvas to its current timer
    owner,     \* the canvas id the closure of a timer captured
    armed,     \* timers the runtime has yet to fire
    fired,     \* per timer, callbacks started that have not taken w.mu
    running,   \* per timer, callbacks past w.mu that have yet to call onReload
    fireWG,    \* the counter of w.fireWG
    closing,   \* the step Close has reached
    toStop,    \* timers Close has still to stop, under w.mu
    behind     \* canvases changed since onReload was last called for them

vars == <<events, handling, loopLive, timers, owner, armed, fired, running,
          fireWG, closing, toStop, behind>>
loopVars == <<events, handling, loopLive>>
timerVars == <<timers, owner, armed, fired, running, fireWG>>
closeVars == <<closing, toStop>>

CloseStep == {"open", "done", "fswClosed", "stopping", "waiting", "returned"}

\* w.mu is held across several steps by Close alone; every other critical
\* section is one action.
MuFree_DeferUnlock == closing \notin {"stopping", "waiting"}
MuFree == closing # "stopping"

Idle(t) == t \notin armed /\ fired[t] = 0 /\ running[t] = 0
Unreferenced(t) == Idle(t) /\ \A c \in Canvas : timers[c] # t

TypeOK ==
    /\ events \subseteq Canvas
    /\ handling \in Canvas \cup {None}
    /\ loopLive \in BOOLEAN
    /\ timers \in [Canvas -> Timer \cup {None}]
    /\ owner \in [Timer -> Canvas \cup {None}]
    /\ armed \subseteq Timer
    /\ fired \in [Timer -> Nat]
    /\ running \in [Timer -> Nat]
    /\ fireWG \in Nat
    /\ closing \in CloseStep
    /\ toStop \subseteq Timer
    /\ behind \subseteq Canvas

Init ==
    /\ events = {} /\ handling = None /\ loopLive = TRUE
    /\ timers = [c \in Canvas |-> None]
    /\ owner = [t \in Timer |-> None]
    /\ armed = {}
    /\ fired = [t \in Timer |-> 0]
    /\ running = [t \in Timer |-> 0]
    /\ fireWG = 0
    /\ closing = "open" /\ toStop = {}
    /\ behind = {}

-----------------------------------------------------------------------------
(* The environment and the event loop. *)

\* A file of canvas c changes while fsnotify is watching.
Change(c) ==
    /\ closing \in {"open", "done"}
    /\ events' = events \cup {c}
    /\ behind' = behind \cup {c}
    /\ UNCHANGED <<handling, loopLive, timerVars, closeVars>>

\* loop: the select takes an event, even when w.done is closed as well.
TakeEvent(c) ==
    /\ loopLive /\ handling = None
    /\ c \in events /\ closing \in {"open", "done"}
    /\ events' = events \ {c}
    /\ handling' = c
    /\ UNCHANGED <<loopLive, timerVars, closeVars, behind>>

\* loop: the select takes <-w.done, or finds Events closed.
LoopExit ==
    /\ loopLive /\ handling = None /\ closing # "open"
    /\ loopLive' = FALSE
    /\ UNCHANGED <<events, handling, timerVars, closeVars, behind>>

\* Variant of PushBack: Stop without Reset.
PushBack_NoReset(c) ==
    /\ timers[c] \in armed
    /\ armed' = armed \ {timers[c]}
    /\ UNCHANGED <<timers, owner, fired, running, fireWG>>

\* scheduleReload, t.Stop() is true: the pending run is pushed back.  The timer
\* is armed before and after, and nothing sees it in between.
PushBack(c) ==
    /\ timers[c] \in armed
    /\ UNCHANGED timerVars

\* scheduleReload, no timer or t.Stop() is false: a new timer with a credit.
StartTimer(c) ==
    /\ timers[c] \notin armed
    /\ \E t \in Timer :
          /\ Unreferenced(t)
          /\ fireWG' = fireWG + 1
          /\ armed' = armed \cup {t}
          /\ owner' = [owner EXCEPT ![t] = c]
          /\ timers' = [timers EXCEPT ![c] = t]
    /\ UNCHANGED <<fired, running>>

\* handleEvent calls scheduleReload, one critical section of w.mu.
scheduleReload ==
    /\ handling # None /\ MuFree
    /\ PushBack(handling) \/ StartTimer(handling)
    /\ handling' = None
    /\ UNCHANGED <<events, loopLive, closeVars, behind>>

-----------------------------------------------------------------------------
(* Timers and their callbacks. *)

\* The runtime fires t: from here Stop reports false.
Fire(t) ==
    /\ t \in armed
    /\ armed' = armed \ {t}
    /\ fired' = [fired EXCEPT ![t] = @ + 1]
    /\ UNCHANGED <<loopVars, timers, owner, running, fireWG, closeVars, behind>>

\* Variant of CallbackCleanup: the entry is deleted whoever owns it.
CallbackCleanup_NoIdentityCheck(t) ==
    /\ fired[t] > 0 /\ MuFree
    /\ timers' = [timers EXCEPT ![owner[t]] = None]
    /\ fired' = [fired EXCEPT ![t] = @ - 1]
    /\ running' = [running EXCEPT ![t] = @ + 1]
    /\ UNCHANGED <<loopVars, owner, armed, fireWG, closeVars, behind>>

\* The callback drops its map entry, if the entry is still its own.
CallbackCleanup(t) ==
    /\ fired[t] > 0 /\ MuFree
    /\ timers' = IF timers[owner[t]] = t
                 THEN [timers EXCEPT ![owner[t]] = None] ELSE timers
    /\ fired' = [fired EXCEPT ![t] = @ - 1]
    /\ running' = [running EXCEPT ![t] = @ + 1]
    /\ UNCHANGED <<loopVars, owner, armed, fireWG, closeVars, behind>>

\* The callback calls onReload and its deferred fireWG.Done.
CallbackReload(t) ==
    /\ running[t] > 0
    /\ behind' = behind \ {owner[t]}
    /\ running' = [running EXCEPT ![t] = @ - 1]
    /\ fireWG' = fireWG - 1
    /\ UNCHANGED <<loopVars, timers, owner, armed, fired, closeVars>>

-----------------------------------------------------------------------------
(* Close. *)

CloseDone ==
    /\ closing = "open"
    /\ closing' = "done"
    /\ UNCHANGED <<loopVars, timerVars, toStop, behind>>

CloseFsw ==
    /\ closing = "done"
    /\ closing' = "fswClosed"
    /\ UNCHANGED <<loopVars, timerVars, toStop, behind>>

\* w.wg.Wait returns, then w.mu is taken: the range is over the map's timers.
CloseJoined ==
    /\ closing = "fswClosed" /\ ~loopLive
    /\ closing' = "stopping"
    /\ toStop' = {timers[c] : c \in Canvas} \ {None}
    /\ UNCHANGED <<loopVars, timerVars, behind>>

\* Variant of CloseStopTimer: the result of Stop is ignored.
CloseStopTimer_AlwaysDone(t) ==
    /\ closing = "stopping" /\ t \in toStop
    /\ toStop' = toStop \ {t}
    /\ armed' = armed \ {t}
    /\ fireWG' = fireWG - 1
    /\ UNCHANGED <<loopVars, timers, owner, fired, running, closing, behind>>

CloseStopTimer(t) ==
    /\ closing = "stopping" /\ t \in toStop
    /\ toStop' = toStop \ {t}
    /\ armed' = armed \ {t}
    /\ fireWG' = IF t \in armed THEN fireWG - 1 ELSE fireWG
    /\ UNCHANGED <<loopVars, timers, owner, fired, running, closing, behind>>

CloseUnlock ==
    /\ closing = "stopping" /\ toStop = {}
    /\ closing' = "waiting"
    /\ UNCHANGED <<loopVars, timerVars, toStop, behind>>

\* Variant of CloseReturn: callbacks are not waited for.
CloseReturn_NoWait ==
    /\ closing = "waiting"
    /\ closing' = "returned"
    /\ UNCHANGED <<loopVars, timerVars, toStop, behind>>

\* w.fireWG.Wait returns.
CloseReturn ==
    /\ closing = "waiting" /\ fireWG = 0
    /\ closing' = "returned"
    /\ UNCHANGED <<loopVars, timerVars, toStop, behind>>

Close == \/ CloseDone \/ CloseFsw \/ CloseJoined \/ CloseUnlock \/ CloseReturn
         \/ \E t \in Timer : CloseStopTimer(t)

Loop == scheduleReload \/ LoopExit \/ \E c \in Canvas : TakeEvent(c)
Callback(t) == CallbackCleanup(t) \/ CallbackReload(t)

Next == \/ \E c \in Canvas : Change(c)
        \/ Loop
        \/ \E t \in Timer : Fire(t) \/ Callback(t)
        \/ Close

Spec == Init /\ [][Next]_vars

-----------------------------------------------------------------------------
(* Fairness: goroutines run; an armed timer fires once its canvas has been *)
(* quiet for the debounce interval, so a canvas that never stops changing  *)
(* may push its timer back for ever.  Close is only obliged to finish.     *)

Quiet(c) == c \notin events /\ handling # c
FireQuiet(t) == Fire(t) /\ Quiet(owner[t])

WeakFairness ==
    /\ WF_vars(scheduleReload)
    /\ WF_vars(LoopExit)
    /\ \A t \in Timer : /\ WF_vars(FireQuiet(t))
                        /\ WF_vars(CallbackCleanup(t))
                        /\ WF_vars(CallbackReload(t))
    /\ WF_vars(Close /\ closing # "open")
Fairness == WeakFairness /\ \A c \in Canvas : SF_vars(TakeEvent(c))

FairSpec == Spec /\ Fairness

-----------------------------------------------------------------------------
(* Properties. *)

Live == {t \in Timer : ~Idle(t)}

\* A timer is armed at most once, or has one callback in flight: its closure
\* carries one fireWG.Done, so a second run would drive the counter negative.
OneRun ==
    \A t \in Timer :
        /\ fired[t] + running[t] <= 1
        /\ t \in armed => fired[t] + running[t] = 0

\* fireWG counts exactly the timers whose callback is still to finish
\* (scheduleReload's Add, the callback's and Close's Done).
CreditBalance == OneRun /\ fireWG = Cardinality(Live)

\* Every armed timer is the current entry of its canvas, which is what lets
\* scheduleReload push it back and Close stop it: a callback that finishes late
\* never removes the entry of the timer that replaced it.
ArmedIsCurrent == \A t \in armed : owner[t] \in Canvas /\ timers[owner[t]] = t

\* WaitGroup, timers and timer map agree, however late a callback is
\* (scheduleReload, the callback and Close).
TimersAgree == CreditBalance /\ ArmedIsCurrent

\* Close is a quiescence barrier: once it has returned no callback is in flight
\* and none can start.
CloseBarrier == closing = "returned" => Live = {} /\ ~loopLive

\* No fireWG.Add happens while Close is in fireWG.Wait.
NoAddDuringWait == [][closing = "waiting" => fireWG' <= fireWG]_vars

\* Close waits for a WaitGroup that nobody adds to any more, and when it returns
\* the watcher is quiet for good (Close).
CloseQuiesces ==
    [][CloseBarrier' /\ (closing = "waiting" => fireWG' <= fireWG)]_vars

\* Close, once it has begun, returns, whatever the loop and the callbacks were doing.
CloseTerminates == []<>(closing \in {"open", "returned"})

\* A canvas that stops changing is reloaded after its last change, unless the
\* watcher is closed.
QuietReload ==
    \A c \in Canvas : <>[]Quiet(c) => []<>(c \notin behind \/ closing # "open")
=============================================================================

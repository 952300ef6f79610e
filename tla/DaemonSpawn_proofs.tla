------------------------- MODULE DaemonSpawn_proofs -------------------------
(***************************************************************************)
(* Proofs about DaemonSpawn, for any number of commands and daemons: the   *)
(* types; that the spawn lock excludes, as long as no command has died or  *)
(* slept;  and that a daemon that serves can be found, as long as none is  *)
(* told to stop.                                                           *)
(***************************************************************************)
EXTENDS DaemonSpawn, TLAPS

LEMMA InitType == Init => TypeOK
BY DaemonSpawnAssumption DEF Init, TypeOK, DaemonStep, CliStep

LEMMA NextType == TypeOK /\ [Next]_vars => TypeOK'
<1> SUFFICES ASSUME TypeOK, [Next]_vars PROVE TypeOK'
  OBVIOUS
<1> USE DaemonSpawnAssumption, NoLockAssumption
    DEF TypeOK, CliStep, DaemonStep, Asking, Goto, Forget, DaemonGoto,
        fileVars, daemonVars, cliVars
<1>1. ASSUME NEW p \in Proc, Begin(p) PROVE TypeOK'
  BY <1>1 DEF Begin
<1>2. ASSUME NEW p \in Proc, Load(p) PROVE TypeOK'
  BY <1>2 DEF Load
<1>3. ASSUME NEW p \in Proc, Reuse(p) PROVE TypeOK'
  BY <1>3 DEF Reuse, Healthy
<1>4. ASSUME NEW p \in Proc, Miss(p) PROVE TypeOK'
  BY <1>4 DEF Miss, Unhealthy
<1>5. ASSUME NEW p \in Proc, RequestStop(p) PROVE TypeOK'
  BY <1>5 DEF RequestStop, Answers
<1>6. ASSUME NEW p \in Proc, finalizeStop(p) PROVE TypeOK'
  BY <1>6 DEF finalizeStop
<1>7. ASSUME NEW p \in Proc, TakeLock(p) PROVE TypeOK'
  BY <1>7 DEF TakeLock, LockFile
<1>8. ASSUME NEW p \in Proc, WriteLock(p) PROVE TypeOK'
  BY <1>8 DEF WriteLock, LockFile
<1>9. ASSUME NEW p \in Proc, JudgeStale(p) \/ Steal(p) \/ Release(p) PROVE TypeOK'
  BY <1>9 DEF JudgeStale, Steal, Release
<1>10. ASSUME NEW p \in Proc, Spawn(p) PROVE TypeOK'
  <2>1. ver[p] \in Version \cup {None}
    OBVIOUS
  <2> QED BY <1>10, <2>1 DEF Spawn
<1>11. ASSUME NEW p \in Proc, WaitOut(p) \/ GiveUp(p) \/ Timeout(p) \/ Crash(p)
       PROVE  TypeOK'
  BY <1>11 DEF WaitOut, GiveUp, Timeout, Crash, Running
<1>12. ASSUME NEW d \in Daemon, Run(d) \/ IdleStop(d) \/ DaemonCrash(d) PROVE TypeOK'
  BY <1>12 DEF Run, Listen, Save, Serve, Shutdown, RemoveState, Exit, IdleStop,
               DaemonCrash, pidAlive
<1>13. CASE LockAges
  BY <1>13 DEF LockAges, LockFile
<1>14. CASE UNCHANGED vars
  BY <1>14 DEF vars
<1> QED
  BY <1>1, <1>2, <1>3, <1>4, <1>5, <1>6, <1>7, <1>8, <1>9, <1>10, <1>11, <1>12,
     <1>13, <1>14 DEF Next, Command

THEOREM Typed == Spec => []TypeOK
BY InitType, NextType, PTL DEF Spec

-----------------------------------------------------------------------------
(* The spawn lock.                                                         *)

\* A lock file is there exactly while a command holds the lock, and names it; it
\* never looks stale, so nobody is about to steal it.
HeldByOne ==
    /\ \A p \in Proc : Holding(p) => lock # None /\ lock.by = p
    /\ lock # None => Holding(lock.by) /\ ~lock.old
    /\ \A p \in Proc : pc[p] # "stealing"

\* A holder is running, so that isStaleLock is false.
LEMMA NotStale ==
    ASSUME TypeOK, HeldByOne
    PROVE  ~isStaleLock
BY NoLockAssumption DEF HeldByOne, isStaleLock, Holding, Running

\* A command that neither enters nor leaves the critical section.
LEMMA HeldQuiet ==
    ASSUME TypeOK, HeldByOne, NEW p \in Proc, lock' = lock,
           NEW step \in CliStep, pc' = [pc EXCEPT ![p] = step], step # "stealing",
           step \in {"writing", "recheck", "spawn", "await", "release", "giveUp"}
               <=> Holding(p)
    PROVE  HeldByOne'
<1>1. pc \in [Proc -> CliStep]
  BY DEF TypeOK
<1>2. \A q \in Proc : Holding(q)' <=> Holding(q)
  BY <1>1 DEF Holding
<1>3. lock # None => lock.by \in Proc
  BY DEF TypeOK, LockFile
<1>4. \A q \in Proc : pc'[q] # "stealing"
  BY <1>1 DEF HeldByOne
<1> QED BY <1>2, <1>3, <1>4 DEF HeldByOne

LEMMA HeldStep ==
    ASSUME "sleep" \notin Faults, TypeOK, HeldByOne, [Next]_vars, NobodyDied'
    PROVE  HeldByOne'
<1> USE DaemonSpawnAssumption, NoLockAssumption
    DEF TypeOK, HeldByOne, Holding, CliStep, Asking, Goto, Forget, fileVars,
        daemonVars, cliVars
<1>1. ASSUME NEW p \in Proc, Begin(p) PROVE HeldByOne'
  BY <1>1 DEF Begin
<1>2. ASSUME NEW p \in Proc, Load(p) PROVE HeldByOne'
  BY <1>2 DEF Load
<1>3. ASSUME NEW p \in Proc, Reuse(p) PROVE HeldByOne'
  <2>1. CASE pc[p] = "check"
    BY <1>3, <2>1, HeldQuiet DEF Reuse
  <2>2. CASE pc[p] \in {"final", "stopCheck"}
    BY <1>3, <2>2, HeldQuiet DEF Reuse
  <2>3. CASE pc[p] \in {"recheck", "await"}
    BY <1>3, <2>3, HeldQuiet DEF Reuse
  <2> QED BY <1>3, <2>1, <2>2, <2>3 DEF Reuse, Healthy
<1>4. ASSUME NEW p \in Proc, Miss(p) PROVE HeldByOne'
  <2>1. CASE pc[p] = "check"
    BY <1>4, <2>1, HeldQuiet DEF Miss
  <2>2. CASE pc[p] = "stopCheck"
    BY <1>4, <2>2, HeldQuiet DEF Miss
  <2>3. CASE pc[p] = "recheck"
    BY <1>4, <2>3, HeldQuiet DEF Miss
  <2>4. CASE pc[p] = "await"
    BY <1>4, <2>4, HeldQuiet DEF Miss
  <2>5. CASE pc[p] = "final"
    BY <1>4, <2>5, HeldQuiet DEF Miss
  <2> QED BY <1>4, <2>1, <2>2, <2>3, <2>4, <2>5 DEF Miss, Unhealthy
<1>5. ASSUME NEW p \in Proc, RequestStop(p) \/ finalizeStop(p) PROVE HeldByOne'
  <2>1. CASE RequestStop(p)
    BY <2>1, HeldQuiet DEF RequestStop
  <2>2. CASE finalizeStop(p)
    BY <2>2, HeldQuiet DEF finalizeStop
  <2> QED BY <1>5, <2>1, <2>2
<1>6. ASSUME NEW p \in Proc, TakeLock(p) PROVE HeldByOne'
  <2>1. lock' \in LockFile /\ lock'.by = p /\ ~lock'.old
    BY <1>6 DEF TakeLock, LockFile
  <2>2. lock' # None
    BY <2>1
  <2>3. \A q \in Proc : ~Holding(q)
    BY <1>6 DEF TakeLock
  <2>4. pc' = [pc EXCEPT ![p] = "writing"]
    BY <1>6 DEF TakeLock
  <2> QED BY <2>1, <2>2, <2>3, <2>4
<1>7. ASSUME NEW p \in Proc, WriteLock(p) PROVE HeldByOne'
  <2>1. lock \in LockFile /\ lock.by = p
    BY <1>7 DEF WriteLock
  <2>2. lock' \in LockFile /\ lock'.by = p /\ lock'.old = lock.old
    BY <1>7, <2>1 DEF WriteLock, LockFile
  <2> QED BY <1>7, <2>1, <2>2 DEF WriteLock
<1>8. ASSUME NEW p \in Proc, JudgeStale(p) \/ Steal(p) PROVE HeldByOne'
  BY <1>8, NotStale DEF JudgeStale, Steal
<1>9. ASSUME NEW p \in Proc, Release(p) PROVE HeldByOne'
  BY <1>9 DEF Release
<1>10. ASSUME NEW p \in Proc, Spawn(p) PROVE HeldByOne'
  BY <1>10 DEF Spawn
<1>11. ASSUME NEW p \in Proc, Timeout(p) PROVE HeldByOne'
  <2>1. CASE pc[p] \in {"locking", "finalize"}
    BY <1>11, <2>1, HeldQuiet DEF Timeout
  <2>2. CASE pc[p] \in {"writing", "spawn", "await"}
    BY <1>11, <2>2, HeldQuiet DEF Timeout
  <2> QED BY <1>11, <2>1, <2>2 DEF Timeout
<1>12. ASSUME NEW p \in Proc, WaitOut(p) \/ GiveUp(p) PROVE HeldByOne'
  <2>1. CASE WaitOut(p)
    BY <2>1 DEF WaitOut
  <2>2. CASE GiveUp(p)
    BY <2>2, HeldQuiet DEF GiveUp
  <2> QED BY <1>12, <2>1, <2>2
<1>13. ASSUME NEW p \in Proc, Crash(p) PROVE HeldByOne'
  <2>1. pc'[p] = "crashed"
    BY <1>13 DEF Crash
  <2> QED BY <2>1 DEF NobodyDied
<1>14. ASSUME NEW d \in Daemon, Run(d) \/ IdleStop(d) \/ DaemonCrash(d)
       PROVE  HeldByOne'
  <2>1. lock' = lock /\ pc' = pc
    BY <1>14 DEF Run, Listen, Save, Serve, Shutdown, RemoveState, Exit, IdleStop,
                 DaemonCrash
  <2> QED BY <2>1
<1>15. CASE LockAges
  BY <1>15 DEF LockAges, Running
<1>16. CASE UNCHANGED vars
  BY <1>16 DEF vars
<1> QED
  BY <1>1, <1>2, <1>3, <1>4, <1>5, <1>6, <1>7, <1>8, <1>9, <1>10, <1>11, <1>12,
     <1>13, <1>14, <1>15, <1>16 DEF Next, Command

\* A command that has died takes no more steps.
LEMMA DiedForGood ==
    ASSUME TypeOK, [Next]_vars, NobodyDied'
    PROVE  NobodyDied
<1> SUFFICES ASSUME NEW q \in Proc, pc[q] = "crashed" PROVE FALSE
  BY DEF NobodyDied
<1> USE DEF TypeOK, Asking, Goto, fileVars, daemonVars, cliVars
<1>1. pc'[q] # "crashed"
  BY DEF NobodyDied
<1>2. ASSUME NEW p \in Proc, Begin(p) \/ Load(p) \/ RequestStop(p) \/ finalizeStop(p)
      PROVE  FALSE
  BY <1>1, <1>2 DEF Begin, Load, RequestStop, finalizeStop
<1>3. ASSUME NEW p \in Proc, Reuse(p) PROVE FALSE
  BY <1>1, <1>3 DEF Reuse, Healthy
<1>4. ASSUME NEW p \in Proc, Miss(p) PROVE FALSE
  BY <1>1, <1>4 DEF Miss, Unhealthy
<1>5. ASSUME NEW p \in Proc, TakeLock(p) \/ WriteLock(p) \/ JudgeStale(p) \/ Steal(p)
      PROVE  FALSE
  BY <1>1, <1>5 DEF TakeLock, WriteLock, JudgeStale, Steal
<1>6. ASSUME NEW p \in Proc, Release(p) \/ Spawn(p) \/ WaitOut(p) \/ GiveUp(p)
                             \/ Timeout(p) \/ Crash(p)
      PROVE  FALSE
  BY <1>1, <1>6 DEF Release, Spawn, WaitOut, GiveUp, Timeout, Crash, Running
<1>7. ASSUME NEW d \in Daemon, Run(d) \/ IdleStop(d) \/ DaemonCrash(d) PROVE FALSE
  BY <1>1, <1>7 DEF Run, Listen, Save, Serve, Shutdown, RemoveState, Exit, IdleStop,
                    DaemonCrash
<1>8. CASE LockAges
  BY <1>1, <1>8 DEF LockAges
<1>9. CASE UNCHANGED vars
  BY <1>1, <1>9 DEF vars
<1> QED
  BY <1>2, <1>3, <1>4, <1>5, <1>6, <1>7, <1>8, <1>9 DEF Next, Command

\* withSpawnLock (lock.go): until a command has died, and unless the machine
\* sleeps, at most one command is between making the lock file and removing it.
THEOREM LockExcludes ==
    ASSUME "sleep" \notin Faults
    PROVE  Spec => []LoneSpawner
<1> DEFINE IInv == NobodyDied => HeldByOne
<1>1. Init => IInv
  BY DEF Init, HeldByOne, Holding
<1>2. TypeOK /\ IInv /\ [Next]_vars => IInv'
  BY HeldStep, DiedForGood
<1>3. IInv => LoneSpawner
  BY DEF HeldByOne, OneSpawner, LoneSpawner
<1> QED
  BY <1>1, <1>2, <1>3, InitType, NextType, PTL DEF Spec

-----------------------------------------------------------------------------
(* The state file.                                                         *)

\* No daemon is on its way out; one at a time has the port, and if it has got as
\* far as saving its state, the state file is its own.
PortAndState ==
    /\ \A d \in Daemon : daemon[d] \notin {"stopping", "draining", "exiting"}
    /\ \A d, e \in Daemon : Listening(d) /\ Listening(e) => d = e
    /\ \A d \in Daemon : daemon[d] \in {"recorded", "serving"} => state = d
    /\ \A p \in Proc : pc[p] \notin {"stopCheck", "post", "finalize"}

\* No command is told to stop a daemon, or finds a reason to.
OnlyEnsure == Kind = {"ensure"} /\ \A v, w \in Version : v = w

LEMMA RecordStep ==
    ASSUME FixedPort, OnlyEnsure, "idle" \notin Faults, TypeOK, PortAndState, [Next]_vars
    PROVE  PortAndState'
<1> USE DaemonSpawnAssumption
    DEF TypeOK, PortAndState, OnlyEnsure, Listening, CliStep, DaemonStep, Asking, Goto,
        Forget, DaemonGoto, fileVars, daemonVars, cliVars
<1>1. ASSUME NEW p \in Proc, Begin(p) PROVE PortAndState'
  BY <1>1 DEF Begin
<1>2. ASSUME NEW p \in Proc, Load(p) PROVE PortAndState'
  BY <1>2 DEF Load
<1>3. ASSUME NEW p \in Proc, Reuse(p) PROVE PortAndState'
  <2>1. built[st[p]] = ver[p]
    BY <1>3 DEF Reuse, Healthy, Answers
  <2>2. ~versionSkewed(p)
    BY <2>1 DEF versionSkewed
  <2> QED BY <1>3, <2>2 DEF Reuse
<1>4. ASSUME NEW p \in Proc, Miss(p) PROVE PortAndState'
  BY <1>4 DEF Miss, Unhealthy
<1>5. ASSUME NEW p \in Proc, RequestStop(p) \/ finalizeStop(p) PROVE PortAndState'
  BY <1>5 DEF RequestStop, finalizeStop
<1>6. ASSUME NEW p \in Proc, TakeLock(p) \/ WriteLock(p) \/ JudgeStale(p) \/ Steal(p)
      PROVE  PortAndState'
  BY <1>6 DEF TakeLock, WriteLock, JudgeStale, Steal
<1>7. ASSUME NEW p \in Proc, Release(p) \/ WaitOut(p) \/ GiveUp(p) \/ Timeout(p) \/ Crash(p)
      PROVE  PortAndState'
  BY <1>7 DEF Release, WaitOut, GiveUp, Timeout, Crash
<1>8. ASSUME NEW p \in Proc, Spawn(p) PROVE PortAndState'
  BY <1>8 DEF Spawn
<1>9. ASSUME NEW d \in Daemon, Listen(d) PROVE PortAndState'
  BY <1>9 DEF Listen
<1>10. ASSUME NEW d \in Daemon, Save(d) PROVE PortAndState'
  BY <1>10 DEF Save
<1>11. ASSUME NEW d \in Daemon, Serve(d) PROVE PortAndState'
  BY <1>11 DEF Serve
<1>12. ASSUME NEW d \in Daemon, Shutdown(d) \/ RemoveState(d) \/ Exit(d) \/ IdleStop(d)
       PROVE  PortAndState'
  BY <1>12 DEF Shutdown, RemoveState, Exit, IdleStop
<1>13. ASSUME NEW d \in Daemon, DaemonCrash(d) PROVE PortAndState'
  BY <1>13 DEF DaemonCrash
<1>14. CASE LockAges
  BY <1>14 DEF LockAges
<1>15. CASE UNCHANGED vars
  BY <1>15 DEF vars
<1> QED
  BY <1>1, <1>2, <1>3, <1>4, <1>5, <1>6, <1>7, <1>8, <1>9, <1>10, <1>11, <1>12,
     <1>13, <1>14, <1>15 DEF Next, Command, Run

\* Run (server.go) takes the port before it writes the state file: if all daemons
\* are given one port and none is told to stop, the one that serves is the one
\* daemon.json names, whatever crashes, deadlines and stolen locks there are.
THEOREM ServingFound ==
    ASSUME FixedPort, OnlyEnsure, "idle" \notin Faults
    PROVE  Spec => []ServingRecorded
<1>1. Init => PortAndState
  <2> SUFFICES ASSUME Init PROVE PortAndState
    OBVIOUS
  <2>1. \A d \in Daemon : built[d] # None => d = state
    BY DEF Init
  <2> QED BY <2>1 DEF Init, PortAndState, Listening
<1>2. TypeOK /\ PortAndState /\ [Next]_vars => PortAndState'
  BY RecordStep
<1>3. PortAndState => ServingRecorded
  BY DEF PortAndState, ServingRecorded
<1> QED
  BY <1>1, <1>2, <1>3, InitType, NextType, PTL DEF Spec
=============================================================================

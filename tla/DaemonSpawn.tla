---------------------------- MODULE DaemonSpawn ----------------------------
(***************************************************************************)
(* How the command line finds, starts and stops the local daemon           *)
(* (src/internal/daemon/daemon.go and lock.go, src/internal/state, and the *)
(* part of Run in src/internal/server/server.go that keeps the state       *)
(* file).                                                                  *)
(*                                                                         *)
(* The actors are command-line processes, one invocation each, and the     *)
(* daemons they start.  They share two files, the spawn lock and the state *)
(* file, and the port.  A process stands for its pid; pids are not reused. *)
(***************************************************************************)
EXTENDS Integers

CONSTANTS
    Proc, Daemon, Version, None,
    Dev,        \* the versions isDevVersion recognises
    Kind,       \* the commands run: "ensure", "stop"
    FixedPort,  \* every daemon is given the same port; else each picks a free one
    Faults      \* what may go wrong besides the interleaving

ASSUME DaemonSpawnAssumption ==
    /\ None \notin Proc \cup Daemon \cup Version /\ Dev \subseteq Version
    /\ Kind \subseteq {"ensure", "stop"} /\ FixedPort \in BOOLEAN
    /\ Faults \subseteq {"cliCrash", "daemonCrash", "timeout", "slow", "sleep", "idle"}

VARIABLES
    state,     \* the daemon daemon.json describes, or None
    lock,      \* daemon.lock, or None
    daemon,    \* where each daemon's Run is
    built,     \* the version of the binary it runs
    pc,        \* where each command is
    ver,       \* the version of its binary
    kind,
    st,        \* the daemon whose state it has loaded, or returned
    late       \* the commands that have waited for the lock past their deadline

vars == <<state, lock, daemon, built, pc, ver, kind, st, late>>
fileVars == <<state, lock>>
daemonVars == <<daemon, built>>
cliVars == <<pc, ver, kind, st, late>>

\* healthyState is called from five places.
Asking == {"check", "stopCheck", "recheck", "await", "final"}
CliStep == Asking \cup {"idle", "post", "finalize", "locking", "stealing", "writing",
                        "spawn", "release", "giveUp", "ok", "noDaemon", "failed", "crashed"}
DaemonStep == {"unborn", "starting", "bound", "recorded", "serving", "stopping",
               "draining", "exiting", "dead"}

\* The lock file: who made it, whether its pid is in it, whether it is a minute old.
LockFile == [by : Proc, written : BOOLEAN, old : BOOLEAN]

ASSUME NoLockAssumption == None \notin LockFile

Running(p) == pc[p] \notin {"idle", "ok", "noDaemon", "failed", "crashed"}
pidAlive(d) == daemon[d] \notin {"unborn", "dead"}
Listening(d) == daemon[d] \in {"bound", "recorded", "serving", "stopping"}
Answers(d) == daemon[d] \in {"serving", "stopping"}

TypeOK ==
    /\ state \in Daemon \cup {None}
    /\ lock \in LockFile \cup {None}
    /\ daemon \in [Daemon -> DaemonStep]
    /\ built \in [Daemon -> Version \cup {None}]
    /\ pc \in [Proc -> CliStep]
    /\ ver \in [Proc -> Version \cup {None}]
    /\ kind \in [Proc -> Kind \cup {None}]
    /\ st \in [Proc -> Daemon \cup {None}]
    /\ late \subseteq Proc
    /\ \A d \in Daemon : daemon[d] = "unborn" <=> built[d] = None
    /\ \A p \in Proc : pc[p] \in {"post", "finalize", "ok"} => st[p] # None
    /\ \A p \in Proc : pc[p] # "idle" => ver[p] \in Version /\ kind[p] \in Kind

\* One daemon may have been left by earlier commands: serving, or killed with its
\* state file in place.
Init ==
    /\ lock = None
    /\ built \in [Daemon -> Version \cup {None}]
    /\ \A d, e \in Daemon : built[d] # None /\ built[e] # None => d = e
    /\ daemon \in [Daemon -> {"unborn", "serving", "dead"}]
    /\ \A d \in Daemon : daemon[d] = "unborn" <=> built[d] = None
    /\ \/ state = None /\ \A d \in Daemon : built[d] = None
       \/ state \in Daemon /\ built[state] # None
    /\ pc = [p \in Proc |-> "idle"] /\ st = [p \in Proc |-> None]
    /\ ver = [p \in Proc |-> None] /\ kind = [p \in Proc |-> None]
    /\ late = {}

Goto(p, step) == pc' = [pc EXCEPT ![p] = step]
Forget(p) == st' = [st EXCEPT ![p] = None]
DaemonGoto(d, step) == daemon' = [daemon EXCEPT ![d] = step]

-----------------------------------------------------------------------------
(* Commands: the health check.                                             *)

Begin(p) ==
    /\ pc[p] = "idle"
    /\ \E v \in Version, k \in Kind :
          /\ ver' = [ver EXCEPT ![p] = v] /\ kind' = [kind EXCEPT ![p] = k]
          /\ Goto(p, IF k = "stop" THEN "stopCheck" ELSE "check")
    /\ UNCHANGED <<fileVars, daemonVars, st, late>>

\* healthyState loads the state file ...
Load(p) ==
    /\ pc[p] \in Asking /\ st[p] = None /\ state # None
    /\ st' = [st EXCEPT ![p] = state]
    /\ UNCHANGED <<fileVars, daemonVars, pc, ver, kind, late>>

\* ... and asks that daemon for its status.
Healthy(p) == pc[p] \in Asking /\ st[p] # None /\ Answers(st[p])
Unhealthy(p) ==
    /\ pc[p] \in Asking
    /\ \/ st[p] = None /\ state = None
       \/ st[p] # None /\ (~Answers(st[p]) \/ "slow" \in Faults)

versionSkewed(p) == ver[p] \notin Dev /\ ver[p] # built[st[p]]

\* What a command does with a healthy daemon.
Reuse(p) ==
    /\ Healthy(p)
    /\ \/ /\ pc[p] = "check" /\ versionSkewed(p)
          /\ Goto(p, "stopCheck") /\ Forget(p)
       \/ /\ \/ pc[p] = "check" /\ ~versionSkewed(p)
             \/ pc[p] = "final"
          /\ Goto(p, "ok") /\ UNCHANGED st
       \/ pc[p] = "stopCheck" /\ Goto(p, "post") /\ UNCHANGED st
       \/ pc[p] \in {"recheck", "await"} /\ Goto(p, "release") /\ Forget(p)
    /\ UNCHANGED <<fileVars, daemonVars, ver, kind, late>>

\* Variant of Miss: the last check's result is not looked at.
Miss_FinalUnchecked(p) ==
    /\ Unhealthy(p)
    /\ Goto(p, CASE pc[p] = "check" -> "locking"
                 [] pc[p] = "stopCheck" -> IF kind[p] = "stop" THEN "noDaemon" ELSE "locking"
                 [] pc[p] = "recheck" -> "spawn"
                 [] pc[p] = "await" -> "await"
                 [] pc[p] = "final" -> "ok")
    /\ Forget(p)
    /\ UNCHANGED <<fileVars, daemonVars, ver, kind, late>>

\* What it does without one.
Miss(p) ==
    /\ Unhealthy(p)
    /\ Goto(p, CASE pc[p] = "check" -> "locking"
                 [] pc[p] = "stopCheck" -> IF kind[p] = "stop" THEN "noDaemon" ELSE "locking"
                 [] pc[p] = "recheck" -> "spawn"
                 [] pc[p] = "await" -> "await"
                 [] pc[p] = "final" -> "failed")
    /\ Forget(p)
    /\ UNCHANGED <<fileVars, daemonVars, ver, kind, late>>

-----------------------------------------------------------------------------
(* Stop.                                                                   *)

\* POST /api/stop.  A daemon that no longer answers, or answers late, is an error.
RequestStop(p) ==
    /\ pc[p] = "post"
    /\ \/ Answers(st[p]) /\ DaemonGoto(st[p], "stopping") /\ Goto(p, "finalize") /\ UNCHANGED st
       \/ ~Answers(st[p]) /\ UNCHANGED daemon /\ Goto(p, "failed") /\ Forget(p)
       \/ "slow" \in Faults /\ DaemonGoto(st[p], "stopping") /\ Answers(st[p])
             /\ Goto(p, "failed") /\ Forget(p)
    /\ UNCHANGED <<fileVars, built, ver, kind, late>>

\* finalizeStop: once the pid is gone the state file is removed, whoever it names.
finalizeStop(p) ==
    /\ pc[p] = "finalize" /\ ~pidAlive(st[p])
    /\ state' = None
    /\ Goto(p, IF kind[p] = "stop" THEN "noDaemon" ELSE "locking") /\ Forget(p)
    /\ UNCHANGED <<lock, daemonVars, ver, kind, late>>

-----------------------------------------------------------------------------
(* The spawn lock.                                                         *)

TakeLock(p) ==
    /\ pc[p] = "locking" /\ lock = None
    /\ lock' = [by |-> p, written |-> FALSE, old |-> FALSE]
    /\ Goto(p, "writing") /\ late' = late \ {p}
    /\ UNCHANGED <<state, daemonVars, ver, kind, st>>

\* The pid is written.  The path may stand for another lock file by now.
WriteLock(p) ==
    /\ pc[p] = "writing" /\ Goto(p, "recheck")
    /\ lock' = IF lock # None /\ lock.by = p THEN [lock EXCEPT !.written = TRUE] ELSE lock
    /\ UNCHANGED <<state, daemonVars, ver, kind, st, late>>

\* Variants of isStaleLock: an unreadable pid is a dead one; age is ignored.
isStaleLock_Unwritten ==
    lock # None /\ (lock.old \/ ~lock.written \/ ~Running(lock.by))
isStaleLock_NoAge == lock # None /\ (lock.written /\ ~Running(lock.by))
isStaleLock == lock # None /\ (lock.old \/ (lock.written /\ ~Running(lock.by)))

\* Judging a lock stale and removing it are two steps.
JudgeStale(p) ==
    /\ pc[p] = "locking" /\ isStaleLock /\ Goto(p, "stealing")
    /\ UNCHANGED <<fileVars, daemonVars, ver, kind, st, late>>
Steal(p) ==
    /\ pc[p] = "stealing" /\ lock' = None /\ Goto(p, "locking")
    /\ UNCHANGED <<state, daemonVars, ver, kind, st, late>>

\* The deferred release removes the file at the lock's path.
Release(p) ==
    /\ pc[p] \in {"release", "giveUp"} /\ lock' = None
    /\ Goto(p, IF pc[p] = "release" THEN "final" ELSE "failed")
    /\ UNCHANGED <<state, daemonVars, ver, kind, st, late>>

\* spawnLockTimeout is a quarter of staleLockAge: behind a lock that nobody will
\* release and that is not stale, only a command that came late in the lock's minute
\* sees it grow old.
WaitOut(p) ==
    /\ pc[p] = "locking" /\ lock # None /\ ~Running(lock.by) /\ ~isStaleLock
    /\ p \notin late /\ late' = late \cup {p}
    /\ UNCHANGED <<fileVars, daemonVars, pc, ver, kind, st>>

\* The deadline is looked at after the lock could not be made and was not stale.
GiveUp(p) ==
    /\ pc[p] = "locking" /\ p \in late /\ lock # None /\ ~isStaleLock
    /\ Goto(p, "failed")
    /\ UNCHANGED <<fileVars, daemonVars, ver, kind, st, late>>

\* A minute has passed since the lock was made: a holder that runs takes less,
\* unless the machine slept.
LockAges ==
    /\ lock # None /\ ~lock.old /\ (~Running(lock.by) \/ "sleep" \in Faults)
    /\ lock' = [lock EXCEPT !.old = TRUE]
    /\ UNCHANGED <<state, daemonVars, cliVars>>

\* spawnAndWait starts a detached daemon and polls for any that is healthy.
Spawn(p) ==
    /\ pc[p] = "spawn" /\ Goto(p, "await")
    /\ \E d \in Daemon : /\ daemon[d] = "unborn"
                         /\ DaemonGoto(d, "starting")
                         /\ built' = [built EXCEPT ![d] = ver[p]]
    /\ UNCHANGED <<fileVars, ver, kind, st, late>>

\* A command or a daemon so slow that spawnLockTimeout, startupTimeout or stopTimeout
\* passes; a process or file error ends a command the same way.
Timeout(p) ==
    /\ "timeout" \in Faults
    /\ \/ pc[p] \in {"locking", "finalize"} /\ Goto(p, "failed")
       \/ pc[p] \in {"writing", "spawn", "await"} /\ Goto(p, "giveUp")
    /\ Forget(p)
    /\ UNCHANGED <<fileVars, daemonVars, ver, kind, late>>

Crash(p) ==
    /\ "cliCrash" \in Faults /\ Running(p) /\ Goto(p, "crashed") /\ Forget(p)
    /\ UNCHANGED <<fileVars, daemonVars, ver, kind, late>>

-----------------------------------------------------------------------------
(* Daemons: what Run does with its port and its state file.                *)

\* Variant of Listen: the state is saved first.
Listen_SaveFirst(d) ==
    /\ daemon[d] = "starting" /\ state' = d
    /\ DaemonGoto(d, IF FixedPort /\ \E e \in Daemon : Listening(e) THEN "dead" ELSE "bound")
    /\ UNCHANGED <<lock, built, cliVars>>

\* A port that is taken ends the daemon before it has touched the state file.
Listen(d) ==
    /\ daemon[d] = "starting"
    /\ DaemonGoto(d, IF FixedPort /\ \E e \in Daemon : Listening(e) THEN "dead" ELSE "bound")
    /\ UNCHANGED <<fileVars, built, cliVars>>

Save(d) ==
    /\ daemon[d] = "bound" /\ DaemonGoto(d, "recorded")
    /\ state' = d
    /\ UNCHANGED <<lock, built, cliVars>>

Serve(d) ==
    /\ daemon[d] = "recorded" /\ DaemonGoto(d, "serving")
    /\ UNCHANGED <<fileVars, built, cliVars>>

\* The reaper or a signal; the watcher or Serve may fail as well.
IdleStop(d) ==
    /\ "idle" \in Faults
    /\ \/ daemon[d] = "serving" /\ DaemonGoto(d, "stopping")
       \/ daemon[d] \in {"recorded", "serving"} /\ DaemonGoto(d, "draining")
    /\ UNCHANGED <<fileVars, built, cliVars>>

\* Shutdown closes the listener, and waits for the handlers still running.
Shutdown(d) ==
    /\ daemon[d] = "stopping" /\ DaemonGoto(d, "draining")
    /\ UNCHANGED <<fileVars, built, cliVars>>

\* Last, Run removes the state file, whoever it names, and the process ends.
RemoveState(d) ==
    /\ daemon[d] = "draining" /\ DaemonGoto(d, "exiting")
    /\ state' = None
    /\ UNCHANGED <<lock, built, cliVars>>
Exit(d) ==
    /\ daemon[d] = "exiting" /\ DaemonGoto(d, "dead")
    /\ UNCHANGED <<fileVars, built, cliVars>>

DaemonCrash(d) ==
    /\ "daemonCrash" \in Faults /\ pidAlive(d) /\ DaemonGoto(d, "dead")
    /\ UNCHANGED <<fileVars, built, cliVars>>

Command(p) == \/ Load(p) \/ Reuse(p) \/ Miss(p) \/ RequestStop(p) \/ finalizeStop(p)
              \/ TakeLock(p) \/ WriteLock(p) \/ JudgeStale(p) \/ Steal(p)
              \/ GiveUp(p) \/ Release(p) \/ Spawn(p)
Run(d) == Listen(d) \/ Save(d) \/ Serve(d) \/ Shutdown(d) \/ RemoveState(d) \/ Exit(d)

Next == \/ \E p \in Proc : Begin(p) \/ Command(p) \/ WaitOut(p) \/ Timeout(p) \/ Crash(p)
        \/ \E d \in Daemon : Run(d) \/ IdleStop(d) \/ DaemonCrash(d)
        \/ LockAges

Spec == Init /\ [][Next]_vars

(* Fairness: processes run, and time passes.  No deadline is relied upon,  *)
(* and a command may always lose the race for the lock.                    *)
Fairness ==
    /\ \A p \in Proc : WF_vars(Command(p))
    /\ \A d \in Daemon : WF_vars(Run(d))
    /\ WF_vars(LockAges)

FairSpec == Spec /\ Fairness

-----------------------------------------------------------------------------
(* Properties.                                                             *)

Holding(p) == pc[p] \in {"writing", "recheck", "spawn", "await", "release", "giveUp"}

\* withSpawnLock: "concurrent CLI invocations racing to spawn a daemon converge
\* on exactly one spawn", because one of them at a time is in its critical
\* section.
OneSpawner == \A p, q \in Proc : Holding(p) /\ Holding(q) => p = q

\* What of that holds: while no command has died, whatever the daemons do and
\* however slow they are, the lock admits one command at a time.
NobodyDied == \A p \in Proc : pc[p] # "crashed"
LoneSpawner == NobodyDied => OneSpawner

\* "Exactly one daemon is serving -- one pid in daemon.json": a daemon that serves
\* can be found.
ServingRecorded == \A d \in Daemon : daemon[d] = "serving" => state = d

\* The lock of a command that died before its pid was in it, within the last minute.
Orphaned == lock # None /\ ~lock.written /\ ~lock.old /\ ~Running(lock.by)

\* withSpawnLock and staleLockAge: every command that needs a daemon comes to an end;
\* and it gets one, though others may die holding the lock, at any point, unless it
\* dies itself or meets an orphaned lock, behind which it may wait out its deadline.
\* Once that lock is old it stops nobody.
EnsureSucceeds ==
    \A p \in Proc :
        /\ pc[p] = "check" ~> pc[p] \in {"ok", "failed", "crashed"}
        /\ pc[p] = "check" ~> pc[p] \in {"ok", "crashed"} \/ Orphaned

-----------------------------------------------------------------------------
(* Documented promises the code does not keep: README.md tells how.        *)

\* "Ensure returns the state of a healthy running daemon, self-starting one (under a
\* spawn lock) if none is found": behind an orphaned lock too.  A command gives up
\* after 15 seconds, and may steal the lock after 60.
EnsureAlways == \A p \in Proc : pc[p] = "check" ~> pc[p] \in {"ok", "crashed"}

\* "You never silently keep talking to a process built from last week's code": a
\* command is given a daemon of its own version.
SameVersion ==
    \A p \in Proc : pc[p] = "ok" /\ ver[p] \notin Dev => built[st[p]] = ver[p]
=============================================================================

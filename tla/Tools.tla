-------------------------------- MODULE Tools --------------------------------
(***************************************************************************)
(* What the commands and the MCP tools do: change canvases on the local    *)
(* disk (LocalStore), call a hub (HubTools), and start and stop the daemon *)
(* that serves the local canvases (DaemonSpawn).  The three share no       *)
(* state.                                                                  *)
(***************************************************************************)
EXTENDS LocalStore

CONSTANTS
    Agent, BadId, Workloads, Initial, MaxCalls, MaxFaults, HubFaults, NoFile, \* of HubTools
    Cli, Daemon, Version, Dev, Kind, FixedPort, SpawnFaults               \* of DaemonSpawn

VARIABLES work, hub, net, ans, log, last, gone, faults,
          state, lock, daemon, built, cmd, ver, kind, st, late

hubVars == <<work, hub, net, ans, log, last, gone, faults>>
spawnVars == <<state, lock, daemon, built, cmd, ver, kind, st, late>>

Hub == INSTANCE HubTools WITH Faults <- HubFaults
Spawn == INSTANCE DaemonSpawn WITH Proc <- Cli, Faults <- SpawnFaults, pc <- cmd

ASSUME ToolsAssumption ==
    Hub!HubToolsAssumption /\ Spawn!DaemonSpawnAssumption /\ Spawn!NoLockAssumption

\* All three are well typed: a call on the disk is at a stage of its own operation,
\* and a command that returns has a daemon.
TypesOK == TypeOK /\ Hub!TypeOK /\ Spawn!TypeOK
\* An agent is told the truth about what the hub did (backend_hub.go).
AnswersAreTrue == Hub!AnswersAreTrue
\* A call that is repeated does nothing more, but for minting a link (toolAnnotations).
RepeatIsIdle == Hub!RepeatIsIdle
\* One command at a time is at the daemon, until one has died (lock.go).
LoneSpawner == Spawn!LoneSpawner
=============================================================================

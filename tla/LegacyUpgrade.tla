----------------------------- MODULE LegacyUpgrade ----------------------------
(***************************************************************************)
(* The move of a service from version 1.3, which knows no upgrades, to a   *)
(* managed instance (bin/legacy-upgrade.mjs): its journal, the task of the *)
(* operating system that starts the service (bin/legacy-task.mjs,          *)
(* autostart/windows/legacy-task.ps1), the old command line file that is   *)
(* replaced, the broker that ends the old processes                        *)
(* (bin/windows-legacy-process.mjs and the helper it talks to) and the     *)
(* managed service that takes over, held until it is admitted.             *)
(*                                                                         *)
(* The old service is a supervisor that forks one bridge after another;    *)
(* the identity of either is the number of its birth.  How the broker      *)
(* finds the other processes is the subject of module LegacySweep.  The    *)
(* upgrader may die before and after each step; the operator then removes  *)
(* its lock and runs the recovery, which may die too.                      *)
(***************************************************************************)
EXTENDS Integers, FiniteSets

CONSTANTS
    Nothing,
    MaxLegacyFaults,  \* bound: deaths, lost answers, failed calls, crashes
    MaxDisturbances   \* bound: changes by others, of the configuration or the task

legacyMigrationPhases ==
    {"legacy-prepared", "legacy-holding", "legacy-held", "legacy-stopping", "legacy-stopped",
     "legacy-launching", "legacy-wiring", "legacy-admitting", "legacy-rollback-stopping",
     "legacy-task-restoring", "legacy-cli-restoring", "legacy-rollback-launching",
     "legacy-rolled-back", "legacy-aborted"}

ASSUME LegacyAssumption ==
    Nothing \notin legacyMigrationPhases \cup {"committed", "old", "new", "execute", "quiet", "hold"}

VARIABLES
    mover,     \* the upgrader, or the recovery
    memory,    \* its journal
    written,   \* journal.json
    registration, \* the task of the operating system
    cli,       \* bin/cli.mjs, and the two files beside it
    pointer,   \* cli-instance.json exists
    old,       \* version 1.3: its supervisor and bridge, and how many were born
    broker,    \* LegacyProcessBroker.exe
    target,    \* the managed service
    edited,    \* servers.json is not what was approved
    spent      \* faults and disturbances so far

legacyVars == <<mover, memory, written, registration, cli, pointer, old, broker, target, edited, spent>>

Original == [action |-> "old", enabled |-> TRUE, edited |-> FALSE]

Resting == [pc |-> "off", run |-> Nothing, proof |-> FALSE]
NoTarget == [at |-> "none", held |-> TRUE, stopping |-> Nothing, said |-> FALSE,
             receipt |-> FALSE, served |-> FALSE]

\* The approved plan: the original task, supervisor 1 and bridge 2.
LegacyInit ==
    /\ mover = Resting
    /\ memory = [phase |-> Nothing, task |-> Original, stop |-> FALSE, pointer |-> FALSE]
    /\ written = memory
    /\ registration = Original
    /\ cli = [path |-> "old", saved |-> FALSE, staged |-> FALSE] /\ pointer = FALSE
    /\ old = [supervisor |-> 1, bridge |-> 2, born |-> 2]
    /\ broker = "none" /\ target = NoTarget /\ edited = FALSE
    /\ spent = [faults |-> 0, disturbances |-> 0]

Service == <<old, broker, target>>
Files == <<registration, cli, pointer>>

LegacyFault == spent.faults < MaxLegacyFaults /\ spent' = [spent EXCEPT !.faults = @ + 1]

-----------------------------------------------------------------------------
(* Version 1.3, its broker, the new service, and others. *)

OldStarts == old' = [old EXCEPT !.supervisor = old.born + 1, !.born = @ + 1]

\* The port is free, or the bridge could not listen.
OldForks ==
    /\ old.supervisor # Nothing /\ old.bridge = Nothing /\ target.at # "ready"
    /\ old' = [old EXCEPT !.bridge = old.born + 1, !.born = @ + 1]
    /\ UNCHANGED <<mover, memory, written, Files, broker, target, edited, spent>>

OldDies ==
    /\ LegacyFault
    /\ \E part \in {"supervisor", "bridge"} :
         old[part] # Nothing /\ old' = [old EXCEPT ![part] = Nothing]
    /\ UNCHANGED <<mover, memory, written, Files, broker, target, edited>>

\* A user logs on.  An unfinished or undone upgrade keeps the new service from
\* being started; what happens to a committed one is the subject of module
\* ManagedUpgrade.
LogsOn ==
    /\ registration.enabled /\ registration.action = "old" /\ old.supervisor = Nothing
    /\ OldStarts
    /\ UNCHANGED <<mover, memory, written, Files, broker, target, edited, spent>>

Disturb ==
    /\ spent.disturbances < MaxDisturbances
    /\ spent' = [spent EXCEPT !.disturbances = @ + 1]
    /\ \/ edited' = TRUE /\ UNCHANGED registration
       \/ registration' = [registration EXCEPT !.edited = TRUE] /\ UNCHANGED edited
    /\ UNCHANGED <<mover, memory, written, cli, pointer, Service>>

\* The supervisor goes first, so that it cannot fork again; the bridge is left
\* alone if that fails.  A process may resist.
BrokerStops ==
    /\ broker \in {"stopping", "stopping-bridge"}
    /\ LET part == IF broker = "stopping" THEN "supervisor" ELSE "bridge"
           identity == IF broker = "stopping" THEN 1 ELSE 2 IN
       \/ /\ old' = [old EXCEPT ![part] = IF @ = identity THEN Nothing ELSE @]
          /\ broker' = IF broker = "stopping" THEN "stopping-bridge" ELSE "done"
          /\ UNCHANGED spent
       \/ LegacyFault /\ broker' = "done" /\ UNCHANGED old
    /\ UNCHANGED <<mover, memory, written, Files, target, edited>>

TargetReady ==
    /\ target.at = "starting" /\ target.stopping = Nothing /\ old.bridge = Nothing
    /\ target' = [target EXCEPT !.at = "ready"]
    /\ UNCHANGED <<mover, memory, written, Files, old, broker, edited, spent>>

TargetServes ==
    /\ target.at = "ready" /\ ~target.held /\ ~target.served
    /\ target' = [target EXCEPT !.served = TRUE]
    /\ UNCHANGED <<mover, memory, written, Files, old, broker, edited, spent>>

\* It stops because it was asked to, or because its bridge has failed while it
\* was held; it says so to who started it, and completes the receipt of a stop
\* request.
TargetStops ==
    /\ target.at \in {"starting", "ready"}
    /\ \/ target.stopping # Nothing /\ UNCHANGED spent
       \/ target.stopping = Nothing /\ target.held /\ LegacyFault
    /\ target' = [target EXCEPT !.at = "gone", !.said = TRUE, !.receipt = target.stopping = "hold"]
    /\ UNCHANGED <<mover, memory, written, Files, old, broker, edited>>

TargetDies ==
    /\ LegacyFault /\ target.at \in {"starting", "ready"}
    /\ target' = [target EXCEPT !.at = "gone"]
    /\ UNCHANGED <<mover, memory, written, Files, old, broker, edited>>

-----------------------------------------------------------------------------
(* The steps of the upgrader: what they have in common. *)

\* transition(): the journal of memory is changed, then written.
Writes(journal, pc) ==
    memory' = journal /\ written' = journal /\ mover' = [mover EXCEPT !.pc = pc]
Proceeds(pc) == mover' = [mover EXCEPT !.pc = pc] /\ UNCHANGED <<memory, written>>
Phase(phase) == [memory EXCEPT !.phase = phase]

\* The end of a run; a broker that has not begun to stop is sent away.
LetsGo(b) == IF b = "holding" THEN "none" ELSE b
Ends == mover' = Resting /\ UNCHANGED <<memory, written>> /\ broker' = LetsGo(broker)

MayRollBack == {"legacy-stopped", "legacy-launching", "legacy-wiring"}

\* The handler of execute(): what memory holds is written, with what went
\* wrong, and the rollback begins, if the phase allows it.
CaughtWith(journal, rolls) ==
    IF mover.run # "execute" THEN Ends
    ELSE /\ memory' = journal /\ written' = journal /\ broker' = LetsGo(broker)
         /\ mover' = IF rolls /\ journal.phase \in MayRollBack
                     THEN [mover EXCEPT !.pc = "rollback", !.run = "rollback"] ELSE Resting
Mishap == CaughtWith(memory, TRUE)

TaskMatches == registration = memory.task
\* verifySource(): package, state and configuration are the approved ones, the
\* command line file at its place, or at the one it was moved to.
SourceAt(original) == ~edited /\ original
OldCli == cli.path = "old"
OldListens == old.bridge = 2 /\ ~edited
\* What the broker captures of the running service, and that it is the plan's.
Captured == old.supervisor # Nothing /\ old.bridge # Nothing
SameRoots == old.supervisor = 1 /\ old.bridge = 2
Port == old.bridge # Nothing \/ target.at = "ready"

\* verifyLegacyProcessesGone(): of the processes of the plan.
PlanGone == old.supervisor # 1 /\ old.bridge # 2
OldStopped == memory.stop /\ PlanGone /\ ~Port

\* One change of the registration, bound to the one that is expected.  It may
\* fail, before or after it has happened.
TaskCall(allowed, changed, pc) ==
    /\ \/ /\ TaskMatches /\ allowed
          /\ registration' = changed /\ memory' = [memory EXCEPT !.task = changed]
          /\ mover' = [mover EXCEPT !.pc = pc] /\ UNCHANGED <<written, broker, spent>>
       \/ ~(TaskMatches /\ allowed) /\ Mishap /\ UNCHANGED <<registration, spent>>
       \/ LegacyFault /\ Mishap /\ registration' \in {registration, IF TaskMatches /\ allowed THEN changed ELSE registration}
    /\ UNCHANGED <<cli, pointer, old, target, edited>>

\* A check and the transition after it; either may fail, and memory is ahead of
\* a journal that could not be written.
Checked(holds, journal, pc) ==
    /\ \/ holds /\ Writes(journal, pc) /\ UNCHANGED <<broker, spent>>
       \/ ~holds /\ Mishap /\ UNCHANGED spent
       \/ LegacyFault /\ (Mishap \/ (holds /\ CaughtWith(journal, TRUE)))
    /\ UNCHANGED <<Files, old, target, edited>>

Held == [memory.task EXCEPT !.enabled = FALSE]
Enabled == [memory.task EXCEPT !.enabled = TRUE]
Repointed == [memory.task EXCEPT !.action = "new"]

-----------------------------------------------------------------------------
(* execute() *)

\* All is staged and the broker holds the old processes; the candidate is
\* published with its journal.
AdoptPlan ==
    /\ mover.pc = "off" /\ memory.phase = Nothing
    /\ TaskMatches /\ SourceAt(OldCli) /\ OldListens /\ SameRoots
    /\ broker' = "holding" /\ cli' = [cli EXCEPT !.staged = TRUE]
    /\ memory' = Phase("legacy-prepared") /\ written' = memory'
    /\ mover' = [Resting EXCEPT !.pc = "prepared", !.run = "execute"]
    /\ UNCHANGED <<registration, pointer, old, target, edited, spent>>

LegacyPrepared ==
    mover.pc = "prepared" /\ Checked(SourceAt(OldCli) /\ OldListens, Phase("legacy-holding"), "hold")
HoldTask == mover.pc = "hold" /\ TaskCall(TRUE, Held, "held")
TaskHeld == mover.pc = "held" /\ Checked(TaskMatches, Phase("legacy-held"), "ready")
ReadyToStop ==
    mover.pc = "ready" /\ Checked(SourceAt(OldCli) /\ OldListens, Phase("legacy-stopping"), "stop")

\* The broker looks at the processes again before it commits itself.
StopOld ==
    /\ mover.pc = "stop"
    /\ IF TaskMatches /\ SameRoots
         THEN broker' = "stopping" /\ Proceeds("stopping")
         ELSE Mishap
    /\ UNCHANGED <<Files, old, target, edited, spent>>

OldAnswered ==
    /\ mover.pc = "stopping" /\ broker = "done" /\ broker' = "none"
    /\ Writes([memory EXCEPT !.stop = PlanGone], "receipt")
    /\ UNCHANGED <<Files, old, target, edited, spent>>

\* The wait is given up: the broker is killed.
OldUnanswered ==
    /\ mover.pc = "stopping" /\ LegacyFault
    /\ broker' = "none" /\ mover' = Resting /\ written' = memory /\ UNCHANGED memory
    /\ UNCHANGED <<Files, old, target, edited>>

StopReceived == mover.pc = "receipt" /\ Checked(memory.stop, Phase("legacy-stopped"), "activate")

\* The intent to launch is durable before anything is launched.
ActivateNew ==
    /\ mover.pc = "activate"
    /\ Checked(OldStopped /\ SourceAt(OldCli) /\ TaskMatches, Phase("legacy-launching"), "launch")

LaunchNew ==
    /\ mover.pc = "launch"
    /\ IF Port THEN Mishap /\ UNCHANGED target
       ELSE target' = [target EXCEPT !.at = "starting"] /\ Proceeds("wait") /\ UNCHANGED broker
    /\ UNCHANGED <<Files, old, edited, spent>>

\* A start that failed has said that all of it has stopped, or nobody knows.
NewStarted ==
    /\ mover.pc = "wait"
    /\ \/ target.at = "ready" /\ Proceeds("inspect") /\ UNCHANGED broker
       \/ /\ target.at = "gone" /\ ~target.said /\ CaughtWith(memory, FALSE)
       \/ /\ target.at = "gone" /\ target.said /\ UNCHANGED memory /\ written' = memory
          /\ mover' = [mover EXCEPT !.pc = "rollback", !.run = "rollback", !.proof = TRUE]
          /\ UNCHANGED broker
    /\ UNCHANGED <<Files, old, target, edited, spent>>

\* Fifteen seconds: it is told to stop; and twelve more.
NewTooSlow ==
    /\ LegacyFault /\ mover.pc = "wait" /\ target.at # "gone"
    /\ target' = [target EXCEPT !.stopping = "quiet"]
    /\ Proceeds("cleanup")
    /\ UNCHANGED <<Files, old, broker, edited>>

NewCleanedUp ==
    /\ mover.pc = "cleanup"
    /\ \/ target.at = "gone" /\ Proceeds("wait") /\ UNCHANGED <<broker, spent>>
       \/ target.at # "gone" /\ LegacyFault /\ Mishap
    /\ UNCHANGED <<Files, old, target, edited>>

NewHeld == target.at = "ready" /\ target.held /\ ~target.served

NewInspected == mover.pc = "inspect" /\ Checked(NewHeld /\ ~edited, Phase("legacy-wiring"), "repoint")
RepointTask == mover.pc = "repoint" /\ TaskCall(~registration.enabled, Repointed, "repointed")
TaskRepointed == mover.pc = "repointed" /\ Checked(TRUE, memory, "cli-move")

\* The old file aside, the new one in its place, and the pointer: three
\* changes, and each may fail.
CliStep(pc, files, pointed, next) ==
    /\ mover.pc = pc
    /\ \/ cli' = files /\ pointer' = pointed /\ Proceeds(next) /\ UNCHANGED <<broker, spent>>
       \/ LegacyFault /\ Mishap /\ UNCHANGED <<cli, pointer>>
    /\ UNCHANGED <<registration, old, target, edited>>

MovesOldCli == CliStep("cli-move", [cli EXCEPT !.path = Nothing, !.saved = TRUE], pointer, "cli-select")
SelectsCli == CliStep("cli-select", [cli EXCEPT !.path = "new", !.staged = FALSE], pointer, "cli-point")
PointsCli == CliStep("cli-point", cli, TRUE, "cli-pointed")
CliSelected == mover.pc = "cli-pointed" /\ Checked(TRUE, [memory EXCEPT !.pointer = TRUE], "enable")

EnableTask == mover.pc = "enable" /\ TaskCall(TRUE, Enabled, "enabled")
TaskEnabled == mover.pc = "enabled" /\ Checked(TaskMatches /\ ~edited, Phase("legacy-admitting"), "admit")

\* The bridge compares the configuration itself; its answer may be lost.
AdmitNew ==
    /\ mover.pc = "admit"
    /\ \/ /\ target.at = "ready" /\ ~edited
          /\ target' = [target EXCEPT !.held = FALSE]
          /\ \/ Proceeds("commit") /\ UNCHANGED <<broker, spent>>
             \/ LegacyFault /\ Mishap
       \/ ~(target.at = "ready" /\ ~edited) /\ Mishap /\ UNCHANGED <<target, spent>>
    /\ UNCHANGED <<Files, old, edited>>

CommitNew ==
    /\ mover.pc = "commit" /\ memory' = Phase("committed") /\ written' = memory'
    /\ mover' = Resting /\ UNCHANGED <<Files, Service, edited, spent>>

-----------------------------------------------------------------------------
(* rollback() *)

\* Its control socket listens before its bridge does; what its bridge says is
\* asked for only if the port is open.
Asked == target.at = "starting" \/ NewHeld
\* Bug: a closed port is proof enough.
ProvenByPort == IF memory.phase = "legacy-stopped" \/ ~Port THEN "yes" ELSE IF Asked THEN "ask" ELSE "no"
\* stopTarget(): nothing was launched; or the failed start has said that it
\* stopped; or the receipt of the service is complete; or it is to be stopped.
Proven ==
    IF memory.phase = "legacy-stopped" THEN "yes"
    ELSE IF mover.proof THEN IF Port THEN "no" ELSE "yes"
    ELSE IF target.receipt /\ ~Port THEN "yes"
    ELSE IF Asked THEN "ask" ELSE "no"

RollBack ==
    /\ mover.pc = "rollback"
    /\ \/ (edited \/ ~TaskMatches \/ Proven = "no") /\ Ends /\ UNCHANGED <<target, spent>>
       \/ /\ ~edited /\ TaskMatches /\ Proven = "yes"
          /\ Writes(Phase("legacy-rollback-stopping"), "verify") /\ UNCHANGED <<target, broker, spent>>
       \/ /\ ~edited /\ TaskMatches /\ Proven = "ask"
          /\ \/ target' = [target EXCEPT !.stopping = "hold"] /\ Proceeds("stop-new") /\ UNCHANGED <<broker, spent>>
             \/ LegacyFault /\ Ends /\ UNCHANGED target
    /\ UNCHANGED <<Files, old, edited>>

NewStopped ==
    /\ mover.pc = "stop-new"
    /\ \/ /\ target.at = "gone"
          /\ IF target.receipt /\ ~Port
               THEN Writes(Phase("legacy-rollback-stopping"), "verify") /\ UNCHANGED broker
               ELSE Ends
          /\ UNCHANGED spent
       \/ LegacyFault /\ Ends
    /\ UNCHANGED <<Files, old, target, edited>>

VerifyOld ==
    /\ mover.pc = "verify"
    /\ IF OldStopped /\ SourceAt(cli.saved \/ OldCli)
         THEN Proceeds(IF memory.task.enabled THEN "rehold" ELSE "reheld") /\ UNCHANGED broker
         ELSE Ends
    /\ UNCHANGED <<Files, old, target, edited, spent>>

HoldAgain == mover.pc = "rehold" /\ TaskCall(TRUE, Held, "rewrite")
HeldAgain == mover.pc = "rewrite" /\ Checked(TRUE, memory, "reheld")
CliIntent == mover.pc = "reheld" /\ Checked(TRUE, Phase("legacy-cli-restoring"), "cli-unselect")

\* restoreCli()
UnselectsCli ==
    CliStep("cli-unselect",
            IF cli.saved /\ cli.path = "new" THEN [cli EXCEPT !.path = Nothing, !.staged = TRUE] ELSE cli,
            pointer, "cli-return")
ReturnsCli ==
    CliStep("cli-return",
            IF cli.saved THEN [cli EXCEPT !.path = "old", !.saved = FALSE] ELSE cli, pointer, "cli-unpoint")
\* A pointer whose creation is not in the journal is left alone.
Unpoints ==
    /\ mover.pc = "cli-unpoint"
    /\ IF pointer /\ ~memory.pointer THEN Ends /\ UNCHANGED pointer
       ELSE pointer' = FALSE /\ Proceeds("cli-restored") /\ UNCHANGED broker
    /\ UNCHANGED <<registration, cli, old, target, edited, spent>>
CliRestored ==
    mover.pc = "cli-restored" /\ Checked(SourceAt(OldCli), Phase("legacy-task-restoring"), "restore")

RestoreTask == mover.pc = "restore" /\ TaskCall(~registration.enabled, Original, "restored")
TaskRestored == mover.pc = "restored" /\ Checked(TaskMatches, Phase("legacy-rollback-launching"), "run")

\* The task is run; it ignores a second instance.
RunTask ==
    /\ mover.pc = "run"
    /\ IF TaskMatches THEN /\ IF old.supervisor = Nothing THEN OldStarts ELSE UNCHANGED old
                           /\ Proceeds("observe") /\ UNCHANGED broker
       ELSE Ends /\ UNCHANGED old
    /\ UNCHANGED <<Files, target, edited, spent>>

Observed ==
    /\ mover.pc = "observe" /\ Captured /\ old.bridge # 2 /\ ~edited
    /\ memory' = Phase("legacy-rolled-back") /\ written' = memory' /\ mover' = Resting
    /\ UNCHANGED <<Files, Service, edited, spent>>
Unobserved ==
    /\ mover.pc = "observe" /\ LegacyFault /\ Ends
    /\ UNCHANGED <<Files, old, target, edited>>

-----------------------------------------------------------------------------
(* recover() *)

\* Only these phases: any other has an outcome that nobody knows.
MayRecover(phase) == phase \in {"legacy-prepared", "legacy-held", "legacy-stopping"} \cup MayRollBack

RecoverLegacy ==
    /\ mover.pc = "off" /\ MayRecover(written.phase)
    /\ memory' = written /\ UNCHANGED written
    /\ mover' = [Resting EXCEPT !.run = "recover",
                   !.pc = CASE written.phase \in MayRollBack -> "rollback"
                            [] written.phase = "legacy-stopping" -> "gone"
                            [] OTHER -> "untouched"]
    /\ UNCHANGED <<Files, Service, edited, spent>>

\* Nothing was stopped: the hold of the task is undone.
Untouched ==
    /\ mover.pc = "untouched"
    /\ IF SourceAt(OldCli) /\ TaskMatches /\ OldListens /\ SameRoots
         THEN Proceeds(IF memory.phase = "legacy-prepared" THEN "abort" ELSE "unhold") /\ UNCHANGED broker
         ELSE Ends
    /\ UNCHANGED <<Files, old, target, edited, spent>>
Unhold == mover.pc = "unhold" /\ TaskCall(~registration.enabled, Original, "abort")
AbortLegacy ==
    /\ mover.pc = "abort" /\ memory' = Phase("legacy-aborted") /\ written' = memory'
    /\ mover' = Resting /\ UNCHANGED <<Files, Service, edited, spent>>

IsGone ==
    /\ mover.pc = "gone"
    /\ Checked(PlanGone, [memory EXCEPT !.phase = "legacy-stopped", !.stop = TRUE], "rollback")

\* A broker that has begun goes on alone.
MoverDies ==
    /\ LegacyFault /\ mover.pc # "off"
    /\ mover' = Resting /\ broker' = LetsGo(broker)
    /\ UNCHANGED <<memory, written, Files, old, target, edited>>

ExecuteSteps ==
    \/ AdoptPlan \/ LegacyPrepared \/ HoldTask \/ TaskHeld \/ ReadyToStop \/ StopOld \/ OldAnswered \/ OldUnanswered
    \/ StopReceived \/ ActivateNew \/ LaunchNew \/ NewStarted \/ NewTooSlow \/ NewCleanedUp \/ NewInspected
    \/ RepointTask \/ TaskRepointed \/ MovesOldCli \/ SelectsCli \/ PointsCli \/ CliSelected
    \/ EnableTask \/ TaskEnabled \/ AdmitNew \/ CommitNew
RollbackSteps ==
    \/ RollBack \/ NewStopped \/ VerifyOld \/ HoldAgain \/ HeldAgain \/ CliIntent \/ UnselectsCli
    \/ ReturnsCli \/ Unpoints \/ CliRestored \/ RestoreTask \/ TaskRestored \/ RunTask
    \/ Observed \/ Unobserved
Others ==
    \/ OldForks \/ OldDies \/ LogsOn \/ Disturb \/ BrokerStops
    \/ TargetReady \/ TargetServes \/ TargetStops \/ TargetDies

LegacyNext ==
    ExecuteSteps \/ RollbackSteps \/ Others \/ RecoverLegacy \/ Untouched \/ Unhold \/ AbortLegacy \/ IsGone \/ MoverDies
LegacySpec == LegacyInit /\ [][LegacyNext]_legacyVars

-----------------------------------------------------------------------------

\* No run of the upgrade, however often it dies and is recovered, leaves both
\* versions to serve: while anything of the new service may still come up,
\* nothing of the old one lives and its task can start nothing; and the old one
\* never comes back once the new one has served.
OneVersion ==
    /\ target.at \in {"starting", "ready"} =>
         /\ old.supervisor = Nothing
         /\ ~(registration.action = "old" /\ registration.enabled)
    /\ target.served => written.phase \in {"legacy-admitting", "committed"}

\* What the journal settles on is what is there: after an undone upgrade the
\* original task, command line file and routing, and no new service, now or
\* later; after a committed one the task that starts the new service, the new
\* command line file and its routing.
Undone ==
    /\ registration = [Original EXCEPT !.edited = registration.edited]
    /\ cli = [path |-> "old", saved |-> FALSE, staged |-> TRUE] /\ ~pointer
    /\ target.at \in {"none", "gone"} /\ ~target.served
Done ==
    /\ registration = [action |-> "new", enabled |-> TRUE, edited |-> registration.edited]
    /\ cli = [path |-> "new", saved |-> TRUE, staged |-> FALSE] /\ pointer
    /\ ~target.held /\ old.supervisor = Nothing
SettledAsSaid ==
    /\ written.phase \in {"legacy-rolled-back", "legacy-aborted"} => Undone
    /\ written.phase = "committed" => Done

\* One version serves at a time, and at the end the one that the journal names.
LegacyKept == OneVersion /\ SettledAsSaid
=============================================================================

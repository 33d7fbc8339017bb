---------------------------- MODULE ManagedUpgrade ----------------------------
(***************************************************************************)
(* One upgrade of one managed instance, and its recoveries                 *)
(* (bin/managed-upgrade.mjs), over the durable files of the instance       *)
(* (bin/managed-state.mjs), the start and stop of a service                *)
(* (bin/managed-runtime.mjs, bin/service-control.mjs) and the launcher that *)
(* every start goes through (bin/stable-launcher.mjs).                     *)
(*                                                                         *)
(* A generation is a launcher, its supervisor and its bridges, whose own   *)
(* protocol is the subject of module Supervisor.  The upgrader may die     *)
(* before and after each of its steps; the operator then removes its lock  *)
(* and runs the recovery, which may die too.  Meanwhile the operating      *)
(* system and the user may start the service, the user may stop it and     *)
(* edit the configuration.  The packages are intact.                       *)
(***************************************************************************)
EXTENDS Integers, Sequences, FiniteSets

CONSTANTS
    None,
    MaxGens,    \* bound: generations
    MaxFaults,  \* bound: deaths, lost answers, waits that are given up
    MaxEdits,   \* bound: edits of the configuration
    MaxStops    \* bound: stops by the user

VARIABLES
    gens,       \* the generations
    up,         \* the upgrader, or the recovery
    journal,    \* journal.json
    active,     \* active.json: "old" or "new"
    record,     \* service-<port>.json: the generation that wrote it
    hold,       \* service-<port>.stopped: its generation, and what its receipt says
    admission,  \* service-<port>.admission-held exists
    lock,       \* upgrade.lock exists
    config,     \* how often the configuration was edited
    used        \* how many faults and stops there were

vars == <<gens, up, journal, active, record, hold, admission, lock, config, used>>

Terminal == {"committed", "rolled-back", "aborted"}
BeforeLaunch == {"stopped", "selecting", "selected"}
RollbackBeforeLaunch == {"rollback-selecting", "rollback-selected"}
LaunchIntent == {"launching", "rollback-launching"}
Phases ==
    {"prepared", "quiescing", "stopping", "admitting", "admitting-rollback"}
      \cup BeforeLaunch \cup RollbackBeforeLaunch \cup LaunchIntent \cup Terminal
Versions == {"old", "new"}

ASSUME UpgradeAssumption == None \notin Phases \cup Versions

\* token: of the launch, 0 without one.  pending: to begin held.  seen: the
\* selection that its launcher has read.  version: the one it runs, once the
\* journal has let it.  drained: it has answered a quiesce and was not
\* resumed since.  stopping: how it was asked to.  launcher: that process is
\* alive; farewell: it has passed on that all of the generation has stopped.
\* traffic: of the bridge; served: ever.
Generation(pending, token) ==
    [at |-> "begun", pending |-> pending, token |-> token, seen |-> None, version |-> None,
     held |-> FALSE, drained |-> FALSE, stopping |-> None, launcher |-> TRUE,
     farewell |-> FALSE, traffic |-> FALSE, served |-> FALSE]

\* stop: the shutdown it waits for; proof: of a start that was stopped.
Idle == [pc |-> "off", run |-> None, g |-> None, proof |-> None, stop |-> None]

Init ==
    /\ gens = <<[Generation(FALSE, 0) EXCEPT !.at = "ready", !.seen = "old", !.version = "old"]>>
    /\ up = Idle
    /\ journal = [phase |-> None, authority |-> 0, token |-> 0, stopId |-> None, proof |-> None]
    /\ active = "old" /\ record = 1 /\ hold = None /\ admission = FALSE /\ lock = FALSE
    /\ config = 0 /\ used = [faults |-> 0, stops |-> 0]

Fault == used.faults < MaxFaults /\ used' = [used EXCEPT !.faults = @ + 1]

Up(g) == gens[g].at \in {"up", "ready"}
Gone(g) == gens[g].at = "gone"
\* listenerOpen(), and whose listener it is.
ListenerOpen == \E g \in DOMAIN gens : gens[g].at = "ready"
\* assertInstanceService(): the record names this selection; and its supervisor
\* answers.
Matches(version) == gens[record].version = version
Answers == gens[record].at = "ready" /\ gens[record].stopping = None

Unfinished == journal.phase \notin Terminal \cup {None}

-----------------------------------------------------------------------------
(* Generations. *)

Turns(g, m) == gens' = [gens EXCEPT ![g] = m]
Ended(g) == [gens[g] EXCEPT !.at = "gone", !.stopping = None, !.held = FALSE,
                            !.drained = FALSE, !.traffic = FALSE]

\* The launcher reads the selection, and compares every file of its package.
ReadsSelection(g) ==
    /\ gens[g].at = "begun"
    /\ Turns(g, [gens[g] EXCEPT !.at = "hashing", !.seen = active])
    /\ UNCHANGED <<up, journal, active, record, hold, admission, lock, config, used>>

\* Only then does it read the journal, which may have gone on.
Authorized(g) ==
    \/ ~Unfinished
    \/ /\ journal.phase \in LaunchIntent
       /\ gens[g].token = journal.token /\ gens[g].pending

ReadsJournal(g) ==
    /\ gens[g].at = "hashing"
    /\ Turns(g, IF Authorized(g) THEN [gens[g] EXCEPT !.at = "read", !.version = gens[g].seen]
                ELSE Ended(g))
    /\ UNCHANGED <<up, journal, active, record, hold, admission, lock, config, used>>

\* supervise.mjs looks at the hold first.
Spawns(g) ==
    /\ gens[g].at = "read"
    /\ Turns(g, IF hold # None THEN Ended(g) ELSE [gens[g] EXCEPT !.at = "spawned"])
    /\ UNCHANGED <<up, journal, active, record, hold, admission, lock, config, used>>

\* It listens for its clients, unless another supervisor does, writes its
\* record, looks at the hold again, and forks a bridge.
Listens(g) ==
    /\ gens[g].at = "spawned"
    /\ IF \E h \in DOMAIN gens : Up(h)
         THEN Turns(g, Ended(g)) /\ UNCHANGED record
         ELSE /\ record' = g
              /\ Turns(g, IF hold # None THEN Ended(g)
                          ELSE [gens[g] EXCEPT !.at = "up", !.held = gens[g].pending \/ admission])
    /\ UNCHANGED <<up, journal, active, hold, admission, lock, config, used>>

IsReady(g) ==
    /\ gens[g].at = "up" /\ gens[g].stopping = None
    /\ Turns(g, [gens[g] EXCEPT !.at = "ready"])
    /\ UNCHANGED <<up, journal, active, record, hold, admission, lock, config, used>>

Open(g) == gens[g].at = "ready" /\ ~gens[g].held
Serves(g) ==
    /\ Open(g) /\ ~gens[g].traffic
    /\ Turns(g, [gens[g] EXCEPT !.traffic = TRUE, !.served = TRUE])
    /\ UNCHANGED <<up, journal, active, record, hold, admission, lock, config, used>>

\* stop(): with a hold, its receipt is completed.
Stops(g) ==
    /\ Up(g) /\ gens[g].stopping # None
    /\ Turns(g, [Ended(g) EXCEPT !.farewell = gens[g].launcher])
    /\ hold' = IF gens[g].stopping = "quiet" THEN hold
               ELSE [g |-> g, stopped |-> TRUE, tied |-> gens[g].stopping = "tied"]
    /\ UNCHANGED <<up, journal, active, record, admission, lock, config, used>>

\* The bridge ends: during a pending start that ends the supervisor, else
\* another bridge is forked.
BridgeEnds(g) ==
    /\ Fault /\ Up(g) /\ gens[g].stopping = None
    /\ Turns(g, IF gens[g].pending THEN [Ended(g) EXCEPT !.farewell = gens[g].launcher]
                ELSE [gens[g] EXCEPT !.at = "up", !.traffic = FALSE,
                                     !.held = admission])
    /\ UNCHANGED <<up, journal, active, record, hold, admission, lock, config>>

Dies(g) ==
    /\ Fault /\ ~Gone(g)
    /\ Turns(g, Ended(g))
    /\ UNCHANGED <<up, journal, active, record, hold, admission, lock, config>>

\* The launcher alone: its supervisor, once it is up, stops by itself.
LauncherDies(g) ==
    /\ Fault /\ gens[g].at \in {"spawned", "up", "ready"} /\ gens[g].launcher
    /\ Turns(g, [gens[g] EXCEPT !.launcher = FALSE,
                                !.stopping = IF Up(g) /\ @ = None THEN "quiet" ELSE @])
    /\ UNCHANGED <<up, journal, active, record, hold, admission, lock, config>>

\* The operating system or the user starts the service; only the user lets go
\* of the hold, after a look at the journal and the port.
Start(byUser) ==
    /\ Len(gens) < MaxGens
    /\ byUser => ~Unfinished /\ ~ListenerOpen
    /\ gens' = Append(gens, Generation(FALSE, 0))
    /\ hold' = IF byUser THEN None ELSE hold
    /\ UNCHANGED <<up, journal, active, record, admission, lock, config, used>>

\* A stop request: the hold, then the bridge.
AsksStop(how) ==
    /\ hold' = [g |-> record, stopped |-> FALSE, tied |-> FALSE]
    /\ Turns(record, [gens[record] EXCEPT !.stopping = how])

UserStops ==
    /\ used.stops < MaxStops /\ Matches(active) /\ Answers
    /\ AsksStop("hold")
    /\ used' = [used EXCEPT !.stops = @ + 1]
    /\ UNCHANGED <<up, journal, active, record, admission, lock, config>>

UserEdits ==
    /\ config < MaxEdits /\ config' = config + 1
    /\ UNCHANGED <<gens, up, journal, active, record, hold, admission, lock, used>>

-----------------------------------------------------------------------------
(* The upgrader: what its steps have in common. *)

\* A transition of the journal, and the next step.
Transition(phase, pc) ==
    /\ journal' = [journal EXCEPT !.phase = phase]
    /\ up' = [up EXCEPT !.pc = pc]
Goes(pc) == up' = [up EXCEPT !.pc = pc] /\ UNCHANGED journal

\* It ends, and lets go of its lock.
Finished == up' = Idle /\ lock' = FALSE
Fails == Finished /\ UNCHANGED journal

\* verifyRollbackState().
Unchanged == config = journal.authority

Rolling == journal.phase \in RollbackBeforeLaunch \cup {"rollback-launching", "admitting-rollback"}

\* An error after the stop: execute() turns to the rollback, unless a shutdown
\* could not be verified; a rollback or a recovery just ends.
Errs(verified) ==
    IF up.run = "execute" /\ ~Rolling /\ verified THEN Goes("rollback") /\ UNCHANGED lock ELSE Fails

\* A shutdown to ask for, or one that must be complete.
ShutDown(version, tied, expected) ==
    [version |-> version, tied |-> tied, expected |-> expected, sent |-> FALSE]

\* The rollback has its proof.
RollsBack(proof) ==
    /\ journal' = [journal EXCEPT !.phase = "rollback-selecting", !.proof = proof]
    /\ up' = [up EXCEPT !.pc = "select", !.proof = None, !.stop = None]

World == <<gens, active, record, hold, admission, config, used>>

Begin ==
    /\ up.pc = "off" /\ ~lock /\ journal.phase = None
    /\ Matches(active) /\ Answers
    /\ lock' = TRUE
    /\ journal' = [journal EXCEPT !.phase = "prepared", !.authority = config, !.token = 1]
    /\ up' = [Idle EXCEPT !.pc = "prepared", !.run = "execute"]
    /\ UNCHANGED World

Prepared == up.pc = "prepared" /\ Transition("quiescing", "quiesce") /\ UNCHANGED <<lock, World>>

\* Bug: admission is closed in the bridge only.
ClosesTheBridge == admission' = admission
\* The supervisor writes its hold before the bridge hears of it.
ClosesAdmission == admission' = TRUE

\* The service closes admission; it may refuse, and its answer may be lost.  A
\* supervisor whose bridge is not ready has written its hold, and has no answer.
Quiesce ==
    /\ up.pc = "quiesce"
    /\ IF Matches(active) /\ Answers
         THEN /\ ClosesAdmission
              /\ Turns(record, [gens[record] EXCEPT !.held = TRUE, !.drained = TRUE])
              /\ \/ Unchanged /\ Goes("drained") /\ UNCHANGED <<lock, used>>
                 \/ Goes("resume") /\ UNCHANGED <<lock, used>>
                 \/ Fails /\ Fault
         ELSE /\ Fails /\ UNCHANGED <<gens, used>>
              /\ \/ Matches(active) /\ Up(record) /\ ClosesAdmission
                 \/ UNCHANGED admission
    /\ UNCHANGED <<active, record, hold, config>>

Drained ==
    /\ up.pc = "drained"
    /\ IF Unchanged
         THEN /\ journal' = [journal EXCEPT !.phase = "stopping"]
              /\ up' = [up EXCEPT !.pc = "stop", !.stop = ShutDown("old", TRUE, None)]
              /\ UNCHANGED lock
         ELSE Fails
    /\ UNCHANGED World

\* Admission of the service, which may begin a new bridge from now on.
OpensAdmission ==
    /\ admission' = FALSE
    /\ Turns(record, [gens[record] EXCEPT !.held = FALSE, !.pending = FALSE, !.drained = FALSE])

\* After a refusal, and in the recovery of an upgrade that has stopped nothing.
Resume ==
    /\ up.pc = "resume"
    /\ IF Matches(active) /\ Answers
         THEN \/ /\ OpensAdmission /\ Finished /\ UNCHANGED used
                 /\ journal' = [journal EXCEPT !.phase = "aborted"]
              \/ (OpensAdmission \/ UNCHANGED <<gens, admission>>) /\ Fails /\ Fault
         ELSE Fails /\ UNCHANGED <<gens, admission, used>>
    /\ UNCHANGED <<active, record, hold, config>>

-----------------------------------------------------------------------------
(* stopInstance(). *)

\* The stop has been verified: the upgrade goes on, or the rollback begins.
Verified(tied) ==
    /\ UNCHANGED lock
    /\ IF journal.phase = "stopping"
         THEN /\ journal' = [journal EXCEPT !.phase = "stopped", !.stopId = record]
              /\ up' = [up EXCEPT !.pc = IF up.run = "execute" THEN "activate" ELSE "rollback",
                                  !.stop = None]
         ELSE RollsBack([kind |-> "managed", g |-> record, tied |-> tied])

Receipt(tied) == hold # None /\ hold.stopped /\ hold.g = record /\ (tied => hold.tied)

\* A stop of the upgrade is tied to the service that has drained.
Stop ==
    LET s == up.stop IN
    /\ up.pc = "stop" /\ ~s.sent
    /\ IF Matches(s.version) /\ Receipt(s.tied)
         THEN /\ IF ListenerOpen \/ s.expected \notin {None, record} THEN Fails ELSE Verified(s.tied)
              /\ UNCHANGED <<gens, hold>>
       ELSE IF Matches(s.version) /\ Answers
               /\ (s.tied => gens[record].drained /\ gens[record].held)
         THEN /\ AsksStop(IF s.tied THEN "tied" ELSE "hold")
              /\ up' = [up EXCEPT !.stop = [s EXCEPT !.sent = TRUE], !.g = record]
              /\ UNCHANGED <<journal, lock>>
       ELSE Fails /\ UNCHANGED <<gens, hold>>
    /\ UNCHANGED <<active, record, admission, config, used>>

\* A stop that was expected to be complete was sent in vain.
StopAnswered ==
    LET s == up.stop IN
    /\ up.pc = "stop" /\ s.sent /\ Gone(up.g)
    /\ IF Receipt(s.tied) /\ up.g = record /\ ~ListenerOpen /\ s.expected = None
         THEN Verified(s.tied) ELSE Fails
    /\ UNCHANGED World

StopUnanswered ==
    /\ up.pc = "stop" /\ up.stop.sent /\ Fails /\ Fault
    /\ UNCHANGED <<gens, active, record, hold, admission, config>>

-----------------------------------------------------------------------------
(* activate(), and the second half of rollback(), which does the same. *)

Activate ==
    /\ up.pc = "activate"
    /\ IF Unchanged THEN Transition("selecting", "select") /\ UNCHANGED lock ELSE Errs(TRUE)
    /\ UNCHANGED World

\* active.json
Select ==
    /\ up.pc = "select" /\ active' = (IF Rolling THEN "old" ELSE "new")
    /\ Goes("chosen")
    /\ UNCHANGED <<gens, record, hold, admission, lock, config, used>>

Chosen ==
    /\ up.pc = "chosen"
    /\ Transition(IF Rolling THEN "rollback-selected" ELSE "selected", "intent")
    /\ UNCHANGED <<lock, World>>

\* The intent to launch is durable before anything is launched.
Intent ==
    /\ up.pc = "intent"
    /\ journal' = [journal EXCEPT !.phase = IF Rolling THEN "rollback-launching" ELSE "launching",
                                  !.token = IF Rolling THEN @ + 1 ELSE @]
    /\ up' = [up EXCEPT !.pc = "start"]
    /\ UNCHANGED <<lock, World>>

\* startInstance(): not while somebody listens; the hold goes.
Launch ==
    /\ up.pc = "start" /\ Len(gens) < MaxGens
    /\ IF ListenerOpen THEN Errs(TRUE) /\ UNCHANGED <<gens, hold>>
       ELSE /\ hold' = None
            /\ gens' = Append(gens, Generation(TRUE, journal.token))
            /\ up' = [up EXCEPT !.pc = "wait", !.g = Len(gens) + 1]
            /\ UNCHANGED <<journal, lock>>
    /\ UNCHANGED <<active, record, admission, config, used>>

\* A start that failed is stopped when its supervisor has said so.
SaidStopped(g) == gens[g].farewell

Exited(g) == Gone(g) \/ ~gens[g].launcher
StartFailed ==
    IF ~SaidStopped(up.g) THEN Errs(FALSE)
    ELSE IF up.run = "execute" /\ ~Rolling
    THEN /\ up' = [up EXCEPT !.pc = "rollback", !.proof = [kind |-> "startup", g |-> up.g, tied |-> FALSE]]
         /\ UNCHANGED <<journal, lock>>
    ELSE Fails

Started ==
    /\ up.pc = "wait"
    /\ \/ gens[up.g].at = "ready" /\ Goes("inspect") /\ UNCHANGED lock
       \/ Exited(up.g) /\ StartFailed
    /\ UNCHANGED World

\* Fifteen seconds: the launcher is told to stop, and given twelve more.
StartTimeout ==
    /\ Fault
    /\ up.pc = "wait" /\ ~Exited(up.g)
    /\ Turns(up.g, [gens[up.g] EXCEPT !.stopping = "quiet"])
    /\ Goes("cleanup")
    /\ UNCHANGED <<active, record, hold, admission, lock, config>>

CleanedUp ==
    /\ up.pc = "cleanup" /\ Exited(up.g) /\ StartFailed
    /\ UNCHANGED World

CleanupTimeout ==
    /\ Fault
    /\ up.pc = "cleanup" /\ ~Exited(up.g) /\ Errs(TRUE)
    /\ UNCHANGED <<gens, active, record, hold, admission, config>>

HeldAndQuiet == gens[record].held /\ ~gens[record].traffic

Inspect ==
    /\ up.pc = "inspect"
    /\ IF Matches(active) /\ Answers /\ HeldAndQuiet /\ Unchanged
         THEN Transition(IF Rolling THEN "admitting-rollback" ELSE "admitting", "admit") /\ UNCHANGED lock
         ELSE Errs(TRUE)
    /\ UNCHANGED World

\* The bridge compares the configuration itself.
Admit ==
    /\ up.pc = "admit"
    /\ IF Matches(active) /\ Answers /\ Unchanged
         THEN /\ OpensAdmission
              /\ \/ Goes("commit") /\ UNCHANGED <<lock, used>>
                 \/ Fails /\ Fault
         ELSE Fails /\ UNCHANGED <<gens, admission, used>>
    /\ UNCHANGED <<active, record, hold, config>>

Commit ==
    /\ up.pc = "commit"
    /\ journal' = [journal EXCEPT !.phase = IF Rolling THEN "rolled-back" ELSE "committed"]
    /\ Finished
    /\ UNCHANGED World

-----------------------------------------------------------------------------
(* rollback() and recover(). *)

StartupStopped(g) == record = g /\ ~ListenerOpen
Prior == IF journal.proof # None THEN journal.proof.g ELSE journal.stopId

\* A closed port proves nothing of a launch that has left no record.
NewGeneration == record # Prior

\* What is stopped, and how it is known.
Rollback ==
    LET proof == IF journal.phase \in RollbackBeforeLaunch THEN journal.proof ELSE up.proof
        shutsDown(m) == up' = [up EXCEPT !.pc = "stop", !.stop = m] /\ UNCHANGED <<journal, lock>>
    IN
    /\ up.pc = "rollback"
    /\ IF ~Unchanged THEN Fails
       ELSE IF journal.phase \in BeforeLaunch
       THEN shutsDown(ShutDown("old", TRUE, journal.stopId))
       ELSE IF proof # None /\ proof.kind = "managed"
       THEN shutsDown(ShutDown(gens[proof.g].version, proof.tied, proof.g))
       ELSE IF proof # None
       THEN IF StartupStopped(proof.g) THEN RollsBack(proof) /\ UNCHANGED lock ELSE Fails
       ELSE IF (IF ListenerOpen THEN Matches(active) /\ Answers /\ HeldAndQuiet ELSE NewGeneration)
       THEN shutsDown(ShutDown(active, FALSE, None))
       ELSE Fails
    /\ UNCHANGED World

\* The operator has seen that the upgrader is dead, and removes its lock.
RemoveLock ==
    /\ lock /\ up.pc = "off" /\ lock' = FALSE
    /\ UNCHANGED <<up, journal, World>>

\* Bug: an upgrade whose target may be open is rolled back, too.
RecoverableOrAdmitting == BeforeLaunch \cup RollbackBeforeLaunch \cup LaunchIntent \cup {"admitting"}
\* Bug: a rollback that was cut is not taken up again.
RecoverableOnce == BeforeLaunch \cup LaunchIntent
Recoverable == BeforeLaunch \cup RollbackBeforeLaunch \cup LaunchIntent

Recover ==
    /\ up.pc = "off" /\ ~lock
    /\ \/ journal.phase \in {"prepared", "quiescing"} /\ up' = [Idle EXCEPT !.pc = "resume", !.run = "recover"]
       \/ /\ journal.phase = "stopping"
          /\ up' = [Idle EXCEPT !.pc = "stop", !.run = "recover", !.stop = ShutDown("old", TRUE, None)]
       \/ journal.phase \in Recoverable /\ up' = [Idle EXCEPT !.pc = "rollback", !.run = "recover"]
    /\ lock' = TRUE
    /\ UNCHANGED <<journal, World>>

UpgraderDies ==
    /\ Fault
    /\ up.pc # "off" /\ up' = Idle
    /\ UNCHANGED <<gens, journal, active, record, hold, admission, lock, config>>

-----------------------------------------------------------------------------
Runs(g) == ReadsSelection(g) \/ ReadsJournal(g) \/ Spawns(g) \/ Listens(g) \/ IsReady(g) \/ Serves(g) \/ Stops(g)
Breaks(g) == BridgeEnds(g) \/ Dies(g) \/ LauncherDies(g)
Users == UserStops \/ UserEdits \/ \E byUser \in BOOLEAN : Start(byUser)
Upgrades ==
    \/ Prepared \/ Quiesce \/ Drained \/ Resume \/ Stop \/ StopAnswered
    \/ Activate \/ Select \/ Chosen \/ Intent \/ Launch \/ Started \/ CleanedUp
    \/ Inspect \/ Admit \/ Commit \/ Rollback
Suffers == StopUnanswered \/ StartTimeout \/ CleanupTimeout \/ UpgraderDies
Recovers == RemoveLock \/ Recover

Next ==
    \/ Begin \/ Upgrades \/ Suffers \/ Recovers \/ Users
    \/ \E g \in DOMAIN gens : Runs(g) \/ Breaks(g)

Spec == Init /\ [][Next]_vars

-----------------------------------------------------------------------------
(* Safety. *)

RollbackPhases == RollbackBeforeLaunch \cup {"rollback-launching", "admitting-rollback", "rolled-back"}

\* The old version never comes back over a new one that has served or may still
\* come up, whatever was lost or has died in between (rollback, recover, the
\* phase "admitting", the launch tokens, cleanupUnverified).  What the upgrade
\* has launched stays gone.  What the operating system or the user has started
\* is refused while the upgrade is not settled; but a launcher that has read the
\* selection before the rollback and the journal only after it is let in with
\* the new version (stable-launcher.mjs compares the package in between).
NoRollbackOverNew ==
    journal.phase \in RollbackPhases =>
        \A g \in DOMAIN gens : gens[g].version = "new" =>
            \/ Gone(g) /\ ~gens[g].served
            \/ journal.phase = "rolled-back" /\ gens[g].token = 0

\* From the stop to the admission nobody serves: not a slow start of the
\* operating system, nor a user's, nor the old service (admission-held, the
\* gate of the launcher). And an upgrade that is settled leaves the selection
\* that it reports, and nobody locked out.
ClosedUntilSettled ==
    /\ journal.phase \in {"stopping"} \cup BeforeLaunch \cup LaunchIntent \cup RollbackBeforeLaunch
          => \A g \in DOMAIN gens : ~Open(g)
    /\ journal.phase \in Terminal =>
          ~admission /\ active = (IF journal.phase = "committed" THEN "new" ELSE "old")
-----------------------------------------------------------------------------
(* Progress: whoever runs goes on, and the operator recovers. *)

Fairness ==
    /\ WF_vars(Upgrades) /\ WF_vars(Recovers)
    /\ \A g \in 1 .. MaxGens : WF_vars(g \in DOMAIN gens /\ Runs(g))
FairSpec == Spec /\ Fairness

\* Until something is launched, a recovery that is run often enough gets to a
\* launch of the old version or to the end, wherever the upgrade was cut, if
\* the configuration is as it was and nobody else has started a supervisor.
RecoversBeforeLaunch ==
    journal.phase \in BeforeLaunch \cup RollbackBeforeLaunch
        ~> \/ journal.phase \notin BeforeLaunch \cup RollbackBeforeLaunch
           \/ ~Unchanged \/ record # Prior
=============================================================================

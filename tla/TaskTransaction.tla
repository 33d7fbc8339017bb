---------------------------- MODULE TaskTransaction ----------------------------
(***************************************************************************)
(* The upgrade of another account's service on Windows: three processes    *)
(* that change two things.  A controller (bin/task-only-controller.mjs)    *)
(* owns the scheduled task that starts the service, a worker under the     *)
(* account (bin/account-upgrade-worker.mjs, bin/account-worker-session.mjs) *)
(* runs the upgrade of module ManagedUpgrade, and a guard between them     *)
(* (bin/windows-task-channel.mjs, TaskChannelGuard.cs) holds the channel.  *)
(*                                                                         *)
(* The task holds no automatic start while a backend is stopped: the       *)
(* controller turns its triggers off, points it at the worker, starts it,  *)
(* and obeys the worker's requests, one at a time.  The upgrade itself is  *)
(* reduced to what its journal and its backend are between the hooks that  *)
(* the worker gives it.  An operation of a managed instance is followed by *)
(* its recoveries, each with a controller, a channel and a worker anew.    *)
(***************************************************************************)
EXTENDS Integers, Sequences

CONSTANTS
    Nobody,          \* stands for no operation
    MaxOperations,   \* bound: the upgrade and its recoveries
    MaxTaskFaults,   \* bound: deaths, deadlines, and calls that fail
    MaxTaskChanges   \* bound: changes of the task by others

VARIABLES
    task,       \* the registration: its action, its triggers, and who has changed it
    journals,   \* controller-journal.json of each operation
    ctl,        \* the controller of the last operation
    chan,       \* its channel: "up", or "down" for good; connected: to its worker
    worker,     \* the worker that runs, if any
    call,       \* its request, or the answer to it
    rt,         \* the phase of the upgrade
    backend,    \* "old" or "new" (serving), "old-held", "new-held", or "none"
    ref,        \* controllerOperation of instance.json
    troubles    \* how many faults and changes there were

taskVars == <<task, journals, ctl, chan, worker, call, rt, backend, ref, troubles>>

Settled == {"none", "committed", "rolled-back", "aborted"}
Operation == Len(journals)
J == journals[Operation]

NoWorker == [at |-> "gone", op |-> 0, pc |-> "none", failed |-> FALSE, logical |-> Nobody]
NoController == [at |-> "off", act |-> "none", phase |-> "none"]
NoCall == [at |-> "none", verb |-> "none", ok |-> FALSE]

TaskInit ==
    /\ task = [action |-> "original", of |-> 0, on |-> TRUE, rev |-> 0]
    /\ journals = <<>> /\ ctl = NoController /\ worker = NoWorker /\ call = NoCall
    /\ chan = [at |-> "down", connected |-> FALSE]
    /\ rt = "none" /\ backend = "old" /\ ref = Nobody
    /\ troubles = [faults |-> 0, changes |-> 0]

Trouble == troubles.faults < MaxTaskFaults /\ troubles' = [troubles EXCEPT !.faults = @ + 1]

\* Somebody else changes the task.
TaskChanged ==
    /\ troubles.changes < MaxTaskChanges
    /\ troubles' = [troubles EXCEPT !.changes = @ + 1]
    /\ \E on \in BOOLEAN : task' = [task EXCEPT !.on = on, !.rev = @ + 1]
    /\ UNCHANGED <<journals, ctl, chan, worker, call, rt, backend, ref>>

-----------------------------------------------------------------------------
(* The controller. *)

\* Its worker is there and the channel is up.
Linked == worker.at = "up" /\ worker.op = Operation /\ chan.at = "up" /\ chan.connected

\* verifyTask(): authorize() needs the channel, and its peer once there is one.
TaskVerified == chan.at = "up" /\ (chan.connected => Linked) /\ task = J.current

Saved(phase) == journals' = [journals EXCEPT ![Operation].phase = phase]

\* Bug: what a recovery restores is what it has found.
MadeAsFound(act) ==
    CASE act = "bootstrap" -> [task EXCEPT !.action = "worker", !.of = Operation, !.on = FALSE]
      [] act = "hold"      -> [task EXCEPT !.on = FALSE]
      [] act = "repoint"   -> [task EXCEPT !.action = "managed", !.of = 0]
      [] act = "release"   -> [task EXCEPT !.on = J.original.on]
      [] act = "restore"   -> J.initial
      [] act = "initial"   -> J.initial

\* What an action makes of the task (account-task.ps1).
Made(act) ==
    CASE act = "bootstrap" -> [task EXCEPT !.action = "worker", !.of = Operation, !.on = FALSE]
      [] act = "hold"      -> [task EXCEPT !.on = FALSE]
      [] act = "repoint"   -> [task EXCEPT !.action = "managed", !.of = 0]
      [] act = "release"   -> [task EXCEPT !.on = J.original.on]
      [] act = "restore"   -> J.original
      [] act = "initial"   -> J.initial

\* Bug: the task changes first.
IntendsLate(act, phase) ==
    /\ UNCHANGED journals
    /\ ctl' = [at |-> "acting", act |-> act, phase |-> phase]

\* mutate() and restoreInitial(), after verifyTask(): the intent is durable
\* before the task changes.
Intends(act, phase) ==
    /\ Saved("intent")
    /\ ctl' = [at |-> "acting", act |-> act, phase |-> phase]

\* It ends, and closes its channel.
Leaves == ctl' = NoController /\ chan' = [chan EXCEPT !.at = "down"]

\* The catch of run(): before HELLO the task is restored, if that can be
\* verified; any other open phase becomes uncertain.
Catches ==
    IF J.phase = "bootstrap" /\ TaskVerified
      THEN Intends("initial", "restored-bootstrap") /\ UNCHANGED chan
      ELSE /\ Saved(IF J.phase \in {"completed", "failed-restored", "restored", "cancelled"}
                    THEN J.phase ELSE "uncertain")
           /\ Leaves

\* runAccountController(): the upgrade, or a recovery of what is unfinished,
\* which needs the task as its last operation has left it.
BeginOperation ==
    /\ ctl.at = "off" /\ Operation < MaxOperations
    /\ IF rt = "none" THEN task.action = "original"
       ELSE rt \notin Settled /\ task = journals[ref].current
    /\ journals' = Append(journals, [phase |-> "intent", current |-> task, initial |-> task,
           original |-> IF rt = "none" THEN task ELSE journals[ref].original,
           recover |-> rt # "none"])
    /\ chan' = [at |-> "up", connected |-> FALSE]
    /\ ctl' = [at |-> "acting", act |-> "bootstrap", phase |-> "bootstrap"]
    /\ UNCHANGED <<task, worker, call, rt, backend, ref, troubles>>

\* The answer reaches a worker that still waits for it.
Reply(ok) == call' = IF Linked /\ call.at = "sent" THEN [call EXCEPT !.at = "answered", !.ok = ok] ELSE call

\* The task is changed and read again, and the journal says so.  A step of the
\* worker is answered; a restoration may be the end.
Acted ==
    /\ journals' = [journals EXCEPT ![Operation].current = Made(ctl.act),
                                    ![Operation].phase = ctl.phase]
    /\ CASE ctl.phase = "bootstrap" ->
              ctl' = [NoController EXCEPT !.at = "launching"] /\ UNCHANGED <<chan, call>>
         [] ctl.phase = "restored-bootstrap" -> Leaves /\ UNCHANGED call
         [] ctl.phase \in {"cancelled", "failed-restored"} ->
              Leaves /\ Reply(ctl.phase = "failed-restored")
         [] OTHER -> ctl' = [NoController EXCEPT !.at = "listening"] /\ Reply(TRUE) /\ UNCHANGED chan

\* The action fails if the task is not as expected.
Act ==
    /\ ctl.at = "acting"
    /\ IF task = J.current
         THEN task' = Made(ctl.act) /\ Acted
         ELSE Catches /\ UNCHANGED <<task, call>>
    /\ UNCHANGED <<worker, rt, backend, ref, troubles>>

\* What becomes of the task if the action fails, or is not heard of.
MayBecome == {task} \cup (IF ctl.at = "acting" /\ task = J.current THEN {Made(ctl.act)} ELSE {})

ActFails ==
    /\ Trouble /\ ctl.at = "acting"
    /\ task' \in MayBecome
    /\ Catches
    /\ UNCHANGED <<worker, call, rt, backend, ref>>

\* RunEx: the task starts the worker, unless one still runs, or fails to.
Launched ==
    /\ ctl.at = "launching"
    /\ IF ~TaskVerified THEN Catches /\ UNCHANGED <<worker, troubles>>
       ELSE \/ /\ ctl' = [NoController EXCEPT !.at = "awaiting"]
               /\ worker' = IF worker.at # "gone" THEN worker
                            ELSE [NoWorker EXCEPT !.at = "started", !.op = Operation, !.pc = "hello"]
               /\ UNCHANGED <<journals, chan, troubles>>
            \/ Catches /\ Trouble /\ UNCHANGED worker
    /\ UNCHANGED <<task, call, rt, backend, ref>>

\* A worker that the guard accepts.
AwaitWorker ==
    /\ ctl.at = "awaiting" /\ chan.at = "up"
    /\ worker.at = "started" /\ worker.op = Operation
    /\ worker' = [worker EXCEPT !.at = "up"]
    /\ chan' = [chan EXCEPT !.connected = TRUE]
    /\ ctl' = [NoController EXCEPT !.at = "listening"]
    /\ UNCHANGED <<task, journals, call, rt, backend, ref, troubles>>

\* The guard ends: no worker has come in time, its peer has gone, or a deadline,
\* a session or a process of its own has.
GuardEnds ==
    /\ chan.at = "up" /\ ctl.at # "off"
    /\ chan' = [chan EXCEPT !.at = "down"]
    /\ \/ chan.connected /\ ~Linked /\ UNCHANGED troubles
       \/ ctl.at = "awaiting" /\ worker.op # Operation /\ UNCHANGED troubles
       \/ Trouble
    /\ UNCHANGED <<task, journals, ctl, worker, call, rt, backend, ref>>

\* A wait that the end of the channel ends.
ChannelFails ==
    /\ ctl.at \in {"awaiting", "listening"} /\ chan.at = "down"
    /\ Catches
    /\ UNCHANGED <<task, worker, call, rt, backend, ref, troubles>>

ControllerDies ==
    /\ Trouble /\ ctl.at # "off"
    /\ Leaves
    /\ task' \in MayBecome
    /\ UNCHANGED <<journals, worker, call, rt, backend, ref>>

Listening == ctl.at = "listening" /\ Linked /\ call.at = "sent"

\* A request that changes the journal only, if the task is as it was.
Accepts(phase, ok) ==
    /\ Saved(phase) /\ Reply(ok)
    /\ ctl' = [NoController EXCEPT !.at = "listening"]
    /\ UNCHANGED chan

\* A request that ends the operation.
Concludes(phase) == Saved(phase) /\ Reply(TRUE) /\ Leaves

\* accept().
Accept ==
    /\ Listening
    /\ LET verb == call.verb IN
       CASE verb = "PLAN" /\ J.phase = "authenticated" ->
              ctl' = [NoController EXCEPT !.at = "asking"] /\ UNCHANGED <<journals, call, chan>>
         [] verb = "FAILED" /\ J.phase \notin {"authenticated", "approved"} ->
              Concludes(IF J.phase = "restored" THEN "failed-restored" ELSE "uncertain")
         [] verb = "FAILED" /\ J.phase \in {"authenticated", "approved"} /\ TaskVerified ->
              Intends("initial", "failed-restored") /\ UNCHANGED <<call, chan>>
         [] verb = "HELLO" /\ J.phase = "bootstrap" /\ TaskVerified -> Accepts("authenticated", TRUE)
         [] verb = "INSPECT" /\ TaskVerified -> Accepts(J.phase, TRUE)
         [] verb = "HOLD" /\ J.phase \in {"approved", "held"} /\ TaskVerified -> Accepts("held", TRUE)
         [] verb = "HOLD" /\ J.phase \in {"selected", "released"} /\ TaskVerified ->
              Intends("hold", "held") /\ UNCHANGED <<call, chan>>
         [] verb = "REPOINT" /\ J.phase = "held" /\ TaskVerified ->
              Intends("repoint", "selected") /\ UNCHANGED <<call, chan>>
         [] verb = "ENABLE" /\ J.phase = "selected" /\ TaskVerified ->
              Intends("release", "released") /\ UNCHANGED <<call, chan>>
         [] verb = "RESTORE" /\ TaskVerified
                /\ J.phase \in {"authenticated", "approved", "held", "selected", "released"} ->
              Intends("restore", "restored") /\ UNCHANGED <<call, chan>>
         [] verb = "DONE" /\ J.phase \in {"released", "restored"} /\ TaskVerified -> Concludes("completed")
         [] OTHER -> Catches /\ UNCHANGED call
    /\ UNCHANGED <<task, worker, rt, backend, ref, troubles>>

\* The operator answers the prompt.
Confirm(approved) ==
    /\ ctl.at = "asking"
    /\ IF ~TaskVerified THEN Catches /\ UNCHANGED call
       ELSE IF approved THEN Accepts("approved", TRUE)
       ELSE Intends("initial", "cancelled") /\ UNCHANGED <<call, chan>>
    /\ UNCHANGED <<task, worker, rt, backend, ref, troubles>>

-----------------------------------------------------------------------------
(* The worker: the requests of the session. *)

Recovery == journals[worker.op].recover

\* What it asks at each place, and where it goes when it is told yes.
Verb == [hello |-> "HELLO", plan |-> "PLAN", hold |-> "HOLD", beforeStop |-> "INSPECT",
         repoint |-> "REPOINT", enable |-> "ENABLE", refused |-> "RESTORE",
         beforeResume |-> "INSPECT", beforeRollback |-> "INSPECT", beforeAdmission |-> "RESTORE",
         settle |-> "RESTORE", done |-> "DONE", failed |-> "FAILED"]
Then == [hello |-> "plan", plan |-> "hold", hold |-> "begin", beforeStop |-> "stop",
         repoint |-> "enable", enable |-> "admit", refused |-> "abort",
         beforeResume |-> "resume", beforeRollback |-> "stopTarget", beforeAdmission |-> "admit",
         settle |-> "done", done |-> "end", failed |-> "end"]

At(pc) == worker.at = "up" /\ worker.pc = pc /\ call.at = "none"

\* An error: execute() rolls back what it has stopped; else FAILED is sent,
\* unless the session has failed.
Throws(w) ==
    worker' = IF ~Recovery /\ w.pc \notin {"beforeRollback", "stopTarget"} /\ rt \in {"stopped", "launched"}
                THEN [w EXCEPT !.pc = "beforeRollback"]
              ELSE IF w.failed \/ w.pc = "failed" THEN NoWorker
              ELSE [w EXCEPT !.pc = "failed"]

\* One failure ends the session: later calls are refused at once.
SessionHolds == Linked /\ ~worker.failed

\* hold() first makes the operation the one that a recovery reads.
Claims(op) == IF worker.pc = "hold" THEN op ELSE ref

\* What the upgrade's journal says once hold() has failed: execute() notes the
\* error under the phase that it was about to write.
Noted == IF worker.pc = "hold" /\ ~Recovery THEN "prepared" ELSE rt

\* The task is as it was before the operation, as far as the worker has heard.
Restored == worker.logical = journals[worker.op].original

\* A recovery reads first what there is to recover.
FoundSettled == worker.pc = "plan" /\ Recovery /\ rt \in Settled

Call ==
    /\ worker.at = "up" /\ call.at = "none" /\ worker.pc \in DOMAIN Verb
    /\ worker.pc \in {"refused", "settle"} => ~Restored
    /\ ~FoundSettled
    /\ ref' = Claims(worker.op)
    /\ IF SessionHolds
         THEN call' = [at |-> "sent", verb |-> Verb[worker.pc], ok |-> FALSE] /\ UNCHANGED <<worker, rt>>
         ELSE Throws([worker EXCEPT !.failed = TRUE]) /\ rt' = Noted /\ UNCHANGED call
    /\ UNCHANGED <<task, journals, ctl, chan, backend, troubles>>

NothingToRecover ==
    /\ At("plan") /\ FoundSettled /\ Throws(worker)
    /\ UNCHANGED <<task, journals, ctl, chan, call, rt, backend, ref, troubles>>

\* What it knows of the task after an answer.
Heard ==
    CASE call.verb = "HELLO" -> journals[worker.op].original
      [] call.verb \in {"HOLD", "REPOINT", "ENABLE", "RESTORE"} -> journals[worker.op].current
      [] OTHER -> worker.logical

\* The answer; "no" is the answer to a plan that was declined.
Answered ==
    /\ worker.at = "up" /\ call.at = "answered" /\ call' = NoCall
    /\ worker' = IF ~call.ok \/ Then[worker.pc] = "end" THEN NoWorker
                 ELSE [worker EXCEPT !.pc = Then[worker.pc], !.logical = Heard]
    /\ UNCHANGED <<task, journals, ctl, chan, rt, backend, ref, troubles>>

\* No answer: the channel has ended, or it is late.
Unanswered ==
    /\ worker.at = "up" /\ call.at # "none"
    /\ \/ ~Linked /\ UNCHANGED <<chan, troubles>>
       \/ Linked /\ Trouble /\ chan' = [chan EXCEPT !.at = "down"]
    /\ call' = NoCall /\ Throws([worker EXCEPT !.failed = TRUE]) /\ rt' = Noted
    /\ UNCHANGED <<task, journals, ctl, backend, ref>>

WorkerDies ==
    /\ Trouble /\ worker.at # "gone"
    /\ worker' = NoWorker /\ call' = NoCall
    /\ UNCHANGED <<task, journals, ctl, chan, rt, backend, ref>>

\* A worker that cannot reach its guard any more.
WorkerGivesUp ==
    /\ worker.at = "started" /\ (worker.op # Operation \/ chan.at = "down")
    /\ worker' = NoWorker
    /\ UNCHANGED <<task, journals, ctl, chan, call, rt, backend, ref, troubles>>

-----------------------------------------------------------------------------
(* The worker: the upgrade between its requests. *)

\* A step of it: its journal, its backend, and what it does next.
Works(phase, runs, pc) ==
    /\ rt' = phase /\ backend' = runs
    /\ worker' = IF pc = "end" THEN NoWorker ELSE [worker EXCEPT !.pc = pc]
    /\ UNCHANGED <<task, journals, ctl, chan, call, ref, troubles>>

\* One of its calls fails, or leaves its outcome open.
StepFails ==
    /\ Trouble /\ Throws(worker)
    /\ UNCHANGED <<task, journals, ctl, chan, call, rt, ref>>

\* prepared; or what a recovery finds.
Prepare ==
    /\ At("begin")
    /\ IF ~Recovery THEN Works("prepared", backend, "quiesce")
       ELSE CASE rt = "prepared" -> Works(rt, backend, "beforeResume")
              [] rt = "stopping" -> Works(rt, backend, "beforeStop")
              [] rt \in {"stopped", "launched", "rollback"} -> Works(rt, backend, "beforeRollback")
              [] OTHER -> Works(rt, backend, "failed")

\* quiesce, and a refusal that resumes the service.
Drain ==
    /\ At("quiesce")
    /\ \/ Works(rt, backend, "beforeStop")
       \/ Works(rt, backend, "refused")
       \/ StepFails /\ UNCHANGED backend

\* A refused upgrade settles after its task; execute() reports it as an error.
Abort == At("abort") /\ Works("aborted", backend, "failed")

ResumeService ==
    /\ At("resume")
    /\ \/ Works("aborted", backend, "settle")
       \/ StepFails /\ UNCHANGED backend

StopService ==
    /\ At("stop")
    /\ IF rt # "stopping" THEN Works("stopping", backend, "stop")
       ELSE \/ Works("stopped", "none", IF Recovery THEN "beforeRollback" ELSE "start")
            \/ StepFails /\ backend' \in {backend, "none"}

\* The new version begins held; or the start fails, and is rolled back if what
\* it has left is known.
StartTarget ==
    /\ At("start")
    /\ \/ Works("launched", "new-held", "repoint")
       \/ StepFails /\ UNCHANGED backend
       \/ Trouble /\ backend' \in {"none", "new-held"} /\ worker' = [worker EXCEPT !.pc = "failed"]
          /\ UNCHANGED <<task, journals, ctl, chan, call, rt, ref>>

\* The rollback stops what may have begun, and starts the old version held.
StopTarget ==
    /\ At("stopTarget")
    /\ \/ Works("rollback", "none", "restart")
       \/ StepFails /\ UNCHANGED backend

RestartOld ==
    /\ At("restart")
    /\ \/ Works("rollback", "old-held", "beforeAdmission")
       \/ StepFails /\ UNCHANGED backend

\* The intent to admit, and the admission; a lost answer leaves it open.
AdmitService ==
    /\ At("admit")
    /\ CASE rt = "launched" -> Works("admitting", backend, "admit")
         [] rt = "rollback" -> Works("admitting-rollback", backend, "admit")
         [] rt = "admitting" -> Works("committed", "new", "done") \/ (StepFails /\ backend' \in {backend, "new"})
         [] rt = "admitting-rollback" ->
              \/ Works("rolled-back", "old", IF Recovery THEN "settle" ELSE "failed")
              \/ StepFails /\ backend' \in {backend, "old"}

\* A recovery restores the task only if its rollback has not.
Settle == At("settle") /\ Restored /\ Works(rt, backend, "done")

-----------------------------------------------------------------------------
Controls == BeginOperation \/ Act \/ ActFails \/ Launched \/ AwaitWorker \/ ChannelFails \/ Accept
            \/ (\E approved \in BOOLEAN : Confirm(approved))
Session == Call \/ NothingToRecover \/ Answered \/ Unanswered
Upgrade == Prepare \/ Drain \/ Abort \/ ResumeService \/ StopService \/ StartTarget \/ StopTarget
           \/ RestartOld \/ AdmitService \/ Settle
Endings == GuardEnds \/ ControllerDies \/ WorkerDies \/ WorkerGivesUp

TaskNext == TaskChanged \/ Controls \/ Session \/ Upgrade \/ Endings

TaskSpec == TaskInit /\ [][TaskNext]_taskVars
-----------------------------------------------------------------------------
(* What the operator relies on. *)

Unsettled == {"intent", "uncertain"}

\* What the journal of an operation says of the task is true, wherever its
\* processes die or its calls are lost: an outcome that may differ is an intent
\* or is called uncertain (mutate, restoreInitial, run's catch).
TaskAsRecorded ==
    Operation # 0 /\ J.phase \notin Unsettled /\ troubles.changes = 0 => task = J.current

\* No backend is ever stopped while the task could start one by itself: neither
\* after a lost answer to the release of the triggers nor in a recovery
\* (beforeStop, the failure of a session, bootstrap).
StopsHeld ==
    backend # "none" /\ backend' = "none" => ~task.on \/ troubles.changes > 0

\* An upgrade settles with the task that starts what now serves, triggers and
\* all: when it is committed, rolled back, or refused before anything stopped.
\* Only a recovery that resumes the service settles first and restores the task
\* after that.  And what an operation says at its end agrees with the task and
\* with the upgrade (beforeAdmission, afterRefusal, DONE and FAILED of accept).
EndsAsSaid ==
    troubles.changes = 0 =>
        /\ rt' # rt /\ worker.op = Operation =>
             /\ rt' = "committed" => task.on /\ task.action = "managed"
             /\ rt' = "rolled-back" \/ (rt' = "aborted" /\ ~J.recover)
                  => task.on /\ task.action = "original"
        /\ journals' # journals =>
             /\ J'.phase = "completed" => rt \in Settled /\ task.on
             /\ J'.phase \in {"cancelled", "restored-bootstrap"} => task' = J'.initial
             /\ J'.phase = "failed-restored" => (rt = "committed" => J.recover) /\ task' \in {J'.initial, J'.original}

\* The task through an upgrade and its recoveries, whoever dies and whatever is
\* lost: it is as the journals say, it starts nothing while a backend is stopped,
\* and what settles or ends has the task that EndsAsSaid gives it.
TaskKept == [][TaskAsRecorded' /\ StopsHeld /\ EndsAsSaid]_taskVars

\* A wait for a worker that ends without one gives the task back.
NoWorkerNoHold ==
    [][ctl.at = "awaiting" /\ journals' # journals => ctl'.act = "initial"]_taskVars
=============================================================================

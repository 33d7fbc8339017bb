---------------------------- MODULE ProcessLifetime ----------------------------
(***************************************************************************)
(* How Windows is made to end a bridge together with everything that it    *)
(* has started (bin/windows-process-lifetime.mjs and                       *)
(* bin/windows-lifetime/src/ProcessLifetimeHelper.cs), and how the         *)
(* supervisor comes to know that nothing is left.  What Supervisor calls   *)
(* the proof of a bridge is the verdict of this module.                    *)
(*                                                                         *)
(* The bridge starts a helper, the owner, that puts it into a job of which *)
(* the owner has the only handle.  Children are born into the job of their *)
(* parent.  The owner waits for the end of the bridge, ends the job, sees  *)
(* it empty, sets an event and exits.  A second helper, the observer,      *)
(* which the supervisor starts, waits for the owner.  Any of the processes *)
(* may be killed at any moment, with any exit code.                        *)
(*                                                                         *)
(* A process that is terminated takes a while to be gone.  Hashes, times   *)
(* and the parsing of lines are left out.                                  *)
(***************************************************************************)
CONSTANT Kids   \* what the bridge may start, directly or not

ASSUME LifetimeAssumption == "parent" \notin Kids

VARIABLES
    fate,     \* of the bridge and of its children
    members,  \* the processes of the job
    job,      \* "none", "open" or "closed"
    owner,    \* the helper "watch-parent": its stage and exit code
    event,    \* the drain marker: "none", "clear" or "set"
    lines,    \* what owner and observer have printed and nobody has read
    boot,     \* how far the bridge is
    observer, \* the helper "observe-owner": its stage, what it has opened, exit code
    caller    \* the supervisor: its wait, what it has read, and what it has told the bridge

lifetimeVars == <<fate, members, job, owner, event, lines, boot, observer, caller>>

Parent == "parent"
Contained == Kids \cup {Parent}
Up(p) == fate[p] = "alive"
Left(p) == fate[p] \in {"alive", "dying"}

\* The stages of the two helpers in which they run.
OwnerStages == {"parent", "marker", "job", "assign", "ready", "wait", "drain", "count", "mark"}
ObserverStages == {"caller", "owner", "marker", "ready", "wait", "exit", "verify"}
OwnerRuns == owner.at \in OwnerStages
Observes == observer.at \in ObserverStages

LifetimeInit ==
    /\ fate = [p \in Contained |-> IF p = Parent THEN "alive" ELSE "unborn"]
    /\ members = {} /\ job = "none"
    /\ owner = [at |-> "unborn", code |-> 0] /\ event = "none" /\ lines = {}
    \* managed: its supervisor wants to observe the owner first
    /\ \E managed \in BOOLEAN : boot = [at |-> "new", managed |-> managed]
    /\ observer = [at |-> "unborn", holds |-> {}, code |-> 0]
    /\ caller = [at |-> "idle", heard |-> {}, told |-> FALSE]

-----------------------------------------------------------------------------
(* Windows. *)

\* Bug: a job without the limit KILL_ON_JOB_CLOSE.
CloseOnly == {}
\* The last handle of the job is closed: its limit kills what is in it.
KillOnClose == {p \in members : Up(p)}

Terminated(ps) == [p \in Contained |-> IF p \in ps THEN "dying" ELSE fate[p]]

\* The owner ends, by itself or not, and its handles are closed.  The name of
\* the event lives as long as somebody holds it.
OwnerEnds(code) ==
    /\ owner' = [at |-> "gone", code |-> code]
    /\ IF job = "open" THEN job' = "closed" /\ fate' = Terminated(KillOnClose)
       ELSE UNCHANGED <<job, fate>>
    /\ event' = IF "event" \in observer.holds THEN event ELSE "none"

ObserverEnds(code) ==
    /\ observer' = [at |-> "gone", holds |-> {}, code |-> code]
    /\ event' = IF OwnerRuns THEN event ELSE "none"

\* A process of the bridge ends: by itself, by a crash, or as it was told.
Dies(p) ==
    /\ Left(p)
    /\ fate' = [fate EXCEPT ![p] = "gone"]
    /\ UNCHANGED <<members, job, owner, event, lines, boot, observer, caller>>

OwnerKilled ==
    /\ OwnerRuns /\ \E code \in {0, 1} : OwnerEnds(code)
    /\ UNCHANGED <<members, lines, boot, observer, caller>>

ObserverKilled ==
    /\ Observes /\ \E code \in {0, 1} : ObserverEnds(code)
    /\ UNCHANGED <<fate, members, job, owner, lines, boot, caller>>

CallerDies ==
    /\ caller.at # "gone" /\ caller' = [caller EXCEPT !.at = "gone"]
    /\ UNCHANGED <<fate, members, job, owner, event, lines, boot, observer>>

-----------------------------------------------------------------------------
(* The owner: Run(). *)

OwnerAt(stage) == owner.at = stage
Reaches(stage) == owner' = [owner EXCEPT !.at = stage]
Rest == UNCHANGED <<members, lines, boot, observer, caller>>

\* A call of Windows fails, or takes longer than five seconds ("drain").
OwnerFails == OwnerRuns /\ OwnerEnds(1) /\ Rest

\* The parent is opened, is no older than the owner and has not ended: its
\* number is that of the boot.
HoldParent ==
    /\ OwnerAt("parent")
    /\ IF Up(Parent) THEN Reaches("marker") /\ UNCHANGED <<fate, job, event>>
       ELSE OwnerEnds(1)
    /\ Rest

CreateMarker ==
    /\ OwnerAt("marker") /\ Reaches("job") /\ event' = "clear"
    /\ UNCHANGED <<fate, job>> /\ Rest

CreateJob ==
    /\ OwnerAt("job") /\ Reaches("assign") /\ job' = "open"
    /\ UNCHANGED <<fate, event>> /\ Rest

AssignParent ==
    /\ OwnerAt("assign")
    /\ IF Up(Parent) THEN /\ Reaches("ready") /\ members' = members \cup {Parent}
                          /\ UNCHANGED <<fate, job, event>>
       ELSE OwnerEnds(1) /\ UNCHANGED members
    /\ UNCHANGED <<lines, boot, observer, caller>>

SayReady ==
    /\ OwnerAt("ready") /\ Reaches("wait") /\ lines' = lines \cup {"ready"}
    /\ UNCHANGED <<fate, members, job, event, boot, observer, caller>>

\* The handle of the parent is signalled.
ParentEnded ==
    /\ OwnerAt("wait") /\ fate[Parent] = "gone" /\ Reaches("drain")
    /\ UNCHANGED <<fate, job, event>> /\ Rest

EndJob ==
    /\ OwnerAt("drain") /\ Reaches("count")
    /\ fate' = Terminated({p \in members : Up(p)})
    /\ UNCHANGED <<job, event>> /\ Rest

\* The accounting of the job counts those that are not yet gone.
Empty == \A p \in members : ~Left(p)

CountMembers ==
    /\ OwnerAt("count") /\ Empty /\ Reaches("mark")
    /\ UNCHANGED <<fate, job, event>> /\ Rest

MarkDrained ==
    /\ OwnerAt("mark")
    /\ owner' = [at |-> "gone", code |-> 0]
    /\ job' = "closed"
    /\ event' = IF "event" \in observer.holds THEN "set" ELSE "none"
    /\ UNCHANGED fate /\ Rest

-----------------------------------------------------------------------------
(* The bridge: start(), and what bin/mcp-bridge.mjs awaits before it works. *)

BridgeIs(stage) == Up(Parent) /\ boot.at = stage
BridgeGoes(stage) == boot' = [boot EXCEPT !.at = stage]
AtWork == Up(Parent) /\ boot.at = "working"

StartOwner ==
    /\ BridgeIs("new") /\ BridgeGoes("starting")
    /\ owner' = [owner EXCEPT !.at = "parent"]
    /\ UNCHANGED <<fate, members, job, event, lines, observer, caller>>

\* The line of the owner: the bridge tells its supervisor, or works at once.
HearReady ==
    /\ BridgeIs("starting") /\ "ready" \in lines
    /\ lines' = lines \ {"ready"}
    /\ BridgeGoes(IF boot.managed THEN "telling" ELSE "working")
    /\ UNCHANGED <<fate, members, job, owner, event, observer, caller>>

\* Five seconds have passed, or the owner is gone: the owner is killed, and the
\* bridge throws before it has read its configuration.
StartFails ==
    /\ BridgeIs("starting") /\ BridgeGoes("failing")
    /\ IF OwnerRuns THEN OwnerEnds(1) ELSE UNCHANGED <<fate, job, owner, event>>
    /\ UNCHANGED <<members, lines, observer, caller>>

\* The word of the supervisor that it observes the owner.
HearObserved ==
    /\ BridgeIs("telling") /\ caller.told /\ BridgeGoes("working")
    /\ UNCHANGED <<fate, members, job, owner, event, lines, observer, caller>>

\* A child of p, which is born into the job of p.
StartKid(p, k) ==
    /\ Up(p) /\ (p = Parent => AtWork) /\ fate[k] = "unborn"
    /\ fate' = [fate EXCEPT ![k] = "alive"]
    /\ members' = IF p \in members THEN members \cup {k} ELSE members
    /\ UNCHANGED <<job, owner, event, lines, boot, observer, caller>>

-----------------------------------------------------------------------------
(* The observer: ObserveOwner(). *)

ObserverAt(stage) == observer.at = stage
Continues(stage, holds) == observer' = [observer EXCEPT !.at = stage, !.holds = @ \cup holds]
Other == UNCHANGED <<fate, members, job, owner, lines, boot, caller>>
Refuse == ObserverEnds(1)

ObserverFails == Observes /\ Refuse /\ Other

HoldCaller ==
    /\ ObserverAt("caller")
    /\ IF caller.at # "gone" THEN Continues("owner", {}) /\ UNCHANGED event ELSE Refuse
    /\ Other

\* By its number: the owner, even if it has ended and somebody still holds it; or
\* nobody, or another that has got the number and was created at another time.
HoldOwner ==
    /\ ObserverAt("owner")
    /\ \/ Continues("marker", {"owner"}) /\ UNCHANGED event
       \/ ~OwnerRuns /\ Refuse
    /\ Other

HoldMarker ==
    /\ ObserverAt("marker")
    /\ IF event # "none" THEN Continues("ready", {"event"}) /\ UNCHANGED event ELSE Refuse
    /\ Other

SayObserving ==
    /\ ObserverAt("ready") /\ Continues("wait", {}) /\ lines' = lines \cup {"observing"}
    /\ UNCHANGED <<fate, members, job, owner, event, boot, caller>>

\* The owner has ended, or the caller has.
Awake ==
    /\ ObserverAt("wait")
    /\ \/ ~OwnerRuns /\ Continues("exit", {}) /\ UNCHANGED event
       \/ caller.at = "gone" /\ Refuse
    /\ Other

ReadExit ==
    /\ ObserverAt("exit")
    /\ IF owner.code = 0 THEN Continues("verify", {}) /\ UNCHANGED event ELSE Refuse
    /\ Other

\* Bug: the exit code is taken for proof.
VerifiedByCode == TRUE
\* Exit code 0 is not proof: anybody may have killed the owner with it.
Verified == event = "set"

VerifyDrain ==
    /\ ObserverAt("verify")
    /\ IF Verified THEN ObserverEnds(0) /\ lines' = lines \cup {"drained"}
       ELSE Refuse /\ UNCHANGED lines
    /\ UNCHANGED <<fate, members, job, owner, boot, caller>>

-----------------------------------------------------------------------------
(* The supervisor: observe(). *)

CallerIs(stages) == caller.at \in stages
Calls == UNCHANGED <<fate, members, job, owner, event, boot>>

\* "upgrade-lifetime", or "upgrade-ready" of a bridge that has not said it.
StartObserver ==
    /\ CallerIs({"idle"}) /\ boot.at \in {"telling", "working"}
    /\ caller' = [caller EXCEPT !.at = "arming"]
    /\ observer' = [observer EXCEPT !.at = "caller"]
    /\ Calls /\ UNCHANGED lines

HearLine(line) ==
    /\ CallerIs({"arming", "armed"}) /\ line \in lines
    /\ line = "drained" => "observing" \notin lines
    /\ lines' = lines \ {line}
    /\ caller' = IF line = "observing"
                 THEN [caller EXCEPT !.at = "armed", !.heard = @ \cup {line}, !.told = TRUE]
                 ELSE [caller EXCEPT !.heard = @ \cup {line}]
    /\ Calls /\ UNCHANGED observer

\* 'close' of the observer, after all that it has printed.
ObserverCloses ==
    /\ CallerIs({"arming", "armed"}) /\ observer.at = "gone"
    /\ lines \cap {"observing", "drained"} = {}
    /\ caller' = [caller EXCEPT !.at = IF observer.code = 0 /\ caller.heard = {"observing", "drained"}
                                       THEN "verified" ELSE "failed"]
    /\ Calls /\ UNCHANGED <<lines, observer>>

\* Five seconds without a line, or an error of its pipes: the observer is killed.
ObserveFails ==
    /\ CallerIs({"arming", "armed"})
    /\ caller' = [caller EXCEPT !.at = "failed"]
    /\ IF Observes THEN ObserverEnds(1) ELSE UNCHANGED <<observer, event>>
    /\ UNCHANGED <<fate, members, job, owner, boot, lines>>

-----------------------------------------------------------------------------
OwnerSteps ==
    \/ HoldParent \/ CreateMarker \/ CreateJob \/ AssignParent \/ SayReady
    \/ ParentEnded \/ EndJob \/ CountMembers \/ MarkDrained

ObserverSteps ==
    \/ HoldCaller \/ HoldOwner \/ HoldMarker \/ SayObserving \/ Awake \/ ReadExit \/ VerifyDrain

BridgeSteps == StartOwner \/ HearReady \/ StartFails \/ HearObserved

CallerSteps ==
    \/ StartObserver \/ ObserverCloses \/ ObserveFails
    \/ \E line \in {"observing", "drained"} : HearLine(line)

LifetimeNext ==
    \/ OwnerSteps \/ OwnerFails \/ OwnerKilled
    \/ ObserverSteps \/ ObserverFails \/ ObserverKilled
    \/ BridgeSteps \/ CallerSteps \/ CallerDies
    \/ \E p \in Contained : Dies(p) \/ \E k \in Kids : StartKid(p, k)

\* Nothing is left, and the supervisor waits for nothing.
LifetimeOver ==
    /\ \A p \in Contained : ~Left(p)
    /\ ~OwnerRuns /\ ~Observes /\ ~CallerIs({"arming", "armed"})

\* The owner goes on, and what is terminated ends.
LifetimeFairness ==
    /\ WF_lifetimeVars(OwnerSteps)
    /\ \A p \in Contained : WF_lifetimeVars(fate[p] = "dying" /\ Dies(p))

LifetimeSpec == LifetimeInit /\ [][LifetimeNext]_lifetimeVars /\ LifetimeFairness

-----------------------------------------------------------------------------
(* Properties. *)

\* A bridge that works, and all that it has started, is in a job whose owner
\* lives, whatever was killed, or already on its way out; and when the
\* supervisor holds a receipt, the bridge and all of it are gone, not just told to
\* go (Run, ObserveOwner, observe; the receipt of supervise.mjs:313-317).
LifetimeHeld ==
    /\ \A k \in Kids : Up(k) => k \in members /\ job = "open" /\ OwnerRuns
    /\ AtWork => Parent \in members /\ job = "open" /\ OwnerRuns
    /\ caller.at = "verified" => \A p \in Contained : ~Left(p)

\* Once a bridge is gone, however it ended and whoever was killed with it,
\* nothing that it has started stays (KILL_ON_JOB_CLOSE, drain).
EndsTogether == fate[Parent] = "gone" ~> \A k \in Kids : ~Left(k)
=============================================================================

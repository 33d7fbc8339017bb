------------------------------ MODULE Supervisor ------------------------------
(***************************************************************************)
(* The supervisor of one service (supervisor/supervise.mjs), the bridges   *)
(* that it forks one after another (supervisor/bridge-child.mjs and the    *)
(* upgrade control of bin/mcp-bridge.mjs), the files beside the            *)
(* configuration, and the clients that ask the supervisor to stop, to      *)
(* close admission (quiesce) or to open it again (activate, resume)        *)
(* (bin/service-control.mjs).                                              *)
(*                                                                         *)
(* Supervisor and bridge speak over a channel in order; a bridge or a      *)
(* supervisor may die at any time, and the end of a bridge is noticed      *)
(* apart from its last messages.  Timers may fire whenever they are armed. *)
(* "inspect" changes nothing and is left out.                              *)
(***************************************************************************)
EXTENDS Integers, Sequences, FiniteSets

CONSTANTS
    None,
    Platforms,   \* of "posix" and "windows", those to look at
    MaxSups,     \* bound: supervisors
    MaxBridges,  \* bound: bridges
    MaxControls, \* bound: requests about admission
    MaxStops,    \* bound: requests to stop
    MaxFaults    \* bound: crashes, signals, and answers or waits that are given up

SupIds == 1 .. MaxSups

\* service-<port>.stopped: whose stop, whether it is complete, and for which
\* drained bridge it was asked.
Holds == [sup : SupIds, stopped : BOOLEAN, auth : (1 .. MaxBridges) \cup {None}]

ASSUME SupervisorAssumption ==
    /\ MaxSups \in Nat /\ MaxBridges \in Nat
    /\ None \notin Nat /\ None \notin Holds /\ None \notin {"work", "ok", "open", "quiet"}

VARIABLES
    platform,
    sup,       \* the supervisors
    bridge,    \* the bridges, in the order of their forks
    req,       \* the control requests
    hold,      \* service-<port>.stopped: its supervisor, and what its receipt says
    admission, \* service-<port>.admission-held exists
    socket,    \* the supervisor whose control socket this is, even after its end
    ghost,     \* history: what a client was told and may rely on
    faults     \* how many faults there were

vars == <<platform, sup, bridge, req, hold, admission, socket, ghost, faults>>

Unborn == [at |-> "unborn", pending |-> FALSE, initial |-> FALSE, child |-> None,
           ready |-> None, readyHeld |-> FALSE, retry |-> FALSE, quiesced |-> None,
           auth |-> None, asked |-> FALSE, holds |-> FALSE, stopping |-> FALSE]

Gone == [Unborn EXCEPT !.at = "gone"]

Init ==
    /\ platform \in Platforms
    /\ sup = [s \in 1 .. MaxSups |-> Unborn]
    /\ bridge = <<>> /\ req = <<>> /\ hold = None /\ admission = FALSE /\ socket = None
    /\ ghost = [stopped |-> None, told |-> None]
    /\ faults = 0

\* proof: of the end of all its processes, which only Windows can give.
\* control: the request it works on.  change: of the configuration, admitted
\* and still being read ("body"), or under way ("work").
Forked(s, pending) ==
    [sup |-> s, at |-> "forked", held |-> pending, code |-> 1, noticed |-> FALSE,
     proof |-> IF platform = "windows" THEN "owed" ELSE "done",
     control |-> None, change |-> None, inbox |-> <<>>, outbox |-> <<>>]

Alive(b) == bridge[b].at \in {"forked", "up"}
Serving(b) == bridge[b].at = "up" /\ ~bridge[b].held
Listening == \E b \in DOMAIN bridge : bridge[b].at = "up"
Connected(s) == sup[s].child # None /\ Alive(sup[s].child)
Mine(s) == {b \in DOMAIN bridge : bridge[b].sup = s}

\* The requests rs are answered; supervisor s ends, and so do its connections.
Answers(rs, what) ==
    [r \in DOMAIN req |-> IF r \in rs THEN [req[r] EXCEPT !.at = "answered", !.result = what]
                          ELSE req[r]]
Open(s) == {r \in DOMAIN req : req[r].sup = s /\ req[r].at # "answered"}
Leaves(s, answers) ==
    /\ sup' = [sup EXCEPT ![s] = Gone]
    /\ socket' = None /\ req' = answers

Fault == faults < MaxFaults /\ faults' = faults + 1

-----------------------------------------------------------------------------
(* The beginning of a supervisor. *)

\* supervise.mjs begins, unless the service is held; an explicit start lets go
\* of the hold first, and finds no listener.
Born(s, explicit, pending) ==
    /\ sup[s].at = "unborn" /\ \A r \in 1 .. s - 1 : sup[r].at # "unborn"
    /\ explicit => ~Listening
    /\ ~explicit => hold = None /\ ~pending
    /\ hold' = None
    /\ ghost' = IF explicit THEN [ghost EXCEPT !.stopped = None] ELSE ghost
    /\ sup' = [sup EXCEPT ![s].at = "born", ![s].initial = pending]
    /\ UNCHANGED <<platform, bridge, req, admission, socket, faults>>

\* launch(): a bridge is forked, held while the start is pending.
Launched(m) == [m EXCEPT !.at = "up", !.ready = None, !.retry = FALSE,
                         !.child = Len(bridge) + 1]
Launch(s, m) ==
    /\ Len(bridge) < MaxBridges
    /\ bridge' = Append(bridge, Forked(s, m.pending))
    /\ sup' = [sup EXCEPT ![s] = Launched(m)]

\* After the context of the user has been checked: the look at the admission
\* hold, listen(), the second look at the hold, and the first launch.  A socket
\* that was left behind is in the way on POSIX.
Listen(s) ==
    /\ sup[s].at = "born"
    /\ IF socket # None \/ hold # None
         THEN sup' = [sup EXCEPT ![s] = Unborn] /\ UNCHANGED <<socket, bridge, ghost>>
         ELSE /\ socket' = s /\ Launch(s, [sup[s] EXCEPT !.pending = sup[s].initial \/ admission])
              /\ ghost' = IF sup[s].initial THEN [ghost EXCEPT !.told = None] ELSE ghost
    /\ UNCHANGED <<platform, req, hold, admission, faults>>

Relaunch(s) ==
    /\ sup[s].at = "up" /\ sup[s].retry
    /\ IF hold # None THEN Leaves(s, req) /\ UNCHANGED bridge
       ELSE Launch(s, sup[s]) /\ UNCHANGED <<req, socket>>
    /\ UNCHANGED <<platform, hold, admission, ghost, faults>>

-----------------------------------------------------------------------------
(* stop(). *)

\* What stop() does to supervisor s before it waits; and to its bridge.
Asked(s, holds) ==
    [sup[s] EXCEPT !.asked = TRUE, !.retry = FALSE, !.stopping = TRUE,
                   !.holds = @ \/ holds]
Held(s, holds) ==
    hold' = IF holds /\ ~sup[s].holds THEN [sup |-> s, stopped |-> FALSE, auth |-> None] ELSE hold
Tell(b, message) == [bridge EXCEPT ![b].inbox = Append(@, message)]
Stops(s, holds, m) ==
    /\ Held(s, holds)
    /\ sup' = [sup EXCEPT ![s] = m]
    /\ bridge' = IF Connected(s) /\ ~sup[s].stopping
                 THEN Tell(sup[s].child, [kind |-> "stop", r |-> 0]) ELSE bridge

\* The stop requests that wait for supervisor s.
Waiting(s) == {r \in DOMAIN req : req[r].sup = s /\ req[r].at = "stopping"}
\* Bug: only the end of the last bridge is proved.
LastBridge(s) == {b \in Mine(s) : \A c \in Mine(s) : c <= b}
\* The bridges whose end must be proved: all that were forked.
ToProve(s) == Mine(s)

\* The child has exited, and on Windows every launch has proved its end.
StopDone(s) ==
    /\ sup[s].at = "up" /\ sup[s].stopping /\ sup[s].child = None
    /\ \A b \in ToProve(s) : bridge[b].proof = "done"
    /\ hold' = IF sup[s].holds THEN [sup |-> s, stopped |-> TRUE, auth |-> sup[s].auth] ELSE hold
    /\ Leaves(s, [r \in DOMAIN req |-> IF r \in Waiting(s) THEN Answers(Open(s), "stopped")[r]
                                       ELSE Answers(Open(s), "error")[r]])
    /\ ghost' = IF Waiting(s) # {} THEN [ghost EXCEPT !.stopped = s] ELSE ghost
    /\ UNCHANGED <<platform, bridge, admission, faults>>

\* Ten seconds have passed, or a proof has failed: the supervisor stays, and a
\* later stop may try again.
StopFails(s) ==
    /\ Fault
    /\ sup[s].at = "up" /\ sup[s].stopping
    /\ sup' = [sup EXCEPT ![s].stopping = FALSE]
    /\ req' = Answers(Waiting(s), "unverified")
    /\ UNCHANGED <<platform, bridge, hold, admission, socket, ghost>>

\* A signal, a message of the launcher, or its end.
Signal(s) ==
    /\ Fault
    /\ sup[s].at = "up" /\ ~sup[s].asked
    /\ Stops(s, FALSE, Asked(s, FALSE))
    /\ UNCHANGED <<platform, req, admission, socket, ghost>>

-----------------------------------------------------------------------------
(* Control requests. *)

Opens(r) == req[r].action \in {"activate", "resume"}
Controls == {r \in DOMAIN req : req[r].action # "stop"}
LastControl == CHOOSE r \in Controls : \A q \in Controls : q <= r

\* What bin/managed-upgrade.mjs asks, one thing after another, and what the
\* command line asks in between: it closes admission when it knows that it is
\* open, and either opens it again or stops the bridge that has drained.
Asks(action, auth) ==
    /\ IF action = "stop" THEN Len(req) - Cardinality(Controls) < MaxStops
       ELSE Cardinality(Controls) < MaxControls
    /\ socket # None /\ sup[socket].at = "up"
    /\ action # "stop" => \A r \in Controls : req[r].at = "answered" \/ req[r].gone
    /\ action = "quiesce" /\ Controls # {} /\ Opens(LastControl)
         => req[LastControl].result = "ok"
    /\ action \in {"activate", "resume"}
         => \A r \in DOMAIN req : req[r].sup = socket => req[r].auth = None
    /\ auth # None => /\ Controls # {} /\ req[LastControl].action = "quiesce"
                      /\ req[LastControl].result = "ok" /\ auth = req[LastControl].bridge
    /\ req' = Append(req, [action |-> action, auth |-> auth, sup |-> socket, at |-> "sent",
                           gone |-> FALSE, bridge |-> None, result |-> None])
    /\ ghost' = [ghost EXCEPT !.told = IF action = "stop" \/ (action = "quiesce") = (@ = "quiet")
                                       THEN @ ELSE None]
    /\ UNCHANGED <<platform, sup, bridge, hold, admission, socket, faults>>

Request ==
    \/ \E action \in {"quiesce", "activate", "resume", "stop"} : Asks(action, None)
    \/ \E b \in DOMAIN bridge : Asks("stop", b)

\* The client gives up or dies; its request goes on.
GivesUp(r) ==
    /\ Fault
    /\ req[r].at \in {"sent", "forwarded"} /\ req[r].action # "stop" /\ ~req[r].gone
    /\ req' = [req EXCEPT ![r].gone = TRUE]
    /\ UNCHANGED <<platform, sup, bridge, hold, admission, socket, ghost>>

\* Requests arrive in the order in which they were sent.
Arrives(r) ==
    /\ req[r].at = "sent" /\ sup[req[r].sup].at = "up"
    /\ \A q \in 1 .. r - 1 : req[q].at # "sent"

\* Bug: the hold is written when the bridge has agreed.
ClosesAfterwards(r) == FALSE
\* quiesce: the hold is made durable before the bridge hears of it.
Closes(r) == req[r].action = "quiesce"

\* bridgeRequest(): needs a child that has been ready.
Control(r) ==
    LET s == req[r].sup IN
    /\ Arrives(r) /\ req[r].action # "stop"
    /\ sup' = [sup EXCEPT ![s].pending = @ \/ Closes(r)]
    /\ admission' = (admission \/ Closes(r))
    /\ IF Connected(s) /\ sup[s].ready # None
         THEN /\ bridge' = Tell(sup[s].child, [kind |-> req[r].action, r |-> r])
              /\ req' = [req EXCEPT ![r].at = "forwarded", ![r].bridge = sup[s].child]
         ELSE /\ req' = Answers({r}, "error") /\ UNCHANGED bridge
    /\ UNCHANGED <<platform, hold, socket, ghost, faults>>

\* A stop that names a drained bridge: it is that one, none, or one that was
\* held when it was ready.
Authorizes(s, id) ==
    /\ sup[s].pending /\ id = sup[s].quiesced
    /\ \/ sup[s].child = None
       \/ sup[s].ready # None /\ (sup[s].ready = sup[s].quiesced \/ sup[s].readyHeld)

Stop(r) ==
    LET s == req[r].sup
        auth == req[r].auth
    IN
    /\ Arrives(r) /\ req[r].action = "stop"
    /\ IF auth # None /\ ~Authorizes(s, auth)
         THEN /\ req' = Answers({r}, "refused") /\ UNCHANGED <<sup, bridge, hold>>
         ELSE /\ Stops(s, TRUE, [Asked(s, TRUE) EXCEPT !.auth = IF auth # None THEN auth ELSE @])
              /\ req' = [req EXCEPT ![r].at = "stopping"]
    /\ UNCHANGED <<platform, admission, socket, ghost, faults>>

\* Eleven seconds without an answer of the bridge: the outcome is uncertain.
Uncertain(r) ==
    /\ Fault
    /\ req[r].at = "forwarded"
    /\ req' = Answers({r}, "uncertain")
    /\ UNCHANGED <<platform, sup, bridge, hold, admission, socket, ghost>>

-----------------------------------------------------------------------------
(* Messages of a bridge. *)

Speaks(b, kind) ==
    /\ bridge[b].outbox # <<>> /\ Head(bridge[b].outbox).kind = kind
    /\ sup[bridge[b].sup].at = "up"
Heard(b) == [bridge EXCEPT ![b].outbox = Tail(@)]

\* upgrade-ready.
Ready(b) ==
    LET s == bridge[b].sup IN
    /\ Speaks(b, "ready") /\ bridge' = Heard(b)
    /\ sup' = IF sup[s].asked \/ sup[s].child # b THEN sup
              ELSE [sup EXCEPT ![s].ready = b, ![s].readyHeld = Head(bridge[b].outbox).held]
    /\ UNCHANGED <<platform, req, hold, admission, socket, ghost, faults>>

\* activate and resume end the hold for the next supervisor too.
Unlinks(r) == Opens(r)

\* The answer counts if it comes from the child that is ready now.
FromReady(s, r) == req[r].bridge = sup[s].child /\ req[r].bridge = sup[s].ready

\* upgrade-result: of a request that still waits; who has asked may be gone.
Result(b) ==
    LET s == bridge[b].sup
        m == Head(bridge[b].outbox)
        ok == m.ok /\ FromReady(s, m.r)
    IN
    /\ Speaks(b, "result") /\ bridge' = Heard(b)
    /\ IF req[m.r].at = "forwarded"
         THEN /\ req' = Answers({m.r}, IF sup[s].child # b THEN "error"
                                       ELSE IF m.ok THEN "ok" ELSE "refused")
              /\ sup' = IF ~ok THEN sup
                        ELSE IF Opens(m.r)
                        THEN [sup EXCEPT ![s].pending = FALSE, ![s].initial = FALSE,
                                         ![s].quiesced = None]
                        ELSE [sup EXCEPT ![s].quiesced = b]
              /\ admission' = (admission /\ ~(ok /\ Unlinks(m.r)))
              /\ ghost' = [ghost EXCEPT !.told =
                             IF ~m.ok \/ req[m.r].gone \/ sup[s].child # b THEN @
                             ELSE IF Opens(m.r) THEN "open" ELSE "quiet"]
         ELSE UNCHANGED <<req, sup, admission, ghost>>
    /\ UNCHANGED <<platform, hold, socket, faults>>

\* 'exit' of the child.
Exited(b) ==
    LET s == bridge[b].sup
        m == [sup[s] EXCEPT !.child = None]
        unproved == bridge[b].proof = "owed"
    IN
    /\ bridge[b].at = "gone" /\ ~bridge[b].noticed /\ sup[s].at = "up"
    /\ bridge' = [bridge EXCEPT ![b].noticed = TRUE,
                                ![b].proof = IF unproved THEN "failed" ELSE @]
    /\ IF unproved /\ ~sup[s].asked
         THEN Leaves(s, Answers(Open(s), "error"))
         ELSE /\ sup' = [sup EXCEPT ![s] =
                   IF sup[s].asked THEN m
                   ELSE IF bridge[b].code = 3 \/ sup[s].initial
                   THEN [m EXCEPT !.asked = TRUE, !.stopping = TRUE]
                   ELSE [m EXCEPT !.retry = TRUE]]
              /\ UNCHANGED <<socket, req>>
    /\ UNCHANGED <<platform, hold, admission, ghost, faults>>

-----------------------------------------------------------------------------
(* The bridge. *)

\* The supervisor observes its processes before it may begin (Windows).
Armed(b) ==
    /\ bridge[b].at = "forked" /\ bridge[b].proof = "owed" /\ sup[bridge[b].sup].at = "up"
    /\ bridge' = [bridge EXCEPT ![b].proof = "armed"]
    /\ UNCHANGED <<platform, sup, req, hold, admission, socket, ghost, faults>>

\* It listens and says so; the port may be taken.
Begins(b) ==
    /\ bridge[b].at = "forked" /\ bridge[b].proof \in {"armed", "done"}
    /\ bridge' = [bridge EXCEPT ![b] =
         IF Listening THEN [bridge[b] EXCEPT !.at = "gone", !.code = 3]
         ELSE [bridge[b] EXCEPT !.at = "up",
                        !.outbox = Append(@, [kind |-> "ready", held |-> bridge[b].held])]]
    /\ UNCHANGED <<platform, sup, req, hold, admission, socket, ghost, faults>>

Turns(b, m) ==
    /\ bridge' = [bridge EXCEPT ![b] = m]
    /\ UNCHANGED <<platform, sup, req, hold, admission, socket, ghost>>
Became(b, m) == Turns(b, m) /\ UNCHANGED faults

\* A change is admitted, and its body is read.
Admit(b) ==
    /\ Serving(b) /\ bridge[b].change = None
    /\ Became(b, [bridge[b] EXCEPT !.change = "body"])

\* A body that ends after admission has closed is not submitted.
Submitted(b) == ~bridge[b].held

BodyEnds(b) ==
    /\ bridge[b].at = "up" /\ bridge[b].change = "body"
    /\ Became(b, [bridge[b] EXCEPT !.change = IF Submitted(b) THEN "work" ELSE None])

Works(b) == bridge[b].change = "work"
WorkEnds(b) == bridge[b].at = "up" /\ Works(b) /\ Became(b, [bridge[b] EXCEPT !.change = None])

Reply(m, r, ok) == [m EXCEPT !.outbox = Append(@, [kind |-> "result", r |-> r, ok |-> ok])]

\* upgrade-control: one at a time.  quiesce waits for work, resume for a reload;
\* activate compares the configuration, which may have changed.
Takes(b) ==
    LET m == Head(bridge[b].inbox)
        taken == [bridge[b] EXCEPT !.inbox = Tail(@)]
        refused == Became(b, Reply(taken, m.r, FALSE))
    IN
    /\ bridge[b].at = "up" /\ bridge[b].inbox # <<>> /\ m.kind # "stop"
    /\ CASE bridge[b].control # None -> refused
         [] bridge[b].control = None /\ m.kind = "quiesce" ->
              Became(b, [taken EXCEPT !.held = TRUE, !.control = m.r])
         [] bridge[b].control = None /\ m.kind = "activate" ->
              \/ refused
              \/ ~Works(b) /\ Became(b, Reply([taken EXCEPT !.held = FALSE], m.r, TRUE))
         [] bridge[b].control = None /\ m.kind = "resume" ->
              IF Works(b) THEN refused ELSE Became(b, [taken EXCEPT !.control = m.r])

\* The answer to quiesce after the work has ended, or after eight seconds.
Drained(b) == ~Works(b)

Controlled(b) ==
    LET r == bridge[b].control
        done == [bridge[b] EXCEPT !.control = None]
    IN
    /\ bridge[b].at = "up" /\ r # None
    /\ IF Opens(r)
         THEN \/ Became(b, Reply(done, r, FALSE))
              \/ Became(b, Reply([done EXCEPT !.held = FALSE], r, TRUE))
         ELSE Became(b, Reply(done, r, Drained(b)))

\* What it has said may still be heard.
Dead(b, code) ==
    [bridge[b] EXCEPT !.at = "gone", !.code = code, !.held = FALSE, !.change = None,
                      !.control = None, !.inbox = <<>>]

\* "stop", or the end of the supervisor, once the bridge has been loaded.
Stopping(b) ==
    /\ bridge[b].at = "up"
    /\ \/ bridge[b].inbox # <<>> /\ Head(bridge[b].inbox).kind = "stop"
       \/ sup[bridge[b].sup].at = "gone"
    /\ Became(b, Dead(b, 0))

Crash(b) ==
    /\ Fault /\ Alive(b)
    /\ Turns(b, Dead(b, 1))

\* The processes of a bridge have ended with it, or one of them has not.
Proof(b, proof) ==
    /\ bridge[b].at = "gone" /\ bridge[b].proof = "armed"
    /\ Turns(b, [bridge[b] EXCEPT !.proof = proof])
Proved(b) == Proof(b, "done") /\ UNCHANGED faults
Unproved(b) == Fault /\ Proof(b, "failed")

SupervisorCrash(s) ==
    /\ Fault
    /\ sup[s].at = "up"
    /\ sup' = [sup EXCEPT ![s] = Gone]
    /\ req' = Answers(Open(s), "error")
    /\ socket' = IF platform = "posix" THEN socket ELSE None
    /\ UNCHANGED <<platform, bridge, hold, admission, ghost>>

-----------------------------------------------------------------------------
Starting(s) ==
    \/ \E explicit, pending \in BOOLEAN : Born(s, explicit, pending)
    \/ Listen(s) \/ Relaunch(s)
Running(s) == StopDone(s) \/ StopFails(s) \/ Signal(s) \/ SupervisorCrash(s)
Asking(r) == GivesUp(r) \/ Control(r) \/ Stop(r) \/ Uncertain(r)
Events(b) == Ready(b) \/ Result(b) \/ Exited(b) \/ Armed(b)
Bridge(b) ==
    \/ Begins(b) \/ Admit(b) \/ BodyEnds(b) \/ WorkEnds(b) \/ Takes(b) \/ Controlled(b)
    \/ Stopping(b) \/ Crash(b) \/ Proved(b) \/ Unproved(b)

Next ==
    \/ Request
    \/ \E s \in 1 .. MaxSups : Starting(s) \/ Running(s)
    \/ \E r \in DOMAIN req : Asking(r)
    \/ \E b \in DOMAIN bridge : Events(b) \/ Bridge(b)

Spec == Init /\ [][Next]_vars

-----------------------------------------------------------------------------
(* What the clients rely on. *)

\* The receipt of a stop, and the answer to it, are true and stay so until
\* somebody starts the service: whatever was forked, retried, late or half
\* started, no bridge of that supervisor lives (stop, launch, Exited).
StoppedMeansStopped ==
    /\ hold # None /\ hold.stopped =>
         \A b \in Mine(hold.sup) : ~Alive(b) /\ bridge[b].proof = "done"
    /\ ghost.stopped # None =>
         hold # None /\ \A b \in Mine(ghost.stopped) : ~Alive(b)

\* A bridge whose supervisor has crashed ends by itself, unless it is still
\* loading: then it may begin and serve for a moment.
LookedAfter(b) == Alive(b) /\ sup[bridge[b].sup].at = "up"

\* Once a client knows that admission is closed, neither a lost reply nor a
\* crash nor another bridge opens it: only resume or activate do.  And nothing
\* changes the configuration from then on (quiesce, the check of a body that
\* ends late).
HoldSurvives ==
    ghost.told = "quiet" => \A b \in DOMAIN bridge : LookedAfter(b) => ~Serving(b) /\ ~Works(b)

\* Once a client knows that admission is open again, it is: neither a crash
\* nor another bridge or supervisor brings back the hold (resume, activate).
OpenMeansOpen ==
    ghost.told = "open" =>
        /\ ~admission
        /\ \A b \in DOMAIN bridge : LookedAfter(b) => ~bridge[b].held

\* What a client was told about admission holds until a client changes it.
AdmissionAsTold == HoldSurvives /\ OpenMeansOpen

\* A supervisor that begins gives up only because another one is there or the
\* service is held.
StartsAgain ==
    [][\A s \in 1 .. MaxSups :
         sup[s].at = "born" /\ sup'[s].at = "unborn"
           => hold # None \/ \E q \in 1 .. MaxSups : sup[q].at = "up"]_vars
=============================================================================

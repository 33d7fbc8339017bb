------------------------------ MODULE TaskChannel ------------------------------
(***************************************************************************)
(* The channel of an upgrade for another account on Windows: the class     *)
(* TaskChannel of the controller (bin/windows-task-channel.mjs) and the    *)
(* guard that it starts (Serve and what it calls in                        *)
(* bin/windows-task-channel/src/TaskChannelGuard.cs), which holds the pipe *)
(* to the worker.  TaskTransaction builds on what is shown here.           *)
(*                                                                         *)
(* The controller writes commands to the guard and reads its events.  In   *)
(* the guard a thread reads the commands, another reads the pipe, the main *)
(* thread works, and a monitor ends the process when it is overdue or      *)
(* nobody wants it any more, whatever the main thread is stuck in.  All of *)
(* them, and controller, worker, the session of the account and the rights *)
(* of the controller may go away at any moment.  A deadline is a step that *)
(* may come at any time.                                                   *)
(***************************************************************************)
EXTENDS Integers, Sequences, FiniteSets

CONSTANTS
    QueueLimit,     \* commands and frames that are kept, 32
    MaxCommands,    \* bound: commands
    MaxReceives,    \* bound: calls of receive()
    MaxPeerFrames,  \* bound: frames of the worker
    MaxChannelFaults \* bound: losses of session or rights, deadlines that pass

VARIABLES
    channel,  \* the TaskChannel of the controller, and whether that process lives
    calls,    \* its authorize() and send(), in order; the number is their id
    stdin,    \* lines on their way to the guard
    guard,    \* the guard: main thread, reader of commands, and what they share
    stdout,   \* events on their way to the controller
    peer,     \* the worker: its end of the pipe
    world,    \* the session of the account and the rights of the controller
    mishaps   \* faults so far

channelVars == <<channel, calls, stdin, guard, stdout, peer, world, mishaps>>

\* ended: of stdin.
ChannelInit ==
    /\ channel = [alive |-> TRUE, start |-> "waiting", peer |-> FALSE, failure |-> FALSE,
                 ended |-> FALSE, closing |-> "none", exited |-> FALSE, frames |-> <<>>,
                 waiters |-> 0, receives |-> 0, got |-> <<>>]
    /\ calls = <<>>
    /\ stdin = <<[action |-> "serve", id |-> 0]>>
    /\ guard = [at |-> "initial", back |-> "none", id |-> 0, reader |-> "off",
                closing |-> FALSE, commands |-> <<>>, peer |-> FALSE]
    /\ stdout = <<>>
    /\ peer = [at |-> "away", genuine |-> TRUE, inbox |-> <<>>, outbox |-> <<>>, wrote |-> 0]
    /\ world = [session |-> TRUE, rights |-> TRUE]
    /\ mishaps = 0

Mishap == mishaps < MaxChannelFaults /\ mishaps' = mishaps + 1

Waiting == {i \in DOMAIN calls : calls[i].result = "waiting"}

-----------------------------------------------------------------------------
(* The controller. *)

\* Bug: what waits for an acknowledgement is not rejected.
KeepCalls == calls

RejectCalls ==
    [i \in DOMAIN calls |->
        IF i \in Waiting THEN [calls[i] EXCEPT !.result = "failed"] ELSE calls[i]]

\* fail(); a start() that fails begins to close.
Failed(c) ==
    [c EXCEPT !.failure = TRUE, !.frames = <<>>, !.waiters = 0, !.ended = TRUE,
              !.start = IF @ = "waiting" THEN "failed" ELSE @,
              !.closing = IF c.start = "waiting" /\ @ = "none" THEN "asked" ELSE @]

Fail == channel' = Failed(channel) /\ calls' = RejectCalls

\* What is known to be lost when a command is given.
LostAlready ==
    ~world.session \/ ~world.rights \/ (guard.peer /\ peer.at # "connected")

\* authorize() and send(). Writing to a pipe that was ended is an error.
Command(action) ==
    /\ channel.alive /\ channel.start = "open" /\ ~channel.failure
    /\ action = "authorize" \/ channel.peer
    /\ Len(calls) < MaxCommands /\ Cardinality(Waiting) < QueueLimit
    /\ IF channel.ended THEN Fail /\ UNCHANGED stdin
       ELSE /\ calls' = Append(calls, [action |-> action, result |-> "waiting",
                                       hopeless |-> LostAlready])
            /\ stdin' = Append(stdin, [action |-> action, id |-> Len(calls) + 1])
            /\ UNCHANGED channel
    /\ UNCHANGED <<guard, stdout, peer, world, mishaps>>

Receive ==
    /\ channel.alive /\ channel.start = "open" /\ ~channel.failure
    /\ channel.receives < MaxReceives
    /\ IF channel.frames # <<>>
         THEN channel' = [channel EXCEPT !.got = Append(@, Head(channel.frames)),
                                       !.frames = Tail(@), !.receives = @ + 1]
         ELSE /\ channel.waiters < QueueLimit
              /\ channel' = [channel EXCEPT !.waiters = @ + 1, !.receives = @ + 1]
    /\ UNCHANGED <<calls, stdin, guard, stdout, peer, world, mishaps>>

\* close(): the guard is asked once.
Close ==
    /\ channel.alive /\ channel.start # "waiting" /\ channel.closing = "none" /\ ~channel.exited
    /\ channel' = [channel EXCEPT !.closing = "asked"]
    /\ stdin' = IF channel.ended THEN stdin ELSE Append(stdin, [action |-> "close", id |-> 0])
    /\ UNCHANGED <<calls, guard, stdout, peer, world, mishaps>>

\* Its five seconds are over: the channel learns that the exit is not verified.
CloseOverdue ==
    /\ channel.alive /\ channel.closing = "asked" /\ ~channel.exited
    /\ Mishap
    /\ channel' = [channel EXCEPT !.closing = "unverified", !.ended = TRUE]
    /\ UNCHANGED <<calls, stdin, guard, stdout, peer, world>>

\* The deadline of start(), or of the channel.
CallerOverdue ==
    /\ channel.alive /\ ~channel.exited /\ ~channel.failure
    /\ Mishap
    /\ Fail
    /\ UNCHANGED <<stdin, guard, stdout, peer, world>>

\* event(). What comes after a failure changes nothing.
Handle(event) ==
    IF channel.failure THEN UNCHANGED <<channel, calls>> ELSE
    CASE event.type = "failed" -> Fail
      [] event.type = "ready" -> channel' = [channel EXCEPT !.start = "open"] /\ UNCHANGED calls
      [] event.type = "worker" -> channel' = [channel EXCEPT !.peer = TRUE] /\ UNCHANGED calls
      [] event.type = "frame" ->
           /\ IF channel.waiters > 0
                THEN channel' = [channel EXCEPT !.waiters = @ - 1, !.got = Append(@, event.id)]
                ELSE IF Len(channel.frames) < QueueLimit
                       THEN channel' = [channel EXCEPT !.frames = Append(@, event.id)]
                       ELSE channel' = Failed(channel)
           /\ calls' = IF channel'.failure THEN RejectCalls ELSE calls
      [] event.type \in {"sent", "authorized"} ->
           IF event.id \in Waiting
             THEN calls' = [calls EXCEPT ![event.id].result = "ok"] /\ UNCHANGED channel
             ELSE Fail
      [] OTHER -> UNCHANGED <<channel, calls>>

Event ==
    /\ channel.alive /\ stdout # <<>>
    /\ Handle(Head(stdout))
    /\ stdout' = Tail(stdout)
    /\ UNCHANGED <<stdin, guard, peer, world, mishaps>>

\* 'close' of the child process: it has exited, and all it wrote was read.
ChildClosed ==
    /\ channel.alive /\ guard.at = "gone" /\ stdout = <<>> /\ ~channel.exited
    /\ channel' = [Failed(channel) EXCEPT !.exited = TRUE,
                     !.closing = IF @ = "asked" THEN "exited" ELSE @]
    /\ calls' = RejectCalls
    /\ UNCHANGED <<stdin, guard, stdout, peer, world, mishaps>>

ControllerDies ==
    /\ channel.alive /\ ~channel.exited
    /\ Mishap
    /\ channel' = [channel EXCEPT !.alive = FALSE, !.ended = TRUE]
    /\ UNCHANGED <<calls, stdin, guard, stdout, peer, world>>

-----------------------------------------------------------------------------
(* The guard: its main thread. *)

Emit(type, id) == stdout' = Append(stdout, [type |-> type, id |-> id])

\* The process ends, and with it its end of the pipe.
Exits == [guard EXCEPT !.at = "gone", !.reader = "off", !.commands = <<>>]

Refuses == Emit("failed", 0) /\ guard' = Exits /\ UNCHANGED peer

\* CheckParent() and CheckQueryProgress().
ParentThere == channel.alive /\ guard.reader # "faulted"
QueryMayGoOn == ParentThere /\ ~guard.closing

\* CheckConnection().
ConnectionGood == QueryMayGoOn /\ (guard.peer => peer.at = "connected")

Main == UNCHANGED <<channel, calls, stdin, world, mishaps>>

\* The request of start().
Initial ==
    /\ guard.at = "initial"
    /\ guard' = [guard EXCEPT !.at = "setup", !.reader = "reading"]
    /\ stdin' = Tail(stdin)
    /\ UNCHANGED <<channel, calls, stdout, peer, world, mishaps>>

\* Facts(), Session(), the pipe and the manifest.
Setup ==
    /\ guard.at = "setup"
    /\ IF QueryMayGoOn /\ world.session /\ world.rights
         THEN Emit("ready", 0) /\ guard' = [guard EXCEPT !.at = "connecting"] /\ UNCHANGED peer
         ELSE Refuses
    /\ Main

\* A command that waits in the queue.
Obey ==
    /\ guard.at \in {"connecting", "serving"}
    /\ IF ~ParentThere THEN Refuses
       ELSE /\ guard.commands # <<>>
            /\ LET c == Head(guard.commands)
                   rest == [guard EXCEPT !.commands = Tail(@), !.id = c.id, !.back = guard.at]
               IN  CASE c.action = "close" ->
                          Emit("closed", 0) /\ guard' = Exits /\ UNCHANGED peer
                     [] c.action = "authorize" ->
                          guard' = [rest EXCEPT !.at = "facts"] /\ UNCHANGED <<stdout, peer>>
                     [] c.action = "send" /\ guard.at = "serving" ->
                          guard' = [rest EXCEPT !.at = "write"] /\ UNCHANGED <<stdout, peer>>
                     [] OTHER -> Refuses
    /\ Main

\* A client of the pipe: BindPeer() admits the worker only.
Bind ==
    /\ guard.at = "connecting" /\ peer.at # "away"
    /\ IF peer.genuine /\ peer.at = "connected" /\ QueryMayGoOn /\ world.session
         THEN /\ Emit("worker", 0) /\ UNCHANGED peer
              /\ guard' = [guard EXCEPT !.at = "serving", !.peer = TRUE]
         ELSE Refuses
    /\ Main

Step(from, to, holds) ==
    /\ guard.at = from
    /\ IF holds THEN guard' = [guard EXCEPT !.at = to] /\ UNCHANGED <<stdout, peer>> ELSE Refuses
    /\ Main

\* Bug: the session that was observed at the start is still taken for granted.
RememberedSession == TRUE

SessionHolds == world.session

\* Authorize(): the rights, the session, the connection, in this order.
AuthorizeFacts == Step("facts", "session", QueryMayGoOn /\ world.rights)
AuthorizeSession == Step("session", "answer", ParentThere /\ SessionHolds)
AuthorizeAnswer ==
    /\ guard.at = "answer"
    /\ IF ConnectionGood
         THEN Emit("authorized", guard.id) /\ guard' = [guard EXCEPT !.at = guard.back] /\ UNCHANGED peer
         ELSE Refuses
    /\ Main

\* The write of a frame, which may also be cut off by its deadline (Overdue).
Write ==
    /\ guard.at = "write"
    /\ IF ParentThere /\ peer.at = "connected"
         THEN /\ peer' = [peer EXCEPT !.inbox = Append(@, guard.id)]
              /\ guard' = [guard EXCEPT !.at = "written"] /\ UNCHANGED stdout
         ELSE Refuses
    /\ Main

FrameWritten ==
    /\ guard.at = "written"
    /\ IF ConnectionGood
         THEN Emit("sent", guard.id) /\ guard' = [guard EXCEPT !.at = "serving"] /\ UNCHANGED peer
         ELSE Refuses
    /\ Main

\* A frame that was read from the pipe; a pipe that was closed, or its process.
Relay ==
    /\ guard.at = "serving"
    /\ IF ParentThere /\ peer.at = "connected"
         THEN /\ peer.outbox # <<>>
              /\ Emit("frame", Head(peer.outbox))
              /\ peer' = [peer EXCEPT !.outbox = Tail(@)] /\ UNCHANGED guard
         ELSE Refuses
    /\ Main

\* One of the deadlines of the main thread.
Overdue ==
    /\ guard.at # "gone"
    /\ Mishap
    /\ Refuses
    /\ UNCHANGED <<channel, calls, stdin, world>>

-----------------------------------------------------------------------------
(* The other threads of the guard. *)

\* StartControlReader(): one line, or the end of the input.
ReadControl ==
    /\ guard.reader = "reading"
    /\ IF stdin = <<>>
         THEN channel.ended /\ guard' = [guard EXCEPT !.reader = "faulted"] /\ UNCHANGED stdin
         ELSE LET c == Head(stdin)
                  room == Len(guard.commands) < QueueLimit
                  kept == IF room THEN Append(guard.commands, c) ELSE guard.commands
              IN  /\ guard' = [guard EXCEPT
                        !.commands = kept,
                        !.closing = @ \/ c.action = "close",
                        !.reader = IF c.action = "close" THEN "done"
                                   ELSE IF room THEN @ ELSE "faulted"]
                  /\ stdin' = Tail(stdin)
    /\ UNCHANGED <<channel, calls, stdout, peer, world, mishaps>>

\* Monitor(): nobody wants the guard any more. Before its readiness there is a
\* deadline of its own.
NobodyThere ==
    \/ ~channel.alive
    \/ guard.closing
    \/ guard.reader = "faulted"

MonitorExits ==
    /\ guard.at # "gone"
    /\ NobodyThere \/ guard.at \in {"initial", "setup"}
    /\ guard' = Exits
    /\ UNCHANGED <<channel, calls, stdin, stdout, peer, world, mishaps>>

MonitorOverdue ==
    /\ guard.at # "gone"
    /\ Mishap
    /\ guard' = Exits
    /\ UNCHANGED <<channel, calls, stdin, stdout, peer, world>>

-----------------------------------------------------------------------------
(* The worker, the account and the rights. *)

Others == UNCHANGED <<channel, calls, stdin, guard, stdout>>

PeerConnects(genuine) ==
    /\ peer.at = "away" /\ guard.at \notin {"initial", "setup", "gone"}
    /\ peer' = [peer EXCEPT !.at = "connected", !.genuine = genuine]
    /\ Others /\ UNCHANGED <<world, mishaps>>

PeerWrites ==
    /\ peer.at = "connected" /\ peer.wrote < MaxPeerFrames
    /\ peer' = [peer EXCEPT !.outbox = Append(@, peer.wrote + 1), !.wrote = @ + 1]
    /\ Others /\ UNCHANGED <<world, mishaps>>

PeerLeaves ==
    /\ peer.at = "connected"
    /\ Mishap
    /\ peer' = [peer EXCEPT !.at = "gone"]
    /\ Others /\ UNCHANGED world

SessionEnds ==
    /\ world.session /\ Mishap
    /\ world' = [world EXCEPT !.session = FALSE]
    /\ Others /\ UNCHANGED peer

RightsEnd ==
    /\ world.rights /\ Mishap
    /\ world' = [world EXCEPT !.rights = FALSE]
    /\ Others /\ UNCHANGED peer

ChannelNext ==
    \/ \E action \in {"authorize", "send"} : Command(action)
    \/ Receive \/ Close \/ CloseOverdue \/ CallerOverdue \/ Event \/ ChildClosed \/ ControllerDies
    \/ Initial \/ Setup \/ Obey \/ Bind \/ AuthorizeFacts \/ AuthorizeSession \/ AuthorizeAnswer
    \/ Write \/ FrameWritten \/ Relay \/ Overdue
    \/ ReadControl \/ MonitorExits \/ MonitorOverdue
    \/ \E genuine \in BOOLEAN : PeerConnects(genuine)
    \/ PeerWrites \/ PeerLeaves \/ SessionEnds \/ RightsEnd

\* The controller's event loop, the reader and the monitor go on; the main
\* thread of the guard may be stuck for good.
ChannelFairness ==
    /\ WF_channelVars(Event) /\ WF_channelVars(ChildClosed)
    /\ WF_channelVars(ReadControl) /\ WF_channelVars(MonitorExits)

ChannelSpec == ChannelInit /\ [][ChannelNext]_channelVars /\ ChannelFairness

-----------------------------------------------------------------------------
Increasing(s) == \A i \in 1 .. Len(s) - 1 : s[i] < s[i + 1]

\* What the controller is told is so: an authorization that it was given says
\* that session, rights and worker were still there when it asked; and frames
\* arrive once, in order and without a gap, in either direction (Authorize,
\* CheckConnection, the queues of commands, frames and waiters).
ChannelTold ==
    /\ \A i \in DOMAIN calls :
         calls[i].action = "authorize" /\ calls[i].result = "ok" => ~calls[i].hopeless
    /\ \A i \in DOMAIN calls :
         calls[i].action = "send" /\ calls[i].result = "ok"
           => \E k \in DOMAIN peer.inbox : peer.inbox[k] = i
    /\ Increasing(peer.inbox)
    /\ \A k \in DOMAIN peer.inbox : \A i \in 1 .. peer.inbox[k] - 1 :
         calls[i].action = "send" => \E j \in DOMAIN peer.inbox : peer.inbox[j] = i
    /\ channel.got = [k \in 1 .. Len(channel.got) |-> k]

\* Once the channel has failed, is closed, or its controller is dead, the guard
\* goes away, though its main thread may be stuck, and nobody is left waiting
\* (Monitor, fail, close).
ChannelEnds ==
    channel.failure \/ channel.closing # "none" \/ ~channel.alive
      ~> guard.at = "gone" /\ (~channel.alive \/ (channel.exited /\ Waiting = {} /\ channel.waiters = 0))
=============================================================================

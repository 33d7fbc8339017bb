----------------------------- MODULE SharedGroup -----------------------------
(***************************************************************************)
(* One generation of a shared stdio server (class SharedGroup of           *)
(* bin/shared-sessions.mjs): one child process whose tool calls are        *)
(* multiplexed over several virtual sessions (class SharedChild).          *)
(*                                                                         *)
(* JavaScript runs a handler to completion, so every action below is one   *)
(* whole handler: a client message, a child message, a timer, a stream     *)
(* event, or a call of the manager.  The one loop whose length depends on  *)
(* the state, pump(), keeps the flag the code has for it: while `pumping`  *)
(* is TRUE only the turns of the pump are enabled, and what send() may     *)
(* call from inside one: the detach of a session whose output is full.     *)
(*                                                                         *)
(* Messages are counted, not spelled: each takes one unit of the child's   *)
(* stdin buffer.  A request carries its owner in OwnerOf.                   *)
(***************************************************************************)
EXTENDS Integers, FiniteSets, Sequences, SequencesExt

CONSTANTS
    Sessions,     \* callers of acquire(); each becomes at most one SharedChild
    Requests,     \* client requests, by (owner, id)
    OwnerOf,      \* the session that sends a request
    SizeOf,       \* its size in the child's stdin buffer; other messages have size 1
    MaxSessions,  \* sharedMaxSessions
    MaxInFlight,  \* sharedMaxInFlight
    MaxQueued,    \* sharedMaxQueued
    MaxIds,       \* sharedMaxIds
    BufferLimit,  \* sharedMaxBufferBytes, in sizes
    HighWater     \* the high-water mark of the child's stdin, in sizes

ASSUME SharedAssumption ==
    /\ IsFiniteSet(Sessions) /\ IsFiniteSet(Requests)
    /\ OwnerOf \in [Requests -> Sessions]
    /\ SizeOf \in [Requests -> Nat \ {0}]
    /\ MaxSessions \in Nat \ {0}
    /\ MaxInFlight \in Nat \ {0}
    /\ MaxQueued \in Nat
    /\ MaxIds \in Nat \ {0}
    /\ BufferLimit \in Nat \ {0}
    /\ HighWater \in Nat \ {0}

VARIABLES
    state,          \* this.state of the group
    waiters,        \* callers between `waiters++` and `waiters--` of acquire()
    members,        \* attached virtual sessions
    phase,          \* phase of each SharedChild; "none" before, "refused" if acquire() threw
    ids,            \* request ids an open session has used (owner.ids)
    pending,        \* owner.pending, over all owners
    queue,          \* owner.queue of each session
    lanes,          \* sessions with queued work, in round-robin order
    queued,         \* the counter of queued operations
    operations,     \* dispatched operations whose response has not come
    dispatched,     \* operation.dispatched: written to the child's stdin
    settled,        \* operation.settled: answered by the bridge itself
    cancelled,      \* operation.cancelled: the child was told
    replies,        \* what its open owner's send() was called with for a request, in order
    child,          \* the process: "spawning", "alive", "exited", or "none" (spawn failed)
    killRequested,
    buffered,       \* what the child's stdin buffer holds (writableLength)
    blocked,        \* stdin.write returned false and 'drain' has not come
    pumping,        \* pump() is running
    linger,         \* lingerTimer is armed
    failed, reported

sessionVars == <<waiters, members, phase, ids>>
queueVars   == <<queue, lanes, queued>>
opVars      == <<pending, operations, dispatched, settled, cancelled, replies>>
childVars   == <<child, killRequested, buffered, blocked>>
flagVars    == <<failed, reported>>
vars == <<state, sessionVars, queueVars, opVars, childVars, pumping, linger, flagVars>>

States   == {"starting", "ready", "draining", "stopping", "dead"}
Phases   == {"none", "refused", "attached", "initialized", "ready", "closed"}
Answers  == {"result", "unsent", "potentially-executed"}
Children == {"spawning", "alive", "exited", "none"}

GroupTypes ==
    /\ state \in States
    /\ pumping \in BOOLEAN /\ linger \in BOOLEAN
    /\ failed \in BOOLEAN /\ reported \in BOOLEAN

SessionTypes ==
    /\ waiters \in SUBSET Sessions
    /\ members \in SUBSET Sessions
    /\ phase \in [Sessions -> Phases]
    /\ ids \in SUBSET Requests

QueueTypes ==
    /\ queue \in [Sessions -> Seq(Requests)]
    /\ lanes \in Seq(Sessions)
    /\ queued \in Int

OperationTypes ==
    /\ pending \in SUBSET Requests
    /\ operations \in SUBSET Requests
    /\ dispatched \in SUBSET Requests
    /\ settled \in SUBSET Requests
    /\ cancelled \in SUBSET Requests
    /\ replies \in [Requests -> Seq(Answers)]

ChildTypes ==
    /\ child \in Children
    /\ killRequested \in BOOLEAN
    /\ buffered \in Nat
    /\ blocked \in BOOLEAN

\* Every variable has its type.
TypeOK == GroupTypes /\ SessionTypes /\ QueueTypes /\ OperationTypes /\ ChildTypes

-----------------------------------------------------------------------------
(* The group and its sessions. *)

\* Bug: stop() is not idempotent while the group waits for its child.
LiveWhileStopping == state # "dead"

Live == state \notin {"stopping", "dead"}

Of(s) == {r \in Requests : OwnerOf[r] = s}

Queued == {r \in Requests : Contains(queue[OwnerOf[r]], r)}

\* Operations that still owe their owner an answer.
Open == (Queued \cup operations) \ settled

\* settle(): the answer says whether the request may have run; send() drops
\* it when the session is closed.
Execution(r) == IF r \in dispatched THEN "potentially-executed" ELSE "unsent"

Answer(R) == [r \in Requests |->
                IF r \in R /\ OwnerOf[r] \in members
                  THEN Append(replies[r], Execution(r)) ELSE replies[r]]

\* The sequence without an element it holds once (splice, filter).
Without(seq, e) ==
    IF Contains(seq, e)
      THEN RemoveAt(seq, CHOOSE i \in DOMAIN seq : seq[i] = e)
      ELSE seq

\* write(): messages of size n fit the stdin buffer, or the group stops.
Fits(n) == buffered + n <= BufferLimit

Write(n) ==
    /\ buffered' = buffered + n
    /\ blocked' = (blocked \/ (n > 0 /\ buffered + n >= HighWater))

\* The loop condition of pump().
CanPump ==
    /\ state = "ready" /\ ~blocked
    /\ Cardinality(operations) < MaxInFlight
    /\ lanes # <<>>

\* Bug: a handler frees a slot and does not pump.
PumpForgotten == pumping' = FALSE

Pump == pumping' = CanPump'

\* idle() in a group that does not drain: the linger timer runs exactly
\* while nobody uses the child.
Unused == state = "ready" /\ members = {} /\ waiters = {} /\ operations = {}

Idle == linger' = Unused'

\* stop(): settle what is open, close every session, kill the child.  A child
\* that has already exited, or never came, leaves nothing to wait for.
Stop(open, rep, fail) ==
    /\ state' = IF child' \in {"exited", "none"} THEN "dead" ELSE "stopping"
    /\ killRequested' = (child' \in {"alive", "exited"})
    /\ replies' = rep
    /\ settled' = settled \cup open
    /\ operations' = {}
    /\ queue' = [s \in Sessions |-> <<>>]
    /\ lanes' = <<>>
    /\ queued' = 0
    /\ members' = {}
    /\ phase' = [s \in Sessions |-> IF s \in members THEN "closed" ELSE phase[s]]
    /\ ids' = {r \in ids : OwnerOf[r] \notin members}
    /\ pending' = {r \in pending : OwnerOf[r] \notin members}
    /\ linger' = FALSE /\ pumping' = FALSE
    /\ failed' = (failed \/ fail)
    /\ reported' = (reported \/ fail)
    /\ UNCHANGED <<waiters, dispatched, cancelled, buffered, blocked>>

StopNow(fail) == UNCHANGED child /\ Stop(Open, Answer(Open), fail)

\* drain(): no new dispatch; queued work is answered, running work may finish.
\* `done` is what the handler itself answers first.
Drain(done, fail) ==
    /\ state' = "draining"
    /\ failed' = fail
    /\ replies' = Answer((Queued \ settled) \cup done)
    /\ settled' = settled \cup Queued \cup done
    /\ pending' = pending \ Queued
    /\ queue' = [s \in Sessions |-> <<>>]
    /\ lanes' = <<>>
    /\ queued' = 0
    /\ linger' = FALSE
    /\ UNCHANGED <<reported, sessionVars, operations, dispatched>>

\* A session leaves the group: its queued work is dropped unsent, its running
\* work is cancelled but keeps its slot.
Gone(s) == Open \cap Of(s)

\* Bug: every owner's work is cancelled.
ToCancelAll(s) == (pending \cap dispatched) \ cancelled

ToCancel(s) == ((pending \cap dispatched) \cap Of(s)) \ cancelled

Detach(s) ==
    IF Fits(Cardinality(ToCancel(s)))
      THEN /\ members' = members \ {s}
           /\ phase' = [phase EXCEPT ![s] = "closed"]
           /\ ids' = ids \ Of(s)
           /\ pending' = pending \ Of(s)
           /\ queue' = [queue EXCEPT ![s] = <<>>]
           /\ lanes' = Without(lanes, s)
           /\ queued' = queued - Len(queue[s])
           /\ replies' = Answer(Gone(s))
           /\ settled' = settled \cup Gone(s)
           /\ cancelled' = cancelled \cup ToCancel(s)
           /\ Write(Cardinality(ToCancel(s)))
           /\ UNCHANGED <<state, waiters, operations, dispatched, child,
                          killRequested, flagVars>>
           /\ Pump
           /\ Idle
      ELSE StopNow(TRUE)

\* Bug: unqueue() without settle(): the operation leaves the queue unanswered.
DropQueuedUnanswered(r) ==
    /\ queue' = [queue EXCEPT ![OwnerOf[r]] = Without(@, r)]
    /\ queued' = queued - 1
    /\ lanes' = IF Len(queue[OwnerOf[r]]) = 1 THEN Without(lanes, OwnerOf[r]) ELSE lanes
    /\ UNCHANGED <<state, sessionVars, pending, operations, dispatched, cancelled,
                   settled, replies, childVars, linger, flagVars>>
    /\ Pump

\* unqueue() and settle() of one queued operation, then pump().
DropQueued(r) ==
    /\ queue' = [queue EXCEPT ![OwnerOf[r]] = Without(@, r)]
    /\ queued' = queued - 1
    /\ lanes' = IF Len(queue[OwnerOf[r]]) = 1 THEN Without(lanes, OwnerOf[r]) ELSE lanes
    /\ replies' = Answer({r} \ settled)
    /\ settled' = settled \cup {r}
    /\ pending' = pending \ {r}
    /\ UNCHANGED <<state, sessionVars, operations, dispatched, cancelled, childVars,
                   linger, flagVars>>
    /\ Pump

\* dispatch(): onto the child's stdin, or refused unsent when the buffer is full.
Sent(r) ==
    /\ Fits(SizeOf[r])
    /\ dispatched' = dispatched \cup {r}
    /\ operations' = operations \cup {r}
    /\ Write(SizeOf[r])
    /\ UNCHANGED <<settled, replies>>

\* Bug: a dispatch that does not fit is dropped without an answer.
OverflowsSilently(r) ==
    /\ ~Fits(SizeOf[r])
    /\ settled' = settled \cup {r}
    /\ UNCHANGED <<replies, dispatched, operations, buffered, blocked>>

Overflows(r) ==
    /\ ~Fits(SizeOf[r])
    /\ settled' = settled \cup {r}
    /\ replies' = Answer({r})
    /\ UNCHANGED <<dispatched, operations, buffered, blocked>>

-----------------------------------------------------------------------------
(* The manager: acquire() up to its await, and after it; recycle, remove.   *)

Init ==
    /\ state = "starting"
    /\ \E s \in Sessions : waiters = {s}
    /\ members = {}
    /\ phase = [s \in Sessions |-> "none"]
    /\ ids = {} /\ pending = {}
    /\ queue = [s \in Sessions |-> <<>>]
    /\ lanes = <<>> /\ queued = 0
    /\ operations = {} /\ dispatched = {} /\ settled = {} /\ cancelled = {}
    /\ replies = [r \in Requests |-> <<>>]
    /\ child = "spawning" /\ killRequested = FALSE
    /\ buffered = 0 /\ blocked = FALSE /\ pumping = FALSE /\ linger = FALSE
    /\ failed = FALSE /\ reported = FALSE

AcquireStart(s) ==
    /\ ~pumping
    /\ phase[s] = "none" /\ s \notin waiters
    /\ state \in {"starting", "ready"}
    /\ Cardinality(members) + Cardinality(waiters) < MaxSessions
    /\ waiters' = waiters \cup {s}
    /\ linger' = FALSE
    /\ UNCHANGED <<state, members, phase, ids, queueVars, opVars, childVars, pumping,
                   flagVars>>

\* group.ready settles when the state leaves "starting".
AcquireResume(s) ==
    /\ ~pumping
    /\ s \in waiters
    /\ state # "starting"
    /\ waiters' = waiters \ {s}
    /\ IF state = "ready"
         THEN members' = members \cup {s} /\ phase' = [phase EXCEPT ![s] = "attached"]
         ELSE members' = members /\ phase' = [phase EXCEPT ![s] = "refused"]
    /\ UNCHANGED <<state, ids, queueVars, opVars, childVars, pumping, flagVars>>
    /\ Idle

Recycle ==
    /\ ~pumping
    /\ \/ /\ state = "ready" /\ operations # {}
          /\ Drain({}, FALSE)
          /\ UNCHANGED <<cancelled, childVars, pumping>>
       \/ /\ state = "starting" \/ (state = "ready" /\ operations = {})
          /\ StopNow(FALSE)

RemoveGroup == ~pumping /\ Live /\ StopNow(FALSE)

-----------------------------------------------------------------------------
(* The child process. *)

SpawnResolves ==
    /\ ~pumping
    /\ child = "spawning"
    /\ child' = "alive"
    /\ IF Live
         THEN IF Fits(1)
                THEN /\ Write(1)
                     /\ UNCHANGED <<state, sessionVars, queueVars, opVars, killRequested,
                                    pumping, linger, flagVars>>
                ELSE Stop(Open, Answer(Open), TRUE)
         ELSE /\ killRequested' = TRUE
              /\ UNCHANGED <<state, sessionVars, queueVars, opVars, buffered, blocked,
                             pumping, linger, flagVars>>

\* spawn() returned a child whose streams are unusable or that has exited.
SpawnUnavailable ==
    /\ ~pumping
    /\ child = "spawning"
    /\ child' \in {"alive", "exited"}
    /\ IF Live
         THEN Stop(Open, Answer(Open), TRUE)
         ELSE /\ killRequested' = TRUE
              /\ state' = IF child' = "exited" THEN "dead" ELSE state
              /\ UNCHANGED <<sessionVars, queueVars, opVars, buffered, blocked, pumping,
                             linger, flagVars>>

SpawnRejects ==
    /\ ~pumping
    /\ child = "spawning"
    /\ child' = "none"
    /\ IF Live
         THEN Stop(Open, Answer(Open), TRUE)
         ELSE /\ state' = "dead"
              /\ UNCHANGED <<sessionVars, queueVars, opVars, killRequested, buffered,
                             blocked, pumping, linger, flagVars>>

\* initialized(): the upstream result is accepted and acknowledged.
Initialized ==
    /\ ~pumping
    /\ state = "starting" /\ child = "alive"
    /\ IF Fits(1)
         THEN /\ Write(1)
              /\ state' = "ready"
              /\ UNCHANGED <<sessionVars, queueVars, opVars, child, killRequested, pumping,
                             flagVars>>
              /\ Idle
         ELSE StopNow(TRUE)

InitTimeout == ~pumping /\ state = "starting" /\ StopNow(TRUE)

\* A malformed message, a response whose cursor is no string, an unsupported
\* callback, a rejected initialize, or an error or the end of a child's stream.
ChildFault == ~pumping /\ child = "alive" /\ Live /\ StopNow(TRUE)

ChildExits ==
    /\ ~pumping
    /\ child = "alive"
    /\ child' = "exited"
    /\ IF Live
         THEN Stop(Open, Answer(Open), TRUE)
         ELSE /\ state' = "dead"
              /\ UNCHANGED <<sessionVars, queueVars, opVars, killRequested, buffered,
                             blocked, pumping, linger, flagVars>>

\* The kill failed, or the child outlives it: the failure is reported once.
KillReport ==
    /\ ~pumping
    /\ state = "stopping" /\ killRequested
    /\ failed' = TRUE /\ reported' = TRUE
    /\ UNCHANGED <<state, sessionVars, queueVars, opVars, childVars, pumping, linger>>

\* The child takes a message; when the buffer empties, 'drain' unblocks it.
ChildReads ==
    /\ ~pumping
    /\ child = "alive" /\ buffered > 0
    /\ buffered' = buffered - 1
    /\ blocked' = (blocked /\ buffered > 1)
    /\ UNCHANGED <<state, sessionVars, queueVars, opVars, child, killRequested, linger,
                   flagVars>>
    /\ IF blocked /\ ~blocked' THEN Pump ELSE UNCHANGED pumping

\* The child pings; the answer goes onto its stdin.
Ping ==
    /\ ~pumping
    /\ child = "alive" /\ Live
    /\ IF Fits(1)
         THEN /\ Write(1)
              /\ UNCHANGED <<state, sessionVars, queueVars, opVars, child, killRequested,
                             pumping, linger, flagVars>>
         ELSE StopNow(TRUE)

\* A response is routed by its upstream id.  A late one, whose operation is
\* gone, changes nothing; one to a settled operation only frees the slot.  A
\* page whose cursor cannot be kept is answered with an error instead.
Response(r) ==
    /\ ~pumping
    /\ child = "alive"
    /\ state \in {"ready", "draining"}
    /\ r \in operations
    /\ \E outcome \in {"result", "potentially-executed"} :
         LET answered == [replies EXCEPT ![r] =
                            IF r \notin settled /\ OwnerOf[r] \in members
                              THEN Append(@, outcome) ELSE @]
         IN  IF state = "draining" /\ operations = {r}
               THEN /\ UNCHANGED child
                    /\ Stop({}, answered, failed)
               ELSE /\ replies' = answered
                    /\ operations' = operations \ {r}
                    /\ pending' = pending \ {r}
                    /\ UNCHANGED <<state, sessionVars, queueVars, dispatched, settled,
                                   cancelled, childVars, flagVars>>
                    /\ Pump
                    /\ Idle

-----------------------------------------------------------------------------
(* The clients. *)

MayAsk(r) ==
    /\ OwnerOf[r] \in members
    /\ r \notin ids
    /\ Cardinality(ids \cap Of(OwnerOf[r])) < MaxIds

ClientInitialize(s) ==
    /\ ~pumping
    /\ s \in members /\ phase[s] = "attached"
    /\ phase' = [phase EXCEPT ![s] = "initialized"]
    /\ UNCHANGED <<state, waiters, members, ids, queueVars, opVars, childVars, pumping,
                   linger, flagVars>>

ClientInitialized(s) ==
    /\ ~pumping
    /\ s \in members /\ phase[s] = "initialized"
    /\ phase' = [phase EXCEPT ![s] = "ready"]
    /\ UNCHANGED <<state, waiters, members, ids, queueVars, opVars, childVars, pumping,
                   linger, flagVars>>

\* reject(): the id is used up, nothing is sent.  The reasons are an
\* unsupported method, a bad parameter, a session or a group that is not
\* ready, and a full queue.
Reject(r) ==
    /\ ~pumping
    /\ MayAsk(r)
    /\ ids' = ids \cup {r}
    /\ replies' = Answer({r})
    /\ UNCHANGED <<state, waiters, members, phase, queueVars, pending, operations,
                   dispatched, settled, cancelled, childVars, pumping, linger, flagVars>>

Acceptable(r) == MayAsk(r) /\ phase[OwnerOf[r]] = "ready" /\ state = "ready"

CanDispatch == ~blocked /\ Cardinality(operations) < MaxInFlight /\ queued = 0

SendNow(r) ==
    /\ ~pumping
    /\ Acceptable(r) /\ CanDispatch
    /\ ids' = ids \cup {r}
    /\ \/ Sent(r) /\ pending' = pending \cup {r}
       \/ Overflows(r) /\ UNCHANGED pending
    /\ UNCHANGED <<state, waiters, members, phase, queueVars, cancelled, child,
                   killRequested, pumping, linger, flagVars>>

\* Bug: new work sends its lane to the back.
EnqueueAtTheBack(r) ==
    /\ ~pumping
    /\ Acceptable(r) /\ ~CanDispatch /\ queued < MaxQueued
    /\ ids' = ids \cup {r}
    /\ pending' = pending \cup {r}
    /\ queue' = [queue EXCEPT ![OwnerOf[r]] = Append(@, r)]
    /\ queued' = queued + 1
    /\ lanes' = Append(Without(lanes, OwnerOf[r]), OwnerOf[r])
    /\ UNCHANGED <<state, waiters, members, phase, operations, dispatched, settled,
                   cancelled, replies, childVars, linger, flagVars>>
    /\ Pump

Enqueue(r) ==
    /\ ~pumping
    /\ Acceptable(r) /\ ~CanDispatch /\ queued < MaxQueued
    /\ ids' = ids \cup {r}
    /\ pending' = pending \cup {r}
    /\ queue' = [queue EXCEPT ![OwnerOf[r]] = Append(@, r)]
    /\ queued' = queued + 1
    /\ lanes' = IF Contains(lanes, OwnerOf[r]) THEN lanes ELSE Append(lanes, OwnerOf[r])
    /\ UNCHANGED <<state, waiters, members, phase, operations, dispatched, settled,
                   cancelled, replies, childVars, linger, flagVars>>
    /\ Pump

\* One turn of pump(): the first lane sends one request and goes to the back.
PumpNext ==
    /\ pumping
    /\ LET s == Head(lanes)
           r == Head(queue[s])
       IN  /\ queue' = [queue EXCEPT ![s] = Tail(@)]
           /\ queued' = queued - 1
           /\ lanes' = IF Len(queue[s]) > 1 THEN Append(Tail(lanes), s) ELSE Tail(lanes)
           /\ \/ Sent(r) /\ UNCHANGED pending
              \/ Overflows(r) /\ pending' = pending \ {r}
    /\ UNCHANGED <<state, sessionVars, cancelled, child, killRequested, linger, flagVars>>
    /\ Pump

\* notifications/cancelled of the request's own session.
Cancel(r) ==
    /\ ~pumping
    /\ r \in pending /\ OwnerOf[r] \in members
    /\ \/ /\ r \in dispatched /\ r \notin cancelled /\ ~Fits(1)
          /\ StopNow(TRUE)
       \/ /\ r \in dispatched /\ (r \in cancelled \/ Fits(1))
          /\ cancelled' = cancelled \cup {r}
          /\ Write(IF r \in cancelled THEN 0 ELSE 1)
          /\ replies' = Answer({r} \ settled)
          /\ settled' = settled \cup {r}
          /\ UNCHANGED <<state, sessionVars, queueVars, pending, operations, dispatched,
                         child, killRequested, pumping, linger, flagVars>>
       \/ r \notin dispatched /\ DropQueued(r)

\* DELETE of the session, its init timeout, a duplicate id, an id too many, an
\* invalid message, a full or broken output.  The last may come in the middle
\* of a handler, when send() of an answer fills the output, and so also
\* between two turns of a pump.
SessionEnds(s) == s \in members /\ Detach(s)

-----------------------------------------------------------------------------
(* Timers. *)

\* The timer of a dispatched operation runs on after its cancellation and
\* after its session is gone.
RequestTimeout(r) ==
    /\ ~pumping
    /\ \/ r \in Queued /\ DropQueued(r)
       \/ /\ r \in operations /\ r \notin cancelled /\ ~Fits(1)
          /\ StopNow(TRUE)
       \/ /\ r \in operations /\ (r \in cancelled \/ Fits(1))
          /\ cancelled' = cancelled \cup {r}
          /\ Write(IF r \in cancelled THEN 0 ELSE 1)
          /\ UNCHANGED <<child, killRequested, pumping>>
          /\ IF state = "ready"
               THEN Drain({r} \ settled, TRUE)
               ELSE /\ replies' = Answer({r} \ settled)
                    /\ settled' = settled \cup {r}
                    /\ UNCHANGED <<state, sessionVars, queueVars, pending, operations,
                                   dispatched, linger, flagVars>>

\* Bug: the drain timer waits for the sessions to leave.
DrainTimeoutUnused == ~pumping /\ state = "draining" /\ members = {} /\ StopNow(TRUE)

DrainTimeout == ~pumping /\ state = "draining" /\ StopNow(TRUE)

LingerExpires == ~pumping /\ linger /\ StopNow(FALSE)

-----------------------------------------------------------------------------
Manager == \/ \E s \in Sessions : AcquireStart(s) \/ AcquireResume(s)
           \/ Recycle \/ RemoveGroup

Child == \/ SpawnResolves \/ SpawnUnavailable \/ SpawnRejects
         \/ Initialized \/ ChildFault \/ ChildExits \/ ChildReads \/ Ping
         \/ KillReport
         \/ \E r \in Requests : Response(r)

Client == \/ \E s \in Sessions : ClientInitialize(s) \/ ClientInitialized(s) \/ SessionEnds(s)
          \/ \E r \in Requests : Reject(r) \/ SendNow(r) \/ Enqueue(r) \/ Cancel(r)

Timer == \/ InitTimeout \/ DrainTimeout \/ LingerExpires
         \/ \E r \in Requests : RequestTimeout(r)

Next == Manager \/ Child \/ Client \/ Timer \/ PumpNext

\* Armed timers fire, settled promises resume their callers, a pump runs on,
\* spawn() settles, and a child that was killed exits.  Neither the child nor
\* a client is trusted to do anything else.
Fairness ==
    /\ WF_vars(PumpNext)
    /\ WF_vars(InitTimeout) /\ WF_vars(DrainTimeout) /\ WF_vars(LingerExpires)
    /\ WF_vars(SpawnResolves \/ SpawnUnavailable \/ SpawnRejects)
    /\ WF_vars(killRequested /\ ChildExits)
    /\ \A s \in Sessions : WF_vars(AcquireResume(s))
    /\ \A r \in Requests : WF_vars(RequestTimeout(r))

Spec == Init /\ [][Next]_vars

FairSpec == Spec /\ Fairness

-----------------------------------------------------------------------------
(* Safety. *)

\* No request is answered twice, however its response, its cancellation, its
\* timeout, the end of its session and the end of the group race (settle and
\* childMessage).
AnsweredOnce == \A r \in Requests : Len(replies[r]) <= 1

\* "unsent" is a licence to retry: such a request never reaches the child,
\* then or later (settle, unqueue, dispatch).
UnsentNeverRuns ==
    \A r \in Requests : Contains(replies[r], "unsent") => r \notin dispatched

\* No request of an open session is forgotten: until it is answered it is
\* queued or running, its owner can still cancel it, and its timer can find
\* it; an answered one is in the pending map only while it holds a slot.
NoRequestLost ==
    /\ \A r \in ids : replies[r] = <<>> => r \in Open
    /\ pending = {r \in Queued \cup operations : OwnerOf[r] \in members}
    /\ Open \subseteq pending

\* No queued request waits beside a free slot once the handlers have run:
\* every handler that frees a slot or the stdin buffer pumps.
WorkConserving == ~pumping => ~CanPump

\* The path of an operation through the group, in full: these conjuncts
\* together are inductive.
QueuesTraced ==
    /\ \A s \in Sessions :
         /\ IsInjective(queue[s])
         /\ \A r \in Requests : Contains(queue[s], r) => OwnerOf[r] = s
         /\ Contains(lanes, s) => queue[s] # <<>>
    /\ IsInjective(lanes)
    /\ pumping => lanes # <<>>

SessionsTraced ==
    /\ \A s \in waiters : phase[s] = "none"
    /\ \A s \in members : phase[s] # "none"

OperationsTraced ==
    /\ operations \subseteq dispatched
    /\ Queued \cap (dispatched \cup settled) = {}
    /\ \A r \in Open : OwnerOf[r] \in members /\ replies[r] = <<>>
    /\ \A r \in settled : replies[r] # <<>>

Unasked(r) ==
    /\ r \notin ids
    /\ OwnerOf[r] \in members \/ phase[OwnerOf[r]] = "none"

UnaskedTraced ==
    \A r \in Requests : Unasked(r) =>
       r \notin dispatched /\ r \notin Queued /\ replies[r] = <<>>

RepliesTraced ==
    \A r \in Requests :
       \/ replies[r] = <<>>
       \/ r \in dispatched /\ replies[r] \in {<<"result">>, <<"potentially-executed">>}
       \/ r \notin dispatched /\ replies[r] = <<"unsent">>

\* Every operation has left exactly the traces of where it stands, so that no
\* race between settle, dispatch and a response can answer or send it twice.
Traced == /\ QueuesTraced /\ SessionsTraced /\ OperationsTraced
          /\ UnaskedTraced /\ RepliesTraced

\* The maps a group keeps account for every request of its open sessions, and
\* only a ready group has work it did not send.
PendingAccounted == pending = {r \in Queued \cup operations : OwnerOf[r] \in members}

AskedAccounted ==
    \A r \in ids : OwnerOf[r] \in members /\ (replies[r] = <<>> => r \in Open)

QueuesAccounted == state # "ready" => \A s \in Sessions : queue[s] = <<>>

Accounted == PendingAccounted /\ AskedAccounted /\ QueuesAccounted

-----------------------------------------------------------------------------
(* What a step may never do. *)

\* The end of one session leaves the requests of every other alone, unless
\* the cancellations overflow the child's stdin and stop the group.
SessionsAreApart ==
    \A s \in Sessions : SessionEnds(s) /\ Live' =>
       \A r \in Requests \ Of(s) :
          /\ replies'[r] = replies[r]
          /\ r \in Open <=> r \in Open'
          /\ r \in cancelled <=> r \in cancelled'

\* Round robin: a session waiting in the lanes never falls behind another that
\* was behind it, unless its own turn has come.
Ahead(s, t) == \E i, j \in DOMAIN lanes : i < j /\ lanes[i] = s /\ lanes[j] = t

NoOvertaking ==
    \A s, t \in Sessions :
       /\ Ahead(s, t)
       /\ Contains(lanes', s) /\ Contains(lanes', t)
       => Ahead(s, t)' \/ (pumping /\ s = Head(lanes))

\* No session costs another its work or its turn (detach, enqueue, pump).
EachToItsOwn == [][SessionsAreApart /\ NoOvertaking]_vars

-----------------------------------------------------------------------------
(* Liveness. *)

\* An unresponsive child cannot hold a slot for ever: its request times out
\* and the group drains, stops and is replaced.
SlotsComeBack == \A r \in Requests : r \in operations ~> r \notin operations

-----------------------------------------------------------------------------
(* The group keeps the contract of each request. *)

Life == [r \in Requests |->
           CASE replies[r] # <<>>  -> "over"
             [] replies[r] = <<>> /\ r \in operations -> "running"
             [] replies[r] = <<>> /\ r \in Queued     -> "waiting"
             [] OTHER -> "new"]

Contract == INSTANCE RequestContract WITH life <- Life, ran <- dispatched

\* Every step of the group is a step that the contract allows each request: it
\* runs at most once, is answered at most once and truthfully, and stays so.
KeepsContract == Contract!Spec

-----------------------------------------------------------------------------
(* Seen from the manager, the group lives the life of one generation.       *)

Lifecycle == INSTANCE GroupLifecycle
               WITH used <- members \cup waiters # {}, busy <- operations # {}

\* A generation moves forward only, drains only with work left, and dies with
\* its process.
LivesOnce == Lifecycle!Spec
=============================================================================

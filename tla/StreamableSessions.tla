-------------------------- MODULE StreamableSessions --------------------------
(***************************************************************************)
(* The Streamable HTTP sessions of one server of the bridge                *)
(* (bin/mcp-bridge.mjs), each with a process of its own: admission under   *)
(* maxSessions, the start of a process, requests and their answers, resume *)
(* of an id whose process is gone, the idle reaper, DELETE, recycling and  *)
(* configuration reload.                                                   *)
(*                                                                         *)
(* A step is one callback of the event loop: a handler up to its first     *)
(* await.  What follows an await on a settled promise is a step of its own *)
(* too, but runs before any other callback: see Settled.                   *)
(*                                                                         *)
(* The definition is sharing "isolated": the warm pool is empty, and a     *)
(* start waits for nothing, or for the spawn gate, which always opens.     *)
(* A POST carries one request, whose JSON-RPC id nobody else uses.  Time   *)
(* is left out: an armed timer may fire at any moment.                     *)
(***************************************************************************)
EXTENDS Integers, FiniteSets, Sequences, SequencesExt

CONSTANTS
    Posts,         \* POST requests in flight at once; each may come again
    Sids,          \* session ids; one that nothing refers to is new again
    Children,      \* processes; one that has exited is new again
    None,          \* no session id, no child
    Cap,           \* maxSessions, 0 for no limit
    SpawnMayFail   \* whether spawn() may report an error

ASSUME SessionsAssumption ==
    /\ IsFiniteSet(Posts) /\ IsFiniteSet(Sids) /\ IsFiniteSet(Children)
    /\ None \notin Sids \cup Children
    /\ Cap \in Nat
    /\ SpawnMayFail \in BOOLEAN

VARIABLES
    httpSessions,      \* the child of each id's session
    child,             \* the processes
    startingSessions,  \* reservations
    waiters,           \* callers of awaitSlot(), oldest first
    resumable,         \* the record of each id, 0 if none
    resuming,          \* the record each running restore was given, 0 if none
    post,              \* the POST handlers
    known,             \* ids some client has been told
    deleted            \* ids a client has deleted (history)

vars == <<httpSessions, child, startingSessions, waiters, resumable, resuming,
          post, known, deleted>>

-----------------------------------------------------------------------------
(* State. *)

\* A "new" process may yet fail to spawn; a "failed" one never exits.
ChildStates == {"free", "new", "running", "killed", "failed"}

\* Who killed it.
Killers == {"none", "recycle", "reap", "delete", "resume"}

\* "waiting" in awaitSlot(), at the "gate", "joined" to another's restore, in
\* the "handshake" of its own, its request "pending"; the others are Settled.
Phases == {"idle", "waiting", "admitted", "gate", "joined", "handshake",
           "serve", "nosession", "abandon", "pending"}

NoChild == [state |-> "free", sid |-> None, by |-> "none", spared |-> FALSE]

\* old: the definition was replaced since this handler read it.
NoPost == [pc |-> "idle", init |-> FALSE, sid |-> None, child |-> None, old |-> FALSE]

\* Every variable has its type.
TypeOK ==
    /\ httpSessions \in [Sids -> Children \cup {None}]
    /\ child \in [Children -> [state : ChildStates, sid : Sids \cup {None}, by : Killers,
                               spared : BOOLEAN]]
    /\ startingSessions \in Nat
    /\ waiters \in Seq(Posts)
    /\ resumable \in [Sids -> 0..2] /\ resuming \in [Sids -> 0..2]
    /\ post \in [Posts -> [pc : Phases, init : BOOLEAN, sid : Sids \cup {None},
                           child : Children \cup {None}, old : BOOLEAN]]
    /\ known \subseteq Sids /\ deleted \subseteq Sids

Init ==
    /\ httpSessions = [s \in Sids |-> None]
    /\ child = [c \in Children |-> NoChild]
    /\ startingSessions = 0
    /\ waiters = <<>>
    /\ resumable = [s \in Sids |-> 0]
    /\ resuming = [s \in Sids |-> 0]
    /\ post = [p \in Posts |-> NoPost]
    /\ known = {} /\ deleted = {}

\* session.pending of a child's session.
PendingOn(c) == {p \in Posts : post[p].pc \in {"pending", "handshake"} /\ post[p].child = c}
Busy(c) == PendingOn(c) # {}

SessionCount(sessions) == Cardinality({s \in Sids : sessions[s] # None})

\* The promise the handler awaits has settled: it goes on before the event
\* loop takes another callback.
Settled(p) == post[p].pc \in {"admitted", "serve", "nosession", "abandon"}
Quiet == \A p \in Posts : ~Settled(p)

\* The handler runs startAdmittedSession() or restoreSession() for an id of
\* its own, not for a new one.
Restoring(p) ==
    /\ post[p].pc \in {"waiting", "admitted", "gate", "handshake", "abandon"}
    /\ post[p].sid # None

\* Bug: those who joined are not told.
SharersForgotten(p) == {p}

\* The handlers that await what handler p started.
Sharers(p) ==
    {p} \cup {q \in Posts : Restoring(p) /\ post[q].pc = "joined" /\ post[q].sid = post[p].sid}

\* stillWanted() of a restore: the record has not been replaced.
RecordKept(p) == resumable[post[p].sid] = resuming[post[p].sid]

\* The end of restoreSession(): resuming.delete().
NoLongerResuming(p) ==
    resuming' = IF Restoring(p) THEN [resuming EXCEPT ![post[p].sid] = 0] ELSE resuming

-----------------------------------------------------------------------------
(* Slots. *)

\* reserveSession() succeeds.
HasSlot(sessions, starting) == SessionCount(sessions) + starting < Cap

\* Bug: nobody is told.
SlotUntold(sessions, starting, posts) ==
    /\ httpSessions' = sessions /\ startingSessions' = starting /\ post' = posts
    /\ UNCHANGED waiters

\* slotFreed(), once httpSessions, the reservations and the handlers are as
\* given: the oldest waiter takes the slot if there is one.
SlotFreed(sessions, starting, posts) ==
    LET admit == waiters # <<>> /\ HasSlot(sessions, starting)
    IN  /\ httpSessions' = sessions
        /\ startingSessions' = starting + (IF admit THEN 1 ELSE 0)
        /\ waiters' = IF admit THEN Tail(waiters) ELSE waiters
        /\ post' = IF admit THEN [posts EXCEPT ![Head(waiters)].pc = "admitted"] ELSE posts

\* Bug: the reservation is kept.
Unreleased == startingSessions

\* releaseSessionReservation() up to slotFreed().
Released == IF Cap > 0 THEN startingSessions - 1 ELSE startingSessions

\* startAdmittedSession() up to its first await, for an id or for none.
Admit(p, starts, s) ==
    LET reserves == Cap > 0 /\ HasSlot(httpSessions, startingSessions)
        passes == Cap = 0 \/ reserves
    IN  /\ startingSessions' = startingSessions + (IF reserves THEN 1 ELSE 0)
        /\ waiters' = IF passes THEN waiters ELSE Append(waiters, p)
        /\ post' = [post EXCEPT ![p] = [post[p] EXCEPT
                                          !.pc = IF passes THEN "admitted" ELSE "waiting",
                                          !.init = starts, !.sid = s, !.old = FALSE]]

-----------------------------------------------------------------------------
(* Processes. *)

\* killTree(): a process that has exited, or never was, is left alone.
Killed(processes, c, who) ==
    IF c # None /\ processes[c].state \in {"new", "running", "killed"}
      THEN [processes EXCEPT ![c].state = "killed", ![c].by = who]
      ELSE processes

\* Neither a process nor a session object of this name is left.
Available(c) ==
    \/ child[c].state = "free"
    \/ /\ child[c].state = "failed"
       /\ \A s \in Sids : httpSessions[s] # c
       /\ \A p \in Posts : post[p].child # c

\* An id that nothing but a record refers to, which is then past its time: the
\* bound on ids is one on records.
Fresh(s) ==
    /\ httpSessions[s] = None
    /\ \A c \in Children : child[c].sid # s
    /\ \A p \in Posts : post[p].sid # s

\* startStreamableChild() and the release of the reservation.  A new session
\* gets its request at once, a restored one the handshake.
StartChild(p) ==
    \E c \in Children, s \in Sids :
        /\ Available(c)
        /\ IF Restoring(p) THEN s = post[p].sid ELSE Fresh(s)
        /\ child' = [child EXCEPT ![c] = [NoChild EXCEPT !.state = "new", !.sid = s]]
        /\ SlotFreed([httpSessions EXCEPT ![s] = c], Released,
               [post EXCEPT ![p].pc = IF Restoring(p) THEN "handshake" ELSE "pending",
                            ![p].sid = s, ![p].child = c, ![p].old = FALSE])
        /\ known' = IF Restoring(p) THEN known ELSE known \ {s}
        /\ deleted' = IF Restoring(p) THEN deleted ELSE deleted \ {s}
        /\ resumable' = IF Restoring(p) THEN resumable ELSE [resumable EXCEPT ![s] = 0]
        /\ UNCHANGED resuming

\* startAdmittedSession() throws: 409.
Throws(p) ==
    /\ SlotFreed(httpSessions, Released,
           [q \in Posts |-> IF q \in Sharers(p) THEN NoPost ELSE post[q]])
    /\ NoLongerResuming(p)
    /\ UNCHANGED <<child, resumable, known, deleted>>

\* startAdmittedSession() returns null.
ReturnsNull(p) ==
    /\ SlotFreed(httpSessions, Released,
           [q \in Posts |-> IF q \notin Sharers(p) THEN post[q]
                            ELSE IF Restoring(p) THEN [post[q] EXCEPT !.pc = "nosession",
                                                                      !.old = FALSE]
                            ELSE NoPost])
    /\ NoLongerResuming(p)
    /\ UNCHANGED <<child, resumable, known, deleted>>

\* The checks of startAdmittedSession() after each of its awaits.  The client
\* of a new session is there or has gone away.
Checked(p, go) ==
    IF post[p].old THEN Throws(p)
    ELSE \/ (Restoring(p) => ~RecordKept(p)) /\ ReturnsNull(p)
         \/ (Restoring(p) => RecordKept(p)) /\ go

-----------------------------------------------------------------------------
(* Requests. *)

\* A body has arrived.  One that is refused at its end changes nothing and is
\* no step: too large, not a request, for a definition replaced meanwhile, or
\* for an id that was never given.
Accepts(p) == post[p].pc = "idle"

\* An initialize without an id.
NewSession(p) ==
    /\ Accepts(p)
    /\ Admit(p, TRUE, None)
    /\ UNCHANGED <<httpSessions, child, resumable, resuming, known, deleted>>

\* A request for a session that is there is written to its process.
Request(p, starts, s) ==
    /\ Accepts(p)
    /\ httpSessions[s] # None /\ resuming[s] = 0
    /\ post' = [post EXCEPT ![p] = [post[p] EXCEPT !.pc = "pending", !.init = starts, !.sid = s,
                                             !.child = httpSessions[s]]]
    /\ UNCHANGED <<httpSessions, child, startingSessions, waiters, resumable, resuming,
                   known, deleted>>

\* resumeSession() finds no record, or one past its time.
CannotResume(p, starts, s) ==
    /\ Accepts(p)
    /\ httpSessions[s] = None \/ resuming[s] # 0
    /\ resumable[s] = 0 \/ resuming[s] = 0
    /\ resumable' = [resumable EXCEPT ![s] = 0]
    /\ post' = [post EXCEPT ![p] = [post[p] EXCEPT !.pc = "nosession", !.init = starts, !.sid = s]]
    /\ UNCHANGED <<httpSessions, child, startingSessions, waiters, resuming, known, deleted>>

\* resumeSession() awaits the restore that is running.
Join(p, starts, s) ==
    /\ Accepts(p)
    /\ resumable[s] # 0 /\ resuming[s] # 0
    /\ post' = [post EXCEPT ![p] = [post[p] EXCEPT !.pc = "joined", !.init = starts, !.sid = s]]
    /\ UNCHANGED <<httpSessions, child, startingSessions, waiters, resumable, resuming,
                   known, deleted>>

\* resumeSession() begins to restore the session.
Restore(p, starts, s) ==
    /\ Accepts(p)
    /\ httpSessions[s] = None /\ resumable[s] # 0 /\ resuming[s] = 0
    /\ resuming' = [resuming EXCEPT ![s] = resumable[s]]
    /\ Admit(p, starts, s)
    /\ UNCHANGED <<httpSessions, child, resumable, known, deleted>>

\* The slot is there.  A definition that shares no package cache needs no gate.
Admitted(p) ==
    /\ post[p].pc = "admitted"
    /\ Checked(p,
        \/ /\ post' = [post EXCEPT ![p].pc = "gate"]
           /\ UNCHANGED <<httpSessions, child, startingSessions, waiters, resumable,
                          resuming, known, deleted>>
        \/ StartChild(p))

\* acquireSpawn() is granted, or waited long enough.
GateOpens(p) ==
    /\ post[p].pc = "gate"
    /\ Checked(p, StartChild(p))

\* QUEUE_TIMEOUT_MS: 503.
WaitTimeout(p) ==
    /\ post[p].pc = "waiting"
    /\ \E i \in DOMAIN waiters : waiters[i] = p /\ waiters' = RemoveAt(waiters, i)
    /\ post' = [q \in Posts |-> IF q \in Sharers(p) THEN NoPost ELSE post[q]]
    /\ NoLongerResuming(p)
    /\ UNCHANGED <<httpSessions, child, startingSessions, resumable, known, deleted>>

\* The restored session takes the request.
Serve(p) ==
    /\ post[p].pc = "serve"
    /\ post' = [post EXCEPT ![p].pc = "pending"]
    /\ UNCHANGED <<httpSessions, child, startingSessions, waiters, resumable, resuming,
                   known, deleted>>

\* resumeSession() gave null: 404, or a new session for an initialize.
NoSession(p) ==
    /\ post[p].pc = "nosession"
    /\ IF post[p].init
          THEN Admit(p, TRUE, None)
          ELSE post' = [post EXCEPT ![p] = NoPost] /\ UNCHANGED <<startingSessions, waiters>>
    /\ UNCHANGED <<httpSessions, child, resumable, resuming, known, deleted>>

\* 502, or null when the record is not the same.
GivenUp(p, q) ==
    IF RecordKept(p) THEN NoPost ELSE [post[q] EXCEPT !.pc = "nosession", !.child = None]

\* restoreSession() gives up.
Abandon(p) ==
    LET c == post[p].child
        s == post[p].sid
    IN  /\ post[p].pc = "abandon"
        /\ child' = Killed(child, c, "resume")
        /\ SlotFreed(IF c # None /\ httpSessions[s] = c
                       THEN [httpSessions EXCEPT ![s] = None] ELSE httpSessions,
               startingSessions,
               [q \in Posts |-> IF q \in Sharers(p) THEN GivenUp(p, q) ELSE post[q]])
        /\ NoLongerResuming(p)
        /\ UNCHANGED <<resumable, known, deleted>>

-----------------------------------------------------------------------------
(* Answers. *)

\* The clients that are still there read the session id in their answers.
Told(ps) == \E qs \in SUBSET ps : known' = known \cup {post[q].sid : q \in qs}

\* A record unlike the one a restore of this id was given.
NewRecord(s) == IF resuming[s] = 1 THEN 2 ELSE 1

\* The process answers a request; the answer to an initialize may be an error.
Answer(p) ==
    /\ post[p].pc = "pending"
    /\ child[post[p].child].state \in {"running", "killed"}
    /\ post' = [post EXCEPT ![p] = NoPost]
    /\ Told({p})
    /\ \/ UNCHANGED resumable
       \/ /\ post[p].init   \* rememberSession(), with pruneResumable()
          /\ \E expired \in SUBSET Sids :
                resumable' = [s \in Sids |-> IF s = post[p].sid THEN NewRecord(s)
                                             ELSE IF s \in expired THEN 0 ELSE resumable[s]]
    /\ UNCHANGED <<httpSessions, child, startingSessions, waiters, resuming, deleted>>

\* The process answers the replayed initialize.
Handshake(p) ==
    /\ post[p].pc = "handshake"
    /\ child[post[p].child].state \in {"running", "killed"}
    /\ \/ /\ RecordKept(p)
          /\ post' = [q \in Posts |->
                        IF q \in Sharers(p)
                          THEN [post[q] EXCEPT !.pc = "serve", !.child = post[p].child]
                          ELSE post[q]]
          /\ NoLongerResuming(p)
       \/ /\ post' = [post EXCEPT ![p].pc = "abandon"]
          /\ UNCHANGED resuming
    /\ UNCHANGED <<httpSessions, child, startingSessions, waiters, resumable, known, deleted>>

\* REQUEST_TIMEOUT_MS or INIT_TIMEOUT_MS.
Timeout(p) ==
    /\ post[p].pc \in {"pending", "handshake"}
    /\ IF post[p].pc = "pending"
          THEN post' = [post EXCEPT ![p] = NoPost] /\ Told({p})
          ELSE post' = [post EXCEPT ![p].pc = "abandon"] /\ UNCHANGED known
    /\ UNCHANGED <<httpSessions, child, startingSessions, waiters, resumable, resuming, deleted>>

-----------------------------------------------------------------------------
(* The life of a process. *)

Spawns(c) ==
    /\ child[c].state = "new"
    /\ child' = [child EXCEPT ![c].state = "running"]
    /\ UNCHANGED <<httpSessions, startingSessions, waiters, resumable, resuming, post,
                   known, deleted>>

\* An 'error' instead of a 'spawn': it is logged, and no 'exit' follows.
SpawnFails(c) ==
    /\ SpawnMayFail
    /\ child[c].state = "new"
    /\ child' = [child EXCEPT ![c].state = "failed", ![c].sid = None, ![c].spared = FALSE]
    /\ UNCHANGED <<httpSessions, startingSessions, waiters, resumable, resuming, post,
                   known, deleted>>

\* Bug: whatever session the id has now is dropped.
Unmapped(c) == [httpSessions EXCEPT ![child[c].sid] = None]

\* The id's session is dropped if it is still the one of this process.
Without(c) ==
    [s \in Sids |-> IF httpSessions[s] = c THEN None ELSE httpSessions[s]]

\* 'exit': the requests in flight fail at once.
Exit(c) ==
    /\ child[c].state \in {"running", "killed"}
    /\ child' = [child EXCEPT ![c] = NoChild]
    /\ SlotFreed(Without(c), startingSessions,
           [p \in Posts |-> IF p \notin PendingOn(c) THEN post[p]
                            ELSE IF post[p].pc = "pending" THEN NoPost
                            ELSE [post[p] EXCEPT !.pc = "abandon", !.child = None]])
    /\ Told({p \in PendingOn(c) : post[p].pc = "pending"})
    /\ UNCHANGED <<resumable, resuming, deleted>>

\* The idle reaper takes a session without requests in flight.  It leaves the
\* news of the free slot to the exit of the process.
Reap(s) ==
    /\ httpSessions[s] # None /\ ~Busy(httpSessions[s])
    /\ child' = Killed(child, httpSessions[s], "reap")
    /\ httpSessions' = [httpSessions EXCEPT ![s] = None]
    /\ UNCHANGED <<startingSessions, waiters, resumable, resuming, post, known, deleted>>

\* DELETE, with forgetSession().
Delete(s) ==
    /\ IF httpSessions[s] # None
          THEN SlotFreed([httpSessions EXCEPT ![s] = None], startingSessions, post)
          ELSE UNCHANGED <<httpSessions, startingSessions, waiters, post>>
    /\ child' = Killed(child, httpSessions[s], "delete")
    /\ resumable' = [resumable EXCEPT ![s] = 0]
    /\ deleted' = deleted \cup {s}
    /\ UNCHANGED <<resuming, known>>

\* recycleServer(): sessions with requests in flight are spared.
Recycled ==
    [c \in Children |->
        IF \A s \in Sids : httpSessions[s] # c THEN child[c]
        ELSE IF Busy(c) THEN [child[c] EXCEPT !.spared = child[c].state \in {"new", "running"}]
        ELSE Killed(child, c, "recycle")[c]]

\* A recycle on schedule or on request.
Recycle ==
    /\ child' = Recycled
    /\ UNCHANGED <<httpSessions, startingSessions, waiters, resumable, resuming, post,
                   known, deleted>>

\* applyConfig() with a new definition; one that differs in pooling policy
\* alone does not recycle.
Reload ==
    /\ child' = Recycled \/ UNCHANGED child
    /\ post' = [p \in Posts |->
                  [post[p] EXCEPT !.old = @ \/ post[p].pc \in {"waiting", "gate"}]]
    /\ UNCHANGED <<httpSessions, startingSessions, waiters, resumable, resuming, known, deleted>>

\* The bridge ends and is started again: sessions.json is all that is left.
Restart ==
    /\ httpSessions' = [s \in Sids |-> None]
    /\ child' = [c \in Children |-> NoChild]
    /\ startingSessions' = 0 /\ waiters' = <<>>
    /\ resuming' = [s \in Sids |-> 0]
    /\ post' = [p \in Posts |-> NoPost]
    /\ \E expired \in SUBSET Sids :
          resumable' = [s \in Sids |-> IF s \in expired THEN 0 ELSE resumable[s]]
    /\ UNCHANGED <<known, deleted>>

-----------------------------------------------------------------------------
(* The specification. *)

Microtask(p) == Admitted(p) \/ Serve(p) \/ NoSession(p) \/ Abandon(p)

Body(p) ==
    \/ NewSession(p)
    \/ \E s \in known, starts \in BOOLEAN :
          Request(p, starts, s) \/ CannotResume(p, starts, s) \/ Join(p, starts, s)
            \/ Restore(p, starts, s)

Handler(p) ==
    \/ Body(p) \/ Answer(p) \/ Handshake(p)
    \/ GateOpens(p) \/ WaitTimeout(p) \/ Timeout(p)

Process(c) == Spawns(c) \/ SpawnFails(c) \/ Exit(c)

Callback ==
    \/ \E p \in Posts : Handler(p)
    \/ \E c \in Children : Process(c)
    \/ \E s \in Sids : Reap(s)
    \/ \E s \in known : Delete(s)
    \/ Recycle \/ Reload \/ Restart

Next ==
    \/ \E p \in Posts : Microtask(p)
    \/ Quiet /\ Callback

Spec == Init /\ [][Next]_vars

\* Armed timers fire, the gate opens, and a process that was killed exits.
\* Nothing else is asked of processes, and nothing of clients.  Only the gate
\* needs strong fairness: to start a process the model may lack a free one.
Fairness ==
    /\ \A p \in Posts :
         /\ WF_vars(Microtask(p) \/ WaitTimeout(p) \/ Timeout(p))
         /\ SF_vars(Quiet /\ GateOpens(p))
    /\ \A c \in Children : WF_vars(child[c].state = "killed" /\ Exit(c))

FairSpec == Spec /\ Fairness

-----------------------------------------------------------------------------
(* Safety. *)

\* A capped server never has more sessions, counting those that are starting,
\* than maxSessions, although slots are counted, reserved and awaited apart.
WithinCap == Cap > 0 => SessionCount(httpSessions) + startingSessions <= Cap

\* Each reservation belongs to one handler on its way to a session, and each
\* handler in awaitSlot() is queued once: neither a refusal, a reload nor a
\* client that goes away leaks a slot.
SlotsAccountedFor ==
    /\ WithinCap
    /\ Cap > 0 =>
         startingSessions = Cardinality({p \in Posts : post[p].pc \in {"admitted", "gate"} })
    /\ \A p \in Posts :
         Cardinality({i \in DOMAIN waiters : waiters[i] = p}) =
             IF post[p].pc = "waiting" THEN 1 ELSE 0

\* No wakeup is lost: a caller is kept waiting beside a free slot only until
\* the process of a reaped session exits, whose exit tells it.
QueuedOnlyWhenFull ==
    waiters # <<>> =>
        Cap <= SessionCount(httpSessions) + startingSessions +
               Cardinality({c \in Children : child[c].state = "killed" /\ child[c].by = "reap"})

\* No process is left behind: one that nobody has killed is reached by the id
\* it was started for, whatever resumed, was deleted or exited late.
NoOrphans ==
    \A c \in Children :
        child[c].state \in {"new", "running"} =>
            {s \in Sids : httpSessions[s] = c} = {child[c].sid}

\* One restore runs for an id at a time, and whoever has joined one is heard
\* when it ends.
OneRestore ==
    /\ \A p, q \in Posts :
         Restoring(p) /\ Restoring(q) /\ post[p].sid = post[q].sid => p = q
    /\ \A q \in Posts :
         post[q].pc = "joined" => \E p \in Posts : Restoring(p) /\ q \in Sharers(p)

\* The idle reaper never takes the process away from under a request.
ReapIsHarmless ==
    \A p \in Posts :
        post[p].pc \in {"pending", "handshake"} => child[post[p].child].by # "reap"

\* An id and its process stay together through resumes, reaps, reloads and late
\* exits, and with whoever uses them.
SessionsKept == SlotsAccountedFor /\ NoOrphans /\ OneRestore /\ ReapIsHarmless

\* Every handler comes to an end, whatever clients and processes do.
EveryRequestEnds ==
    \A p \in Posts : post[p].pc # "idle" ~> post[p].pc = "idle"

-----------------------------------------------------------------------------
(* What comments of the code promise, and the code does not keep. *)

Written(p) ==
    /\ post[p].pc \in {"idle", "serve"} /\ post'[p].pc = "pending"

\* A session that a recycle has spared gets a new process on its next request,
\* once it is idle.
RenewedOnNextRequest ==
    [][\A p \in Posts : Written(p) =>
        Busy(post'[p].child) \/ ~child[post'[p].child].spared]_vars

\* A recycle is invisible to clients: no request is written to a process that
\* a recycle has killed.
RecycleInvisible ==
    [][\A p \in Posts : Written(p) =>
        ~(child[post'[p].child].state = "killed" /\ child[post'[p].child].by = "recycle")]_vars

\* A DELETE is final.
DeleteIsFinal == \A s \in deleted : httpSessions[s] = None /\ resumable[s] = 0

\* A request in flight fails at once when its process is dead.
DeadProcessFailsAtOnce ==
    \A p \in Posts :
        post[p].pc \in {"pending", "handshake"} => child[post[p].child].state # "failed"
===============================================================================

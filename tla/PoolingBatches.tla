---------------------------- MODULE PoolingBatches ----------------------------
(***************************************************************************)
(* Changes of the pooling settings, from the request to the configuration: *)
(* PoolingBatches (bin/pooling-batches.mjs), its PoolingBatchScheduler     *)
(* and PoolingConfigWriter on the main thread, the worker of               *)
(* bin/pooling-writer.mjs, and the PoolingExecution that both share.       *)
(*                                                                         *)
(* The main thread runs one job of its queue at a time, and handles        *)
(* timers, aborts and messages while that job waits for the worker.  The   *)
(* worker takes one call at a time.  All they share is one integer for     *)
(* each call (exec).  The store of the worker is abstract, a pending batch *)
(* and what was applied; it ends a commit as PoolingStore says.  A change  *)
(* is named by the request that asked for it.  A history (left) holds the  *)
(* changes that were given up and that a rejection did not take back.      *)
(***************************************************************************)
EXTENDS Integers, Sequences, FiniteSets

CONSTANTS
    None,
    Settings,    \* what a request may ask for
    Cancel,      \* the request that cancels the pending batch
    MaxRequests, \* bound: requests
    MaxCalls,    \* bound: calls of the worker
    MaxDeaths    \* bound: 1 if the worker may die

\* null is no answer, number or batch.
ASSUME BatchesAssumption ==
    /\ None \notin {"not-committed", "committed", "unknown", "ok", "failed"}
    /\ None \notin Nat
    /\ None \notin [batch : Nat, gen : Nat, reqs : SUBSET Nat]

VARIABLES
    main,   \* the main thread
    call,   \* the calls of the writer, each with its exec
    inbox,  \* messages to the worker
    outbox, \* messages from the worker
    worker, \* the call the worker is in, and how far
    store,  \* the store: its pending batch, the last publication, what is applied
    closed, \* close() was called
    refused \* history: requests of batches that were reported as not committed

vars == <<main, call, inbox, outbox, worker, store, closed, refused>>

\* The states of a PoolingExecution.
ACTIVE == 0
CANCELLED == 1
EXPIRED == 2
COMMITTING == 3
FINISHED == 4
FINISHED_LATE == 5
FINISHED_COMMITTED == 6

NoWork == [id |-> None, at |-> "idle", result |-> None]
Dead == [id |-> None, at |-> "dead", result |-> None]

\* main: the requests; the jobs (#tail), of which the first one waits for a
\* call; the pending and the applied batch; the records; the generation that
\* the scheduler holds and the one that runs; the writer has failed.
Init ==
    /\ main = [req |-> <<>>, queue |-> <<>>, waiting |-> None, pending |-> None,
               applying |-> None, record |-> [b \in {} |-> None],
               scheduled |-> None, running |-> None, failed |-> FALSE]
    /\ call = <<>> /\ inbox = <<>> /\ outbox = <<>> /\ worker = NoWork
    /\ store = [pending |-> None, prior |-> None, published |-> None, gen |-> 0,
                applied |-> {}, version |-> 0, left |-> {}]
    /\ closed = FALSE /\ refused = {}

-----------------------------------------------------------------------------
(* PoolingExecution. *)

\* check(): a deadline that has passed is entered, and the call may not go on.
Checked(c) == IF c.exec = ACTIVE /\ c.due THEN [c EXCEPT !.exec = EXPIRED] ELSE c
Stopped(c) == Checked(c).exec \in {CANCELLED, EXPIRED}

\* cancel(): what the main thread may answer; None if an answer is on its way.
CancelTo(c, expired) ==
    IF c.exec = ACTIVE THEN [c EXCEPT !.exec = IF expired THEN EXPIRED ELSE CANCELLED] ELSE c

\* Bug: a commit that has begun is answered as if it had not.
HastyAnswer(c) ==
    CASE c.exec \in {FINISHED, FINISHED_COMMITTED} -> None
      [] c.exec = FINISHED_LATE -> "committed"
      [] OTHER -> "not-committed"

CancelAnswer(c) ==
    CASE c.exec \in {FINISHED, FINISHED_COMMITTED} -> None
      [] c.exec = FINISHED_LATE -> "committed"
      [] c.exec = COMMITTING -> "unknown"
      [] OTHER -> "not-committed"

Completed(c) == [c EXCEPT !.exec = IF c.due THEN FINISHED_LATE ELSE FINISHED_COMMITTED]

\* fail(), after the store has thrown.
FailTo(c, state) ==
    CASE state = "unknown" -> [c EXCEPT !.exec = COMMITTING]
      [] state = "committed" -> Completed(c)
      [] OTHER -> [c EXCEPT !.exec = FINISHED]

\* workerFailure(): what is known of a call whose worker has died.
WorkerFailure(c) ==
    CASE c.exec \in {FINISHED_LATE, FINISHED_COMMITTED} -> "committed"
      [] c.exec = COMMITTING -> "unknown"
      [] OTHER -> "not-committed"

-----------------------------------------------------------------------------
(* Batches: what the end of a call does to the main thread m. *)

Job(kind, arg) == [kind |-> kind, arg |-> arg]
Later(m, job) == [m EXCEPT !.queue = Append(@, job)]
Pop(m) == [m EXCEPT !.queue = Tail(@), !.waiting = None]
Answered(m, r, what) == [m EXCEPT !.req[r].answer = what]

\* #cancelledBatch().
Dropped(m, batch) ==
    LET mine == m.pending # None /\ m.pending.batch = batch IN
    [m EXCEPT !.pending = IF mine THEN None ELSE @,
              !.scheduled = IF mine THEN None ELSE @,
              !.record = [b \in DOMAIN @ |->
                            IF b = batch THEN [@[b] EXCEPT !.status = "cancelled"] ELSE @[b]]]

\* #failedCommit(): an outcome in doubt is compared with the configuration.
Reconciled(batch, state) ==
    IF state # "not-committed" /\ batch.reqs \subseteq store.applied THEN "committed" ELSE state

Recorded(m, batch, status, state) ==
    [m EXCEPT !.record = [b \in DOMAIN @ \cup {batch.batch} |->
        IF b = batch.batch THEN [status |-> status, state |-> state, reqs |-> batch.reqs]
        ELSE @[b]]]

FailedCommit(m, batch, state) == Recorded(m, batch, "failed", Reconciled(batch, state))

\* stage(), when its call has ended.
StageEnds(m, r, a) ==
    LET batch == [batch |-> a.batch, gen |-> a.gen, reqs |-> a.reqs, version |-> store.version]
        dropped == IF a.cancelled = None THEN m ELSE Dropped(m, a.cancelled)
        kept == Recorded([m EXCEPT !.pending = batch,
                                   !.scheduled = IF a.accepted THEN a.gen ELSE @],
                         batch, "pending", None)
    IN  CASE a.error # None -> Answered(Pop(dropped), r, "failed")
          [] a.error = None /\ closed -> Answered(Pop(m), r, "failed")
          [] OTHER -> Answered(Pop(IF a.pending THEN kept ELSE dropped), r, "ok")

\* #commit(), when its call has ended; the scheduler rests.
CommitEnds(m, a) ==
    [Pop(IF a.error = None THEN Recorded(m, m.applying, "applied", "committed")
         ELSE FailedCommit(m, m.applying, a.error))
       EXCEPT !.applying = None, !.running = None]

\* #settle(), for the job that waits for call i, if it still does.
Settle(m, i, a) ==
    IF m.waiting # i THEN m
    ELSE IF Head(m.queue).kind = "stage" THEN StageEnds(m, Head(m.queue).arg, a)
    ELSE CommitEnds(m, a)

Error(state) == [error |-> state, cancelled |-> None, pending |-> FALSE,
                 accepted |-> FALSE, batch |-> None, gen |-> None, reqs |-> {}]
CancelledWith(batch) == [Error("not-committed") EXCEPT !.cancelled = batch]

\* #lateSettlement(): what a caller was not told goes through the queue.
LateCommit(c, state) == Job("lateCommit", [batch |-> c.arg, state |-> state])
Late(m, c, a) ==
    CASE c.method = "stage" /\ a.cancelled # None -> Later(m, Job("lateStage", a.cancelled))
      [] c.method = "commit" ->
           Later(m, LateCommit(c, IF a.error = None THEN "committed" ELSE a.error))
      [] OTHER -> m

-----------------------------------------------------------------------------
(* The main thread: requests and jobs. *)

\* Microtasks run before events: a job begins before anything else is handled.
Idle == main.queue = <<>> \/ main.waiting # None
Begins(kind) == main.queue # <<>> /\ main.waiting = None /\ Head(main.queue).kind = kind

NewCall(method, arg) ==
    [method |-> method, arg |-> arg, exec |-> ACTIVE, due |-> FALSE, settled |-> FALSE,
     open |-> TRUE, told |-> None, done |-> FALSE]

\* #send(), and the job that waits for its answer.
Sends(method, arg) ==
    /\ Len(call) < MaxCalls
    /\ call' = Append(call, NewCall(method, arg))
    /\ inbox' = Append(inbox, Len(call) + 1)

Request(what) ==
    /\ Idle /\ ~closed /\ Len(main.req) < MaxRequests
    /\ main' = Later([main EXCEPT !.req = Append(@,
                        [what |-> what, version |-> store.version, during |-> main.applying,
                         aborted |-> FALSE, answer |-> None])],
                     Job("stage", Len(main.req) + 1))
    /\ UNCHANGED <<call, inbox, outbox, worker, store, closed, refused>>

\* A request that arrived while a batch was applied is made of what it became.
VersionOf(r) ==
    LET q == main.req[r] IN
    IF /\ q.during # None /\ q.what # Cancel /\ q.version = q.during.version
       /\ q.during.batch \in DOMAIN main.record
       /\ main.record[q.during.batch].state = "committed"
    THEN q.version + 1 ELSE q.version

StageJob ==
    LET r == Head(main.queue).arg IN
    /\ Begins("stage")
    /\ IF closed \/ main.failed \/ main.req[r].aborted
         THEN main' = Answered(Pop(main), r, "failed") /\ UNCHANGED <<call, inbox>>
         ELSE /\ Sends("stage", [r |-> r, version |-> VersionOf(r)])
              /\ main' = [main EXCEPT !.waiting = Len(call) + 1]
    /\ UNCHANGED <<outbox, worker, store, closed, refused>>

\* #commit(): of the generation that is still pending.
CommitJob ==
    LET b == main.pending
        begun == [Recorded(main, b, "applying", None) EXCEPT !.pending = None, !.applying = b]
    IN
    /\ Begins("commit")
    /\ IF closed \/ b = None \/ (b # None /\ b.gen # Head(main.queue).arg)
         THEN main' = [Pop(main) EXCEPT !.running = None] /\ UNCHANGED <<call, inbox>>
       ELSE IF main.failed
         THEN main' = CommitEnds(begun, Error("not-committed")) /\ UNCHANGED <<call, inbox>>
       ELSE Sends("commit", b) /\ main' = [begun EXCEPT !.waiting = Len(call) + 1]
    /\ UNCHANGED <<outbox, worker, store, closed, refused>>

LateJob ==
    LET j == Head(main.queue) IN
    /\ Begins("lateStage") \/ Begins("lateCommit")
    /\ main' = Pop(IF j.kind = "lateStage" THEN Dropped(main, j.arg)
                   ELSE FailedCommit(main, j.arg.batch, j.arg.state))
    /\ UNCHANGED <<call, inbox, outbox, worker, store, closed, refused>>

\* The timer of five seconds, or reloadNow().
StartReload ==
    /\ Idle /\ ~closed /\ main.scheduled # None /\ main.running = None
    /\ main' = Later([main EXCEPT !.scheduled = None, !.running = main.scheduled],
                     Job("commit", main.scheduled))
    /\ UNCHANGED <<call, inbox, outbox, worker, store, closed, refused>>

Close ==
    /\ Idle /\ ~closed
    /\ closed' = TRUE /\ main' = [main EXCEPT !.scheduled = None]
    /\ UNCHANGED <<call, inbox, outbox, worker, store, refused>>

-----------------------------------------------------------------------------
(* The main thread: deadlines, aborts, messages and the end of the worker. *)

Open(i) == call[i].open /\ ~call[i].settled

\* Nine seconds have passed; the worker sees it at its next check.  A rejection
\* has a deadline of its own.
Due(i) ==
    /\ call[i].open /\ ~call[i].due
    /\ call' = [call EXCEPT ![i].due = TRUE]
    /\ UNCHANGED <<main, inbox, outbox, worker, store, closed, refused>>

\* Bug: the end of the worker forgets a stage that waits for its rejection.
Ends(i) == i

\* The call that ends with call i: a stage waits for its rejection.
Settles(i) == IF call[i].method = "reject" THEN call[i].arg.i ELSE i

\* Cancels call i, and answers it if that can be done.
Cancels(i, expired, m) ==
    LET answer == CancelAnswer(call[i]) IN
    IF answer = None THEN main' = m /\ UNCHANGED call
    ELSE /\ call' = [call EXCEPT ![Settles(i)].settled = TRUE,
                                 ![i] = [CancelTo(call[i], expired)
                                          EXCEPT !.settled = TRUE, !.told = answer]]
         /\ main' = Settle(m, Settles(i), Error(answer))

\* Whatever was reported as not committed is remembered, for FailedIsFinal.
Remember == refused' = refused \cup UNION {main'.record[b].reqs : b \in
    {b \in DOMAIN main'.record : /\ main'.record[b].status = "failed"
                                 /\ main'.record[b].state = "not-committed"}}

TimeOut(i) ==
    /\ Idle /\ Open(i) /\ call[i].due /\ Cancels(i, TRUE, main) /\ Remember
    /\ UNCHANGED <<inbox, outbox, worker, store, closed>>

\* The client of a request goes away.
Abort(r) ==
    LET mine == {i \in DOMAIN call : Open(i) /\ call[i].method = "stage" /\ call[i].arg.r = r}
        gone == [main EXCEPT !.req[r].aborted = TRUE]
    IN
    /\ Idle /\ ~main.req[r].aborted /\ main.req[r].answer = None
    /\ IF mine = {} THEN main' = gone /\ UNCHANGED call
       ELSE \E i \in mine : Cancels(i, FALSE, gone)
    /\ UNCHANGED <<inbox, outbox, worker, store, closed, refused>>

\* A message of the worker: an answer, unless its caller has gone away, or one
\* that comes too late.  A stage that nobody waits for any more is rejected, and
\* ends with that rejection, whether it took the stage back or not.
Message ==
    LET message == Head(outbox)
        a == message.answer
        i == message.id
        c == call[i]
        aborted == c.method = "stage" /\ main.req[c.arg.r].aborted
        a1 == IF a.error = None /\ a.cancelled # None /\ aborted
              THEN CancelledWith(a.cancelled) ELSE a
        late == a.error = None /\ message.late
        a2 == IF late THEN Error("committed") ELSE a1
    IN
    /\ Idle /\ outbox # <<>> /\ outbox' = Tail(outbox)
    /\ CASE c.method = "reject" ->
              /\ call' = [call EXCEPT ![i].open = FALSE, ![i].settled = TRUE,
                                      ![c.arg.i].settled = TRUE]
              /\ main' = Settle(main, c.arg.i, Error("not-committed")) /\ UNCHANGED inbox
         [] c.method # "reject" /\ a.error = None /\ a.pending /\ a.accepted /\ aborted ->
              /\ Len(call) < MaxCalls
              /\ call' = Append([call EXCEPT ![i].open = FALSE],
                                NewCall("reject", [gen |-> a.gen, i |-> i]))
              /\ inbox' = Append(inbox, Len(call) + 1) /\ UNCHANGED main
         [] OTHER ->
              /\ call' = [call EXCEPT ![i].open = FALSE, ![i].settled = TRUE,
                                      ![i].told = IF c.settled THEN @ ELSE a2.error]
              /\ main' = Settle(IF c.settled \/ late THEN Late(main, c, a2) ELSE main, i, a2)
              /\ UNCHANGED inbox
    /\ Remember
    /\ UNCHANGED <<worker, store, closed>>

\* The calls of a set, in their order.
Ascending(ids) ==
    {s \in [1 .. Cardinality(ids) -> ids] : \A j, k \in DOMAIN s : j < k => s[j] < s[k]}

\* #failed(): every open call is answered with what is known of it.
WorkerExit ==
    LET open == {i \in DOMAIN call : call[i].open}
        failure(i) == WorkerFailure(call[i])
        lates == {i \in open : call[i].method = "commit"
                               /\ (call[i].settled \/ failure(i) # "not-committed")}
    IN
    /\ Idle /\ worker = Dead /\ outbox = <<>> /\ ~main.failed
    /\ call' = [i \in DOMAIN call |->
                  IF i \in open THEN [call[i] EXCEPT !.open = FALSE, !.settled = TRUE,
                                        !.told = IF call[i].settled THEN @ ELSE failure(i)]
                  ELSE call[i]]
    /\ \E s \in Ascending(lates) :
         LET late == [main EXCEPT !.failed = TRUE, !.queue = @ \o
                        [k \in DOMAIN s |-> LateCommit(call[s[k]], failure(s[k]))]]
         IN main' = IF main.waiting \in {Settles(i) : i \in open}
                    THEN Settle(late, main.waiting, Error(failure(main.waiting))) ELSE late
    /\ Remember
    /\ UNCHANGED <<inbox, outbox, worker, store, closed>>

-----------------------------------------------------------------------------
(* The worker. *)

\* An answer of the worker to the call it is in.
Reply(i, a, late) == outbox' = Append(outbox, [id |-> i, late |-> late, answer |-> a])
Replies(a, late) == Reply(worker.id, a, late) /\ worker' = NoWork
Fails(state, cancelled) ==
    /\ Replies([Error(state) EXCEPT !.cancelled = cancelled], FALSE)
    /\ call' = [call EXCEPT ![worker.id] = FailTo(@, state)]

In(method, at) == worker.at = at /\ call[worker.id].method = method

\* rejectStage(): of the publication that is the last one.
LastIs(gen) == store.published = gen /\ store.pending # None
Unpublished(gen) ==
    IF LastIs(gen)
    THEN [store EXCEPT !.pending = store.prior, !.published = None, !.prior = None]
    ELSE store

\* The rejection is late, or its files fail: the changes stay in the store.
Prior == IF store.prior = None THEN {} ELSE store.prior.reqs
LeftBehind(gen) ==
    IF LastIs(gen) THEN [store EXCEPT !.left = @ \cup (store.pending.reqs \ Prior)] ELSE store

\* The next message; a call that is cancelled or due is not begun.
Take ==
    LET i == Head(inbox) IN
    /\ worker = NoWork /\ inbox # <<>> /\ inbox' = Tail(inbox)
    /\ IF Stopped(call[i])
         THEN /\ Reply(i, Error("not-committed"), FALSE)
              /\ store' = IF call[i].method = "reject" THEN LeftBehind(call[i].arg.gen) ELSE store
              /\ call' = [call EXCEPT ![i].exec = FINISHED] /\ UNCHANGED worker
         ELSE /\ worker' = [id |-> i, at |-> "work", result |-> None]
              /\ UNCHANGED <<outbox, call, store>>
    /\ UNCHANGED <<main, closed, refused>>

\* It fails at a check or at its files; or it is done, and perhaps reported as
\* late by its last check.
Reject ==
    LET c == call[worker.id] IN
    /\ In("reject", "work")
    /\ \/ store' = LeftBehind(c.arg.gen) /\ Fails("not-committed", None)
       \/ /\ store' = Unpublished(c.arg.gen)
          /\ IF Stopped(c) THEN Fails("not-committed", None)
             ELSE /\ Replies(Error(None), FALSE)
                  /\ call' = [call EXCEPT ![worker.id].exec = FINISHED]
    /\ UNCHANGED <<main, inbox, closed, refused>>

\* stageApply() and stageUndo() are refused, or stop at a check.
StageRefused ==
    /\ In("stage", "work")
    /\ store' = [store EXCEPT !.published = None, !.prior = None]
    /\ Fails("not-committed", None)
    /\ UNCHANGED <<main, inbox, closed, refused>>

Has(reqs, what) == \E r \in reqs : main.req[r].what = what

\* What they do otherwise, and their answer.
StageDone ==
    LET c == call[worker.id]
        r == c.arg.r
        what == main.req[r].what
        p == store.pending
        gen == store.gen + 1
        added == [batch |-> IF p = None THEN gen ELSE p.batch, gen |-> gen,
                  reqs |-> {r} \cup IF p = None THEN {} ELSE p.reqs]
        receipt(b, accepted) == [Error(None) EXCEPT !.pending = TRUE, !.accepted = accepted,
                                    !.batch = b.batch, !.gen = b.gen, !.reqs = b.reqs]
        quiet == [store EXCEPT !.published = None, !.prior = None]
    IN
    /\ In("stage", "work") /\ ~Stopped(c) /\ c.arg.version = store.version
    /\ \/ /\ what = Cancel /\ p # None
          /\ store' = [quiet EXCEPT !.pending = None]
          /\ worker' = [worker EXCEPT !.at = "staged",
                                      !.result = [Error(None) EXCEPT !.cancelled = p.batch]]
       \/ /\ what # Cancel /\ Has(IF p = None THEN store.applied ELSE p.reqs, what)
          /\ store' = quiet
          /\ worker' = [worker EXCEPT !.at = "staged",
                          !.result = IF p = None \/ Has(store.applied, what) THEN Error(None)
                                     ELSE receipt(p, FALSE)]
       \/ /\ what # Cancel /\ ~Has(IF p = None THEN store.applied ELSE p.reqs, what)
          /\ store' = [store EXCEPT !.pending = added, !.prior = p, !.published = gen,
                                    !.gen = gen]
          /\ worker' = [worker EXCEPT !.at = "staged", !.result = receipt(added, TRUE)]
    /\ UNCHANGED <<main, call, inbox, outbox, closed, refused>>

\* Bug: a stage that was given up in the meantime is left in the store.
StageCompleteAnyway ==
    /\ In("stage", "staged")
    /\ IF Stopped(call[worker.id])
         THEN Fails("not-committed", worker.result.cancelled)
         ELSE /\ Replies(worker.result, FALSE)
              /\ call' = [call EXCEPT ![worker.id].exec = FINISHED]
    /\ UNCHANGED <<main, inbox, store, closed, refused>>

\* complete(): a stage that was given up in the meantime is undone, by a
\* rejection with a deadline of its own.
StageComplete ==
    LET a == worker.result IN
    /\ In("stage", "staged")
    /\ IF Stopped(call[worker.id])
         THEN /\ IF a.pending /\ a.accepted
                   THEN store' \in {Unpublished(a.gen), LeftBehind(a.gen)}
                   ELSE UNCHANGED store
              /\ Fails("not-committed", a.cancelled)
         ELSE /\ Replies(a, FALSE) /\ UNCHANGED store
              /\ call' = [call EXCEPT ![worker.id].exec = FINISHED]
    /\ UNCHANGED <<main, inbox, closed, refused>>

\* commitBatch() of a generation that is not the one in the store, and one that
\* fails or stops before it begins: that batch is gone.
CommitRefused ==
    LET mine == store.pending # None /\ store.pending.gen = call[worker.id].arg.gen IN
    /\ In("commit", "work")
    /\ store' = [store EXCEPT !.published = None, !.prior = None,
                              !.pending = IF mine THEN None ELSE @]
    /\ Fails("not-committed", None)
    /\ UNCHANGED <<main, inbox, closed, refused>>

\* beginCommit(): from here on nobody else decides.
CommitBegins ==
    /\ In("commit", "work") /\ ~Stopped(call[worker.id])
    /\ store.pending # None /\ store.pending.gen = call[worker.id].arg.gen
    /\ call' = [call EXCEPT ![worker.id].exec = COMMITTING]
    /\ worker' = [worker EXCEPT !.at = "begun"]
    /\ UNCHANGED <<main, inbox, outbox, store, closed, refused>>

\* Its last look at the clock.
CommitEntered ==
    /\ In("commit", "begun")
    /\ IF call[worker.id].due
         THEN /\ store' = [store EXCEPT !.pending = None, !.published = None, !.prior = None]
              /\ Fails("not-committed", None)
         ELSE worker' = [worker EXCEPT !.at = "entered"] /\ UNCHANGED <<call, outbox, store>>
    /\ UNCHANGED <<main, inbox, closed, refused>>

\* The files move, or they do not, and the store says so if it can.
CommitDone(done, state) ==
    /\ In("commit", "entered")
    /\ state \in {"ok", "committed"} => done
    /\ state = "not-committed" => ~done
    /\ store' = [store EXCEPT !.pending = None, !.published = None, !.prior = None,
                   !.applied = IF done THEN @ \cup store.pending.reqs ELSE @,
                   !.version = IF done THEN @ + 1 ELSE @]
    /\ LET c == [call[worker.id] EXCEPT !.done = done]
           ended == IF state = "ok" THEN Completed(c) ELSE FailTo(c, state)
       IN /\ call' = [call EXCEPT ![worker.id] = ended]
          /\ Replies(Error(IF state = "ok" THEN None ELSE state), state = "ok" /\ c.due)
    /\ UNCHANGED <<main, inbox, closed, refused>>

\* The worker dies, perhaps with a commit that is done and not yet answered.
WorkerDies(done) ==
    /\ MaxDeaths > 0 /\ worker # Dead /\ worker' = Dead
    /\ IF done
         THEN /\ In("commit", "entered")
              /\ store' = [store EXCEPT !.applied = @ \cup store.pending.reqs,
                                        !.version = @ + 1, !.pending = None]
              /\ call' = [call EXCEPT ![worker.id].done = TRUE]
         ELSE UNCHANGED <<store, call>>
    /\ UNCHANGED <<main, inbox, outbox, closed, refused>>

-----------------------------------------------------------------------------
Jobs == StageJob \/ CommitJob \/ LateJob
Events == \/ \E i \in DOMAIN call : TimeOut(i)
          \/ Message \/ WorkerExit
Work == \/ Take \/ Reject \/ StageRefused \/ StageDone \/ StageComplete
        \/ CommitRefused \/ CommitBegins \/ CommitEntered
        \/ \E done \in BOOLEAN, state \in {"ok", "not-committed", "committed", "unknown"} :
             CommitDone(done, state)

Next ==
    \/ Jobs \/ Events \/ Work \/ StartReload \/ Close
    \/ \E what \in Settings \cup {Cancel} : Request(what)
    \/ \E i \in DOMAIN call : Due(i)
    \/ \E r \in DOMAIN main.req : Abort(r)
    \/ \E done \in BOOLEAN : WorkerDies(done)

Spec == Init /\ [][Next]_vars

\* Jobs run, messages arrive, armed timers fire, and the worker works.  Nobody
\* has to send requests, abort, close or die, and a call need not be late.
Fairness == /\ WF_vars(Jobs) /\ WF_vars(Message) /\ WF_vars(WorkerExit)
            /\ WF_vars(StartReload) /\ WF_vars(Work)

FairSpec == Spec /\ Fairness

-----------------------------------------------------------------------------
(* What a caller and the dashboard may believe. *)

\* Whatever the main thread cancels, lets expire or is told, in any order with
\* the worker: a commit that was answered as not committed is not done, and
\* one that was answered as committed is (the integer of PoolingExecution).
TruthfulCalls ==
    \A i \in DOMAIN call :
        /\ call[i].told = "not-committed" => ~call[i].done
        /\ call[i].told = "committed" => call[i].done

\* The record of a batch says what became of it, also when the answer came late
\* or the worker died (#failedCommit, #lateCommit); and a request that was
\* answered with an error is applied with somebody else's batch only if it had
\* to be taken back and its rejection failed or came too late (rejectStage).
RecordsTrue ==
    /\ \A b \in DOMAIN main.record :
         LET m == main.record[b] IN
         /\ m.state = "committed" => m.reqs \subseteq store.applied
         /\ m.status \in {"pending", "cancelled"} => m.reqs \cap store.applied = {}
    /\ \A r \in DOMAIN main.req : 
        main.req[r].answer = "failed" => r \notin store.applied \/ r \in store.left

\* upgradeState(): when it is neither busy nor unsafe, nothing is on its way to
\* the configuration, but for a batch that nobody commits, with a change that
\* could not be taken back.
Busy == \/ main.applying # None \/ \E i \in DOMAIN call : call[i].open
        \/ \E j \in DOMAIN main.queue : main.queue[j].kind = "stage"
Unsafe == \/ main.failed \/ main.pending # None
          \/ \E b \in DOMAIN main.record : main.record[b].status \notin {"applied", "cancelled"}
SafeMeansQuiet == ~closed /\ ~Busy /\ ~Unsafe =>
    /\ worker \in {NoWork, Dead}
    /\ store.pending = None \/ store.pending.reqs \cap store.left # {}

\* What the main thread concludes from those answers is true: the records of
\* batches, the answers to requests, and upgradeState's.
AnswersTrue == RecordsTrue /\ SafeMeansQuiet

\* Every request is answered, whatever is aborted, late or dead.
EveryRequestAnswered ==
    \A r \in 1 .. MaxRequests :
        r \in DOMAIN main.req ~> r \in DOMAIN main.req /\ main.req[r].answer # None

\* A batch that was reported as not committed stays so: its changes come back
\* only if somebody asks for them again.
FailedIsFinal == refused \cap store.applied = {}
=============================================================================

------------------------------- MODULE Dashboard -------------------------------
(***************************************************************************)
(* The dashboard's page of settings and the bridge behind it:              *)
(* usePoolingActions, useEventSource and SnapshotOrder (ui/src) with       *)
(* richSnapshot and the routes of bin/mcp-bridge.mjs.                      *)
(*                                                                         *)
(* The bridge numbers its snapshots and sends them over a stream and with  *)
(* each answer; they overtake each other, get lost, and outlive the bridge *)
(* that made them.  From what arrives the page decides what it shows and   *)
(* which batches it offers to cancel or to undo, by receipts it keeps.     *)
(* Other clients change the same settings, and an editor the file.         *)
(*                                                                         *)
(* One server is configured, so a setting is the content of the whole      *)
(* file, and its revision too.  How the bridge applies a batch is in       *)
(* PoolingBatches, and its hold on the files in PoolingStore: here a       *)
(* request is handled in one step, and a batch is applied in two.  The      *)
(* interval that repeats the last snapshot every two seconds is left out:  *)
(* every change is sent when it happens.                                   *)
(***************************************************************************)
EXTENDS Integers, Sequences, FiniteSets, TLC

CONSTANTS
    Nothing,
    Settings,     \* contents of the configuration
    FirstSetting, \* the one it begins with
    MaxBatches,   \* bound: batches
    MaxAsks,      \* bound: requests of the page
    MaxOthers,    \* bound: requests of other clients, edits, connections that
                  \* end, and the first restart of the bridge
    MaxBridges,   \* bound: instances of the bridge
    MaxFrames     \* bound: frames on their way

VARIABLES
    bridge, \* the bridge: instance, snapshots, settings, batches, undo rights
    stream, \* frames on their way to the page; the last event of a connection
    ask,    \* the request of the page that is on its way, or Nothing
    page,   \* what the page shows and remembers
    spent,  \* how much of the bounds is used
    visited \* history: the bridges that the page has shown

dashVars == <<bridge, stream, ask, page, spent, visited>>

Silence == [tells |-> "nothing"]

Empty == [id \in {} |-> Nothing]
Put(f, id, v) == [i \in DOMAIN f \cup {id} |-> IF i = id THEN v ELSE f[i]]
Without(f, id) == [i \in DOMAIN f \ {id} |-> f[i]]

\* bridge.record: PoolingBatches' records.  bridge.undos: what the store would
\* restore, and for which batch it is reserved.  late: a commit that outlived
\* its deadline.
NewBridge(inst, setting, ids) ==
    [inst |-> inst, n |-> 0, disk |-> setting, active |-> setting, ids |-> ids,
     pending |-> Nothing, applying |-> Nothing, late |-> Nothing,
     record |-> Empty, undos |-> Empty, streaming |-> FALSE]

DashInit ==
    /\ bridge = NewBridge(1, FirstSetting, 0) /\ stream = <<>> /\ ask = Nothing
    /\ page = [shown |-> Nothing, retired |-> {}, first |-> Nothing, connected |-> FALSE,
               receipts |-> Empty, read |-> {}]
    /\ spent = [asks |-> 0, others |-> 0] /\ visited = {}

-----------------------------------------------------------------------------
(* The bridge. *)

\* richSnapshot(): each one has a number of its own.
Numbered(b) == [b EXCEPT !.n = @ + 1]
Snapshot(b) == [inst |-> b.inst, n |-> b.n, rev |-> b.active, batches |-> b.record]

\* publishSnapshot(), to the page if its stream is open, and an answer that
\* carries a snapshot of its own.
Published(b) == IF b.streaming THEN Numbered(b) ELSE b
Publishes(b) ==
    /\ b.streaming => Len(stream) < MaxFrames
    /\ stream' = IF b.streaming THEN Append(stream, Snapshot(Numbered(b))) ELSE stream

Kept(b, id, status, state, rev) ==
    [b EXCEPT !.record = Put(@, id, [status |-> status, state |-> state, rev |-> rev])]

\* #stage() and its receipt.
WithDraft(b, setting, restoring) ==
    LET p == b.pending
        id == IF p = Nothing THEN b.ids + 1 ELSE p.id
        batch == [id |-> id, base |-> b.disk, draft |-> setting,
                  before |-> IF p = Nothing THEN b.disk ELSE p.before,
                  restoring |-> IF p = Nothing THEN restoring ELSE p.restoring]
    IN Kept([b EXCEPT !.pending = batch, !.ids = IF p = Nothing THEN @ + 1 ELSE @],
            id, "pending", Nothing, b.disk)

Free(b, batch) == \* #releaseReservation()
    IF batch.restoring \in DOMAIN b.undos
    THEN [b EXCEPT !.undos[batch.restoring].reserved = Nothing] ELSE b
Consumed(b, batch) == [b EXCEPT !.undos = Without(@, batch.restoring)]

CanChange(b, rev) == rev = b.disk /\ (b.pending # Nothing => b.pending.base = rev)

\* What a request makes of the bridge, and what it is told; Refuse otherwise.
Changed(b, setting) ==
    LET draft == IF b.pending = Nothing THEN b.disk ELSE b.pending.draft IN
    IF setting # draft THEN [b |-> WithDraft(b, setting, Nothing), tells |-> "pending"]
    ELSE [b |-> b, tells |-> IF setting # b.disk THEN "pending" ELSE "unchanged"]

Withdrawn(b) ==
    [Free(b, b.pending) EXCEPT !.pending = Nothing, !.record[b.pending.id].status = "cancelled"]

CanUndo(b, id, rev) ==
    id \in DOMAIN b.undos /\ b.undos[id].reserved = Nothing /\ b.pending = Nothing
    /\ rev = b.undos[id].rev /\ b.disk = rev

Restored(b, id) ==
    LET staged == WithDraft(b, b.undos[id].before, id)
    IN  [staged EXCEPT !.undos[id].reserved = staged.pending.id]

\* stage(), of one kind or the other, for whoever asks.
Outcomes(b, what) ==
    LET mine == b.pending # Nothing /\ b.pending.id = what.id IN
    CASE what.kind = "change" /\ CanChange(b, what.rev) -> {Changed(b, what.setting)}
      [] what.kind = "undo" /\ mine /\ CanChange(b, what.rev) ->
            {[b |-> Withdrawn(b), tells |-> "cancelled"], [b |-> Withdrawn(b), tells |-> "error"]}
      [] what.kind = "undo" /\ ~mine /\ CanUndo(b, what.id, what.rev) ->
            {[b |-> Restored(b, what.id), tells |-> "pending"]}
      [] OTHER -> {}

Works == bridge.applying = Nothing /\ bridge.late = Nothing
Room(b) == b.ids <= MaxBatches

\* #commit(): a batch is due, or somebody asks for a reload.
ApplyStarts ==
    LET b == Kept([bridge EXCEPT !.pending = Nothing, !.applying = bridge.pending],
                  bridge.pending.id, "applying", Nothing, bridge.pending.base)
    IN  /\ bridge.pending # Nothing /\ Works
        /\ bridge' = Published(b) /\ Publishes(b) /\ UNCHANGED <<ask, page, spent>>

\* What a commit leaves: as the store reports it, after the reload.
Applied(b, batch, told) ==
    LET id == batch.id
        done == Consumed([b EXCEPT !.disk = batch.draft, !.active = batch.draft], batch)
        undoable == [done EXCEPT !.undos = Put(@, id, [rev |-> batch.draft, reserved |-> Nothing,
                                                       before |-> batch.before])]
    IN  CASE told = "applied" -> Kept(undoable, id, "applied", "committed", batch.draft)
          [] told = "late" -> Kept(undoable, id, "failed", "committed", batch.draft)
          [] told = "committed" -> Kept(done, id, "failed", "committed", batch.draft)
          [] told = "not-committed" ->
               Kept(Free(b, batch), id, "failed", "not-committed", batch.base)
          [] told = "unknown" ->
               Kept([b EXCEPT !.late = batch, !.active = b.disk], id, "failed", "unknown", batch.base)

Commits(batch, cleared, outcomes) ==
    \E told \in outcomes :
        LET b == Applied(cleared, batch, told) IN
        /\ told \in {"applied", "committed", "late"} => bridge.disk = batch.base
        /\ bridge' = Published(b) /\ Publishes(b) /\ UNCHANGED <<ask, page, spent>>

ApplyEnds ==
    /\ bridge.applying # Nothing
    /\ Commits(bridge.applying, [bridge EXCEPT !.applying = Nothing],
               {"applied", "committed", "not-committed", "unknown"})

\* #lateCommit().
LateEnds ==
    /\ bridge.late # Nothing
    /\ Commits(bridge.late, [bridge EXCEPT !.late = Nothing], {"late", "not-committed"})

\* The file has been edited, and the bridge reads it.
WatchReload ==
    LET b == [bridge EXCEPT !.active = bridge.disk] IN
    /\ bridge.active # bridge.disk /\ Works
    /\ bridge' = Published(b) /\ Publishes(b) /\ UNCHANGED <<ask, page, spent>>

Uses(what) == spent' = [spent EXCEPT ![what] = @ + 1]
Other == spent.others < MaxOthers /\ Uses("others")

\* Somebody else's request, who has the receipt of the same batch.
OtherAsks ==
    \E what \in [kind : {"change"}, id : {0}, setting : Settings, rev : {bridge.disk}]
                \cup [kind : {"undo"}, id : DOMAIN bridge.record, setting : Settings,
                      rev : {bridge.disk}] :
        /\ Other /\ Works
        /\ \E out \in Outcomes(bridge, what) :
             /\ out.b # bridge /\ Room(out.b)
             /\ bridge' = Published(out.b) /\ Publishes(out.b) /\ UNCHANGED <<ask, page>>

FileEdited ==
    /\ Other
    /\ \E setting \in Settings \ {bridge.disk} : bridge' = [bridge EXCEPT !.disk = setting]
    /\ UNCHANGED <<stream, ask, page>>

\* The bridge ends and starts again, perhaps after the files have moved.
BridgeRestarts ==
    /\ bridge.inst < MaxBridges
    /\ IF bridge.inst = 1 THEN Other ELSE UNCHANGED spent
    /\ \E setting \in {bridge.disk} \cup {b.draft : b \in {bridge.applying, bridge.late} \ {Nothing}} :
         bridge' = NewBridge(bridge.inst + 1, setting, bridge.ids)
    /\ ask' = IF ask # Nothing /\ ask.answer = Silence
              THEN [ask EXCEPT !.answer = [tells |-> "error"]] ELSE ask
    /\ UNCHANGED <<stream, page>>

-----------------------------------------------------------------------------
(* SnapshotOrder, and the receipts. *)

\* Bug: an instance that was replaced is taken for a new one.
NewerByNumber(s) ==
    \/ page.shown = Nothing \/ page.shown.inst # s.inst
    \/ page.shown.n < s.n

Newer(s) ==
    /\ s.inst \notin page.retired
    /\ page.shown = Nothing \/ page.shown.inst # s.inst \/ page.shown.n < s.n

\* accept().
Shows(p, s) ==
    IF ~Newer(s) THEN p
    ELSE [p EXCEPT !.shown = s,
                   !.first = IF @ = Nothing THEN s.inst ELSE @,
                   !.retired = IF p.shown # Nothing /\ p.shown.inst # s.inst
                               THEN @ \cup {p.shown.inst} ELSE @]

\* One receipt against a snapshot: reconcile().
Predates(r, s) == r.inst = s.inst /\ s.n < r.n
Compared(r, s) ==
    IF r.unavailable \/ Predates(r, s) THEN r
    ELSE IF r.inst # s.inst \/ r.id \notin DOMAIN s.batches
      THEN [r EXCEPT !.unavailable = TRUE, !.undo = FALSE, !.previous = Nothing]
    ELSE [r EXCEPT !.batch = s.batches[r.id]]

NotCommitted(r) ==
    /\ ~r.unavailable
    /\ \/ r.batch.status = "cancelled"
       \/ r.batch.status = "failed" /\ r.batch.state = "not-committed"

Settled(r) ==
    CASE NotCommitted(r) -> [r EXCEPT !.undo = FALSE, !.previous = Nothing]
      [] r.batch.status = "failed" /\ ~NotCommitted(r) ->
           [r EXCEPT !.undo = FALSE, !.previous = IF r.batch.state = "unknown" THEN @ ELSE Nothing]
      [] r.batch.status = "applied" -> [r EXCEPT !.previous = Nothing]
      [] OTHER -> r

\* Bug: a batch that is given up takes the right to undo along.
ReconciledAlone(receipts, s) == [id \in DOMAIN receipts |-> Settled(Compared(receipts[id], s))]

\* reconcileReceipts(): a batch that is given up gives back the right to undo
\* that it had taken.
Reconciled(receipts, s) ==
    LET now == [id \in DOMAIN receipts |-> Compared(receipts[id], s)]
        back == {now[id].previous : id \in {i \in DOMAIN now : NotCommitted(now[i])}} \ {Nothing}
    IN  [id \in DOMAIN now \cup {r.id : r \in back} |->
            IF \E r \in back : r.id = id
            THEN Compared(CHOOSE r \in back : r.id = id, s) ELSE Settled(now[id])]

\* The effect that follows a change of what is shown, while connected.
Settles(p) ==
    IF p.connected /\ p.shown # Nothing
    THEN [p EXCEPT !.receipts = Reconciled(@, p.shown)] ELSE p

Unread(p) ==
    {id \in DOMAIN p.shown.batches :
        LET m == p.shown.batches[id] IN
        m.status = "failed" /\ m.state # "not-committed"
        /\ [inst |-> p.shown.inst, id |-> id, m |-> m] \notin p.read}
NeedsReread ==
    \/ \E id \in DOMAIN page.receipts : page.receipts[id].unavailable /\ ~page.receipts[id].reread
    \/ Unread(page) # {}

Usable == page.connected /\ page.shown # Nothing /\ page.shown.inst = page.first /\ ask = Nothing
Editable == Usable /\ ~NeedsReread

\* batchAction(): a batch that the page offers to cancel or to undo.
Offered(id) ==
    LET m == page.shown.batches[id] IN
    /\ Editable /\ id \in DOMAIN page.receipts
    /\ page.receipts[id].undo /\ ~page.receipts[id].unavailable
    /\ m.status \in {"pending", "applied"} /\ m.rev = page.shown.rev
    /\ m.status = "applied" =>
         \A other \in DOMAIN page.shown.batches \ {id} :
             page.shown.batches[other].status \notin {"pending", "applying"}

-----------------------------------------------------------------------------
(* The page's requests. *)

Sends(what) ==
    /\ spent.asks < MaxAsks /\ Uses("asks")
    /\ ask' = what @@ [answer |-> Silence, receipt |-> Nothing, batch |-> Nothing, intent |-> Nothing]
    /\ UNCHANGED <<bridge, stream, page>>

Apply(setting) ==
    /\ Editable
    /\ Sends([kind |-> "change", id |-> 0, setting |-> setting, rev |-> page.shown.rev])

UndoBatch(id) ==
    /\ page.shown # Nothing /\ id \in DOMAIN page.shown.batches /\ Offered(id)
    /\ Sends([kind |-> "undo", id |-> id, setting |-> FirstSetting,
              rev |-> page.shown.batches[id].rev, receipt |-> page.receipts[id],
              batch |-> page.shown.batches[id],
              intent |-> IF page.shown.batches[id].status = "pending" THEN "cancel" ELSE "undo"])

Reread == ask = Nothing /\ page.shown # Nothing /\ Sends([kind |-> "reread"])
ReloadNow == Editable /\ Sends([kind |-> "reload"])

\* The bridge handles a request; one that has started since the page was
\* loaded knows neither its nonce nor its receipts.
Asked(kinds) == ask # Nothing /\ ask.answer = Silence /\ ask.kind \in kinds
Tells(what, s, batch) == ask' = [ask EXCEPT !.answer = [tells |-> what, snapshot |-> s, batch |-> batch]]

ChangeHandled ==
    /\ Asked({"change", "undo"}) /\ bridge.inst = 1 /\ Works
    /\ \E out \in Outcomes(bridge, ask) :
         LET b == Published(out.b) IN
         /\ Room(out.b) /\ Publishes(out.b)
         /\ IF out.tells = "error"
              THEN bridge' = b /\ ask' = [ask EXCEPT !.answer = [tells |-> "error"]]
              ELSE /\ bridge' = Numbered(b)
                   /\ Tells(out.tells, Snapshot(Numbered(b)),
                            IF out.tells = "pending" THEN out.b.pending.id ELSE 0)
    /\ UNCHANGED <<page, spent>>

ReloadHandled ==
    LET b == [bridge EXCEPT !.active = bridge.disk] IN
    /\ Asked({"reload"}) /\ bridge.inst = 1 /\ Works /\ bridge.pending = Nothing
    /\ Publishes(b) /\ bridge' = Numbered(Published(b))
    /\ Tells("read", Snapshot(bridge'), 0) /\ UNCHANGED <<page, spent>>

StatusRead ==
    /\ Asked({"reread", "refetch"})
    /\ bridge' = Numbered(bridge) /\ Tells("read", Snapshot(bridge'), 0)
    /\ UNCHANGED <<stream, page, spent>>

\* It is refused, or the answer is lost, whatever has been done.
NotAnswered ==
    /\ ask # Nothing /\ ask.answer.tells # "error"
    /\ ask' = [ask EXCEPT !.answer = [tells |-> "error"]]
    /\ UNCHANGED <<bridge, stream, page, spent>>

Receipt(id, s, previous) ==
    [id |-> id, undo |-> TRUE, inst |-> s.inst, n |-> s.n, batch |-> s.batches[id],
     previous |-> previous, unavailable |-> FALSE, reread |-> FALSE]

\* remember(): an undo takes the receipt of its batch along.
Remembered(p, a) ==
    LET id == a.answer.batch
        taken == IF a.intent = "undo" THEN [a.receipt EXCEPT !.batch = a.batch, !.previous = Nothing]
                 ELSE Nothing
        kept == IF taken = Nothing THEN p.receipts
                ELSE Put(p.receipts, taken.id, [taken EXCEPT !.undo = FALSE])
        earlier == IF id \in DOMAIN p.receipts THEN p.receipts[id].previous ELSE Nothing
    IN  [p EXCEPT !.receipts = Reconciled(
            Put(kept, id, Receipt(id, a.answer.snapshot, IF taken # Nothing THEN taken ELSE earlier)),
            p.shown)]

Dismissed(p, a) ==
    [p EXCEPT !.receipts = Reconciled(
        Put(@, a.id, [(IF a.id \in DOMAIN @ THEN @[a.id] ELSE a.receipt)
                        EXCEPT !.undo = FALSE,
                               !.batch = [a.batch EXCEPT !.status = "cancelled"]]),
        p.shown)]

\* What a reread shows has been read: failures, and receipts that are gone.
ReadThrough(p, s) ==
    [p EXCEPT !.read = {[inst |-> s.inst, id |-> id, m |-> s.batches[id]] :
                          id \in {i \in DOMAIN s.batches : s.batches[i].status = "failed"}},
              !.receipts = [id \in DOMAIN Reconciled(@, s) |->
                              [Reconciled(@, s)[id] EXCEPT !.reread = @ \/ Reconciled(p.receipts, s)[id].unavailable]]]

Answered ==
    LET a == ask.answer
        p == Shows(page, a.snapshot)
    IN
    /\ ask # Nothing /\ ask.answer # Silence
    /\ IF a.tells = "error"
         THEN /\ UNCHANGED page
              /\ ask' = IF ask.kind = "reload" THEN [ask EXCEPT !.kind = "refetch", !.answer = Silence]
                        ELSE Nothing
         ELSE /\ ask' = Nothing
              /\ page' = Settles(CASE a.tells = "pending" -> Remembered(p, ask)
                                   [] a.tells = "cancelled" -> Dismissed(p, ask)
                                   [] a.tells = "read" /\ ask.kind = "reread" /\ Newer(a.snapshot) ->
                                        ReadThrough(p, a.snapshot)
                                   [] OTHER -> p)
    /\ UNCHANGED <<bridge, stream, spent>>

-----------------------------------------------------------------------------
(* useEventSource. *)

Connect ==
    /\ ~page.connected /\ ~bridge.streaming /\ stream = <<>>
    /\ bridge' = [Numbered(bridge) EXCEPT !.streaming = TRUE]
    /\ stream' = <<Snapshot(bridge')>>
    /\ page' = Settles([page EXCEPT !.connected = TRUE])
    /\ UNCHANGED <<ask, spent>>

Frame ==
    /\ stream # <<>> /\ page.connected
    /\ page' = Settles(Shows(page, Head(stream))) /\ stream' = Tail(stream)
    /\ UNCHANGED <<bridge, ask, spent>>

\* The connection ends, with what is on it.
Disconnect ==
    /\ page.connected
    /\ bridge.streaming => Other
    /\ ~bridge.streaming => UNCHANGED spent
    /\ page' = [page EXCEPT !.connected = FALSE] /\ stream' = <<>>
    /\ bridge' = [bridge EXCEPT !.streaming = FALSE] /\ UNCHANGED ask

Bridge == \/ ApplyStarts \/ ApplyEnds \/ LateEnds \/ WatchReload
          \/ OtherAsks \/ FileEdited \/ BridgeRestarts
          \/ ChangeHandled \/ ReloadHandled \/ StatusRead
Page == \/ \E setting \in Settings : Apply(setting)
        \/ \E id \in 1 .. MaxBatches : UndoBatch(id)
        \/ Reread \/ ReloadNow \/ NotAnswered \/ Answered \/ Connect \/ Frame \/ Disconnect

Showing == IF page.shown = Nothing THEN {} ELSE {page.shown.inst}

DashNext == (Bridge \/ Page) /\ visited' = visited \cup Showing'
DashSpec == DashInit /\ [][DashNext]_dashVars

-----------------------------------------------------------------------------
\* The page has seen all that the bridge did, and the bridge all that was edited.
UpToDate == /\ page.shown # Nothing /\ page.shown.inst = bridge.inst
            /\ page.shown.batches = bridge.record
            /\ page.shown.rev = bridge.disk /\ bridge.active = bridge.disk

\* What the page offers is right, once it has caught up: a batch that it has
\* had the receipt of and that the bridge would undo is offered, whoever has
\* begun an undo of it and given it up, been refused or failed meanwhile; and
\* a cancellation that it offers would be one (reconcileReceipts, batchAction).
OffersRight ==
    UpToDate /\ Works =>
        /\ Editable => \A id \in DOMAIN page.receipts :
             page.shown.batches[id].status = "applied" /\ CanUndo(bridge, id, bridge.disk)
             => Offered(id)
        /\ \A id \in DOMAIN page.shown.batches :
             Offered(id) /\ page.shown.batches[id].status = "pending"
             => bridge.pending # Nothing /\ bridge.pending.id = id

\* Whatever overtakes whatever, the page goes back neither to an older snapshot
\* of the bridge it shows nor to a bridge that it has shown before and left
\* (SnapshotOrder).  A bridge that it never showed it takes for a new one, even
\* when a late answer of it comes after its successor's: SnapshotOrder retires
\* only what has been shown.
ShownForward ==
    page'.shown # page.shown =>
         \/ page'.shown.inst \notin visited
         \/ page'.shown.inst = page.shown.inst /\ page'.shown.n > page.shown.n

\* A cancellation that arrives after its batch has been applied takes nothing
\* back (#stageUndo).
CancelTakesNothing ==
    ChangeHandled /\ ask.kind = "undo" /\ ask.intent = "cancel" /\ bridge'.pending # Nothing
    => bridge'.pending.draft = bridge.disk

\* Late answers and late requests take nothing back: not what the page has
\* shown of a bridge, and not what has been applied.
NothingTakenBack == [][ShownForward /\ CancelTakesNothing]_dashVars
=============================================================================

----------------------------- MODULE PoolingStore -----------------------------
(***************************************************************************)
(* The configuration file and its journal: PoolingConfigStore              *)
(* (bin/pooling-config.mjs) over PoolingFiles (bin/pooling-files.mjs), as  *)
(* on a POSIX file system, with the start of the bridge that recovers it.  *)
(*                                                                         *)
(* An operation is a list of steps, each of them one call of the file      *)
(* system with the checks before it.  A step may be refused by what it     *)
(* finds, fail, or come after the deadline of the operation; the process   *)
(* may die before any step; an editor may replace the configuration at any *)
(* time, but not between a check and its call.  One process works on the   *)
(* files at a time: StoreLock.  A file stands for its identity, content    *)
(* and permissions, which the code compares together.                      *)
(***************************************************************************)
EXTENDS Integers, Sequences, FiniteSets, SequencesExt

CONSTANTS
    None,
    MaxDrafts,  \* bound: batches and additions to them
    MaxEdits,   \* bound: changes by an editor
    MaxFaults,  \* bound: calls of the file system that fail
    MaxLate,    \* bound: operations that miss their deadline
    MaxDeaths   \* bound: deaths of the process

VARIABLES
    disk,     \* what each path names: active, pending, next, old, previous
    journal,  \* the newest record of the journal on the disk
    torn,     \* a record of the journal is incomplete
    up,       \* the bridge has started
    mem,      \* the store in memory: pending, publication, record, poisoned
    undo,     \* the last commit's undo: the draft it restores from, and its hold
    job,      \* the operation that runs, or None
    toldNo,   \* history: drafts answered "not-committed"
    toldYes,  \* history: drafts answered "committed"
    seen,     \* history: every file that was active, in order
    lied,     \* history: drafts whose record was written by a save that failed
    lost,     \* history: a batch began over an "updating" record
    excused,  \* history: an edit, a fault, or bytes that no record names
    used      \* how much of each bound is used

vars == <<disk, journal, torn, up, mem, undo, job, toldNo, toldYes, seen, lied,
          lost, excused, used>>

history == <<toldNo, toldYes, lied, lost>>

Spare == {"pending", "next", "old"}
Paths == {"active", "previous"} \cup Spare
Files == 1 .. (1 + MaxDrafts + MaxEdits)
Bounds == [drafts |-> MaxDrafts, edits |-> MaxEdits, faults |-> MaxFaults,
           late |-> MaxLate, deaths |-> MaxDeaths]

Record(phase, base, draft, next, previous) ==
    [phase |-> phase, base |-> base, draft |-> draft, next |-> next,
     previous |-> previous]
Idle(previous) == Record("idle", None, None, None, previous)

Records == [phase : {"idle", "pending", "updating", "prepared", "entered"},
            base : Files \cup {None}, draft : Files \cup {None},
            next : Files \cup {None}, previous : Files \cup {None}]
Batches == [base : Files, draft : Files, restoring : BOOLEAN]

\* The store of a process that has just loaded the journal.  published: the
\* last answer may still be rejected, and prior is what it would return to.
Fresh(r) == [pending |-> None, published |-> FALSE, prior |-> None,
             started |-> FALSE, record |-> r, poisoned |-> FALSE]

TypeOK ==
    /\ disk \in [Paths -> Files \cup {None}]
    /\ journal \in Records
    /\ mem \in [pending : Batches \cup {None}, published : BOOLEAN,
                prior : Batches \cup {None}, started : BOOLEAN,
                record : Records, poisoned : BOOLEAN]
    /\ {torn, up, lost, excused} \subseteq BOOLEAN
    /\ undo \in [file : Files, held : BOOLEAN] \cup {None}
    /\ toldNo \cup toldYes \cup lied \subseteq Files
    /\ \A b \in DOMAIN Bounds : used[b] \in 0 .. Bounds[b]

Init ==
    /\ disk = [p \in Paths |-> IF p = "active" THEN 1 ELSE None]
    /\ journal = Idle(None) /\ torn = FALSE
    /\ up = TRUE /\ mem = Fresh(Idle(None)) /\ undo = None /\ job = None
    /\ toldNo = {} /\ toldYes = {} /\ seen = <<1>> /\ lied = {} /\ lost = FALSE /\ excused = FALSE
    /\ used = [b \in DOMAIN Bounds |-> 0]

Spend(b) == used[b] < Bounds[b] /\ used' = [used EXCEPT ![b] = @ + 1]
NewFile == 2 + used.drafts + used.edits

-----------------------------------------------------------------------------
(* Steps. *)

Step(do, p, q, f, links) == [do |-> do, p |-> p, q |-> q, f |-> f, links |-> links]
Verify(p, f, links) == Step("verify", p, p, f, links)
Unlink(p, f, links) == Step("unlink", p, p, f, links)
Check == Step("check", "active", "active", None, 2)
Begin == Step("begin", "active", "active", None, 2)
Refuse == <<Step("refuse", "active", "active", None, 2)>>
Save(r) == [do |-> "save", r |-> r]
Move(p, q, f) ==
    <<Step("link", p, q, f, 1), Verify(q, f, 2), Unlink(p, f, 2), Verify(q, f, 1)>>
\* stage(): created exclusively, then filled; only then is the file known.
Stage(p, f, base) ==
    <<Step("create", p, p, f, 1), Step("fill", p, p, base, 1), Verify("active", base, 1)>>

\* Bug: a path is trusted by its name.
IsThere(p, f, links) == disk[p] # None

\* same() and the number of names that verify() allows.
Is(p, f, links) == disk[p] = f /\ Cardinality({q \in Paths : disk[q] = f}) <= links

Possible(s) ==
    CASE s.do \in {"verify", "unlink"} -> Is(s.p, s.f, s.links)
      [] s.do = "absent" -> disk[s.p] = None
      [] s.do = "link" -> Is(s.p, s.f, 1) /\ disk[s.q] = None
      [] s.do = "create" -> disk[s.p] = None
      [] s.do = "fill" -> Is("active", s.f, 1)
      [] s.do = "save" -> ~mem.poisoned
      [] s.do = "refuse" -> FALSE
      [] OTHER -> TRUE

DiskAfter(s) ==
    CASE s.do = "link" -> [disk EXCEPT ![s.q] = disk[s.p]]
      [] s.do = "unlink" -> [disk EXCEPT ![s.p] = None]
      [] s.do = "create" -> [disk EXCEPT ![s.p] = s.f]
      [] OTHER -> disk

\* execution.check(): every step but these looks at the deadline, until the
\* commit has begun.
Checked(s) == s.do \notin {"save", "absent", "refuse"} /\ ~job.begun

Installs(d) == seen' = IF d["active"] \in {None, Last(seen)} THEN seen
                       ELSE Append(seen, d["active"])

-----------------------------------------------------------------------------
(* The lists of steps, from what the disk and the store hold. *)

Removes(paths, links) ==
    LET There(p) == IF p \in paths /\ disk[p] # None
                    THEN <<Unlink(p, disk[p], links)>> ELSE <<>>
    IN There("pending") \o There("next") \o There("old")

Owned == {None, mem.record.draft, mem.record.next}

\* discard(): everything is looked at before anything goes.
Discard ==
    IF mem.poisoned \/ \E p \in Spare : disk[p] \notin Owned THEN Refuse
    ELSE <<Check>> \o Removes(Spare, 2)
         \o <<Save(Idle(IF disk["previous"] # None THEN mem.record.previous ELSE None))>>

\* Bug: a configuration that was not moved yet is removed.
ForwardEagerly ==
    LET r == mem.record IN
    <<Check, Unlink("active", r.base, 2), Verify("previous", r.base, 1)>>
    \o Move("pending", "active", r.draft) \o <<Save(Idle(r.base))>>

\* recover() of a record that has entered its commit: only forward.
Forward ==
    LET r == mem.record IN
    IF \/ disk["next"] # None \/ disk["old"] # None
       \/ disk["previous"] \notin {None, r.base} \/ disk["pending"] \notin {None, r.draft}
       \/ disk["active"] \notin {None, r.base, r.draft}
       \/ disk["active"] = r.base /\ disk["pending"] = None
    THEN Refuse
    ELSE <<Check>>
         \o (IF disk["active"] # r.base THEN <<>>
             ELSE IF disk["previous"] # None THEN <<Unlink("active", r.base, 2)>>
             ELSE Move("active", "previous", r.base))
         \o <<Verify("previous", r.base, 1)>>
         \o (IF disk["active"] # r.draft THEN Move("pending", "active", r.draft)
             ELSE <<Verify("active", r.draft, 2)>> \o Removes({"pending"}, 2))
         \o <<Verify("active", r.draft, 1), Save(Idle(r.base))>>

Recover ==
    LET r == mem.record
        other == disk["previous"] # r.previous /\ r.phase # "entered"
                 /\ ~(r.phase = "prepared" /\ disk["previous"] = None)
    IN  IF other THEN Refuse
        ELSE CASE r.phase = "idle" -> IF \E p \in Spare : disk[p] # None THEN Refuse
                                      ELSE <<Check>>
               [] r.phase = "entered" -> Forward
               [] OTHER -> Discard

\* #restoreDraft(): back from an addition to the batch before it.
Restore(batch, draft) ==
    <<Check>>
    \o (IF disk["pending"] = draft THEN <<Unlink("pending", draft, 1)>> ELSE <<>>)
    \o (IF disk["old"] # None THEN Move("old", "pending", batch.draft) ELSE <<>>)
    \o (IF disk["next"] # None THEN <<Unlink("next", draft, 1)>> ELSE <<>>)
    \o <<Verify("pending", batch.draft, 1),
         Save(Record("pending", batch.base, batch.draft, None, mem.record.previous))>>

\* #verifyPending(), and the record it leaves.
Tidy ==
    LET b == mem.pending
        r == mem.record
        intact == <<Verify("active", b.base, 1), Verify("pending", b.draft, 1)>>
        over == {p \in {"old", "next"} : disk[p] # None}
    IN  IF mem.poisoned THEN Refuse
        ELSE CASE r.phase = "updating" -> Restore(b, r.next) \o intact
               [] r.phase = "pending" /\ r.next # None ->
                    intact
                    \o (IF \E p \in over : disk[p] # r.next THEN Refuse ELSE Removes(over, 1))
                    \o <<Save([r EXCEPT !.next = None])>>
               [] OTHER -> intact
Tidied ==
    IF mem.record.phase = "updating"
    THEN Record("pending", mem.pending.base, mem.pending.draft, None, mem.record.previous)
    ELSE [mem.record EXCEPT !.next = None]

\* #start(), before a batch; #verifyPending(), before an addition to one.
Ready ==
    IF mem.pending # None THEN Tidy
    ELSE IF ~mem.started
      THEN IF mem.record.phase = "entered" THEN Refuse ELSE Recover
    ELSE IF mem.record.phase \in {"pending", "prepared"} THEN Discard
    ELSE <<Check>>

\* #stage() from its try: a draft, beside the draft of a batch before it.
Draft(draft, base, prior) ==
    LET r == mem.record IN
    (IF prior = None THEN Stage("pending", draft, base)
     ELSE Stage("next", draft, base)
          \o <<Save([r EXCEPT !.phase = "updating", !.next = draft])>>
          \o Move("pending", "old", prior.draft) \o Move("next", "pending", draft))
    \o <<Check, Save(Record("pending", base, draft,
                            IF prior = None THEN None ELSE prior.draft, r.previous))>>

\* #commitBatch(): Begin is the last moment at which the deadline counts.
Commit ==
    LET b == mem.pending
        r == [Tidied EXCEPT !.phase = "prepared"]
    IN  Tidy \o <<Save(r)>>
        \o (IF r.previous = None THEN <<Step("absent", "previous", "previous", None, 1)>>
            ELSE <<Unlink("previous", r.previous, 1), Save([r EXCEPT !.previous = None])>>)
        \o <<Verify("active", b.base, 1), Verify("pending", b.draft, 1), Begin,
             Save([r EXCEPT !.previous = None, !.phase = "entered"])>>
        \o Move("active", "previous", b.base) \o Move("pending", "active", b.draft)
        \o <<Verify("active", b.draft, 1), Verify("previous", b.base, 1), Save(Idle(b.base))>>

-----------------------------------------------------------------------------
(* A step of the operation that runs. *)

Running(op, steps, draft, base, restoring) ==
    [op |-> op, steps |-> steps, draft |-> draft, base |-> base,
     restoring |-> restoring, known |-> FALSE, begun |-> FALSE, late |-> FALSE,
     why |-> "none"]

GoesOn(op, steps) == job' = [job EXCEPT !.op = op, !.steps = steps, !.why = "none"]

Working == job # None /\ job.why = "none" /\ job.steps # <<>>
Now == Head(job.steps)

Saved(s) == IF s.do = "save" THEN s.r ELSE journal

StepDone ==
    /\ Working
    /\ LET s == Now IN
        /\ Possible(s) /\ ~(Checked(s) /\ job.late)
        /\ disk' = DiskAfter(s) /\ Installs(disk')
        /\ journal' = Saved(s)
        /\ mem' = [mem EXCEPT !.record = IF s.do = "save" THEN s.r ELSE @]
        /\ job' = [job EXCEPT !.steps = Tail(@), !.known = @ \/ s.do = "fill",
                              !.begun = @ \/ s.do = "begin"]
        /\ UNCHANGED <<torn, up, undo, history, excused, used>>

\* The step finds what it may not go on with.
StepRefused ==
    /\ Working
    /\ LET s == Now IN
        /\ ~Possible(s) /\ ~(Checked(s) /\ job.late)
        /\ job' = [job EXCEPT !.why = "other"]
        /\ UNCHANGED <<disk, journal, torn, up, mem, undo, history, seen, excused, used>>

\* The deadline has passed: this step, and each later one that looks at it, fails.
StepTooLate ==
    /\ Working
    /\ LET s == Now IN
        /\ Checked(s) /\ job.op # "recover"
        /\ IF job.late THEN UNCHANGED used ELSE Spend("late")
        /\ job' = [job EXCEPT !.why = "late", !.late = TRUE]
        /\ UNCHANGED <<disk, journal, torn, up, mem, undo, history, seen, excused>>

\* A call fails, before or after it has had its effect; a record may be torn.
StepFaults ==
    /\ Working
    /\ \E effect \in {"none", "done", "torn"} : LET s == Now IN
        /\ Possible(s) /\ ~(Checked(s) /\ job.late)
        /\ s.do \notin {"begin", "absent"} /\ (effect = "torn" => s.do = "save")
        /\ Spend("faults") /\ excused' = TRUE
        /\ IF effect = "done"
             THEN disk' = DiskAfter(s) /\ Installs(disk') /\ journal' = Saved(s)
             ELSE UNCHANGED <<disk, seen, journal>>
        /\ torn' = (torn \/ effect = "torn")
        /\ lied' = lied \cup IF s.do = "save" /\ effect = "done" /\ s.r.phase = "entered"
                             THEN {s.r.draft} ELSE {}
        /\ mem' = [mem EXCEPT !.poisoned = @ \/ s.do = "save"]
        /\ job' = [job EXCEPT !.why = "other"]
        /\ UNCHANGED <<up, undo, toldNo, toldYes, lost>>

Done(op) == job # None /\ job.op = op /\ job.steps = <<>> /\ job.why = "none"
Failed(op) == job # None /\ job.op = op /\ job.why # "none"

OnDisk == <<disk, journal, torn, seen, lied, lost, excused>>

-----------------------------------------------------------------------------
(* stageApply() and stageUndo(): a batch, an addition to one, or an undo. *)

StageStart(restoring) ==
    /\ up /\ job = None /\ ~mem.poisoned /\ disk["active"] # None
    /\ IF restoring
         THEN mem.pending = None /\ undo # None /\ ~undo.held /\ undo.file = disk["active"]
         ELSE mem.pending # None => mem.pending.base = disk["active"]
    /\ Spend("drafts")
    /\ mem' = [mem EXCEPT !.published = FALSE, !.prior = None]
    /\ job' = Running("ready", Ready, NewFile, disk["active"], restoring)
    /\ lost' = (lost \/ (mem.pending = None /\ mem.started /\ mem.record.phase = "updating"))
    /\ excused' = (excused \/ lost')
    /\ UNCHANGED <<disk, journal, torn, seen, lied, up, undo, toldNo, toldYes>>

StageReady ==
    /\ Done("ready")
    /\ mem' = [mem EXCEPT !.started = TRUE]
    /\ GoesOn("stage", Draft(job.draft, job.base, mem.pending))
    /\ UNCHANGED <<OnDisk, up, undo, toldNo, toldYes, used>>

\* A request that is refused before it reaches the files ends the publication.
RequestRefused ==
    /\ up /\ job = None /\ mem.published
    /\ mem' = [mem EXCEPT !.published = FALSE, !.prior = None]
    /\ UNCHANGED <<OnDisk, up, undo, job, toldNo, toldYes, used>>

Staged ==
    /\ Done("stage")
    /\ mem' = [mem EXCEPT
         !.prior = mem.pending, !.published = TRUE,
         !.pending = [base |-> job.base, draft |-> job.draft,
                      restoring |-> job.restoring
                                    \/ (mem.pending # None /\ mem.pending.restoring)]]
    /\ undo' = IF job.restoring THEN [undo EXCEPT !.held = TRUE] ELSE undo
    /\ job' = None
    /\ UNCHANGED <<OnDisk, up, toldNo, toldYes, used>>

Poison == mem' = [mem EXCEPT !.poisoned = TRUE]
Ends == job' = None

\* The catch of #stage(): only what the store knows to be its own may go.
StageFails ==
    LET place == IF mem.pending = None THEN "pending" ELSE "next" IN
    /\ Failed("stage")
    /\ IF mem.pending # None /\ mem.record.phase = "updating"
         THEN GoesOn("unstage", Restore(mem.pending, job.draft)) /\ UNCHANGED <<mem, excused>>
       ELSE IF job.known
         THEN GoesOn("unstage", <<Unlink(place, job.draft, 1)>>) /\ UNCHANGED <<mem, excused>>
       ELSE IF disk[place] # None THEN Ends /\ Poison /\ excused' = TRUE
       ELSE Ends /\ UNCHANGED <<mem, excused>>
    /\ UNCHANGED <<disk, journal, torn, seen, lied, lost, up, undo, toldNo, toldYes, used>>

\* The cleanup was too late: the record keeps what could not be removed.
UnstageFails ==
    /\ Failed("unstage")
    /\ LET r == mem.record
           kept == IF mem.pending = None
                     THEN <<Save(Record("pending", job.base, job.draft, None, r.previous))>>
                   ELSE IF r.phase = "pending" THEN <<Save([r EXCEPT !.next = job.draft])>>
                   ELSE <<>>
       IN IF job.why # "late" THEN Ends /\ Poison
          ELSE /\ UNCHANGED mem
               /\ IF job.known /\ ~mem.poisoned /\ kept # <<>>
                    THEN GoesOn("mark", kept) ELSE Ends
    /\ UNCHANGED <<OnDisk, up, undo, toldNo, toldYes, used>>

\* The error reaches the caller; nothing else changes.
JobEnds ==
    /\ \E op \in {"unstage", "mark"} : Done(op)
       \/ \E o \in {"ready", "mark", "reject", "tidy", "cancel"} : Failed(o)
    /\ Ends
    /\ UNCHANGED <<OnDisk, up, mem, undo, toldNo, toldYes, used>>

-----------------------------------------------------------------------------
(* rejectStage(), and the undo of a batch that is still pending. *)

\* Bug: the undo stays with the batch that is gone.
KeptBy(batch) == undo

Released(batch) == IF batch.restoring /\ undo # None
                   THEN [undo EXCEPT !.held = FALSE] ELSE undo

RejectStart ==
    /\ up /\ job = None /\ mem.published /\ mem.pending # None
    /\ LET prior == mem.prior IN
       job' = Running("reject",
                IF prior = None THEN Discard
                ELSE <<Save(Record("updating", prior.base, prior.draft,
                                   mem.pending.draft, mem.record.previous))>>
                     \o Restore(prior, mem.pending.draft),
                mem.pending.draft, mem.pending.base, FALSE)
    /\ UNCHANGED <<OnDisk, up, mem, undo, toldNo, toldYes, used>>

Rejected ==
    /\ Done("reject")
    /\ mem' = [mem EXCEPT !.pending = mem.prior, !.published = FALSE, !.prior = None]
    /\ undo' = IF mem.prior = None THEN Released(mem.pending) ELSE undo
    /\ Ends
    /\ UNCHANGED <<OnDisk, up, toldNo, toldYes, used>>

CancelStart ==
    /\ up /\ job = None /\ mem.pending # None /\ mem.pending.base = disk["active"]
    /\ mem' = [mem EXCEPT !.published = FALSE, !.prior = None]
    /\ job' = Running("tidy", Tidy, mem.pending.draft, mem.pending.base, FALSE)
    /\ UNCHANGED <<OnDisk, up, undo, toldNo, toldYes, used>>

CancelTidied ==
    /\ Done("tidy") /\ GoesOn("cancel", Discard)
    /\ UNCHANGED <<OnDisk, up, mem, undo, toldNo, toldYes, used>>

Cancelled ==
    /\ Done("cancel")
    /\ mem' = [mem EXCEPT !.pending = None] /\ undo' = Released(mem.pending)
    /\ Ends
    /\ UNCHANGED <<OnDisk, up, toldNo, toldYes, used>>

-----------------------------------------------------------------------------
(* commitBatch(). *)

CommitStart ==
    /\ up /\ job = None /\ mem.pending # None
    /\ mem' = [mem EXCEPT !.published = FALSE, !.prior = None]
    /\ job' = Running("commit", Commit, mem.pending.draft, mem.pending.base, FALSE)
    /\ UNCHANGED <<OnDisk, up, undo, toldNo, toldYes, used>>

\* #finish(): the undo of this commit, in the place of the one it used.
Committed ==
    /\ Done("commit")
    /\ undo' = [file |-> job.draft, held |-> FALSE]
    /\ mem' = [mem EXCEPT !.pending = None] /\ Ends
    /\ toldYes' = toldYes \cup {job.draft}
    /\ UNCHANGED <<OnDisk, up, toldNo, used>>

\* Bug: a configuration that is gone is taken for one that was never moved.
OutcomeByDraft ==
    CASE disk["active"] = mem.pending.draft -> "committed"
      [] OTHER -> "not-committed"

\* What a failed commit finds decides what it answers.
Outcome ==
    LET b == mem.pending IN
    CASE ~job.begun -> "not-committed"
      [] disk["active"] = b.draft /\ disk["previous"] = b.base /\ disk["pending"] = None ->
           "committed"
      [] disk["active"] = b.base /\ disk["previous"] = None -> "not-committed"
      [] OTHER -> "unknown"

Forgotten == IF mem.pending.restoring THEN None ELSE undo

CommitFails ==
    /\ Failed("commit")
    /\ CASE Outcome = "not-committed" -> GoesOn("abort", Discard) /\ UNCHANGED <<mem, undo>>
         [] Outcome = "committed" ->
              /\ GoesOn("conclude", <<Save(Idle(mem.pending.base))>>)
              /\ undo' = Forgotten /\ UNCHANGED mem
         [] Outcome = "unknown" ->
              /\ Ends /\ undo' = Forgotten
              /\ mem' = [mem EXCEPT !.pending = None, !.poisoned = TRUE]
    /\ UNCHANGED <<OnDisk, up, toldNo, toldYes, used>>

Aborted ==
    /\ Done("abort") \/ Failed("abort")
    /\ undo' = Released(mem.pending)
    /\ mem' = [mem EXCEPT !.pending = None, !.poisoned = @ \/ job.why = "other"]
    /\ Ends
    /\ toldNo' = toldNo \cup {job.draft}
    /\ UNCHANGED <<OnDisk, up, toldYes, used>>

Concluded ==
    /\ Done("conclude") \/ Failed("conclude")
    /\ mem' = [mem EXCEPT !.pending = None, !.poisoned = @ \/ job.why = "other"]
    /\ Ends
    /\ toldYes' = toldYes \cup {job.draft}
    /\ UNCHANGED <<OnDisk, up, undo, toldNo, used>>

-----------------------------------------------------------------------------
(* The start of the bridge, the end of the process, and an editor. *)

\* recoverPoolingConfig(): the journal is read, and a torn record refused.
Restart ==
    /\ ~up /\ job = None
    /\ mem' = Fresh(journal)
    /\ job' = Running("load", <<>>, None, None, FALSE)
    /\ undo' = None
    /\ UNCHANGED <<OnDisk, up, toldNo, toldYes, used>>

RecoverStart ==
    /\ Done("load")
    /\ GoesOn("recover", IF torn THEN Refuse ELSE Recover)
    /\ UNCHANGED <<OnDisk, up, mem, undo, toldNo, toldYes, used>>

Recovered ==
    /\ Done("recover")
    /\ up' = TRUE /\ Ends
    /\ UNCHANGED <<OnDisk, mem, undo, toldNo, toldYes, used>>

\* The bridge does not start; the files are left for inspection.
RecoverFails ==
    /\ Failed("recover") /\ Ends
    /\ UNCHANGED <<OnDisk, up, mem, undo, toldNo, toldYes, used>>

Die ==
    /\ up \/ job # None
    /\ Spend("deaths")
    /\ up' = FALSE /\ job' = None /\ undo' = None /\ mem' = Fresh(journal)
    /\ torn' \in {torn, torn \/ (Working /\ Now.do = "save")}
    /\ excused' = (excused \/ torn'
                   \/ (job # None /\ job.draft \notin {None, journal.draft, journal.next}
                        /\ \E p \in Spare : disk[p] = job.draft))
    /\ UNCHANGED <<disk, journal, seen, lied, lost, toldNo, toldYes>>

\* An editor writes a new file over the configuration, or into it: then every
\* name of the file changes with it.
Edit(inPlace) ==
    /\ Spend("edits") /\ (inPlace => disk["active"] # None)
    /\ disk' = [p \in Paths |-> IF p = "active" \/ (inPlace /\ disk[p] = disk["active"])
                                THEN NewFile ELSE disk[p]]
    /\ Installs(disk') /\ excused' = TRUE
    /\ UNCHANGED <<journal, torn, up, mem, undo, job, history>>

-----------------------------------------------------------------------------
Stepping == StepDone \/ StepRefused \/ StepTooLate \/ StepFaults
Staging == \/ \E restoring \in BOOLEAN : StageStart(restoring)
           \/ StageReady \/ Staged \/ StageFails \/ UnstageFails \/ RequestRefused
Dropping == RejectStart \/ Rejected \/ CancelStart \/ CancelTidied \/ Cancelled \/ JobEnds
Committing == CommitStart \/ Committed \/ CommitFails \/ Aborted \/ Concluded
Starting == Restart \/ RecoverStart \/ Recovered \/ RecoverFails \/ Die

Next == \/ Stepping \/ Staging \/ Dropping \/ Committing \/ Starting
        \/ \E inPlace \in BOOLEAN : Edit(inPlace)

Spec == Init /\ [][Next]_vars

-----------------------------------------------------------------------------
(* What the files and the answers must be. *)

\* A change that was answered "not-committed" never becomes the configuration,
\* and one that was answered "committed" has become it, before and after any
\* number of restarts (the catch of #commitBatch).
Truthful == toldNo \cap ToSet(seen) = {} /\ toldYes \subseteq ToSet(seen)

\* The same but for the drafts whose "entered" record was written by a save
\* that reported a failure.
TruthfulIfSavesAre == (toldNo \ lied) \cap ToSet(seen) = {} /\ toldYes \subseteq ToSet(seen)

\* At rest the journal names every file that an operation has left behind, so
\* that the next operation, or the next start, can remove it (#stage, #start,
\* discard).
LeftoversOwned ==
    up /\ job = None /\ ~mem.poisoned =>
        \A p \in Spare : disk[p] \in {None, journal.draft, journal.next}

\* Whatever dies, fails or is late, and wherever, the configuration that the
\* bridge last had is on the disk, at its place or beside it (move, recover),
\* and a start is refused only when somebody must look: something else than a
\* death or a deadline went wrong, or there are bytes that no record names.
RecoversByItself ==
    /\ disk["active"] = Last(seen) \/ (disk["active"] = None /\ disk["previous"] = Last(seen))
    /\ job # None /\ job.op = "recover" /\ job.why # "none" => excused

\* An undo is held by the pending batch that restores it, and by nothing else:
\* it can neither be used twice nor be lost with a batch (#releaseReservation).
UndoHeld ==
    undo # None /\ job = None =>
        (undo.held <=> mem.pending # None /\ mem.pending.restoring)

\* What a store keeps through deaths, faults and deadlines: the configuration,
\* and at most one right to undo the last change of it.
StoreKept == RecoversByItself /\ UndoHeld

\* What the program puts in the place of the configuration was made from it: a
\* change by an editor is never replaced by a draft of what was there before,
\* not by a commit and not by a recovery.
EditsSurvive ==
    [][used'.edits = used.edits /\ seen' # seen
         => journal.draft = Last(seen') /\ journal.base = Last(seen)]_vars
=============================================================================

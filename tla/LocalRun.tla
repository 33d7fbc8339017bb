------------------------------- MODULE LocalRun -------------------------------
(* A local qualification run: tools/npm-publication/local-windows.mjs drives  *)
(* a plan of steps, each in a container of its own, for hours, and            *)
(* local-run-state.mjs keeps the directory of the run such that a launcher    *)
(* that died or failed anywhere can be followed by another.                   *)
(* verify-local.mjs decides later whether to believe the directory.           *)
(*                                                                            *)
(* A hash of some bytes is the bytes; the trees of sources and tools are a    *)
(* version number that an edit raises and that never comes back.              *)
EXTENDS Integers, Sequences, FiniteSets, TLC, SequencesExt

CONSTANTS
    NoRun,
    MaxInvocations,
    MaxSourceEdits, \* edits of the source or tool trees
    MaxTampers,    \* edits of the directory of the run
    MaxLauncherDeaths,
    MaxErrors      \* commands that fail

VARIABLES
    live,          \* the version of the source and tool trees
    dir,          \* the directory of the run
    gate,          \* the launcher that holds the lock of the directory
    containers,    \* step -> "running" or "stopped"
    troubles

localVars == <<live, dir, gate, containers, troubles>>

-----------------------------------------------------------------------------
(* The plan, with one step of each kind: a control, frozen inputs, the lane   *)
(* of the session, a case.                                                    *)

Plan == <<"failure-control", "inputs", "session-lane", "source-case">>
StepsOfPlan == Range(Plan)

IsCase(step) == step \in {"failure-control", "source-case"}

\* members() and owned().
Members(step) ==
    IF IsCase(step) THEN {<<step, "case">>, <<step, "admission">>} ELSE {<<step, "all">>}
AllMembers == UNION {Members(step) : step \in StepsOfPlan}

Result == <<"run", "result">>
Inventory == <<"run", "inventory">>
Leftovers == {Result, Inventory}

Passed(state, step) == \E i \in 1..Len(state.checkpoints) : Plan[i] = step
Journal(count) == [n \in 1..count |-> dir.receipts[n]]
Contiguous == DOMAIN dir.receipts = 1..Cardinality(DOMAIN dir.receipts)
Bound(state) == IF state.checkpoints = <<>> THEN 0 ELSE Last(state.checkpoints).commands
Evidence(step) == [m \in Members(step) |-> dir.files[m]]

-----------------------------------------------------------------------------
(* history(): what run-state.json may say of the run.                         *)

Own(state, i) == SelectSeq(state.checkpoints, LAMBDA c : c.by = i)
Earlier(state, i) == Len(SelectSeq(state.checkpoints, LAMBDA c : c.by < i))

Statuses(state, i, complete) ==
    IF i < Len(state.invocations) THEN {"failed", "interrupted"}
    ELSE IF complete THEN {"passed"} ELSE {"running", "failed", "passed"}

InvocationHistory(state, i, complete) ==
    LET inv == state.invocations[i]
        before == Earlier(state, i)
        own == Len(Own(state, i))
    IN  /\ inv.status \in Statuses(state, i, complete)
        /\ inv.reused = SubSeq(Plan, 1, before)
        /\ SubSeq(inv.ran, 1, own) = SubSeq(Plan, before + 1, before + own)
        /\ inv.status = "passed" => before + own = Len(Plan)
        /\ \/ Len(inv.ran) = own
           \/ Len(inv.ran) = own + 1 /\ inv.status # "passed" /\ Last(inv.ran) = Plan[before + own + 1]
        /\ i = 1 => inv.setAside = {} /\ inv.removed = {}

History(state, complete) ==
    /\ state.invocations # <<>>
    /\ \A i \in 1..Len(state.checkpoints) :
          /\ state.checkpoints[i].step = Plan[i]
          /\ i > 1 => state.checkpoints[i - 1].commands <= state.checkpoints[i].commands
    /\ \A i \in 1..Len(state.invocations) : InvocationHistory(state, i, complete)
    /\ complete => Len(state.checkpoints) = Len(Plan)

-----------------------------------------------------------------------------
(* load() and preflight().                                                    *)

\* evidenceInventory(): what is in the directory, if exactly that is in it.
Exactly(members) == DOMAIN dir.files \ {Inventory} = members
InventoryNow ==
    [whole |-> TRUE, files |-> [m \in DOMAIN dir.files \ {Inventory} |-> dir.files[m]],
     receipts |-> dir.receipts, state |-> dir.state]

\* recordedInventory(): nothing when it was not written, or only in part.
Recorded == Inventory \in DOMAIN dir.files /\ dir.files[Inventory].whole

\* A pass whose inventory is missing counts as a failure; another is final.
Loads == dir.state # NoRun /\ History(dir.state, FALSE)
         /\ ~(Last(dir.state.invocations).status = "passed" /\ Recorded)

KeptMembers(state) == UNION {Members(c.step) : c \in Range(state.checkpoints)}
Movable(state) == Leftovers \cup (AllMembers \ KeptMembers(state))
LeftMembers(state) == DOMAIN dir.files \ KeptMembers(state)

\* Bug: evidence that is there is the evidence that passed.
ReusableIfThere(state, step) == Members(step) \subseteq DOMAIN dir.files
\* reuse(): the evidence of a step is what it was when the step passed.
Reusable(state, step) ==
    LET checkpoint == CHOOSE c \in Range(state.checkpoints) : c.step = step
    IN  /\ Members(step) \subseteq DOMAIN dir.files
        /\ Evidence(step) = checkpoint.evidence

JournalHolds(checkpoint) ==
    1..checkpoint.commands \subseteq DOMAIN dir.receipts
        /\ Journal(checkpoint.commands) = checkpoint.journal

Preflight(state) ==
    /\ live = state.binding
    /\ LeftMembers(state) \subseteq Movable(state)
    /\ Contiguous
    /\ state.checkpoints # <<>> => JournalHolds(Last(state.checkpoints))
    /\ \A c \in Range(state.checkpoints) : Reusable(state, c.step)

Resumable == Loads /\ Preflight(dir.state)

-----------------------------------------------------------------------------
(* Steps of the launcher.                                                     *)

At(pc) == gate # NoRun /\ gate.pc = pc
InRun(pc) == ~(pc \in {"moves", "opens"})
Goes(pc) == gate' = [gate EXCEPT !.pc = pc]

\* command(): each leaves a receipt under the next number.
Journaled(next) ==
    /\ dir' = [dir EXCEPT !.receipts = @ @@ (gate.n + 1 :> gate.index)]
    /\ gate' = [next EXCEPT !.n = @ + 1]

InInvocation(state, field, value) ==
    [state EXCEPT !.invocations[Len(state.invocations)][field] = value]
Current == Last(dir.state.invocations)
Puts(m, content) == dir' = [dir EXCEPT !.files = @ @@ (m :> content)]

\* An error before run() ends the process; in run() it is the result.
Throws == gate' = IF InRun(gate.pc) THEN [gate EXCEPT !.pc = "finishes", !.passed = FALSE] ELSE NoRun

Invocation(index, reused, aside) ==
    [index |-> index, status |-> "running", reused |-> reused, ran |-> <<>>, setAside |-> aside, removed |-> {}]

\* The constructor of a new run: the directory, the frozen runtime and controller.
Launch ==
    /\ gate = NoRun /\ ~dir.made
    /\ dir' = [dir EXCEPT !.made = TRUE]
    /\ gate' = [pc |-> "opens", index |-> 1, n |-> 0, seen |-> {}, at |-> 0,
                 aside |-> {}, passed |-> FALSE]
    /\ UNCHANGED <<live, containers, troubles>>

\* accept(): the history first, then the leftovers leave the directory. A
\* pass without its inventory was made a failure by load().
Accepted(state) ==
    LET last == Last(state.invocations)
        was == IF last.status = "running" THEN "interrupted"
               ELSE IF last.status = "passed" THEN "failed" ELSE last.status
    IN  [state EXCEPT !.invocations =
            Append(Front(@) \o <<[last EXCEPT !.status = was]>>,
                   Invocation(Len(@) + 1, [i \in 1..Len(state.checkpoints) |-> state.checkpoints[i].step],
                              LeftMembers(state)))]

Resume ==
    /\ gate = NoRun /\ Resumable
    /\ Len(dir.state.invocations) < MaxInvocations
    /\ History(Accepted(dir.state), FALSE)
    /\ dir' = [dir EXCEPT !.state = Accepted(@)]
    /\ gate' = [pc |-> "moves", index |-> Len(dir.state.invocations) + 1, n |-> Bound(dir.state),
                seen |-> {live}, at |-> 0, aside |-> LeftMembers(dir.state), passed |-> FALSE]
    /\ UNCHANGED <<live, containers, troubles>>

\* Bug: the receipts go in the order of their numbers.
OldestReceipt(left) == CHOOSE n \in left : \A o \in left : n <= o
\* Highest first.
NextReceipt(left) == CHOOSE n \in left : \A o \in left : n >= o

SetsAside ==
    /\ At("moves")
    /\ LET left == {n \in DOMAIN dir.receipts : n > gate.n}
           without(f, x) == [y \in DOMAIN f \ {x} |-> f[y]]
       IN  \/ \E m \in gate.aside :
                 /\ dir' = [dir EXCEPT !.files = without(@, m)]
                 /\ gate' = [gate EXCEPT !.aside = @ \ {m}]
           \/ /\ gate.aside = {} /\ left # {}
              /\ dir' = [dir EXCEPT !.receipts = without(@, NextReceipt(left))]
              /\ UNCHANGED gate
           \/ gate.aside = {} /\ left = {} /\ Goes("opens") /\ UNCHANGED dir
    /\ UNCHANGED <<live, containers, troubles>>

\* The rest of openRun(): commands.
Opens ==
    /\ At("opens")
    /\ Journaled([gate EXCEPT !.pc = IF dir.state = NoRun THEN "creates" ELSE "reconciles"])
    /\ UNCHANGED <<live, containers, troubles>>

\* createState(): everything a later invocation must find unchanged.
Creates ==
    /\ At("creates")
    /\ dir' = [dir EXCEPT !.state =
          [binding |-> live, checkpoints |-> <<>>, invocations |-> <<Invocation(1, <<>>, {})>>]]
    /\ Goes("steps")
    /\ UNCHANGED <<live, containers, troubles>>

\* reconcileContainers(): those that carry the label of this run.
Reconciles ==
    /\ At("reconciles")
    /\ IF containers = <<>> THEN Goes("steps") /\ UNCHANGED <<dir, containers>>
       ELSE \E step \in DOMAIN containers :
              /\ containers' = [s \in DOMAIN containers \ {step} |-> containers[s]]
              /\ gate' = [gate EXCEPT !.n = @ + 1]
              /\ dir' = [dir EXCEPT !.receipts = @ @@ (gate.n + 1 :> gate.index),
                                      !.state = InInvocation(@, "removed", Current.removed \cup {step})]
    /\ UNCHANGED <<live, troubles>>

-----------------------------------------------------------------------------
(* caseStep(), inputStep(), sessionLaneStep() and what they run.              *)

ThisStep == Plan[gate.at + 1]
All(step) == <<step, "all">>
Content(version, good) == [by |-> gate.index, live |-> version, good |-> good]
\* The trees a step is about: a case gets the frozen ones.
Subject(step) == IF step = "source-case" THEN dir.files[All("inputs")].live ELSE dir.state.binding

FirstOf(step) == IF IsCase(step) THEN "admits" ELSE IF step = "inputs" THEN "freezes" ELSE "lane"

\* The next step of the plan: one that has passed is reused, if it is what it
\* was; of frozen inputs only the manifest is looked at again.
Steps ==
    /\ At("steps")
    /\ IF gate.at = Len(Plan) THEN Goes("verifies") /\ UNCHANGED dir
       ELSE IF Passed(dir.state, ThisStep)
         THEN /\ \/ /\ Reusable(dir.state, ThisStep) \/ ThisStep = "inputs"
                    /\ gate' = [gate EXCEPT !.at = @ + 1]
                 \/ ~Reusable(dir.state, ThisStep) /\ Throws
              /\ UNCHANGED dir
       ELSE /\ dir' = [dir EXCEPT !.state = InInvocation(@, "ran", Append(Current.ran, ThisStep))]
            /\ Goes(FirstOf(ThisStep))
    /\ UNCHANGED <<live, containers, troubles>>

\* A member of the run is made once, never over another ('wx', mkdir).
Makes(m, content, next) ==
    IF m \in DOMAIN dir.files THEN Throws /\ UNCHANGED dir
    ELSE Puts(m, content) /\ next

Admits ==
    /\ At("admits")
    /\ Makes(<<ThisStep, "admission">>, Content(Subject(ThisStep), "passed"), Goes("makes"))
    /\ UNCHANGED <<live, containers, troubles>>

MakesCase ==
    /\ At("makes")
    /\ Makes(<<ThisStep, "case">>, Content(Subject(ThisStep), "partial"), Goes("boots"))
    /\ UNCHANGED <<live, containers, troubles>>

Err == troubles.errors < MaxErrors /\ troubles' = [troubles EXCEPT !.errors = @ + 1]

\* docker create: it may fail, or have created what it did not tell of; the
\* name is taken if the container of an earlier attempt is still there.
Boots ==
    /\ At("boots")
    /\ \/ /\ ThisStep \notin DOMAIN containers
          /\ containers' = containers @@ (ThisStep :> "stopped")
          /\ Journaled([gate EXCEPT !.pc = "waits"]) /\ UNCHANGED troubles
       \/ /\ ThisStep \notin DOMAIN containers /\ Err
          /\ \/ containers' = containers @@ (ThisStep :> "stopped")
             \/ UNCHANGED containers
          /\ Journaled([gate EXCEPT !.pc = "cleans"])
       \/ /\ ThisStep \in DOMAIN containers
          /\ Journaled([gate EXCEPT !.pc = "cleans"]) /\ UNCHANGED <<containers, troubles>>
    /\ UNCHANGED live

\* docker start and wait. The guest compares its inputs with their manifest.
Waits ==
    /\ At("waits")
    /\ containers' = [containers EXCEPT ![ThisStep] = "running"]
    /\ \/ /\ ThisStep = "source-case" => dir.files[All("inputs")].good = "passed"
          /\ gate' = [gate EXCEPT !.pc = "cleans", !.passed = TRUE]
          /\ UNCHANGED troubles
       \/ Goes("cleans") /\ Err
    /\ UNCHANGED <<live, dir>>

\* Finds the container, by its name if create did not tell, stops, exports and
\* removes it. A cleanup that fails leaves it, and fails the case.
Cleans ==
    /\ At("cleans")
    /\ \/ /\ containers' = [s \in DOMAIN containers \ {ThisStep} |-> containers[s]]
          /\ Journaled([gate EXCEPT !.pc = "records"]) /\ UNCHANGED troubles
       \/ /\ Err
          /\ \/ UNCHANGED containers
             \/ ThisStep \in DOMAIN containers /\ containers' = [containers EXCEPT ![ThisStep] = "stopped"]
          /\ Journaled([gate EXCEPT !.pc = "records", !.passed = FALSE])
    /\ UNCHANGED live

\* result.json of the case, which decides.
RecordsCase ==
    /\ At("records")
    /\ dir' = [dir EXCEPT !.files[<<ThisStep, "case">>].good = IF gate.passed THEN "passed" ELSE "failed"]
    /\ IF gate.passed THEN gate' = [gate EXCEPT !.pc = "passes", !.passed = FALSE] ELSE Throws
    /\ UNCHANGED <<live, containers, troubles>>

\* inputs(): a copy of the trees, compared with them and with the binding.
Freezes ==
    /\ At("freezes")
    /\ Makes(All("inputs"), Content(live, "partial"), Goes("manifests"))
    /\ UNCHANGED <<live, containers, troubles>>

Frozen(version) == live = version /\ version = dir.state.binding

Manifests ==
    /\ At("manifests")
    /\ IF Frozen(dir.files[All("inputs")].live)
         THEN /\ dir' = [dir EXCEPT !.files[All("inputs")].good = "passed",
                                      !.receipts = @ @@ (gate.n + 1 :> gate.index)]
              /\ gate' = [gate EXCEPT !.pc = "passes", !.n = @ + 1, !.seen = @ \cup {live}]
         ELSE Throws /\ UNCHANGED dir
    /\ UNCHANGED <<live, containers, troubles>>

\* sessionLane(): the tests run on the live tree, not on a copy.
Lane ==
    /\ At("lane")
    /\ Makes(All("session-lane"), Content(live, "passed"), Goes("proves"))
    /\ UNCHANGED <<live, containers, troubles>>

\* verifyInputs(): every tree is what this invocation has seen of it.
InputsHold == gate.seen \subseteq {live}

ProvesLane ==
    /\ At("proves")
    /\ IF InputsHold THEN Journaled([gate EXCEPT !.pc = "passes"]) ELSE Throws /\ UNCHANGED dir
    /\ UNCHANGED <<live, containers, troubles>>

\* pass(): a checkpoint over the evidence and the receipts so far.
Checkpoint ==
    [step |-> ThisStep, by |-> gate.index, evidence |-> Evidence(ThisStep), commands |-> gate.n, journal |-> Journal(gate.n)]

Passes ==
    /\ At("passes")
    /\ dir' = [dir EXCEPT !.state.checkpoints = Append(@, Checkpoint)]
    /\ gate' = [gate EXCEPT !.pc = "steps", !.at = @ + 1]
    /\ UNCHANGED <<live, containers, troubles>>

-----------------------------------------------------------------------------
(* The end of run().                                                          *)

\* The inputs once more, and whether an inventory could be written.
Verifies ==
    /\ At("verifies")
    /\ IF InputsHold /\ Exactly(AllMembers)
         THEN Journaled([gate EXCEPT !.pc = "finishes", !.passed = TRUE])
         ELSE Throws /\ UNCHANGED dir
    /\ UNCHANGED <<live, containers, troubles>>

Ending == IF gate.passed THEN "passed" ELSE "failed"

\* finish(); a run that has no state yet has nothing to finish.
Finishes ==
    /\ At("finishes")
    /\ IF dir.state = NoRun THEN UNCHANGED dir
       ELSE dir' = [dir EXCEPT !.state = InInvocation(@, "status", Ending)]
    /\ Goes("reports")
    /\ UNCHANGED <<live, containers, troubles>>

Reports ==
    /\ At("reports")
    /\ Makes(Result, [status |-> Ending, invocations |-> IF dir.state = NoRun THEN <<>> ELSE dir.state.invocations],
             IF gate.passed THEN Goes("inventories") ELSE gate' = NoRun)
    /\ UNCHANGED <<live, containers, troubles>>

MayDie == troubles.deaths < MaxLauncherDeaths /\ troubles' = [troubles EXCEPT !.deaths = @ + 1]

\* writeEvidenceInventory(): not one rename, so a death may cut it.
Inventories ==
    /\ At("inventories")
    /\ \/ Exactly(AllMembers \cup {Result}) /\ Puts(Inventory, InventoryNow) /\ UNCHANGED troubles
       \/ Exactly(AllMembers \cup {Result}) /\ Puts(Inventory, [whole |-> FALSE]) /\ MayDie
       \/ ~Exactly(AllMembers \cup {Result}) /\ UNCHANGED <<dir, troubles>>
    /\ gate' = NoRun
    /\ UNCHANGED <<live, containers>>

-----------------------------------------------------------------------------
(* What goes wrong, and others.                                               *)

\* A command fails or its time is over.
Fails ==
    /\ gate # NoRun
    /\ gate.pc \in {"opens", "creates", "reconciles", "admits", "makes", "freezes", "manifests", "lane", "proves", "verifies"}
    /\ Err /\ Throws
    /\ UNCHANGED <<live, dir, containers>>

\* The lock is a pipe, which the system releases.
Dies ==
    /\ gate # NoRun /\ MayDie
    /\ gate' = NoRun
    /\ UNCHANGED <<live, dir, containers>>

Edits ==
    /\ troubles.edits < MaxSourceEdits
    /\ troubles' = [troubles EXCEPT !.edits = @ + 1]
    /\ live' = live + 1
    /\ UNCHANGED <<dir, gate, containers>>

\* Somebody changes the evidence of a step that has passed: before that, it is
\* taken as it is.
Tampers ==
    /\ dir.state # NoRun /\ troubles.tampers < MaxTampers
    /\ troubles' = [troubles EXCEPT !.tampers = @ + 1]
    /\ \/ \E m \in KeptMembers(dir.state) \cap DOMAIN dir.files : dir' = [dir EXCEPT !.files[m].good = "touched"]
       \/ \E n \in DOMAIN dir.receipts :
              n <= Bound(dir.state) /\ dir' = [dir EXCEPT !.receipts[n] = 0]
    /\ UNCHANGED <<live, gate, containers>>

LocalInit ==
    /\ live = 1
    /\ dir = [made |-> FALSE, state |-> NoRun, files |-> <<>>, receipts |-> <<>>]
    /\ gate = NoRun /\ containers = <<>>
    /\ troubles = [edits |-> 0, tampers |-> 0, deaths |-> 0, errors |-> 0]

LocalNext ==
    \/ Launch \/ Resume \/ SetsAside \/ Opens \/ Creates \/ Reconciles
    \/ Steps \/ Admits \/ MakesCase \/ Boots \/ Waits \/ Cleans \/ RecordsCase
    \/ Freezes \/ Manifests \/ Lane \/ ProvesLane \/ Passes
    \/ Verifies \/ Finishes \/ Reports \/ Inventories
    \/ Fails \/ Dies \/ Edits \/ Tampers

LocalSpec == LocalInit /\ [][LocalNext]_localVars

-----------------------------------------------------------------------------
(* verify-local.mjs.                                                          *)

\* LocalRunState.verify() and verifyLocalEvidence() accept the directory.
Believed ==
    /\ dir.state # NoRun /\ History(dir.state, TRUE)
    /\ {Result} \cup AllMembers \subseteq DOMAIN dir.files
    /\ dir.files[Result] = [status |-> "passed", invocations |-> dir.state.invocations]
    /\ Recorded /\ dir.files[Inventory] = InventoryNow /\ Exactly(AllMembers \cup {Result})
    /\ Contiguous /\ live = dir.state.binding
    /\ \A c \in Range(dir.state.checkpoints) : Reusable(dir.state, c.step) /\ JournalHolds(c)
    /\ \A step \in StepsOfPlan : IsCase(step) => dir.files[<<step, "case">>].good = "passed"

-----------------------------------------------------------------------------
(* Properties.                                                                *)

\* A directory that the verifier believes is genuine, however many launchers it
\* took: every member of a step was left by one and the same attempt, which
\* passed, about the trees the run is bound to, nobody has changed it or its
\* receipts since, and no container of the run is left.
BelievedIsGenuine ==
    Believed =>
        /\ \A c \in Range(dir.state.checkpoints) : \A m \in Members(c.step) :
              dir.files[m] = [by |-> c.by, live |-> dir.state.binding, good |-> "passed"]
        /\ \A n \in 1..Bound(dir.state) : dir.receipts[n] # 0
        /\ containers = <<>>

\* Wherever a launcher died or failed after it had written the state of the run,
\* another may follow or the run has passed, unless an outsider has changed
\* something: a launcher leaves nothing that the next one refuses.
NeverStranded ==
    gate = NoRun /\ dir.state # NoRun /\ troubles.edits + troubles.tampers = 0 => Resumable \/ Believed

\* What a run leaves can be believed or gone on with.
RunKept == BelievedIsGenuine /\ NeverStranded
==============================================================================

------------------------------ MODULE LegacySweep -----------------------------
(***************************************************************************)
(* How the broker ends version 1.3 (Stop() and what it calls, in           *)
(* bin/windows-legacy/src/LegacyProcessBroker.cs): the supervisor, then    *)
(* the bridge, then everything that descends from them, while those        *)
(* processes start others, exit, and numbers of exited processes are used  *)
(* again.                                                                  *)
(*                                                                         *)
(* A process is known here by its birth, which is its place in the         *)
(* sequence of all processes; the system knows it by its number and its    *)
(* time of creation, and knows of its parent the number only.  An exited   *)
(* process can be opened, and keeps its number, as long as somebody has it *)
(* open.                                                                   *)
(***************************************************************************)
EXTENDS Integers, Sequences, FiniteSets

CONSTANTS
    MaximumPinPasses,
    MaximumSweepRounds,
    MaximumSweptProcesses,
    MaxProcesses,   \* bound: processes
    MaxExits,       \* bound: exits that nobody asked for
    MaxSweepFaults  \* bound: processes that resist, snapshots that fail

VARIABLES
    process,  \* the processes, in the order of their births
    sweep,    \* the broker: its step and its counters
    hands,    \* the processes it holds
    lost,     \* history: those that exited by themselves
    sweeps    \* faults and exits so far

sweepVars == <<process, sweep, hands, lost, sweeps>>

Outsider == 1
Root == 2
OldBridge == 3

\* foreign: of another user.
NewProcess(number, by, parent, foreign) ==
    [number |-> number, by |-> by, parent |-> parent, state |-> "alive", foreign |-> foreign]

\* A stranger whose parent has long exited, maybe with a number of the tree;
\* the supervisor and the bridge, which are held; a child of the bridge, and
\* one of that.
SweepInit ==
    /\ \E ghost \in {2, 3, 4}, foreign \in BOOLEAN :
         process = << NewProcess(1, ghost, 0, foreign), NewProcess(2, 0, 0, FALSE),
                      NewProcess(3, 2, Root, FALSE),
                      NewProcess(4, 3, OldBridge, FALSE), NewProcess(5, 4, 4, FALSE) >>
    /\ hands = {Root, OldBridge}
    /\ sweep = [pc |-> "supervisor", shot |-> {}, tried |-> {}, adopted |-> FALSE, passes |-> 0,
                rounds |-> 0, pinned |-> FALSE, settled |-> FALSE, stopping |-> {},
                ended |-> FALSE, rejected |-> FALSE, swept |-> FALSE]
    /\ lost = {} /\ sweeps = [faults |-> 0, exits |-> 0]

Processes == DOMAIN process
Living(p) == process[p].state = "alive"
Listed(p) == process[p].state # "gone"

SweepFault == sweeps.faults < MaxSweepFaults /\ sweeps' = [sweeps EXCEPT !.faults = @ + 1]

-----------------------------------------------------------------------------
(* The processes. *)

\* A Node process ends its direct children with it, by its job object.
Exit(p, withChildren) ==
    process' = [q \in Processes |->
        IF q = p \/ (withChildren /\ process[q].parent = p /\ Living(q))
          THEN [process[q] EXCEPT !.state = "exited"] ELSE process[q]]

\* A number is new, or was that of a process that is gone.
Numbers == (1 .. Len(process) + 1) \ {process[p].number : p \in {q \in Processes : Listed(q)}}

Spawn(p) ==
    /\ Living(p) /\ Len(process) < MaxProcesses
    /\ \E number \in Numbers, foreign \in BOOLEAN :
         process' = Append(process, NewProcess(number, process[p].number, p, foreign))
    /\ UNCHANGED <<sweep, hands, lost, sweeps>>

Exits(p) ==
    /\ Living(p) /\ sweeps.exits < MaxExits
    /\ sweeps' = [sweeps EXCEPT !.exits = @ + 1]
    /\ \E withChildren \in BOOLEAN :
         /\ Exit(p, withChildren)
         /\ lost' = lost \cup {q \in Processes : Living(q) /\ process'[q].state # "alive"}
    /\ UNCHANGED <<sweep, hands>>

Vanish(p) ==
    /\ process[p].state = "exited" /\ p \notin hands
    /\ process' = [process EXCEPT ![p].state = "gone"]
    /\ UNCHANGED <<sweep, hands, lost, sweeps>>

-----------------------------------------------------------------------------
(* The broker. *)

Steps(s) == sweep' = s

\* Kill(), Terminate() and AwaitExit(): the process exits, or the rest of the
\* time for the stop goes by.
Kill(p, s) ==
    /\ \/ /\ IF Living(p) THEN \E withChildren \in BOOLEAN : Exit(p, withChildren)
             ELSE UNCHANGED process
          /\ Steps(s) /\ UNCHANGED sweeps
       \/ Living(p) /\ SweepFault /\ UNCHANGED process /\ Steps([s EXCEPT !.pc = "result"])
    /\ UNCHANGED <<hands, lost>>

Pinning(s) == [s EXCEPT !.pc = "pin", !.passes = 0, !.pinned = FALSE, !.settled = FALSE]

\* The supervisor goes first so it cannot start another bridge.
KillSupervisor == sweep.pc = "supervisor" /\ Kill(Root, Pinning([sweep EXCEPT !.stopping = {Root}]))

\* The bridge is next, once its tree is held; then the rounds of the sweep.
Pinned(s) == [s EXCEPT !.pc = IF OldBridge \in s.stopping THEN "terminate" ELSE "bridge"]

Snapshot ==
    /\ sweep.pc = "pin"
    /\ \/ /\ Steps([sweep EXCEPT !.pc = "walk", !.tried = {}, !.adopted = FALSE,
                     !.shot = {<<process[p].by, process[p].number>> : p \in {q \in Processes : Listed(q)}}])
          /\ UNCHANGED sweeps
       \/ SweepFault /\ Steps(Pinned([sweep EXCEPT !.rejected = TRUE]))
    /\ UNCHANGED <<process, hands, lost>>

\* The children that the snapshot shows of the held processes, those too that
\* are held since.
Candidates ==
    {c \in hands \X (1 .. MaxProcesses) :
        /\ <<process[c[1]].number, c[2]>> \in sweep.shot
        /\ c[2] \notin {process[h].number : h \in hands}
        /\ c \notin sweep.tried}

\* Whoever has the number by now is a child if it names the number of the
\* parent, and is not older: then an earlier owner of that number started it.
IsChild(p, parent) == process[p].by = process[parent].number /\ p > parent

Adopt(parent, number) ==
    LET found == {p \in Processes : Listed(p) /\ process[p].number = number}
        tried == [sweep EXCEPT !.tried = @ \cup {<<parent, number>>}] IN
    /\ sweep.pc = "walk" /\ <<parent, number>> \in Candidates
    /\ IF found = {} THEN Steps(tried) /\ UNCHANGED hands
       ELSE \E p \in found :
         \* It belongs to another user: it cannot be opened, or is not to be held.
         CASE Living(p) /\ process[p].foreign ->
                /\ UNCHANGED hands
                /\ \E rejects \in {IsChild(p, parent), p > parent} :
                     Steps([tried EXCEPT !.rejected = @ \/ rejects])
           [] /\ ~(Living(p) /\ process[p].foreign)
              /\ Cardinality(hands) >= MaximumSweptProcesses + 2 ->
                Steps([tried EXCEPT !.rejected = TRUE]) /\ UNCHANGED hands
           [] OTHER ->
                IF IsChild(p, parent)
                  THEN hands' = hands \cup {p} /\ Steps([tried EXCEPT !.adopted = TRUE, !.pinned = TRUE])
                  ELSE Steps(tried) /\ UNCHANGED hands
    /\ UNCHANGED <<process, lost, sweeps>>

PassEnds ==
    /\ sweep.pc = "walk" /\ Candidates = {}
    /\ Steps(IF ~sweep.adopted THEN Pinned([sweep EXCEPT !.settled = TRUE])
             ELSE IF sweep.passes + 1 < MaximumPinPasses
             THEN [sweep EXCEPT !.pc = "pin", !.passes = @ + 1]
             ELSE Pinned(sweep))
    /\ UNCHANGED <<process, hands, lost, sweeps>>

\* Bug: the bridge is ended before its tree is held.
KillBridgeAtOnce ==
    /\ sweep.pc \in {"pin", "bridge"} /\ OldBridge \notin sweep.stopping
    /\ Kill(OldBridge, Pinning([sweep EXCEPT !.stopping = @ \cup {OldBridge}]))
KillBridge ==
    sweep.pc = "bridge" /\ Kill(OldBridge, Pinning([sweep EXCEPT !.stopping = @ \cup {OldBridge}]))

\* One round: whatever is held and was not yet stopped.
Terminate(p) ==
    /\ sweep.pc = "terminate" /\ p \in hands \ sweep.stopping
    /\ Kill(p, [sweep EXCEPT !.stopping = @ \cup {p}, !.ended = @ \/ Living(p)])

RoundEnds ==
    LET done == sweep.settled /\ ~sweep.pinned /\ ~sweep.ended IN
    /\ sweep.pc = "terminate" /\ hands \subseteq sweep.stopping
    /\ Steps(IF done THEN [sweep EXCEPT !.pc = "result", !.swept = TRUE]
             ELSE IF sweep.rounds + 1 < MaximumSweepRounds
             THEN Pinning([sweep EXCEPT !.rounds = @ + 1, !.ended = FALSE])
             ELSE [sweep EXCEPT !.pc = "result"])
    /\ UNCHANGED <<process, hands, lost, sweeps>>

\* HeldStatus(): the two parts of the receipt.
RootsStopped == ~Living(Root) /\ ~Living(OldBridge)
DescendantsStopped == sweep.swept /\ ~sweep.rejected /\ \A p \in hands \ {Root, OldBridge} : ~Living(p)

SweepNext ==
    \/ \E p \in Processes : Spawn(p) \/ Exits(p) \/ Vanish(p) \/ Terminate(p)
    \/ KillSupervisor \/ Snapshot \/ PassEnds \/ KillBridge \/ RoundEnds
    \/ \E parent \in hands, number \in 1 .. MaxProcesses : Adopt(parent, number)
SweepSpec == SweepInit /\ [][SweepNext]_sweepVars

-----------------------------------------------------------------------------

\* Whether a process descends from the supervisor, whatever numbers say.
OfTheTree[p \in Processes] ==
    p = Root \/ (process[p].parent # 0 /\ OfTheTree[process[p].parent])

\* An ancestor has exited by itself.
Astray[p \in Processes] ==
    process[p].parent \in lost \/ (process[p].parent # 0 /\ Astray[process[p].parent])

Survivors == {p \in Processes : OfTheTree[p] /\ Living(p)}
SaysStopped == sweep.pc = "result" /\ RootsStopped /\ DescendantsStopped

\* The broker ends nothing but the two processes of the plan and what descends
\* from them, however numbers are used again; and when its receipt says that
\* the descendants are stopped, then of those whose line did not break by
\* itself no process lives that was there when the stop began, and none that
\* was started by a process the broker held.
Inherited == 5
SweepSound ==
    /\ \A p \in hands : OfTheTree[p]
    /\ SaysStopped => \A p \in Survivors : Astray[p] \/ (p > Inherited /\ process[p].parent \notin hands)

\* The next round finds whatever a held process started before it died: not so,
\* if it died by itself, after the last snapshot.
SweptWhole == SaysStopped => \A p \in Survivors : process[p].parent \notin hands
=============================================================================

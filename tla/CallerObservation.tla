--------------------------- MODULE CallerObservation ---------------------------
(***************************************************************************)
(* How the guard of an upgrade on Windows finds out that no thread of the  *)
(* process that has called it acts for somebody else (ObserveThreads,      *)
(* CaptureThreads, ValidateThread and Facts of                             *)
(* bin/windows-task-channel/src/ChannelNative.cs, Observe of               *)
(* ChannelCliContext.cs), and how often it is asked                        *)
(* (observeCallerContext of bin/windows-task-channel.mjs).                 *)
(*                                                                         *)
(* Threads are born, take and drop tokens and exit while the guard looks   *)
(* at one after another; the numbers of exited threads are used again.  It *)
(* takes a snapshot of the threads, looks at each, takes another and looks *)
(* again.  A snapshot is taken at one moment.  A thread that is held open  *)
(* keeps its number, but may leave the list of its process.                *)
(***************************************************************************)
EXTENDS Integers, FiniteSets, FiniteSetsExt

CONSTANTS
    NoThread,
    MaxThreads,        \* bound: threads of the caller, and of others
    Numbers,           \* what the system numbers threads with
    MaxObservations,   \* MAX_CALLER_OBSERVATIONS
    MaxPrimaryChanges  \* bound: changes of the caller's own token

\* In the order of their births.
Threads == 1 .. MaxThreads

ASSUME ObservationAssumption == NoThread \notin Threads /\ Numbers \subseteq Nat

VARIABLES
    thread,   \* the threads
    primary,  \* what the token of the caller's process says
    clock,    \* births and exits so far
    look,     \* the guard
    lasting   \* history: threads with a token ever since the second snapshot

observationVars == <<thread, primary, clock, look, lasting>>

Unborn == [state |-> "unborn", number |-> 0, ours |-> FALSE, birth |-> 0, exit |-> 0,
           token |-> FALSE, listed |-> FALSE]

\* role: a command that must not be privileged, or a controller that must be.
ObservationInit ==
    /\ \E n \in Numbers :
         thread = [t \in Threads |->
             IF t = 1 THEN [Unborn EXCEPT !.state = "alive", !.number = n, !.ours = TRUE,
                                          !.birth = 1, !.listed = TRUE]
             ELSE Unborn]
    /\ primary \in {[admin |-> a, changes |-> 0] : a \in BOOLEAN}
    /\ clock = 1
    /\ \E role \in {"ordinary", "admin"} :
         look = [at |-> "idle", role |-> role, attempt |-> 0, first |-> FALSE, began |-> 0,
                 before |-> [n \in {} |-> Unborn], after |-> [n \in {} |-> Unborn],
                 held |-> [n \in {} |-> NoThread], todo |-> {}, live |-> 0,
                 impersonating |-> FALSE, was |-> {}, is |-> {}, reason |-> "none"]
    /\ lasting = {}

-----------------------------------------------------------------------------
(* The caller and the system. *)

IsAlive(t) == thread[t].state = "alive"
Ours == {t \in Threads : IsAlive(t) /\ thread[t].ours}
Holds(t) == \E n \in DOMAIN look.held : look.held[n] = t
Taken == {thread[t].number : t \in {s \in Threads : IsAlive(s) \/ thread[s].listed \/ Holds(s)}}

ThreadBorn(t, n, ours) ==
    /\ thread[t].state = "unborn" /\ \A s \in 1 .. t - 1 : thread[s].state # "unborn"
    /\ n \notin Taken
    /\ clock' = clock + 1
    /\ thread' = [thread EXCEPT ![t] =
          [state |-> "alive", number |-> n, ours |-> ours, birth |-> clock', exit |-> 0,
           token |-> FALSE, listed |-> TRUE]]
    /\ UNCHANGED <<primary, look, lasting>>

ThreadExits(t) ==
    /\ IsAlive(t) /\ Ours # {t}
    /\ clock' = clock + 1
    /\ \E listed \in BOOLEAN :
         thread' = [thread EXCEPT ![t].state = "ended", ![t].exit = clock',
                                  ![t].token = FALSE, ![t].listed = listed]
    /\ lasting' = lasting \ {t}
    /\ UNCHANGED <<primary, look>>

Impersonates(t) ==
    /\ t \in Ours /\ ~thread[t].token
    /\ thread' = [thread EXCEPT ![t].token = TRUE]
    /\ UNCHANGED <<primary, clock, look, lasting>>

Reverts(t) ==
    /\ t \in Ours /\ thread[t].token
    /\ thread' = [thread EXCEPT ![t].token = FALSE]
    /\ lasting' = lasting \ {t}
    /\ UNCHANGED <<primary, clock, look>>

\* A group of the caller's own token is turned on or off.
PrimaryChanges ==
    /\ primary.changes < MaxPrimaryChanges
    /\ primary' = [admin |-> ~primary.admin, changes |-> primary.changes + 1]
    /\ UNCHANGED <<thread, clock, look, lasting>>

System ==
    /\ look.at # "over"
    /\ \/ \E t \in Threads, n \in Numbers, ours \in BOOLEAN : ThreadBorn(t, n, ours)
       \/ \E t \in Threads : ThreadExits(t) \/ Impersonates(t) \/ Reverts(t)
       \/ PrimaryChanges

-----------------------------------------------------------------------------
(* The guard. *)

Churn == {"THREAD_SET_CHANGED", "HELD_THREAD_CHANGED_OR_EXITED", "THREAD_LIVENESS_CHANGED",
          "THREAD_SNAPSHOT_METADATA_INVALID", "THREAD_IDENTITY_CHANGED",
          "CONTEXT_QUERY_FAILED_87"}

\* The guard has its result, and lets the threads go. Only an ordinary command
\* asks again, and only about threads that came and went.
Result(reason) ==
    look' = [look EXCEPT
        !.at = IF /\ look.role = "ordinary" /\ reason \in Churn
                  /\ look.attempt < MaxObservations THEN "idle" ELSE "over",
        !.reason = reason, !.held = [n \in {} |-> NoThread]]

Watch == UNCHANGED <<thread, primary, clock>>

\* Facts(): elevated, or in the enabled group of administrators.
Administrator == primary.admin

\* Observe() reads the token of the process first; Facts() reads it last.
Begin ==
    /\ look.at = "idle"
    /\ IF look.role = "ordinary" /\ Administrator
         THEN Result("PRIMARY_CONTEXT_PRIVILEGED")
         ELSE look' = [look EXCEPT !.at = "clock", !.attempt = @ + 1, !.first = Administrator,
                                   !.live = 0, !.impersonating = FALSE]
    /\ lasting' = {}
    /\ Watch

\* GetSystemTimePreciseAsFileTime.
ReadClock ==
    /\ look.at = "clock"
    /\ look' = [look EXCEPT !.at = "before", !.began = clock]
    /\ UNCHANGED lasting /\ Watch

Listed == {t \in Threads : thread[t].ours /\ thread[t].listed}

\* CaptureThreads(): by number, with what the system says of each thread.
Snapshot ==
    [n \in {thread[t].number : t \in Listed} |->
        LET t == CHOOSE t \in Listed : thread[t].number = n
        IN  [birth |-> thread[t].birth, exit |-> thread[t].exit, ended |-> ~IsAlive(t)]]

CaptureFirst ==
    /\ look.at = "before"
    /\ look' = [look EXCEPT !.at = "open", !.before = Snapshot, !.todo = DOMAIN Snapshot,
                            !.was = Ours]
    /\ UNCHANGED lasting /\ Watch

Looking(n) == look.todo # {} /\ n = Min(look.todo)

\* OpenThread: whoever has the number now.
OpenThread(n) ==
    /\ look.at = "open" /\ Looking(n)
    /\ LET found == {t \in Threads : thread[t].number = n /\ (IsAlive(t) \/ thread[t].listed)}
       IN  IF found = {} THEN Result("CONTEXT_QUERY_FAILED_87")
           ELSE \E t \in found :
                  look' = [look EXCEPT !.at = "validate",
                              !.held = [m \in DOMAIN @ \cup {n} |-> IF m = n THEN t ELSE @[m]]]
    /\ UNCHANGED lasting /\ Watch

\* ValidateThread(): what is wrong with an entry and the thread that is held.
TimesValid(entry) ==
    IF entry.ended THEN entry.birth < entry.exit /\ entry.exit < look.began
    ELSE entry.birth <= look.began /\ entry.exit = 0

Fault(entry, t) ==
    IF ~TimesValid(entry) THEN "THREAD_SNAPSHOT_METADATA_INVALID"
    ELSE IF ~thread[t].ours THEN "THREAD_IDENTITY_CHANGED"
    ELSE IF thread[t].birth # entry.birth \/ thread[t].exit # entry.exit
      THEN "HELD_THREAD_CHANGED_OR_EXITED"
    ELSE IF IsAlive(t) = entry.ended THEN "THREAD_LIVENESS_CHANGED" ELSE "none"

Validate(n) ==
    /\ look.at = "validate" /\ Looking(n)
    /\ LET fault == Fault(look.before[n], look.held[n])
       IN  IF fault # "none" THEN Result(fault)
           ELSE IF look.before[n].ended
                  THEN look' = [look EXCEPT !.at = "open", !.todo = @ \ {n}]
                  ELSE look' = [look EXCEPT !.at = "token", !.live = @ + 1]
    /\ UNCHANGED lasting /\ Watch

\* HasThreadToken().
Seen(t) == thread[t].token

TokenFirst(n) ==
    /\ look.at = "token" /\ Looking(n)
    /\ look' = [look EXCEPT !.at = "open", !.todo = @ \ {n},
                            !.impersonating = @ \/ Seen(look.held[n])]
    /\ UNCHANGED lasting /\ Watch

SameSet == DOMAIN look.before = DOMAIN Snapshot

CaptureSecond ==
    /\ look.at = "open" /\ look.todo = {}
    /\ IF look.live = 0 THEN Result("LIVE_THREAD_SET_EMPTY") /\ UNCHANGED lasting
       ELSE IF ~SameSet THEN Result("THREAD_SET_CHANGED") /\ UNCHANGED lasting
       ELSE /\ look' = [look EXCEPT !.at = "again", !.after = Snapshot,
                                    !.todo = DOMAIN look.before, !.is = Ours]
            /\ lasting' = {t \in Ours : thread[t].token}
    /\ Watch

\* Bug: the second round looks at the entries, but not at the tokens.
Unlooked(t) == FALSE

SameThread(n) == look.before[n] = look.after[n]

\* SameThread() and ValidateThread() for the second time.
ValidateAgain(n) ==
    /\ look.at = "again" /\ Looking(n)
    /\ LET fault == IF ~SameThread(n) THEN "HELD_THREAD_CHANGED_OR_EXITED"
                    ELSE Fault(look.after[n], look.held[n])
       IN  IF fault # "none" THEN Result(fault)
           ELSE IF look.after[n].ended THEN look' = [look EXCEPT !.todo = @ \ {n}]
           ELSE look' = [look EXCEPT !.at = "token again"]
    /\ UNCHANGED lasting /\ Watch

SeenAgain(t) == Seen(t)

TokenAgain(n) ==
    /\ look.at = "token again" /\ Looking(n)
    /\ look' = [look EXCEPT !.at = "again", !.todo = @ \ {n},
                            !.impersonating = @ \/ SeenAgain(look.held[n])]
    /\ UNCHANGED lasting /\ Watch

\* What the roles make of it: Observe() compares the token of the process with
\* what it was; RequireAdmin() wants an administrator.
Judge ==
    /\ look.at = "again" /\ look.todo = {}
    /\ Result(IF look.impersonating THEN "THREAD_TOKEN_OBSERVED"
              ELSE IF look.role = "ordinary"
                THEN IF Administrator # look.first THEN "PRIMARY_TOKEN_CHANGED" ELSE "accepted"
                ELSE IF Administrator THEN "accepted" ELSE "ACTUAL_ADMIN_TOKEN_REQUIRED")
    /\ UNCHANGED lasting /\ Watch

Guard ==
    \/ Begin \/ ReadClock \/ CaptureFirst \/ CaptureSecond \/ Judge
    \/ \E n \in Numbers :
         OpenThread(n) \/ Validate(n) \/ TokenFirst(n) \/ ValidateAgain(n) \/ TokenAgain(n)

ObservationNext == System \/ Guard

ObservationSpec == ObservationInit /\ [][ObservationNext]_observationVars

-----------------------------------------------------------------------------
\* A caller is accepted only if the threads at the second snapshot are those
\* of the first, the very same ones whatever became of their numbers, and none
\* of them has borne a token from then on, nor all along.
NothingOverlooked ==
    look.at = "over" /\ look.reason = "accepted" => look.was = look.is /\ lasting = {}
=============================================================================

------------------------------ MODULE StoreLock ------------------------------
(***************************************************************************)
(* Who may touch the files of a configuration: PoolingFiles.acquire() and  *)
(* close() (bin/pooling-files.mjs), run by any number of processes.        *)
(*                                                                         *)
(* The lock is a directory ("owner") that holds a file ("process.json")    *)
(* naming its owner.  A process that finds the directory reads the file,   *)
(* asks whether its owner lives, and if it does not, takes the directory   *)
(* over through a gate, a second directory ("takeover").  Each step below  *)
(* is one call of the file system; a process may die between any two.      *)
(***************************************************************************)
EXTENDS Integers, FiniteSets

CONSTANTS
    Processes,
    NoProcess   \* stands for nobody

ASSUME StoreLockAssumption ==
    NoProcess \notin Processes /\ "torn" \notin Processes \cup {NoProcess}

VARIABLES
    at,         \* how far each process is in acquire() and close()
    owner,       \* the owner it has read
    lockDir,    \* the directory "owner" exists
    ownerFile,  \* process.json: its process, "torn" while it is being written
    takeover    \* the directory "takeover" exists

lockVars == <<at, owner, lockDir, ownerFile, takeover>>

\* "first" has made the directory, "gate" the gate; "fresh" and "taken" are
\* writing process.json, "opening" has written it and keeps the gate.
Places == {"out", "look", "probe", "stale", "gate", "first", "cleared", "fresh",
           "taken", "opening", "in", "closing", "dead"}

LockTypeOK ==
    /\ at \in [Processes -> Places]
    /\ owner \in [Processes -> Processes \cup {NoProcess}]
    /\ lockDir \in BOOLEAN /\ takeover \in BOOLEAN
    /\ ownerFile \in Processes \cup {NoProcess, "torn"}

LockInit ==
    /\ at = [p \in Processes |-> "out"]
    /\ owner = [p \in Processes |-> NoProcess]
    /\ lockDir = FALSE /\ ownerFile = NoProcess /\ takeover = FALSE

Alive(p) == at[p] # "dead"

GoTo(p, place) == at' = [at EXCEPT ![p] = place]

\* A step that was refused; what it has made is left behind.
Refused(p) == GoTo(p, "out") /\ owner' = [owner EXCEPT ![p] = NoProcess]

-----------------------------------------------------------------------------
(* acquire(). *)

\* mkdir of the lock.
TryLock(p) ==
    /\ at[p] = "out"
    /\ lockDir' = TRUE
    /\ GoTo(p, IF lockDir THEN "look" ELSE "first")
    /\ UNCHANGED <<owner, ownerFile, takeover>>

\* process.json is read; a file that is missing or torn ends the attempt.
ReadOwner(p) ==
    /\ at[p] = "look"
    /\ IF ownerFile \in Processes
         THEN GoTo(p, "probe") /\ owner' = [owner EXCEPT ![p] = ownerFile]
         ELSE Refused(p)
    /\ UNCHANGED <<lockDir, ownerFile, takeover>>

\* Bug: an owner that is alive is taken for dead.
ProbeNobody(p) ==
    /\ at[p] = "probe"
    /\ GoTo(p, "stale")
    /\ UNCHANGED <<owner, lockDir, ownerFile, takeover>>

\* kill(pid, 0): a living owner keeps the lock.
Probe(p) ==
    /\ at[p] = "probe"
    /\ IF Alive(owner[p]) THEN Refused(p) ELSE GoTo(p, "stale") /\ UNCHANGED owner
    /\ UNCHANGED <<lockDir, ownerFile, takeover>>

\* mkdir of the gate, inside the lock.
TakeGate(p) ==
    /\ at[p] = "stale"
    /\ IF lockDir /\ ~takeover
         THEN takeover' = TRUE /\ GoTo(p, "gate") /\ UNCHANGED owner
         ELSE Refused(p) /\ UNCHANGED takeover
    /\ UNCHANGED <<lockDir, ownerFile>>

\* removeMetadata(): only the file that was read may go.
ClearOwner(p) ==
    /\ at[p] = "gate"
    /\ IF ownerFile = owner[p]
         THEN ownerFile' = NoProcess /\ GoTo(p, "cleared") /\ UNCHANGED owner
         ELSE Refused(p) /\ UNCHANGED ownerFile
    /\ UNCHANGED <<lockDir, takeover>>

\* writeMetadata(): created exclusively, then filled.
CreateOwner(p) ==
    /\ at[p] \in {"first", "cleared"}
    /\ IF lockDir /\ ownerFile = NoProcess
         THEN /\ ownerFile' = "torn"
              /\ GoTo(p, IF at[p] = "first" THEN "fresh" ELSE "taken")
              /\ UNCHANGED owner
         ELSE Refused(p) /\ UNCHANGED ownerFile
    /\ UNCHANGED <<lockDir, takeover>>

FillOwner(p) ==
    /\ at[p] \in {"fresh", "taken"}
    /\ ownerFile' = p
    /\ GoTo(p, IF at[p] = "fresh" THEN "in" ELSE "opening")
    /\ UNCHANGED <<owner, lockDir, takeover>>

\* rmdir of the gate.
OpenGate(p) ==
    /\ at[p] = "opening"
    /\ takeover' = FALSE /\ GoTo(p, "in")
    /\ UNCHANGED <<owner, lockDir, ownerFile>>

-----------------------------------------------------------------------------
(* close(), and the end of a process. *)

Leave(p) ==
    /\ at[p] = "in"
    /\ IF ownerFile = p
         THEN ownerFile' = NoProcess /\ GoTo(p, "closing") /\ UNCHANGED owner
         ELSE Refused(p) /\ UNCHANGED ownerFile
    /\ UNCHANGED <<lockDir, takeover>>

\* rmdir of the lock, which fails while something is in it.
RemoveLock(p) ==
    /\ at[p] = "closing"
    /\ lockDir' = (takeover \/ ownerFile # NoProcess)
    /\ Refused(p)
    /\ UNCHANGED <<ownerFile, takeover>>

ProcessDies(p) ==
    /\ Alive(p)
    /\ GoTo(p, "dead") /\ owner' = [owner EXCEPT ![p] = NoProcess]
    /\ UNCHANGED <<lockDir, ownerFile, takeover>>

\* A new process, with an identity that nobody remembers.
ProcessBorn(p) ==
    /\ ~Alive(p) /\ ownerFile # p /\ \A q \in Processes : owner[q] # p
    /\ GoTo(p, "out")
    /\ UNCHANGED <<owner, lockDir, ownerFile, takeover>>

Acquiring(p) ==
    \/ TryLock(p) \/ ReadOwner(p) \/ Probe(p) \/ TakeGate(p) \/ ClearOwner(p)
    \/ CreateOwner(p) \/ FillOwner(p) \/ OpenGate(p)

LockNext == \E p \in Processes :
    Acquiring(p) \/ Leave(p) \/ RemoveLock(p) \/ ProcessDies(p) \/ ProcessBorn(p)

LockSpec == LockInit /\ [][LockNext]_lockVars

-----------------------------------------------------------------------------
(* Safety. *)

Holds(p) == at[p] = "in"

\* No two processes work on the files at once, however their attempts, their
\* deaths and their departures interleave (acquire and close).
OneOwner == \A p, q \in Processes : Holds(p) /\ Holds(q) => p = q

\* An owner finds its own name in the lock: the second look that every
\* operation takes at process.json never fails by what others do.
OwnerIsNamed == \A p \in Processes : Holds(p) => lockDir /\ ownerFile = p
=============================================================================

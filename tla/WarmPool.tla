------------------------------- MODULE WarmPool -------------------------------
(***************************************************************************)
(* The keep-warm pool of one server with sharing "pool" and the spawn gate *)
(* that its refills share with every cold start (bin/mcp-bridge.mjs).      *)
(*                                                                         *)
(* The gate hands out permits to start a process, at most                  *)
(* MAX_CONCURRENT_SPAWNS at once.  A permit is kept until the process      *)
(* speaks, exits or has been silent for long; a caller that has waited too *)
(* long goes on without one.                                               *)
(*                                                                         *)
(* A step is one callback of the event loop; what awaits a settled promise *)
(* runs before the next one, in order (settled).  minWarm is given, so the *)
(* target changes with the configuration only.  Time is left out: an armed *)
(* timer may fire at any moment.                                           *)
(***************************************************************************)
EXTENDS Integers, FiniteSets, Sequences, SequencesExt

CONSTANTS
    Starts,      \* cold starts of other servers, which come again
    Children,    \* warm processes; one that is gone is new again
    MaxWarm,     \* bound of the model: the largest minWarm
    MaxStrays,   \* bound of the model: processes dropped and not yet gone
    MaxSpawns,   \* MAX_CONCURRENT_SPAWNS
    QuickKill    \* killed processes exit before a recycle's refill is due

\* Who asks the gate for the pool.
Refill == "refill"

ASSUME WarmPoolAssumption ==
    /\ Refill \notin Starts
    /\ IsFiniteSet(Starts) /\ IsFiniteSet(Children)
    /\ MaxWarm \in Nat \ {0} /\ MaxSpawns \in Nat \ {0}
    /\ MaxStrays \in Nat /\ Cardinality(Children) >= MaxWarm + MaxStrays + MaxSpawns
    /\ QuickKill \in BOOLEAN

VARIABLES
    active,        \* spawnGate.active
    queue,         \* spawnGate.queue
    settled,       \* callers of acquireSpawn() that have their answer
    start,         \* the cold starts
    child,         \* the warm processes
    pool,          \* warmPool.get(name)
    pooled,        \* warmPool.has(name)
    warmPending,
    target,        \* poolTarget(name), 0 for a server that is not pooled
    refillDue,     \* a timer is armed that calls refillPool(name)
    upgradeHeld,
    shuttingDown

gate == <<active, queue, settled>>
flags == <<upgradeHeld, shuttingDown>>
vars == <<gate, start, child, pool, pooled, warmPending, target, refillDue, flags>>

-----------------------------------------------------------------------------
(* State. *)

\* A process that "failed" to spawn stays where it is and never exits.
ChildStates == {"free", "silent", "ready", "killed", "failed"}

NoChild == [state |-> "free", permit |-> FALSE, taken |-> FALSE]

\* Every variable has its type.
TypeOK ==
    /\ active \in Nat
    /\ queue \in Seq(Starts \cup {Refill})
    /\ settled \in Seq([who : Starts \cup {Refill}, permit : BOOLEAN])
    /\ start \in [Starts -> {"idle", "waiting", "spawned"}]
    /\ child \in [Children -> [state : ChildStates, permit : BOOLEAN, taken : BOOLEAN]]
    /\ pool \in Seq(Children)
    /\ warmPending \in Nat
    /\ target \in 0..MaxWarm
    /\ \A b \in {pooled, refillDue, upgradeHeld, shuttingDown} : b \in BOOLEAN

Pooled == {pool[i] : i \in DOMAIN pool}

Strays == {c \in Children \ Pooled : child[c].state # "free"}

Quiet == settled = <<>>

Least(m, n) == IF m <= n THEN m ELSE n

Repeat(x, n) == [i \in 1..n |-> x]

-----------------------------------------------------------------------------
(* The gate. *)

\* n calls of acquireSpawn(), the first of which find a permit.
Acquire(who, n) ==
    LET granted == Least(n, MaxSpawns - active)
    IN  /\ active' = active + granted
        /\ settled' = settled \o Repeat([who |-> who, permit |-> TRUE], granted)
        /\ queue' = queue \o Repeat(who, n - granted)

\* release(): the permit is handed to the oldest waiter; a caller that goes on
\* without a permit has nothing to release.
Release(permit, rest) ==
    IF permit /\ queue # <<>>
      THEN /\ settled' = Append(rest, [who |-> Head(queue), permit |-> TRUE])
           /\ queue' = Tail(queue)
           /\ UNCHANGED active
      ELSE /\ active' = IF permit THEN active - 1 ELSE active
           /\ settled' = rest
           /\ UNCHANGED queue

\* A waiter has waited SPAWN_GATE_WAIT_MS and goes on without a permit.  The delay
\* is the same for all, so it is the oldest one's timer that fires.
GateTimeout ==
    /\ queue # <<>>
    /\ queue' = Tail(queue)
    /\ settled' = Append(settled, [who |-> Head(queue), permit |-> FALSE])
    /\ UNCHANGED <<active, start, child, pool, pooled, warmPending, target, refillDue, flags>>

\* Another server starts a process: acquireSpawn().
ColdStart(s) ==
    /\ start[s] = "idle" /\ ~shuttingDown
    /\ start' = [start EXCEPT ![s] = "waiting"]
    /\ Acquire(s, 1)
    /\ UNCHANGED <<child, pool, pooled, warmPending, target, refillDue, flags>>

\* The cold start goes on: it is no longer wanted and releases at once, or its
\* process holds the permit.
ColdStarted(s, permit) ==
    /\ \/ /\ start' = [start EXCEPT ![s] = "idle"]
          /\ Release(permit, Tail(settled))
       \/ /\ start' = [start EXCEPT ![s] = IF permit THEN "spawned" ELSE "idle"]
          /\ Release(FALSE, Tail(settled))
    /\ UNCHANGED <<child, pool, pooled, warmPending, target, refillDue, flags>>

\* releaseOnReady(): its process speaks, exits, or has been silent too long.
ColdReady(s) ==
    /\ start[s] = "spawned"
    /\ start' = [start EXCEPT ![s] = "idle"]
    /\ Release(TRUE, settled)
    /\ UNCHANGED <<child, pool, pooled, warmPending, target, refillDue, flags>>

-----------------------------------------------------------------------------
(* The pool. *)

\* What refillPool() orders.
Missing(t, children) == t - Len(children) - warmPending

\* refillPool(), for a hold, a target and a pool that may be new.  A server that
\* shares no package cache needs no permit.
RefillPool(held, t, children, has) ==
    IF held \/ shuttingDown \/ t = 0
      THEN UNCHANGED <<gate, warmPending>> /\ pooled' = has
      ELSE LET n == IF Missing(t, children) > 0 THEN Missing(t, children) ELSE 0
           IN  /\ pooled' = TRUE
               /\ warmPending' = warmPending + n
               /\ \/ Acquire(Refill, n)
                  \/ /\ settled' = settled \o Repeat([who |-> Refill, permit |-> FALSE], n)
                     /\ UNCHANGED <<active, queue>>

\* Bug: a refill that has waited does not look at the pool again.
UnwantedUnlessPooled == shuttingDown \/ target = 0 \/ ~pooled

\* After the wait: noLongerWanted, alreadyMet.
Unwanted == shuttingDown \/ target = 0 \/ ~pooled \/ Len(pool) >= target

\* warmPending once a refill has its answer from the gate.
RefillsPending == IF warmPending > 0 THEN warmPending - 1 ELSE 0

\* A refill goes on: it is not wanted any more, or spawns its warm child.
Refilled(permit) ==
    /\ warmPending' = RefillsPending
    /\ IF Unwanted
          THEN Release(permit, Tail(settled)) /\ UNCHANGED <<child, pool>>
          ELSE \E c \in Children :
                /\ child[c].state = "free"
                /\ child' = [child EXCEPT ![c] = [state |-> "silent", permit |-> permit,
                                                 taken |-> FALSE]]
                /\ pool' = Append(pool, c)
                /\ Release(FALSE, Tail(settled))
    /\ UNCHANGED <<start, pooled, target, refillDue, flags>>

\* A timer set by spawnWarm(), takeWarm() or recycleServer(); more may be armed.
RefillTimer ==
    /\ refillDue
    /\ RefillPool(upgradeHeld, target, pool, pooled)
    /\ \/ refillDue' = TRUE
       \/ /\ QuickKill => \A c \in Pooled : child[c].state # "killed"
          /\ refillDue' = FALSE
    /\ UNCHANGED <<start, child, pool, target, flags>>

\* The pool forgets a process, which is of no interest from here on unless it
\* has a permit to give back.
LetGo(c) == IF child[c].permit THEN [child[c] EXCEPT !.taken = TRUE] ELSE NoChild

\* A session takes the oldest warm child as it is.
TakeWarm ==
    /\ pool # <<>> /\ ~shuttingDown
    /\ child' = [child EXCEPT ![Head(pool)] = LetGo(Head(pool))]
    /\ pool' = Tail(pool)
    /\ refillDue' = TRUE
    /\ UNCHANGED <<gate, start, pooled, warmPending, target, flags>>

\* Kept by releaseOnReady() until now.
Freed(c) == IF child[c].taken THEN NoChild ELSE [child[c] EXCEPT !.permit = FALSE]

\* The first output.
Speaks(c) ==
    /\ child[c].state = "silent"
    /\ child' = [child EXCEPT ![c] = IF child[c].taken THEN NoChild
                                     ELSE [NoChild EXCEPT !.state = "ready"]]
    /\ Release(child[c].permit, settled)
    /\ UNCHANGED <<start, pool, pooled, warmPending, target, refillDue, flags>>

\* The longest silence for which a permit is kept.
ReadyTimeout(c) ==
    /\ child[c].permit
    /\ child' = [child EXCEPT ![c] = Freed(c)]
    /\ Release(TRUE, settled)
    /\ UNCHANGED <<start, pool, pooled, warmPending, target, refillDue, flags>>

\* An 'error' instead of a 'spawn': nobody listens, and no 'exit' follows.
SpawnFails(c) ==
    /\ child[c].state = "silent"
    /\ child' = [child EXCEPT ![c] = [child[c] EXCEPT !.state = "failed"]]
    /\ UNCHANGED <<gate, start, pool, pooled, warmPending, target, refillDue, flags>>

\* Bug: the pool waits for the next take.
ReplacedOnTake(c) == refillDue

\* An exit that nobody asked for is replaced, after a delay that grows when
\* processes exit fast.
Replaced(c) ==
    \/ refillDue
    \/ /\ ~child[c].taken /\ child[c].state # "killed"
       /\ ~shuttingDown /\ target > 0

\* 'exit' of a warm child.
Exit(c) ==
    /\ child[c].state \in {"silent", "ready", "killed"}
    /\ child' = [child EXCEPT ![c] = NoChild]
    /\ pool' = RemoveFirst(pool, c)
    /\ refillDue' = Replaced(c)
    /\ Release(child[c].permit, settled)
    /\ UNCHANGED <<start, pooled, warmPending, target, flags>>

-----------------------------------------------------------------------------
(* Configuration, upgrade and shutdown. *)

\* killTree() of some processes.
Killed(cs) ==
    [c \in Children |-> IF c \in cs /\ child[c].state \in {"silent", "ready"}
                          THEN [child[c] EXCEPT !.state = "killed"] ELSE child[c]]

\* recycleServer(): the refill is due a second later.
Recycle ==
    /\ child' = Killed(Pooled)
    /\ refillDue' = TRUE
    /\ UNCHANGED <<gate, start, pool, pooled, warmPending, target, flags>>

\* The pool that is left for a smaller target: the oldest.
Trimmed(t) == SubSeq(pool, 1, Least(Len(pool), t))

\* applyConfig() with another definition, pooled or not.  One that differs in
\* pooling policy alone does not recycle.
Reload(t, policyOnly) ==
    LET kept == Trimmed(t)
        dropped == {pool[i] : i \in (Len(kept) + 1)..Len(pool)}
    IN  /\ Cardinality(Strays \cup dropped) <= MaxStrays
        /\ target' = t
        /\ pool' = kept
        /\ child' = [c \in Children |->
                       IF c \in dropped /\ child[c].state = "failed" THEN LetGo(c)
                       ELSE Killed(IF policyOnly THEN dropped ELSE Pooled)[c]]
        /\ refillDue' = (refillDue \/ ~policyOnly)
        /\ RefillPool(upgradeHeld, t, kept, pooled)
        /\ UNCHANGED <<start, flags>>

\* applyConfig() without the server.
RemoveServer ==
    /\ Cardinality(Strays \cup Pooled) <= MaxStrays
    /\ target' = 0
    /\ pool' = <<>> /\ pooled' = FALSE
    /\ child' = [c \in Children |->
                   IF c \in Pooled /\ child[c].state = "failed" THEN LetGo(c)
                   ELSE Killed(Pooled)[c]]
    /\ refillDue' = TRUE
    /\ UNCHANGED <<gate, start, warmPending, flags>>

\* 'quiesce': the bridge is held for an upgrade.
Hold ==
    /\ ~upgradeHeld
    /\ upgradeHeld' = TRUE
    /\ UNCHANGED <<gate, start, child, pool, pooled, warmPending, target, refillDue,
                   shuttingDown>>

\* 'activate', 'resume': the timers that fired meanwhile are made up for.
Resume ==
    /\ upgradeHeld
    /\ upgradeHeld' = FALSE
    /\ RefillPool(FALSE, target, pool, pooled)
    /\ UNCHANGED <<start, child, pool, target, refillDue, shuttingDown>>

\* shutdown() up to its await; the process ends soon after.
BeginShutdown ==
    /\ ~shuttingDown
    /\ shuttingDown' = TRUE
    /\ UNCHANGED <<gate, start, child, pool, pooled, warmPending, target, refillDue,
                   upgradeHeld>>

-----------------------------------------------------------------------------
(* The specification. *)

Init ==
    \E t \in 1..MaxWarm :
        /\ active = 0 /\ queue = <<>>
        /\ settled = <<>>
        /\ start = [s \in Starts |-> "idle"]
        /\ child = [c \in Children |-> NoChild]
        /\ pool = <<>> /\ pooled = FALSE
        /\ warmPending = 0 /\ target = t
        /\ refillDue = TRUE   \* the loop that warms the pools at boot
        /\ upgradeHeld \in BOOLEAN   \* started for an upgrade or not
        /\ shuttingDown = FALSE

Microtask ==
    /\ settled # <<>>
    /\ LET next == Head(settled)
       IN  IF next.who = Refill THEN Refilled(next.permit) ELSE ColdStarted(next.who, next.permit)

Warm(c) == Speaks(c) \/ ReadyTimeout(c) \/ SpawnFails(c) \/ Exit(c)

Bridge ==
    \/ Recycle \/ RemoveServer \/ Hold \/ Resume \/ BeginShutdown
    \/ \E t \in 0..MaxWarm, policyOnly \in BOOLEAN : Reload(t, policyOnly)

Callback ==
    \/ RefillTimer \/ TakeWarm \/ GateTimeout
    \/ \E s \in Starts : ColdStart(s) \/ ColdReady(s)
    \/ \E c \in Children : Warm(c)
    \/ Bridge

Next == Microtask \/ (Quiet /\ Callback)

Spec == Init /\ [][Next]_vars

\* Timers fire.  A process need not speak nor exit, unless it was killed.
Fairness ==
    /\ WF_vars(Microtask)
    /\ WF_vars(RefillTimer /\ ~refillDue')
    /\ WF_vars(GateTimeout)
    /\ \A s \in Starts : WF_vars(ColdReady(s))
    /\ \A c \in Children : WF_vars(child[c].state = "killed" /\ Exit(c))

FairSpec == Spec /\ Fairness

-----------------------------------------------------------------------------
(* Properties. *)

PermitsOut ==
    Cardinality({i \in DOMAIN settled : settled[i].permit})
      + Cardinality({s \in Starts : start[s] = "spawned"})
      + Cardinality({c \in Children : child[c].permit})

\* The gate counts its permits right: each is with one caller or process, and
\* there are never more than MAX_CONCURRENT_SPAWNS of them, although some
\* callers go on without one and each permit has four ways to come back.
PermitsCounted == active = PermitsOut /\ active <= MaxSpawns

\* Nobody waits at the gate beside a free permit.
WaitsOnlyWhenTaken == queue # <<>> => active = MaxSpawns

\* The pool never holds more than minWarm, whatever was reloaded while refills
\* waited at the gate.
WithinTarget == Len(pool) <= target

\* Permits and pool are accounted for, in whatever order children start, exit,
\* are taken or given up.
PoolAccounted == PermitsCounted /\ WaitsOnlyWhenTaken /\ WithinTarget

\* A pooled server is not without warm children for ever.
PoolComesBack ==
    (target > 0 /\ pool = <<>>) ~> (pool # <<>> \/ target = 0 \/ upgradeHeld \/ shuttingDown)

===============================================================================

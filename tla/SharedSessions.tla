---------------------------- MODULE SharedSessions ----------------------------
(***************************************************************************)
(* The manager of shared servers (class SharedSessionManager of            *)
(* bin/shared-sessions.mjs) with the spawn callback the bridge gives it    *)
(* (bin/mcp-bridge.mjs): which generation of a server a caller may join,   *)
(* when a new one may start, and what is left when one ends.               *)
(*                                                                         *)
(* A generation is a record with what the manager sees of a SharedGroup:   *)
(* its lifecycle, its child process, its callers, and whether it has       *)
(* unresolved operations.  Its steps are those of GroupLifecycle, which    *)
(* SharedGroup implements in detail.                                       *)
(*                                                                         *)
(* A caller gives a key: the canonical definition and initialize           *)
(* parameters together.  Time is left out but for one fact, whether the    *)
(* delay after a failure has elapsed.                                      *)
(***************************************************************************)
EXTENDS Integers, FiniteSets, Sequences, SequencesExt

CONSTANTS
    Names,           \* configured servers
    Keys,            \* configKey and initKey of a caller
    Callers,         \* callers of acquire(); a caller may try again
    MaxSessions,     \* sharedMaxSessions
    MaxGroups,       \* groups.size, 128 in the code
    MaxCooldowns,    \* cooldowns.size, 128 in the code
    MaxGenerations   \* bound of the model: generations started in a run

ASSUME SessionsAssumption ==
    /\ IsFiniteSet(Names) /\ IsFiniteSet(Callers)
    /\ MaxSessions \in Nat \ {0} /\ MaxGroups \in Nat \ {0}
    /\ MaxCooldowns \in Nat /\ MaxGenerations \in Nat

VARIABLES
    generations,   \* every SharedGroup so far, numbered by this.sequence
    groups,        \* the current generation of each name, 0 if none
    cooldowns,     \* names with a deadline, in insertion order
    elapsed,       \* names whose deadline has passed
    wants,         \* the key of each caller's last acquire()
    shuttingDown,  \* the bridge's flag, set before it calls shutdown()
    closed

vars == <<generations, groups, cooldowns, elapsed, wants, shuttingDown, closed>>

Gens == DOMAIN generations

States == {"starting", "ready", "draining", "stopping", "dead"}

\* "waiting" at the spawn gate, "spawned" but not yet handed to the group.
Children == {"waiting", "spawned", "alive", "exited", "none"}

Generations ==
    [name : Names, key : Keys, state : States, child : Children, killRequested : BOOLEAN,
     failed : BOOLEAN, waiters : SUBSET Callers, members : SUBSET Callers, busy : BOOLEAN]

\* Every variable has its type.
TypeOK ==
    /\ generations \in Seq(Generations) /\ Len(generations) <= MaxGenerations
    /\ groups \in [Names -> 0..MaxGenerations]
    /\ cooldowns \in Seq(Names)
    /\ elapsed \subseteq Names
    /\ wants \in [Callers -> Keys]
    /\ shuttingDown \in BOOLEAN /\ closed \in BOOLEAN

-----------------------------------------------------------------------------
(* What happens to one generation. *)

Live(gen) == gen.state \in {"starting", "ready", "draining"}

\* Bug: only a failed generation is killed.
StoppedUnkilled(gen, fail) ==
    IF Live(gen)
      THEN [gen EXCEPT !.state = "stopping", !.members = {}, !.busy = FALSE,
                       !.failed = @ \/ fail,
                       !.killRequested = fail /\ gen.child \in {"alive", "exited"}]
      ELSE gen

\* stop() up to kill(): a child that has not arrived is killed when it does.
Stopped(gen, fail) ==
    IF Live(gen)
      THEN [gen EXCEPT !.state = "stopping", !.members = {}, !.busy = FALSE,
                       !.failed = @ \/ fail,
                       !.killRequested = gen.child \in {"alive", "exited"}]
      ELSE gen

Become(g, gen) == generations' = [generations EXCEPT ![g] = gen]

\* dead() and retired(): the name is free again, after a delay if the
\* generation failed; too many deadlines push out the oldest.
Retired(g, gen) ==
    /\ Become(g, [gen EXCEPT !.state = "dead"])
    /\ groups' = [groups EXCEPT ![gen.name] = IF @ = g THEN 0 ELSE @]
    /\ IF gen.failed /\ ~closed
         THEN LET kept == Append(Remove(cooldowns, gen.name), gen.name)
              IN  /\ cooldowns' = IF Len(kept) > MaxCooldowns THEN Tail(kept) ELSE kept
                  /\ elapsed' = (elapsed \ {gen.name}) \cap ToSet(cooldowns')
         ELSE UNCHANGED <<cooldowns, elapsed>>

\* A caller that waits for no generation and is attached to none.
Out(c) == \A g \in Gens : c \notin generations[g].waiters \cup generations[g].members

-----------------------------------------------------------------------------
(* The manager's calls. *)

NewGeneration(c, n, k) ==
    [name |-> n, key |-> k, state |-> "starting", child |-> "waiting", killRequested |-> FALSE,
     failed |-> FALSE, waiters |-> {c}, members |-> {}, busy |-> FALSE]

Init ==
    /\ generations = <<>>
    /\ wants \in [Callers -> Keys]
    /\ groups = [n \in Names |-> 0]
    /\ cooldowns = <<>> /\ elapsed = {}
    /\ shuttingDown = FALSE /\ closed = FALSE

\* The delay after the last failure of the name is over, if there was one.
MayRetry(n) == Contains(cooldowns, n) => n \in elapsed

\* acquire() of a name without a group, its delay over.
Started(c, n, k) ==
    /\ ~closed /\ Out(c)
    /\ groups[n] = 0
    /\ MayRetry(n)
    /\ cooldowns' = Remove(cooldowns, n)
    /\ elapsed' = elapsed \ {n}
    /\ UNCHANGED <<shuttingDown, closed>>
    /\ IF Cardinality({m \in Names : groups[m] # 0}) >= MaxGroups
         THEN UNCHANGED <<generations, groups, wants>>
         ELSE /\ Len(generations) < MaxGenerations
              /\ generations' = Append(generations, NewGeneration(c, n, k))
              /\ groups' = [groups EXCEPT ![n] = Len(generations')]
              /\ wants' = [wants EXCEPT ![c] = k]

\* acquire() of a name with a group that takes callers with this key.
Compatible(g, k) == generations[g].key = k

Joined(c, n, k) ==
    /\ ~closed /\ Out(c)
    /\ groups[n] # 0
    /\ LET g == groups[n]
           gen == generations[g]
       IN  /\ Compatible(g, k)
           /\ gen.state \in {"starting", "ready"}
           /\ Cardinality(gen.members) + Cardinality(gen.waiters) < MaxSessions
           /\ Become(g, [gen EXCEPT !.waiters = @ \cup {c}])
    /\ wants' = [wants EXCEPT ![c] = k]
    /\ UNCHANGED <<groups, cooldowns, elapsed, shuttingDown, closed>>

\* The caller's await of group.ready is over: it is attached, or refused.
Resumed(g, c) ==
    /\ c \in generations[g].waiters
    /\ generations[g].state # "starting"
    /\ LET gen == [generations[g] EXCEPT !.waiters = @ \ {c}]
       IN  Become(g, IF gen.state = "ready" THEN [gen EXCEPT !.members = @ \cup {c}] ELSE gen)
    /\ UNCHANGED <<groups, cooldowns, elapsed, wants, shuttingDown, closed>>

\* recycle(): busy work drains, an idle or starting generation stops.
Recycle(n) ==
    /\ groups[n] # 0
    /\ LET g == groups[n]
           gen == generations[g]
       IN  Become(g, CASE gen.state = "ready" /\ gen.busy -> [gen EXCEPT !.state = "draining",
                                                                         !.failed = FALSE]
                       [] gen.state = "starting" \/ (gen.state = "ready" /\ ~gen.busy)
                            -> Stopped(gen, FALSE)
                       [] OTHER -> gen)
    /\ UNCHANGED <<groups, cooldowns, elapsed, wants, shuttingDown, closed>>

\* Bug: the name is free before the process is gone.
RemoveServerAtOnce(n) ==
    /\ cooldowns' = Remove(cooldowns, n)
    /\ elapsed' = elapsed \ {n}
    /\ generations' = [g \in Gens |-> IF g = groups[n] THEN Stopped(generations[g], FALSE)
                                                      ELSE generations[g]]
    /\ groups' = [groups EXCEPT ![n] = 0]
    /\ UNCHANGED <<wants, shuttingDown, closed>>

\* remove(): the delay is forgotten, and the group stops.
RemoveServer(n) ==
    /\ cooldowns' = Remove(cooldowns, n)
    /\ elapsed' = elapsed \ {n}
    /\ generations' = [g \in Gens |-> IF g = groups[n] THEN Stopped(generations[g], FALSE)
                                                      ELSE generations[g]]
    /\ UNCHANGED <<groups, wants, shuttingDown, closed>>

\* The bridge's shutdown() raises its flag, waits for the pooling
\* configuration to close, and shuts the manager down.
BeginShutdown ==
    /\ ~shuttingDown /\ shuttingDown' = TRUE
    /\ UNCHANGED <<generations, groups, cooldowns, elapsed, wants, closed>>

Shutdown ==
    /\ shuttingDown /\ ~closed
    /\ closed' = TRUE
    /\ generations' = [g \in Gens |-> IF groups[generations[g].name] = g
                                        THEN Stopped(generations[g], FALSE)
                                        ELSE generations[g]]
    /\ cooldowns' = <<>> /\ elapsed' = {}
    /\ UNCHANGED <<groups, wants, shuttingDown>>

-----------------------------------------------------------------------------
(* The spawn, the process and the group's own ends. *)

\* The callback comes out of the spawn gate: it looks its group up by name.
Wanted(n) == ~shuttingDown /\ groups[n] # 0 /\ generations[groups[n]].state = "starting"

Spawned(g) ==
    /\ generations[g].child = "waiting"
    /\ Wanted(generations[g].name)
    /\ Become(g, [generations[g] EXCEPT !.child = "spawned"])
    /\ UNCHANGED <<groups, cooldowns, elapsed, wants, shuttingDown, closed>>

\* The callback refuses, or the process cannot be created.
SpawnRejects(g) ==
    /\ generations[g].child = "waiting"
    /\ Retired(g, Stopped([generations[g] EXCEPT !.child = "none"], TRUE))
    /\ UNCHANGED <<wants, shuttingDown, closed>>

\* start() gets the process: it initializes it, or finds it dead or unusable,
\* or has stopped in the meantime and kills it.
Arrives(g) ==
    /\ generations[g].child = "spawned"
    /\ UNCHANGED <<wants, shuttingDown, closed>>
    /\ \/ /\ generations[g].state = "stopping"
          /\ Become(g, [generations[g] EXCEPT !.child = "alive", !.killRequested = TRUE])
          /\ UNCHANGED <<groups, cooldowns, elapsed>>
       \/ /\ generations[g].state = "starting"
          /\ LET gen == [generations[g] EXCEPT !.child = "alive"]
             IN  Become(g, gen) \/ Become(g, Stopped(gen, TRUE))
          /\ UNCHANGED <<groups, cooldowns, elapsed>>
       \/ LET gen == [generations[g] EXCEPT !.child = "exited"]
          IN  Retired(g, [Stopped(gen, TRUE) EXCEPT !.killRequested = TRUE])

Ready(g) ==
    /\ generations[g].state = "starting" /\ generations[g].child = "alive"
    /\ Become(g, [generations[g] EXCEPT !.state = "ready"])
    /\ UNCHANGED <<groups, cooldowns, elapsed, wants, shuttingDown, closed>>

\* Work starts while somebody is attached, and ends on the child's word; the
\* last of a draining generation ends it.
WorkStarts(g) ==
    /\ generations[g].state = "ready" /\ generations[g].members # {}
    /\ Become(g, [generations[g] EXCEPT !.busy = TRUE])
    /\ UNCHANGED <<groups, cooldowns, elapsed, wants, shuttingDown, closed>>

WorkEnds(g) ==
    /\ generations[g].busy
    /\ Become(g, IF generations[g].state = "draining"
                   THEN Stopped(generations[g], FALSE)
                   ELSE [generations[g] EXCEPT !.busy = FALSE])
    /\ UNCHANGED <<groups, cooldowns, elapsed, wants, shuttingDown, closed>>

\* A session ends; its running work keeps the generation busy.
Detached(g, c) ==
    /\ c \in generations[g].members
    /\ Become(g, [generations[g] EXCEPT !.members = @ \ {c}])
    /\ UNCHANGED <<groups, cooldowns, elapsed, wants, shuttingDown, closed>>

\* A request of the generation times out: it drains, and has failed.
WorkTimesOut(g) ==
    /\ generations[g].state = "ready" /\ generations[g].busy
    /\ Become(g, [generations[g] EXCEPT !.state = "draining", !.failed = TRUE])
    /\ UNCHANGED <<groups, cooldowns, elapsed, wants, shuttingDown, closed>>

LingerExpires(g) ==
    /\ generations[g].state = "ready" /\ ~generations[g].busy
    /\ generations[g].members = {} /\ generations[g].waiters = {}
    /\ Become(g, Stopped(generations[g], FALSE))
    /\ UNCHANGED <<groups, cooldowns, elapsed, wants, shuttingDown, closed>>

\* Bug: there is no init timer.
FailsOnceReady(g) ==
    /\ \/ generations[g].state = "draining"
       \/ generations[g].state = "ready" /\ generations[g].child = "alive"
    /\ Become(g, Stopped(generations[g], TRUE))
    /\ UNCHANGED <<groups, cooldowns, elapsed, wants, shuttingDown, closed>>

\* The init timer, the drain timer, or a fault of a child that has arrived.
Fails(g) ==
    /\ \/ generations[g].state \in {"starting", "draining"}
       \/ generations[g].state = "ready" /\ generations[g].child = "alive"
    /\ Become(g, Stopped(generations[g], TRUE))
    /\ UNCHANGED <<groups, cooldowns, elapsed, wants, shuttingDown, closed>>

\* exited(), of its own accord or killed.
Exits(g) ==
    /\ generations[g].child = "alive"
    /\ Retired(g, Stopped([generations[g] EXCEPT !.child = "exited"], TRUE))
    /\ UNCHANGED <<wants, shuttingDown, closed>>

KillReport(g) ==
    /\ generations[g].state = "stopping" /\ generations[g].killRequested
    /\ Become(g, [generations[g] EXCEPT !.failed = TRUE])
    /\ UNCHANGED <<groups, cooldowns, elapsed, wants, shuttingDown, closed>>

DelayElapses(n) ==
    /\ Contains(cooldowns, n)
    /\ elapsed' = elapsed \cup {n}
    /\ UNCHANGED <<generations, groups, cooldowns, wants, shuttingDown, closed>>

Next ==
    \/ \E c \in Callers, n \in Names, k \in Keys : Started(c, n, k) \/ Joined(c, n, k)
    \/ \E g \in Gens, c \in Callers : Resumed(g, c) \/ Detached(g, c)
    \/ \E n \in Names : Recycle(n) \/ RemoveServer(n) \/ DelayElapses(n)
    \/ BeginShutdown \/ Shutdown
    \/ \E g \in Gens :
         \/ Spawned(g) \/ SpawnRejects(g) \/ Arrives(g) \/ Ready(g)
         \/ WorkStarts(g) \/ WorkEnds(g) \/ WorkTimesOut(g)
         \/ LingerExpires(g) \/ Fails(g) \/ Exits(g) \/ KillReport(g)

\* The gate lets every spawn through in bounded time, promises settle, the
\* timers fire, and a killed process exits.
Fairness ==
    /\ \A g \in 1..MaxGenerations :
         /\ WF_vars(g \in Gens /\ (Spawned(g) \/ SpawnRejects(g)))
         /\ WF_vars(g \in Gens /\ Arrives(g))
         /\ WF_vars(g \in Gens /\ generations[g].state \in {"starting", "draining"} /\ Fails(g))
         /\ WF_vars(g \in Gens /\ generations[g].killRequested /\ Exits(g))
         /\ \A c \in Callers : WF_vars(g \in Gens /\ Resumed(g, c))
    /\ WF_vars(Shutdown)

Spec == Init /\ [][Next]_vars

FairSpec == Spec /\ Fairness

-----------------------------------------------------------------------------
(* Safety. *)

Running(g) == generations[g].child \in {"spawned", "alive"}

\* No server ever has two processes, however its generations are recycled,
\* removed and replaced while a spawn is on its way.
OneProcess ==
    \A g, h \in Gens :
       Running(g) /\ Running(h) /\ generations[g].name = generations[h].name => g = h

\* No process is left behind: one that runs without a group in service was
\* told to die, or will be when the group gets it (start, kill).
NoneLeftBehind ==
    \A g \in Gens :
       /\ generations[g].child = "alive" /\ ~Live(generations[g])
            => generations[g].killRequested /\ generations[g].state = "stopping"
       /\ generations[g].child = "spawned" => generations[g].state \in {"starting", "stopping"}

\* Callers with different definitions or initialize parameters never share a
\* process (acquire).
KeysApart ==
    \A g \in Gens : \A c \in generations[g].waiters \cup generations[g].members :
       wants[c] = generations[g].key

\* The processes of a bridge: one for a name, none without a purpose, and none
\* with callers that do not belong together, through recycles, backoffs,
\* shutdown and spawns that arrive late.
ProcessesKept == OneProcess /\ NoneLeftBehind /\ KeysApart

-----------------------------------------------------------------------------
(* Each generation lives the life that SharedGroup implements. *)

Life(g) == INSTANCE GroupLifecycle WITH
    state <- generations[g].state,
    child <- IF generations[g].child \in {"waiting", "spawned"}
               THEN "spawning" ELSE generations[g].child,
    killRequested <- generations[g].killRequested,
    failed <- generations[g].failed,
    used <- generations[g].members \cup generations[g].waiters # {},
    busy <- generations[g].busy

\* A generation is born in the initial state of its lifecycle, and every step
\* of the manager is, for each generation, one step of its lifecycle or none.
LivesLikeAGroup ==
    [][/\ \A g \in Gens : Life(g)!Next \/ UNCHANGED Life(g)!vars
       /\ \A g \in Gens' \ Gens : (Life(g)!Init)']_vars

-----------------------------------------------------------------------------
(* Liveness. *)

Waits(g, c) == g \in Gens /\ c \in generations[g].waiters

\* Every caller of acquire() gets a session or an error.
CallersAnswered ==
    \A g \in 1..MaxGenerations, c \in Callers : Waits(g, c) ~> ~Waits(g, c)

=============================================================================

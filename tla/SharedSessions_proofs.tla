------------------------ MODULE SharedSessions_proofs ------------------------
(***************************************************************************)
(* Proofs about SharedSessions, for any sets of names, keys and callers    *)
(* and any limits: a server has one process at most, none is left behind,  *)
(* no two keys share one, and each generation lives the life of a group.   *)
(* And about LogFollow, for files of any size and any number of records:   *)
(* the log is read once and in order, and what is not read is told.        *)
(***************************************************************************)
EXTENDS SharedSessions, LogFollow, SequenceTheorems, TLAPS

-----------------------------------------------------------------------------
(* The invariant. *)

\* What the proofs need to know of the types.
SessionsTypeOK ==
    /\ generations \in Seq(Generations)
    /\ groups \in [Names -> Nat]
    /\ wants \in [Callers -> Keys]

\* How far the process may be in each state of its generation; a stopped
\* generation has told its process to die as soon as it had one.
ProcessFits(gen) ==
    /\ gen.state \in {"ready", "draining"} => gen.child = "alive"
    /\ gen.state \in {"starting", "stopping"} => gen.child \in {"waiting", "spawned", "alive"}
    /\ gen.state = "starting" => ~gen.killRequested /\ ~gen.failed
    /\ gen.state = "stopping" /\ gen.child = "alive" => gen.killRequested
    /\ gen.state = "dead" => gen.child \in {"exited", "none"}

\* Who uses it, and for what: only a drain needs work.
UsersFit(gen) ==
    /\ gen.state = "starting" => gen.waiters # {}
    /\ gen.state \notin {"ready", "draining"} => gen.members = {} /\ ~gen.busy
    /\ gen.state = "draining" => gen.busy

\* A name belongs to its generation until the process of that is gone.
NamesTaken ==
    /\ \A g \in Gens : generations[g].state # "dead" => groups[generations[g].name] = g
    /\ \A n \in Names : groups[n] # 0 => groups[n] \in Gens /\ generations[groups[n]].name = n

SessionsInv ==
    /\ SessionsTypeOK /\ NamesTaken /\ KeysApart
    /\ \A g \in Gens : ProcessFits(generations[g]) /\ UsersFit(generations[g])

-----------------------------------------------------------------------------
(* One generation changes. *)

\* A function on 1..n is a sequence.
LEMMA FunctionIsSeq ==
  ASSUME NEW S, NEW n \in Nat, NEW f \in [1..n -> S]
  PROVE  f \in Seq(S)
OBVIOUS

Fits(gen) == gen \in Generations /\ ProcessFits(gen) /\ UsersFit(gen)

\* A generation that stays what it was to whoever looks for its name or key.
SameLook(g, gen) ==
    /\ gen.name = generations[g].name /\ gen.key = generations[g].key
    /\ gen.waiters \cup gen.members \subseteq generations[g].waiters \cup generations[g].members

LEMMA GenerationFits ==
  ASSUME SessionsInv, NEW g \in Gens
  PROVE  Fits(generations[g])
<1>1. Gens = 1..Len(generations) BY DEF SessionsInv, SessionsTypeOK, Gens
<1>2. generations[g] \in Generations BY <1>1 DEF SessionsInv, SessionsTypeOK
<1> QED BY <1>2 DEF SessionsInv, Fits

\* A step of one generation that does not end it keeps the invariant,
LEMMA BecomeKeeps ==
  ASSUME SessionsInv, NEW g \in Gens, NEW gen, Fits(gen), SameLook(g, gen),
         gen.state # "dead" => generations[g].state # "dead",
         Become(g, gen), UNCHANGED <<groups, wants>>
  PROVE  SessionsInv'
<1> USE DEF Gens
<1>1. generations \in Seq(Generations) /\ DOMAIN generations = 1..Len(generations)
  BY DEF SessionsInv, SessionsTypeOK
<1>2. generations' = [generations EXCEPT ![g] = gen] BY DEF Become
<1>3. DOMAIN generations' = DOMAIN generations
      /\ \A h \in DOMAIN generations : generations'[h] = IF h = g THEN gen ELSE generations[h]
  BY <1>1, <1>2
<1>4. SessionsTypeOK' BY <1>1, <1>2 DEF Fits, SessionsInv, SessionsTypeOK
<1>5. NamesTaken' BY <1>3 DEF SessionsInv, NamesTaken, SameLook
<1>6. KeysApart' BY <1>3 DEF SessionsInv, KeysApart, SameLook
<1> QED BY <1>3, <1>4, <1>5, <1>6 DEF SessionsInv, Fits

\* and so does its end.
LEMMA RetiredKeeps ==
  ASSUME SessionsInv, NEW g \in Gens, NEW gen, Fits([gen EXCEPT !.state = "dead"]),
         SameLook(g, gen), gen \in Generations, Retired(g, gen), UNCHANGED wants
  PROVE  SessionsInv'
<1> USE DEF Gens
<1> DEFINE new == [gen EXCEPT !.state = "dead"]
<1>1. generations \in Seq(Generations) /\ DOMAIN generations = 1..Len(generations)
  BY DEF SessionsInv, SessionsTypeOK
<1>2. /\ new.state = "dead" /\ new.name = gen.name /\ new.key = gen.key
      /\ new.waiters = gen.waiters /\ new.members = gen.members
  BY DEF Generations
<1>3. generations' = [generations EXCEPT ![g] = new] BY DEF Retired, Become
<1>4. groups' = [groups EXCEPT ![gen.name] = IF @ = g THEN 0 ELSE @] BY DEF Retired
<1>5. Fits(new) OBVIOUS
<1> HIDE DEF new
<1>6. DOMAIN generations' = DOMAIN generations
      /\ \A h \in DOMAIN generations : generations'[h] = IF h = g THEN new ELSE generations[h]
  BY <1>1, <1>3
<1>7. SessionsTypeOK'
 <2>1. generations' \in Seq(Generations) BY <1>1, <1>3, <1>5 DEF Fits
 <2>2. groups' \in [Names -> Nat] BY <1>4 DEF SessionsInv, SessionsTypeOK
 <2> QED BY <2>1, <2>2 DEF SessionsInv, SessionsTypeOK
<1>8. NamesTaken'
 <2>1. gen.name \in Names /\ gen.name = generations[g].name BY DEF Generations, SameLook
 <2>2. \A n \in Names : groups'[n] = IF n = gen.name /\ groups[n] = g THEN 0 ELSE groups[n]
   BY <1>4, <2>1 DEF SessionsInv, SessionsTypeOK
 <2>3. ASSUME NEW h \in DOMAIN generations, h # g, generations[h].state # "dead"
       PROVE  groups'[generations[h].name] = h
   BY GenerationFits, <2>3, <2>2 DEF Fits, Generations, SessionsInv, NamesTaken
 <2>4. ASSUME NEW n \in Names, groups'[n] # 0
       PROVE  groups'[n] \in DOMAIN generations /\ generations'[groups'[n]].name = n
   BY <2>2, <2>4, <1>2, <1>6, <2>1 DEF SessionsInv, NamesTaken
 <2> QED BY <1>2, <1>6, <2>3, <2>4 DEF NamesTaken
<1>9. KeysApart' BY <1>2, <1>6 DEF SessionsInv, KeysApart, SameLook
<1> QED BY <1>5, <1>6, <1>7, <1>8, <1>9 DEF SessionsInv, Fits

\* stop(), field by field.
LEMMA StoppedFields ==
  ASSUME NEW gen \in Generations, NEW fail \in BOOLEAN
  PROVE  LET new == Stopped(gen, fail)
         IN  /\ new \in Generations
             /\ new.name = gen.name /\ new.key = gen.key /\ new.child = gen.child
             /\ new.waiters = gen.waiters
             /\ Live(gen) => /\ new.state = "stopping" /\ new.members = {} /\ new.busy = FALSE
                             /\ new.killRequested <=> gen.child \in {"alive", "exited"}
             /\ ~Live(gen) => new = gen
<1> DEFINE kill == gen.child \in {"alive", "exited"}
           bad == gen.failed \/ fail
           new == [gen EXCEPT !.state = "stopping", !.members = {}, !.busy = FALSE,
                              !.failed = bad, !.killRequested = kill]
<1>1. kill \in BOOLEAN /\ bad \in BOOLEAN OBVIOUS
<1>2. Stopped(gen, fail) = IF Live(gen) THEN new ELSE gen BY DEF Stopped
<1> HIDE DEF kill, bad
<1>3. /\ new \in Generations
      /\ new.name = gen.name /\ new.key = gen.key /\ new.child = gen.child
      /\ new.waiters = gen.waiters /\ new.state = "stopping" /\ new.members = {}
  BY <1>1 DEF Generations, States
<1>4. new.busy = FALSE /\ new.killRequested = kill BY DEF Generations
<1> HIDE DEF new
<1> QED BY <1>2, <1>3, <1>4 DEF kill

\* A generation stops without harm: its process, if it has one, is told.
LEMMA StoppedFits ==
  ASSUME NEW gen, Fits(gen), NEW fail \in BOOLEAN
  PROVE  /\ Fits(Stopped(gen, fail))
         /\ Stopped(gen, fail).name = gen.name /\ Stopped(gen, fail).key = gen.key
         /\ Stopped(gen, fail).waiters = gen.waiters
         /\ Stopped(gen, fail).members \subseteq gen.members
         /\ Stopped(gen, fail).state # "dead" <=> gen.state # "dead"
<1> DEFINE new == Stopped(gen, fail)
<1>1. gen \in Generations BY DEF Fits
<1>2. /\ new \in Generations
      /\ new.name = gen.name /\ new.key = gen.key /\ new.child = gen.child
      /\ new.waiters = gen.waiters
      /\ Live(gen) => /\ new.state = "stopping" /\ new.members = {} /\ new.busy = FALSE
                      /\ new.killRequested <=> gen.child \in {"alive", "exited"}
      /\ ~Live(gen) => new = gen
  BY <1>1, StoppedFields
<1> HIDE DEF new
<1>3. CASE Live(gen)
 <2>1. gen.child \in {"waiting", "spawned", "alive"} BY <1>3 DEF Live, Fits, ProcessFits
 <2>2. ProcessFits(new) BY <1>2, <1>3, <2>1 DEF ProcessFits
 <2>3. UsersFit(new) BY <1>2, <1>3 DEF UsersFit
 <2>4. Fits(new) BY <1>2, <2>2, <2>3 DEF Fits
 <2>5. gen.state # "dead" BY <1>3 DEF Live
 <2> QED BY <1>2, <1>3, <2>4, <2>5 DEF new
<1>4. CASE ~Live(gen) BY <1>2, <1>4 DEF new
<1> QED BY <1>3, <1>4

\* A generation that is in service is the current one of its name.
LEMMA CurrentOne ==
  ASSUME SessionsInv, NEW n \in Names, groups[n] # 0
  PROVE  /\ groups[n] \in Gens /\ generations[groups[n]].name = n
         /\ Fits(generations[groups[n]])
<1>1. groups[n] \in Gens /\ generations[groups[n]].name = n BY DEF SessionsInv, NamesTaken
<1> QED BY <1>1, GenerationFits

-----------------------------------------------------------------------------
(* The manager's calls keep the invariant. *)

LEMMA StartedKeeps ==
  ASSUME SessionsInv, NEW c \in Callers, NEW n \in Names, NEW k \in Keys, Started(c, n, k)
  PROVE  SessionsInv'
<1> USE DEF Gens
<1>1. CASE UNCHANGED <<generations, groups, wants>>
  BY <1>1 DEF SessionsInv, SessionsTypeOK, NamesTaken, KeysApart, ProcessFits, UsersFit
<1>2. CASE /\ generations' = Append(generations, NewGeneration(c, n, k))
           /\ groups' = [groups EXCEPT ![n] = Len(generations')]
           /\ wants' = [wants EXCEPT ![c] = k]
 <2> DEFINE new == NewGeneration(c, n, k)
            last == Len(generations) + 1
 <2>1. generations \in Seq(Generations) /\ DOMAIN generations = 1..Len(generations)
       /\ Len(generations) \in Nat
   BY DEF SessionsInv, SessionsTypeOK
 <2>2. new \in Generations BY DEF NewGeneration, Generations, States, Children
 <2>3. ProcessFits(new) /\ UsersFit(new) BY DEF NewGeneration, ProcessFits, UsersFit
 <2>4. /\ new.name = n /\ new.key = k /\ new.state = "starting"
       /\ new.waiters = {c} /\ new.members = {}
   BY DEF NewGeneration
 <2> HIDE DEF new
 <2>5. generations' \in Seq(Generations) /\ Len(generations') = last BY <1>2, <2>1, <2>2 DEF new
 <2>6. DOMAIN generations' = 1..last BY <2>5
 <2>7. /\ DOMAIN generations' = DOMAIN generations \cup {last} /\ last \notin DOMAIN generations
       /\ last # 0 /\ 0 \notin DOMAIN generations
   BY <2>1, <2>6
 <2>8. generations'[last] = new BY <1>2, <2>1 DEF new
 <2>9. \A g \in DOMAIN generations : generations'[g] = generations[g] BY <1>2, <2>1
 <2> HIDE DEF last
 <2>10. SessionsTypeOK' BY <2>1, <1>2, <2>5 DEF last, SessionsInv, SessionsTypeOK
 <2>11. groups[n] = 0 BY DEF Started
 <2>12. \A m \in Names : groups'[m] = IF m = n THEN last ELSE groups[m]
   BY <1>2, <2>5 DEF SessionsInv, SessionsTypeOK
 <2>13. NamesTaken'
  <3>1. ASSUME NEW g \in DOMAIN generations, generations[g].state # "dead"
        PROVE  groups'[generations[g].name] = g
    BY GenerationFits, <3>1, <2>7, <2>11, <2>12 DEF Fits, Generations, SessionsInv, NamesTaken
  <3>2. ASSUME NEW m \in Names, m # n, groups[m] # 0
        PROVE  groups[m] \in DOMAIN generations /\ generations[groups[m]].name = m
    BY <3>2 DEF SessionsInv, NamesTaken
  <3>3. \A g \in DOMAIN generations' :
           generations'[g].state # "dead" => groups'[generations'[g].name] = g
    BY <2>4, <2>7, <2>8, <2>9, <2>12, <3>1
  <3>4. \A m \in Names : groups'[m] # 0 =>
           groups'[m] \in DOMAIN generations' /\ generations'[groups'[m]].name = m
    BY <2>4, <2>7, <2>8, <2>9, <2>12, <3>2
  <3> QED BY <3>3, <3>4 DEF NamesTaken
 <2>14. KeysApart'
  <3>1. \A g \in DOMAIN generations : c \notin generations[g].waiters \cup generations[g].members
    BY DEF Started, Out
  <3>2. \A d \in Callers : wants'[d] = IF d = c THEN k ELSE wants[d]
    BY <1>2 DEF SessionsInv, SessionsTypeOK
  <3>3. ASSUME NEW g \in DOMAIN generations,
               NEW d \in generations[g].waiters \cup generations[g].members
        PROVE  wants'[d] = generations[g].key
    BY GenerationFits, <3>3, <3>1, <3>2 DEF Fits, Generations, SessionsInv, KeysApart
  <3>4. wants'[c] = k BY <3>2
  <3> QED BY <2>4, <2>7, <2>8, <2>9, <3>3, <3>4 DEF KeysApart
 <2>15. \A g \in DOMAIN generations' : ProcessFits(generations'[g]) /\ UsersFit(generations'[g])
   BY <2>3, <2>7, <2>8, <2>9 DEF SessionsInv
 <2> QED BY <2>10, <2>13, <2>14, <2>15 DEF SessionsInv
<1> QED BY <1>1, <1>2 DEF Started

LEMMA JoinedKeeps ==
  ASSUME SessionsInv, NEW c \in Callers, NEW n \in Names, NEW k \in Keys, Joined(c, n, k)
  PROVE  SessionsInv'
<1> USE DEF Gens
<1> DEFINE g == groups[n]
           gen == generations[g]
           new == [gen EXCEPT !.waiters = @ \cup {c}]
<1>1. groups[n] # 0 /\ gen.key = k /\ gen.state \in {"starting", "ready"}
      /\ generations' = [generations EXCEPT ![g] = new]
      /\ wants' = [wants EXCEPT ![c] = k] /\ UNCHANGED groups
  BY DEF Joined, Compatible, Become
<1>2. g \in DOMAIN generations /\ gen.name = n /\ Fits(gen) BY <1>1, CurrentOne
<1>3. generations \in Seq(Generations) /\ DOMAIN generations = 1..Len(generations)
  BY DEF SessionsInv, SessionsTypeOK
<1> HIDE DEF g
<1>4. /\ new \in Generations /\ new.name = n /\ new.key = k /\ new.state = gen.state
      /\ new.child = gen.child /\ new.killRequested = gen.killRequested
      /\ new.failed = gen.failed /\ new.busy = gen.busy
      /\ new.waiters = gen.waiters \cup {c} /\ new.members = gen.members
  BY <1>1, <1>2 DEF Fits, Generations
<1>5. ProcessFits(new) /\ UsersFit(new) BY <1>2, <1>4 DEF Fits, ProcessFits, UsersFit
<1> HIDE DEF new
<1>6. DOMAIN generations' = DOMAIN generations
      /\ \A h \in DOMAIN generations : generations'[h] = IF h = g THEN new ELSE generations[h]
  BY <1>1, <1>3
<1>7. SessionsTypeOK' BY <1>1, <1>2, <1>3, <1>4 DEF SessionsInv, SessionsTypeOK
<1>8. NamesTaken' BY <1>1, <1>2, <1>4, <1>6 DEF SessionsInv, NamesTaken
<1>9. KeysApart'
 <2>1. \A h \in DOMAIN generations : c \notin generations[h].waiters \cup generations[h].members
   BY DEF Joined, Out
 <2>2. \A d \in Callers : wants'[d] = IF d = c THEN k ELSE wants[d]
   BY <1>1 DEF SessionsInv, SessionsTypeOK
 <2>3. ASSUME NEW h \in DOMAIN generations,
              NEW d \in generations[h].waiters \cup generations[h].members
       PROVE  wants'[d] = generations[h].key
   BY GenerationFits, <2>3, <2>1, <2>2 DEF Fits, Generations, SessionsInv, KeysApart
 <2>4. wants'[c] = k BY <2>2
 <2> QED BY <1>1, <1>2, <1>4, <1>6, <2>3, <2>4 DEF KeysApart
<1>10. \A h \in DOMAIN generations' : ProcessFits(generations'[h]) /\ UsersFit(generations'[h])
  BY <1>5, <1>6 DEF SessionsInv
<1> QED BY <1>7, <1>8, <1>9, <1>10 DEF SessionsInv

LEMMA ResumedKeeps ==
  ASSUME SessionsInv, NEW g \in Gens, NEW c \in Callers, Resumed(g, c)
  PROVE  SessionsInv'
<1> DEFINE old == generations[g]
           gen == [old EXCEPT !.waiters = @ \ {c}]
           in == [gen EXCEPT !.members = @ \cup {c}]
           new == IF gen.state = "ready" THEN in ELSE gen
<1>1. Fits(old) /\ c \in old.waiters /\ old.state # "starting" BY GenerationFits DEF Resumed
<1>2. Become(g, new) /\ UNCHANGED <<groups, wants>> BY DEF Resumed
<1>3. /\ gen \in Generations /\ gen.name = old.name /\ gen.key = old.key /\ gen.state = old.state
      /\ gen.child = old.child /\ gen.killRequested = old.killRequested
      /\ gen.failed = old.failed /\ gen.busy = old.busy
      /\ gen.waiters = old.waiters \ {c} /\ gen.members = old.members
  BY <1>1 DEF Fits, Generations
<1>4. /\ in \in Generations /\ in.name = old.name /\ in.key = old.key /\ in.state = old.state
      /\ in.child = old.child /\ in.killRequested = old.killRequested
      /\ in.failed = old.failed /\ in.busy = old.busy
      /\ in.waiters = old.waiters \ {c} /\ in.members = old.members \cup {c}
  BY <1>3 DEF Generations
<1> HIDE DEF gen, in
<1>5. ProcessFits(new) /\ UsersFit(new) BY <1>1, <1>3, <1>4 DEF Fits, ProcessFits, UsersFit
<1>6. Fits(new) /\ SameLook(g, new) /\ new.state = old.state
  BY <1>1, <1>3, <1>4, <1>5 DEF Fits, SameLook
<1> QED BY <1>2, <1>6, BecomeKeeps

LEMMA RecycleKeeps ==
  ASSUME SessionsInv, NEW n \in Names, Recycle(n)
  PROVE  SessionsInv'
<1> DEFINE g == groups[n]
           gen == generations[g]
           drains == [gen EXCEPT !.state = "draining", !.failed = FALSE]
           new == CASE gen.state = "ready" /\ gen.busy -> drains
                    [] gen.state = "starting" \/ (gen.state = "ready" /\ ~gen.busy)
                         -> Stopped(gen, FALSE)
                    [] OTHER -> gen
<1>1. groups[n] # 0 /\ Become(g, new) /\ UNCHANGED <<groups, wants>> BY DEF Recycle
<1>2. g \in Gens /\ Fits(gen) BY <1>1, CurrentOne
<1> HIDE DEF g
<1>3. CASE gen.state = "ready" /\ gen.busy
 <2>1. new = drains BY <1>3
 <2>2. /\ drains \in Generations /\ drains.name = gen.name /\ drains.key = gen.key
       /\ drains.state = "draining" /\ drains.child = gen.child /\ drains.busy = gen.busy
       /\ drains.waiters = gen.waiters /\ drains.members = gen.members
   BY <1>2 DEF Fits, Generations, States
 <2> HIDE DEF drains
 <2>3. ProcessFits(drains) BY <1>2, <1>3, <2>2 DEF Fits, ProcessFits
 <2>4. UsersFit(drains) BY <1>2, <1>3, <2>2 DEF UsersFit
 <2>5. Fits(drains) /\ SameLook(g, drains) BY <2>2, <2>3, <2>4 DEF Fits, SameLook
 <2> QED BY <1>1, <1>2, <1>3, <2>1, <2>5, BecomeKeeps
<1>4. CASE gen.state = "starting" \/ (gen.state = "ready" /\ ~gen.busy)
  BY <1>4, <1>2, StoppedFits, <1>1, BecomeKeeps DEF SameLook
<1>5. CASE ~(gen.state = "ready" /\ gen.busy)
           /\ ~(gen.state = "starting" \/ (gen.state = "ready" /\ ~gen.busy))
  BY <1>5, <1>1, <1>2, BecomeKeeps DEF SameLook
<1> QED BY <1>3, <1>4, <1>5

\* Some generations stop at once, the others stay.
LEMMA ManyStopKeeps ==
  ASSUME SessionsInv, NEW P,
         generations' = [g \in Gens |-> IF g \in P THEN Stopped(generations[g], FALSE)
                                                   ELSE generations[g]],
         UNCHANGED <<groups, wants>>
  PROVE  SessionsInv'
<1> USE DEF Gens
<1>1. generations \in Seq(Generations) /\ DOMAIN generations = 1..Len(generations)
      /\ Len(generations) \in Nat
  BY DEF SessionsInv, SessionsTypeOK
<1>2. ASSUME NEW g \in DOMAIN generations
      PROVE  /\ Fits(generations'[g])
             /\ generations'[g].name = generations[g].name
             /\ generations'[g].key = generations[g].key
             /\ generations'[g].waiters = generations[g].waiters
             /\ generations'[g].members \subseteq generations[g].members
             /\ generations'[g].state # "dead" <=> generations[g].state # "dead"
  BY GenerationFits, StoppedFits
<1>3. DOMAIN generations' = DOMAIN generations OBVIOUS
<1>4. SessionsTypeOK' BY <1>1, <1>2, FunctionIsSeq DEF Fits, SessionsInv, SessionsTypeOK
<1>5. NamesTaken' BY <1>2, <1>3 DEF SessionsInv, NamesTaken
<1>6. KeysApart'
 <2>1. ASSUME NEW g \in DOMAIN generations,
              NEW c \in generations'[g].waiters \cup generations'[g].members
       PROVE  wants'[c] = generations'[g].key
   BY <1>2 DEF SessionsInv, KeysApart
 <2> QED BY <1>3, <2>1 DEF KeysApart
<1> QED BY <1>2, <1>3, <1>4, <1>5, <1>6 DEF SessionsInv, Fits

LEMMA RemoveServerKeeps ==
  ASSUME SessionsInv, NEW n \in Names, RemoveServer(n)
  PROVE  SessionsInv'
<1>1. generations' = [g \in Gens |-> IF g \in {groups[n]} THEN Stopped(generations[g], FALSE)
                                                          ELSE generations[g]]
  BY DEF RemoveServer
<1>2. UNCHANGED <<groups, wants>> BY DEF RemoveServer
<1> QED BY <1>1, <1>2, ManyStopKeeps

LEMMA ShutdownKeeps ==
  ASSUME SessionsInv, Shutdown
  PROVE  SessionsInv'
<1> DEFINE P == {g \in Gens : groups[generations[g].name] = g}
<1>1. generations' = [g \in Gens |-> IF g \in P THEN Stopped(generations[g], FALSE)
                                                ELSE generations[g]]
  BY DEF Shutdown
<1>2. UNCHANGED <<groups, wants>> BY DEF Shutdown
<1> QED BY <1>1, <1>2, ManyStopKeeps

-----------------------------------------------------------------------------
(* The steps of a generation keep it. *)

\* A step that only changes how far the process of a living generation is, or
\* its users.
LEMMA ChangeKeeps ==
  ASSUME SessionsInv, NEW g \in Gens, NEW new \in Generations,
         new.name = generations[g].name, new.key = generations[g].key,
         new.waiters = generations[g].waiters, new.members \subseteq generations[g].members,
         generations[g].state # "dead", ProcessFits(new), UsersFit(new),
         Become(g, new), UNCHANGED <<groups, wants>>
  PROVE  SessionsInv'
<1>1. Fits(new) /\ SameLook(g, new) BY DEF Fits, SameLook
<1> QED BY <1>1, BecomeKeeps

LEMMA SpawnedKeeps ==
  ASSUME SessionsInv, NEW g \in Gens, Spawned(g)
  PROVE  SessionsInv'
<1> DEFINE old == generations[g]
           new == [old EXCEPT !.child = "spawned"]
<1>1. Fits(old) /\ old.child = "waiting" BY GenerationFits DEF Spawned
<1>2. Become(g, new) /\ UNCHANGED <<groups, wants>> BY DEF Spawned
<1>3. /\ new \in Generations /\ new.name = old.name /\ new.key = old.key
      /\ new.state = old.state /\ new.child = "spawned"
      /\ new.killRequested = old.killRequested /\ new.failed = old.failed
      /\ new.busy = old.busy /\ new.waiters = old.waiters /\ new.members = old.members
  BY <1>1 DEF Fits, Generations, Children
<1> HIDE DEF new
<1>4. old.state \in {"starting", "stopping"} BY <1>1 DEF Fits, ProcessFits, Generations, States
<1>5. ProcessFits(new) /\ UsersFit(new) BY <1>1, <1>3, <1>4 DEF Fits, ProcessFits, UsersFit
<1> QED BY <1>2, <1>3, <1>4, <1>5, ChangeKeeps

LEMMA ReadyKeeps ==
  ASSUME SessionsInv, NEW g \in Gens, Ready(g)
  PROVE  SessionsInv'
<1> DEFINE old == generations[g]
           new == [old EXCEPT !.state = "ready"]
<1>1. Fits(old) /\ old.state = "starting" /\ old.child = "alive" BY GenerationFits DEF Ready
<1>2. Become(g, new) /\ UNCHANGED <<groups, wants>> BY DEF Ready
<1>3. /\ new \in Generations /\ new.name = old.name /\ new.key = old.key
      /\ new.state = "ready" /\ new.child = "alive"
      /\ new.killRequested = old.killRequested /\ new.failed = old.failed
      /\ new.busy = old.busy /\ new.waiters = old.waiters /\ new.members = old.members
  BY <1>1 DEF Fits, Generations, States
<1> HIDE DEF new
<1>4. ProcessFits(new) /\ UsersFit(new) BY <1>1, <1>3 DEF ProcessFits, UsersFit
<1> QED BY <1>1, <1>2, <1>3, <1>4, ChangeKeeps

LEMMA WorkStartsKeeps ==
  ASSUME SessionsInv, NEW g \in Gens, WorkStarts(g)
  PROVE  SessionsInv'
<1> DEFINE old == generations[g]
           new == [old EXCEPT !.busy = TRUE]
<1>1. Fits(old) /\ old.state = "ready" BY GenerationFits DEF WorkStarts
<1>2. Become(g, new) /\ UNCHANGED <<groups, wants>> BY DEF WorkStarts
<1>3. /\ new \in Generations /\ new.name = old.name /\ new.key = old.key
      /\ new.state = "ready" /\ new.child = old.child
      /\ new.waiters = old.waiters /\ new.members = old.members
  BY <1>1 DEF Fits, Generations
<1> HIDE DEF new
<1>4. ProcessFits(new) /\ UsersFit(new) BY <1>1, <1>3 DEF Fits, ProcessFits, UsersFit
<1> QED BY <1>1, <1>2, <1>3, <1>4, ChangeKeeps

\* A step that stops a generation, after a change that leaves it fit.
LEMMA StopKeeps ==
  ASSUME SessionsInv, NEW g \in Gens, NEW gen, Fits(gen),
         gen.name = generations[g].name, gen.key = generations[g].key,
         gen.waiters = generations[g].waiters, gen.members \subseteq generations[g].members,
         generations[g].state # "dead", NEW fail \in BOOLEAN,
         Become(g, Stopped(gen, fail)), UNCHANGED <<groups, wants>>
  PROVE  SessionsInv'
<1>1. Fits(Stopped(gen, fail)) /\ SameLook(g, Stopped(gen, fail)) BY StoppedFits DEF SameLook
<1> QED BY <1>1, BecomeKeeps

\* A step that ends a generation whose process is gone.
LEMMA EndKeeps ==
  ASSUME SessionsInv, NEW g \in Gens, NEW gen \in Generations,
         gen.name = generations[g].name, gen.key = generations[g].key,
         gen.waiters = generations[g].waiters, gen.members = generations[g].members,
         gen.state = generations[g].state, gen.busy = generations[g].busy,
         gen.child \in {"exited", "none"}, NEW kill,
         kill \in {gen.killRequested, Stopped(gen, TRUE).killRequested, TRUE},
         Retired(g, [Stopped(gen, TRUE) EXCEPT !.killRequested = kill]), UNCHANGED wants
  PROVE  SessionsInv'
<1> DEFINE old == generations[g]
           stopped == Stopped(gen, TRUE)
           told == [stopped EXCEPT !.killRequested = kill]
           new == [told EXCEPT !.state = "dead"]
<1>1. Fits(old) BY GenerationFits
<1>2. /\ stopped \in Generations
      /\ stopped.name = gen.name /\ stopped.key = gen.key /\ stopped.child = gen.child
      /\ stopped.waiters = gen.waiters
      /\ Live(gen) => stopped.members = {} /\ stopped.busy = FALSE
      /\ ~Live(gen) => stopped = gen
  BY StoppedFields
<1> HIDE DEF stopped
<1>3. kill \in BOOLEAN BY <1>2 DEF Generations, stopped
<1>4. /\ told \in Generations
      /\ told.name = gen.name /\ told.key = gen.key /\ told.child = gen.child
      /\ told.waiters = gen.waiters
      /\ told.members = stopped.members /\ told.busy = stopped.busy
  BY <1>2, <1>3 DEF Generations
<1>5. Retired(g, told) BY DEF stopped
<1> HIDE DEF told
<1>6. /\ new \in Generations /\ new.state = "dead"
      /\ new.child = gen.child /\ new.waiters = gen.waiters
      /\ new.members = stopped.members /\ new.busy = stopped.busy
  BY <1>4 DEF Generations, States
<1> HIDE DEF new
<1>7. stopped.members = {} /\ ~stopped.busy
 <2>1. CASE Live(gen) BY <1>2, <2>1
 <2>2. CASE ~Live(gen) BY <2>2, <1>1, <1>2 DEF Live, Fits, UsersFit
 <2> QED BY <2>1, <2>2
<1>8. ProcessFits(new) BY <1>6 DEF ProcessFits
<1>9. UsersFit(new) BY <1>6, <1>7 DEF UsersFit
<1>10. Fits(new) BY <1>6, <1>8, <1>9 DEF Fits
<1>11. SameLook(g, told) BY <1>4, <1>7 DEF SameLook
<1> QED BY <1>4, <1>5, <1>10, <1>11, RetiredKeeps DEF new

\* A record whose field is set to the value it has.
LEMMA SetToItself ==
  ASSUME NEW gen \in Generations
  PROVE  gen = [gen EXCEPT !.killRequested = gen.killRequested]
BY DEF Generations

\* A generation gets the given child, and nothing else.
LEMMA ChildGiven ==
  ASSUME NEW gen \in Generations, NEW new, NEW child \in Children,
         new = [gen EXCEPT !.child = child]
  PROVE  /\ new \in Generations /\ new.name = gen.name /\ new.key = gen.key
         /\ new.state = gen.state /\ new.child = child
         /\ new.killRequested = gen.killRequested /\ new.failed = gen.failed
         /\ new.busy = gen.busy /\ new.waiters = gen.waiters /\ new.members = gen.members
BY DEF Generations, Children

LEMMA SpawnRejectsKeeps ==
  ASSUME SessionsInv, NEW g \in Gens, SpawnRejects(g)
  PROVE  SessionsInv'
<1> DEFINE gen == [generations[g] EXCEPT !.child = "none"]
           stopped == Stopped(gen, TRUE)
<1>1. generations[g] \in Generations BY GenerationFits DEF Fits
<1>2. Retired(g, stopped) /\ UNCHANGED wants BY DEF SpawnRejects
<1>3. /\ gen \in Generations /\ gen.name = generations[g].name /\ gen.key = generations[g].key
      /\ gen.state = generations[g].state /\ gen.child = "none" /\ gen.busy = generations[g].busy
      /\ gen.waiters = generations[g].waiters /\ gen.members = generations[g].members
  BY <1>1, ChildGiven DEF Children
<1> HIDE DEF gen
<1>4. stopped \in Generations BY <1>3, StoppedFields
<1>5. stopped = [stopped EXCEPT !.killRequested = stopped.killRequested] BY <1>4, SetToItself
<1> QED BY <1>2, <1>3, <1>5, EndKeeps

LEMMA ExitsKeeps ==
  ASSUME SessionsInv, NEW g \in Gens, Exits(g)
  PROVE  SessionsInv'
<1> DEFINE gen == [generations[g] EXCEPT !.child = "exited"]
           stopped == Stopped(gen, TRUE)
<1>1. generations[g] \in Generations BY GenerationFits DEF Fits
<1>2. Retired(g, stopped) /\ UNCHANGED wants BY DEF Exits
<1>3. /\ gen \in Generations /\ gen.name = generations[g].name /\ gen.key = generations[g].key
      /\ gen.state = generations[g].state /\ gen.child = "exited"
      /\ gen.busy = generations[g].busy
      /\ gen.waiters = generations[g].waiters /\ gen.members = generations[g].members
  BY <1>1, ChildGiven DEF Children
<1> HIDE DEF gen
<1>4. stopped \in Generations BY <1>3, StoppedFields
<1>5. stopped = [stopped EXCEPT !.killRequested = stopped.killRequested] BY <1>4, SetToItself
<1> QED BY <1>2, <1>3, <1>5, EndKeeps

LEMMA ArrivesKeeps ==
  ASSUME SessionsInv, NEW g \in Gens, Arrives(g)
  PROVE  SessionsInv'
<1> DEFINE old == generations[g]
           told == [old EXCEPT !.child = "alive", !.killRequested = TRUE]
           gen == [old EXCEPT !.child = "alive"]
           gone == [old EXCEPT !.child = "exited"]
<1>1. Fits(old) /\ old.child = "spawned" /\ UNCHANGED wants BY GenerationFits DEF Arrives
<1>2. CASE old.state = "stopping" /\ Become(g, told) /\ UNCHANGED groups
 <2>1. /\ told \in Generations /\ told.name = old.name /\ told.key = old.key
       /\ told.state = old.state /\ told.child = "alive" /\ told.killRequested
       /\ told.busy = old.busy /\ told.waiters = old.waiters /\ told.members = old.members
   BY <1>1 DEF Fits, Generations, Children
 <2> HIDE DEF told
 <2>2. ProcessFits(told) BY <1>2, <2>1 DEF ProcessFits
 <2>3. UsersFit(told) BY <1>1, <1>2, <2>1 DEF Fits, UsersFit
 <2> QED BY <1>1, <1>2, <2>1, <2>2, <2>3, ChangeKeeps
<1>3. CASE old.state = "starting" /\ (Become(g, gen) \/ Become(g, Stopped(gen, TRUE)))
           /\ UNCHANGED groups
 <2>1. /\ gen \in Generations /\ gen.name = old.name /\ gen.key = old.key
       /\ gen.state = old.state /\ gen.child = "alive" /\ gen.killRequested = old.killRequested
       /\ gen.failed = old.failed
       /\ gen.busy = old.busy /\ gen.waiters = old.waiters /\ gen.members = old.members
   BY <1>1, ChildGiven DEF Fits, Children
 <2> HIDE DEF gen
 <2>2. ProcessFits(gen) BY <1>1, <1>3, <2>1 DEF Fits, ProcessFits
 <2>3. UsersFit(gen) BY <1>1, <1>3, <2>1 DEF Fits, UsersFit
 <2>4. CASE Become(g, gen) BY <1>1, <1>3, <2>1, <2>2, <2>3, <2>4, ChangeKeeps
 <2>5. CASE Become(g, Stopped(gen, TRUE)) BY <2>1, <2>2, <2>3, <1>1, <1>3, <2>5, StopKeeps DEF Fits
 <2> QED BY <1>3, <2>4, <2>5
<1>4. CASE Retired(g, [Stopped(gone, TRUE) EXCEPT !.killRequested = TRUE])
 <2>1. /\ gone \in Generations /\ gone.name = old.name /\ gone.key = old.key
       /\ gone.state = old.state /\ gone.child = "exited" /\ gone.busy = old.busy
       /\ gone.waiters = old.waiters /\ gone.members = old.members
   BY <1>1, ChildGiven DEF Fits, Children
 <2> HIDE DEF gone
 <2> QED BY <1>1, <1>4, <2>1, EndKeeps
<1> QED BY <1>2, <1>3, <1>4 DEF Arrives

LEMMA WorkEndsKeeps ==
  ASSUME SessionsInv, NEW g \in Gens, WorkEnds(g)
  PROVE  SessionsInv'
<1> DEFINE old == generations[g]
           new == [old EXCEPT !.busy = FALSE]
<1>1. Fits(old) /\ old.busy /\ UNCHANGED <<groups, wants>> BY GenerationFits DEF WorkEnds
<1>2. old.state \in {"ready", "draining"} BY <1>1 DEF Fits, UsersFit
<1>3. CASE old.state = "draining" BY <1>3, <1>1, StopKeeps DEF WorkEnds
<1>4. CASE old.state # "draining"
 <2>1. Become(g, new) BY <1>4 DEF WorkEnds
 <2>2. /\ new \in Generations /\ new.name = old.name /\ new.key = old.key
       /\ new.state = old.state /\ new.child = old.child /\ ~new.busy
       /\ new.waiters = old.waiters /\ new.members = old.members
   BY <1>1 DEF Fits, Generations
 <2> HIDE DEF new
 <2>3. new.state = "ready" BY <1>2, <1>4, <2>2
 <2>4. ProcessFits(new) /\ UsersFit(new) BY <1>1, <2>2, <2>3 DEF Fits, ProcessFits, UsersFit
 <2> QED BY <1>1, <2>1, <2>2, <2>3, <2>4, ChangeKeeps
<1> QED BY <1>3, <1>4

LEMMA DetachedKeeps ==
  ASSUME SessionsInv, NEW g \in Gens, NEW c \in Callers, Detached(g, c)
  PROVE  SessionsInv'
<1> DEFINE old == generations[g]
           new == [old EXCEPT !.members = @ \ {c}]
<1>1. Fits(old) /\ c \in old.members /\ UNCHANGED <<groups, wants>> BY GenerationFits DEF Detached
<1>2. Become(g, new) BY DEF Detached
<1>3. /\ new \in Generations /\ new.name = old.name /\ new.key = old.key
      /\ new.state = old.state /\ new.child = old.child
      /\ new.killRequested = old.killRequested /\ new.failed = old.failed
      /\ new.busy = old.busy /\ new.waiters = old.waiters /\ new.members = old.members \ {c}
  BY <1>1 DEF Fits, Generations
<1> HIDE DEF new
<1>4. old.state \in {"ready", "draining"} BY <1>1 DEF Fits, UsersFit
<1>5. ProcessFits(new) /\ UsersFit(new) BY <1>1, <1>3, <1>4 DEF Fits, ProcessFits, UsersFit
<1> QED BY <1>1, <1>2, <1>3, <1>4, <1>5, ChangeKeeps

LEMMA WorkTimesOutKeeps ==
  ASSUME SessionsInv, NEW g \in Gens, WorkTimesOut(g)
  PROVE  SessionsInv'
<1> DEFINE old == generations[g]
           new == [old EXCEPT !.state = "draining", !.failed = TRUE]
<1>1. Fits(old) /\ old.state = "ready" /\ old.busy /\ UNCHANGED <<groups, wants>>
  BY GenerationFits DEF WorkTimesOut
<1>2. Become(g, new) BY DEF WorkTimesOut
<1>3. /\ new \in Generations /\ new.name = old.name /\ new.key = old.key
      /\ new.state = "draining" /\ new.child = old.child /\ new.busy = old.busy
      /\ new.waiters = old.waiters /\ new.members = old.members
  BY <1>1 DEF Fits, Generations, States
<1> HIDE DEF new
<1>4. ProcessFits(new) BY <1>1, <1>3 DEF Fits, ProcessFits
<1>5. UsersFit(new) BY <1>1, <1>3 DEF UsersFit
<1> QED BY <1>1, <1>2, <1>3, <1>4, <1>5, ChangeKeeps

LEMMA LingerExpiresKeeps ==
  ASSUME SessionsInv, NEW g \in Gens, LingerExpires(g)
  PROVE  SessionsInv'
<1>1. Fits(generations[g]) BY GenerationFits
<1> QED BY <1>1, StopKeeps DEF LingerExpires

LEMMA FailsKeeps ==
  ASSUME SessionsInv, NEW g \in Gens, Fails(g)
  PROVE  SessionsInv'
<1>1. Fits(generations[g]) BY GenerationFits
<1> QED BY <1>1, StopKeeps DEF Fails

LEMMA KillReportKeeps ==
  ASSUME SessionsInv, NEW g \in Gens, KillReport(g)
  PROVE  SessionsInv'
<1> DEFINE old == generations[g]
           new == [old EXCEPT !.failed = TRUE]
<1>1. Fits(old) /\ old.state = "stopping" /\ UNCHANGED <<groups, wants>>
  BY GenerationFits DEF KillReport
<1>2. Become(g, new) BY DEF KillReport
<1>3. /\ new \in Generations /\ new.name = old.name /\ new.key = old.key
      /\ new.state = old.state /\ new.child = old.child
      /\ new.killRequested = old.killRequested
      /\ new.busy = old.busy /\ new.waiters = old.waiters /\ new.members = old.members
  BY <1>1 DEF Fits, Generations
<1> HIDE DEF new
<1>4. ProcessFits(new) /\ UsersFit(new) BY <1>1, <1>3 DEF Fits, ProcessFits, UsersFit
<1> QED BY <1>1, <1>2, <1>3, <1>4, ChangeKeeps

-----------------------------------------------------------------------------
(* The invariant holds, and says what was promised. *)

LEMMA SessionsStart == Init => SessionsInv
BY DEF Init, SessionsInv, SessionsTypeOK, NamesTaken, KeysApart, Gens

LEMMA SessionsStep == SessionsInv /\ [Next]_vars => SessionsInv'
<1> SUFFICES ASSUME SessionsInv, [Next]_vars PROVE SessionsInv' OBVIOUS
<1>1. CASE UNCHANGED <<generations, groups, wants>>
  BY <1>1 DEF SessionsInv, SessionsTypeOK, NamesTaken, KeysApart, ProcessFits, UsersFit, Gens
<1>2. CASE UNCHANGED vars BY <1>1, <1>2 DEF vars
<1>3. ASSUME NEW c \in Callers, NEW n \in Names, NEW k \in Keys,
             Started(c, n, k) \/ Joined(c, n, k)
      PROVE  SessionsInv'
  BY <1>3, StartedKeeps, JoinedKeeps
<1>4. ASSUME NEW g \in Gens, NEW c \in Callers, Resumed(g, c) \/ Detached(g, c)
      PROVE  SessionsInv'
  BY <1>4, ResumedKeeps, DetachedKeeps
<1>5. ASSUME NEW n \in Names, Recycle(n) \/ RemoveServer(n) \/ DelayElapses(n)
      PROVE  SessionsInv'
 <2>1. CASE DelayElapses(n) BY <1>1, <2>1 DEF DelayElapses
 <2> QED BY <1>5, <2>1, RecycleKeeps, RemoveServerKeeps
<1>6. CASE BeginShutdown BY <1>1, <1>6 DEF BeginShutdown
<1>7. CASE Shutdown BY <1>7, ShutdownKeeps
<1>8. ASSUME NEW g \in Gens,
             \/ Spawned(g) \/ SpawnRejects(g) \/ Arrives(g) \/ Ready(g)
             \/ WorkStarts(g) \/ WorkEnds(g) \/ WorkTimesOut(g)
             \/ LingerExpires(g) \/ Fails(g) \/ Exits(g) \/ KillReport(g)
      PROVE  SessionsInv'
  BY <1>8, SpawnedKeeps, SpawnRejectsKeeps, ArrivesKeeps, ReadyKeeps, WorkStartsKeeps,
    WorkEndsKeeps, WorkTimesOutKeeps, LingerExpiresKeeps, FailsKeeps, ExitsKeeps, KillReportKeeps
<1> QED BY <1>2, <1>3, <1>4, <1>5, <1>6, <1>7, <1>8 DEF Next

\* Generations, processes, keys and callers never contradict each other
\* (acquire, recycle, remove, and the callbacks of processes and timers).
THEOREM SessionsInvariance == Spec => []SessionsInv
BY SessionsStart, SessionsStep, PTL DEF Spec

\* What the invariant says of the processes.
LEMMA SessionsSafe == SessionsInv => ProcessesKept
<1> SUFFICES ASSUME SessionsInv PROVE ProcessesKept OBVIOUS
<1>1. OneProcess
 <2> SUFFICES ASSUME NEW g \in Gens, NEW h \in Gens, Running(g), Running(h),
                     generations[g].name = generations[h].name
              PROVE  g = h
   BY DEF OneProcess
 <2>1. Fits(generations[g]) /\ Fits(generations[h]) BY GenerationFits
 <2>2. generations[g].state # "dead" /\ generations[h].state # "dead"
   BY <2>1 DEF Running, Fits, ProcessFits
 <2> QED BY <2>2 DEF SessionsInv, NamesTaken
<1>2. NoneLeftBehind
 <2> SUFFICES ASSUME NEW g \in Gens
              PROVE  /\ generations[g].child = "alive" /\ ~Live(generations[g])
                          => generations[g].killRequested /\ generations[g].state = "stopping"
                     /\ generations[g].child = "spawned"
                          => generations[g].state \in {"starting", "stopping"}
   BY DEF NoneLeftBehind
 <2>1. Fits(generations[g]) BY GenerationFits
 <2> QED BY <2>1 DEF Fits, ProcessFits, Generations, States, Live
<1> QED BY <1>1, <1>2 DEF SessionsInv, ProcessesKept

\* A server has one process at most, no process is left behind without an
\* order to die, and callers with different keys never share one, whatever
\* acquire(), recycle(), remove(), the gate and the timers do in any order.
THEOREM ProcessesAreKept == Spec => []ProcessesKept
BY SessionsInvariance, SessionsSafe, PTL

-----------------------------------------------------------------------------
(* Every generation lives the life of a group. *)

\* What may become of one generation in a step of the manager.
Lives(g) == Life(g)!Next \/ UNCHANGED Life(g)!vars

\* The process, as the lifecycle sees it.
Seen(child) == IF child \in {"waiting", "spawned"} THEN "spawning" ELSE child

Used(gen) == gen.members \cup gen.waiters # {}

\* Nothing happens to it,
LEMMA StayingLives ==
  ASSUME NEW g, generations'[g] = generations[g]
  PROVE  Lives(g)
BY DEF Lives, Life!vars

LEMMA OthersStay ==
  ASSUME SessionsInv, NEW g \in Gens, NEW h \in Gens, NEW gen, Become(h, gen)
  PROVE  generations'[g] = IF g = h THEN gen ELSE generations[g]
BY DEF SessionsInv, SessionsTypeOK, Gens, Become

\* or its users and its work change where the state admits it,
LEMMA ServingLives ==
  ASSUME NEW g, NEW old, NEW new, old \in Generations, new \in Generations,
         generations[g] = old, generations'[g] = new,
         Live(old), new.state = old.state, new.child = old.child,
         new.killRequested = old.killRequested, new.failed = old.failed,
         old.state = "starting" => ~new.busy /\ Used(new), old.state = "draining" => new.busy
  PROVE  Lives(g)
<1>1. new.busy \in BOOLEAN BY DEF Generations
<1>2. Life(g)!Serve BY <1>1 DEF Life!Serve, Live, Used
<1> QED BY <1>2 DEF Lives, Life!Next

\* or it stops, and its process may change in the same step,
LEMMA IffIsEqual ==
  ASSUME NEW a \in BOOLEAN, NEW b \in BOOLEAN, a <=> b
  PROVE  a = b
OBVIOUS

LEMMA EndIsAStep ==
  ASSUME NEW g, NEW old, NEW new,
         generations[g] = old, generations'[g] = new, Live(old),
         \/ Seen(new.child) = Seen(old.child)
         \/ Seen(old.child) = "spawning" /\ Seen(new.child) \in {"alive", "exited", "none"}
         \/ Seen(old.child) = "alive" /\ Seen(new.child) = "exited",
         new.state = IF Seen(new.child) \in {"exited", "none"} THEN "dead" ELSE "stopping",
         new.killRequested \in BOOLEAN,
         new.killRequested <=> Seen(new.child) \in {"alive", "exited"},
         old.failed => new.failed, new.failed \in BOOLEAN, new.busy = FALSE,
         new.members = {}, new.waiters = old.waiters
  PROVE  Lives(g)
<1>1. generations[g].state \in {"starting", "ready", "draining"} BY DEF Live
<1>2. (new.members \cup new.waiters # {}) \in {(old.members \cup old.waiters # {}), FALSE} OBVIOUS
<1>3. new.killRequested = (Seen(new.child) \in {"alive", "exited"}) BY IffIsEqual
<1>4. Life(g)!End BY <1>1, <1>2, <1>3, Zenon DEF Life!End, Life!Gone, Seen
<1> QED BY <1>4 DEF Lives, Life!Next

LEMMA StoppingLives ==
  ASSUME NEW g, NEW old, NEW gen, NEW fail \in BOOLEAN, old \in Generations, gen \in Generations,
         generations[g] = old, generations'[g] = Stopped(gen, fail),
         Live(old), gen.state = old.state, gen.members = old.members,
         gen.waiters = old.waiters, gen.failed = old.failed,
         \/ gen.child = old.child
         \/ old.child \in {"waiting", "spawned"} /\ gen.child = "alive",
         gen.child \notin {"exited", "none"}
  PROVE  Lives(g)
<1> DEFINE new == Stopped(gen, fail)
<1>1. Live(gen) BY DEF Live
<1>2. /\ new \in Generations /\ new.child = gen.child /\ new.waiters = gen.waiters
      /\ new.state = "stopping" /\ new.members = {} /\ new.busy = FALSE
      /\ new.killRequested <=> gen.child \in {"alive", "exited"}
  BY <1>1, StoppedFields
<1>3. gen.failed => new.failed BY <1>1 DEF Stopped, Generations
<1>4. generations'[g] = new OBVIOUS
<1> HIDE DEF new
<1>5. new.killRequested \in BOOLEAN /\ new.failed \in BOOLEAN BY <1>2 DEF Generations
<1>6. gen.child \in {"waiting", "spawned", "alive"} BY DEF Generations, Children
<1>7. \/ Seen(new.child) = Seen(old.child)
      \/ Seen(old.child) = "spawning" /\ Seen(new.child) = "alive"
  BY <1>2 DEF Seen
<1>8. /\ Seen(new.child) \notin {"exited", "none"}
      /\ Seen(new.child) \in {"alive", "exited"} <=> gen.child = "alive"
  BY <1>2, <1>6 DEF Seen
<1> QED BY <1>2, <1>3, <1>4, <1>5, <1>6, <1>7, <1>8, EndIsAStep

\* or its process is gone and it ends.
LEMMA EndingLives ==
  ASSUME SessionsInv, NEW g \in Gens, NEW gen \in Generations, NEW kill \in BOOLEAN,
         LET old == generations[g]
         IN  /\ gen.state = old.state /\ gen.members = old.members
             /\ gen.waiters = old.waiters /\ gen.failed = old.failed /\ gen.busy = old.busy
             /\ gen.killRequested = old.killRequested
             /\ \/ old.child = "waiting" /\ gen.child = "none"
                   /\ kill = Stopped(gen, TRUE).killRequested
                \/ old.child = "spawned" /\ gen.child = "exited" /\ kill = TRUE
                \/ old.child = "alive" /\ gen.child = "exited"
                   /\ kill = Stopped(gen, TRUE).killRequested,
         Retired(g, [Stopped(gen, TRUE) EXCEPT !.killRequested = kill])
  PROVE  Lives(g)
<1> DEFINE old == generations[g]
           stopped == Stopped(gen, TRUE)
           new == [[stopped EXCEPT !.killRequested = kill] EXCEPT !.state = "dead"]
<1>1. Fits(old) BY GenerationFits
<1>2. generations'[g] = new BY OthersStay DEF Retired
<1>3. /\ stopped \in Generations /\ stopped.child = gen.child /\ stopped.waiters = gen.waiters
      /\ Live(gen) => /\ stopped.state = "stopping" /\ stopped.members = {}
                      /\ stopped.busy = FALSE
                      /\ stopped.killRequested <=> gen.child \in {"alive", "exited"}
      /\ ~Live(gen) => stopped = gen
  BY StoppedFields
<1>4. gen.failed => stopped.failed BY DEF Stopped, Generations
<1>5. \/ old.child = "waiting" /\ gen.child = "none" /\ kill = stopped.killRequested
      \/ old.child = "spawned" /\ gen.child = "exited" /\ kill = TRUE
      \/ old.child = "alive" /\ gen.child = "exited" /\ kill = stopped.killRequested
  OBVIOUS
<1> HIDE DEF stopped
<1>6. /\ new \in Generations /\ new.state = "dead" /\ new.child = gen.child
      /\ new.waiters = gen.waiters /\ new.members = stopped.members
      /\ new.busy = stopped.busy /\ new.failed = stopped.failed /\ new.killRequested = kill
  BY <1>3 DEF Generations, States
<1> HIDE DEF new
<1>7. stopped.failed \in BOOLEAN /\ stopped.killRequested \in BOOLEAN BY <1>3 DEF Generations
<1>8. CASE Live(old)
 <2>1. Live(gen) BY <1>8 DEF Live
 <2>2. kill <=> gen.child \in {"alive", "exited"} BY <1>3, <1>5, <2>1
 <2> QED
  <3>1. /\ Seen(new.child) = gen.child /\ gen.child \in {"exited", "none"}
        /\ \/ Seen(old.child) = "spawning"
           \/ Seen(old.child) = "alive" /\ gen.child = "exited"
    BY <1>5, <1>6 DEF Seen
  <3>2. /\ stopped.members = {} /\ stopped.busy = FALSE
        /\ old.failed => stopped.failed /\ stopped.failed \in BOOLEAN
    BY <1>3, <1>4, <1>7, <2>1
  <3>3. /\ \/ Seen(old.child) = "spawning" /\ Seen(new.child) \in {"alive", "exited", "none"}
           \/ Seen(old.child) = "alive" /\ Seen(new.child) = "exited"
        /\ new.state = IF Seen(new.child) \in {"exited", "none"} THEN "dead" ELSE "stopping"
    BY <1>6, <3>1
  <3>4. /\ new.killRequested \in BOOLEAN
        /\ new.killRequested <=> Seen(new.child) \in {"alive", "exited"}
    BY <1>6, <2>2, <3>1
  <3>5. /\ old.failed => new.failed
        /\ new.failed \in BOOLEAN /\ new.busy = FALSE
    BY <1>6, <3>2 DEF Generations
  <3>6. gen.waiters = old.waiters OBVIOUS
  <3>7. new.members = {} /\ new.waiters = old.waiters BY <1>6, <3>2, <3>6
  <3> QED BY <1>2, <1>8, <3>3, <3>4, <3>5, <3>7, EndIsAStep
<1>9. CASE ~Live(old)
 <2>1. ~Live(gen) /\ stopped = gen BY <1>3, <1>9 DEF Live
 <2>2. old.state = "stopping" BY <1>1, <1>5, <1>9 DEF Fits, ProcessFits, Generations, States, Live
 <2>3. Life(g)!Retire BY <1>2, <1>5, <1>6, <2>1, <2>2 DEF Life!Retire
 <2> QED BY <2>3 DEF Lives, Life!Next
<1> QED BY <1>8, <1>9

\* Acquiring and leaving are service, or leave-taking.
LEMMA JoinedLives ==
  ASSUME SessionsInv, NEW g \in Gens, NEW c \in Callers, NEW n \in Names, NEW k \in Keys,
         Joined(c, n, k)
  PROVE  Lives(g)
<1> DEFINE h == groups[n]
           old == generations[h]
           new == [old EXCEPT !.waiters = @ \cup {c}]
<1>1. groups[n] # 0 /\ old.state \in {"starting", "ready"} /\ Become(h, new) BY DEF Joined
<1>2. h \in Gens /\ Fits(old) BY <1>1, CurrentOne
<1> HIDE DEF h
<1>3. /\ new \in Generations /\ new.state = old.state /\ new.child = old.child
      /\ new.killRequested = old.killRequested /\ new.failed = old.failed
      /\ new.busy = old.busy /\ c \in new.waiters
  BY <1>2 DEF Fits, Generations
<1> HIDE DEF new
<1>4. CASE g = h BY <1>1, <1>2, <1>4, OthersStay, <1>3, ServingLives DEF Fits, UsersFit, Used, Live
<1>5. CASE g # h BY <1>1, <1>2, <1>5, OthersStay, StayingLives
<1> QED BY <1>4, <1>5

LEMMA ResumedLives ==
  ASSUME SessionsInv, NEW g \in Gens, NEW h \in Gens, NEW c \in Callers, Resumed(h, c)
  PROVE  Lives(g)
<1> DEFINE old == generations[h]
           gen == [old EXCEPT !.waiters = @ \ {c}]
           in == [gen EXCEPT !.members = @ \cup {c}]
           new == IF gen.state = "ready" THEN in ELSE gen
<1>1. Fits(old) /\ c \in old.waiters /\ old.state # "starting" /\ Become(h, new)
  BY GenerationFits DEF Resumed
<1>2. /\ gen \in Generations /\ gen.state = old.state
      /\ gen.child = old.child /\ gen.killRequested = old.killRequested
      /\ gen.failed = old.failed /\ gen.busy = old.busy
      /\ gen.waiters = old.waiters \ {c} /\ gen.members = old.members
  BY <1>1 DEF Fits, Generations
<1>3. /\ in \in Generations /\ in.state = old.state
      /\ in.child = old.child /\ in.killRequested = old.killRequested
      /\ in.failed = old.failed /\ in.busy = old.busy
  BY <1>2 DEF Generations
<1> HIDE DEF gen, in
<1>4. CASE g = h
 <2>1. generations'[g] = new BY <1>1, <1>4, OthersStay
 <2>2. CASE Live(old) BY <1>2, <1>3, <1>1, <1>4, <2>1, <2>2, ServingLives DEF Fits, UsersFit
 <2>3. CASE ~Live(old)
  <3>1. old.state \in {"stopping", "dead"} /\ new = gen /\ old.members = {}
    BY <1>1, <1>2, <2>3 DEF Live, Fits, UsersFit, Generations, States
  <3>2. CASE Used(gen) BY <1>1, <1>2, <1>4, <2>1, <3>1, <3>2 DEF Life!vars, Used, Lives
  <3>3. CASE ~Used(gen)
    BY <1>1, <1>2, <1>4, <2>1, <3>1, <3>3 DEF Life!Leave, Used, Lives, Life!Next
  <3> QED BY <3>2, <3>3
 <2> QED BY <2>2, <2>3
<1>5. CASE g # h BY <1>1, <1>5, OthersStay, StayingLives
<1> QED BY <1>4, <1>5

LEMMA DetachedLives ==
  ASSUME SessionsInv, NEW g \in Gens, NEW h \in Gens, NEW c \in Callers, Detached(h, c)
  PROVE  Lives(g)
<1> DEFINE old == generations[h]
           new == [old EXCEPT !.members = @ \ {c}]
<1>1. Fits(old) /\ c \in old.members /\ Become(h, new) BY GenerationFits DEF Detached
<1>2. /\ new \in Generations /\ new.state = old.state
      /\ new.child = old.child /\ new.killRequested = old.killRequested
      /\ new.failed = old.failed /\ new.busy = old.busy
  BY <1>1 DEF Fits, Generations
<1> HIDE DEF new
<1>3. CASE g = h BY <1>1, <1>3, OthersStay, <1>2, ServingLives DEF Fits, UsersFit, Live
<1>4. CASE g # h BY <1>1, <1>4, OthersStay, StayingLives
<1> QED BY <1>3, <1>4

\* Recycling, removing and shutting down are ends, or a drain.
LEMMA StoppedLives ==
  ASSUME SessionsInv, NEW g \in Gens, NEW fail \in BOOLEAN,
         generations'[g] = Stopped(generations[g], fail)
  PROVE  Lives(g)
<1>1. Fits(generations[g]) BY GenerationFits
<1>2. CASE Live(generations[g]) BY <1>1, <1>2, StoppingLives DEF Live, Fits, ProcessFits
<1>3. CASE ~Live(generations[g]) BY <1>3, StayingLives DEF Stopped
<1> QED BY <1>2, <1>3

LEMMA RecycleLives ==
  ASSUME SessionsInv, NEW g \in Gens, NEW n \in Names, Recycle(n)
  PROVE  Lives(g)
<1> DEFINE h == groups[n]
           old == generations[h]
           drains == [old EXCEPT !.state = "draining", !.failed = FALSE]
           new == CASE old.state = "ready" /\ old.busy -> drains
                    [] old.state = "starting" \/ (old.state = "ready" /\ ~old.busy)
                         -> Stopped(old, FALSE)
                    [] OTHER -> old
<1>1. groups[n] # 0 /\ Become(h, new) BY DEF Recycle
<1>2. h \in Gens /\ Fits(old) BY <1>1, CurrentOne
<1> HIDE DEF h
<1>3. generations'[g] = IF g = h THEN new ELSE generations[g]
 <2> HIDE DEF new, old
 <2> QED BY <1>1, <1>2, OthersStay
<1>4. CASE g = h /\ old.state = "ready" /\ old.busy
 <2>1. generations'[g] = drains BY <1>3, <1>4
 <2>2. /\ drains.state = "draining" /\ drains.child = old.child /\ drains.busy = old.busy
       /\ drains.killRequested = old.killRequested /\ drains.failed = FALSE
       /\ drains.waiters = old.waiters /\ drains.members = old.members
   BY <1>2 DEF Fits, Generations, States
 <2> HIDE DEF drains
 <2>3. Life(g)!StartDrain BY <1>4, <2>1, <2>2 DEF Life!StartDrain
 <2> QED BY <2>3 DEF Lives, Life!Next
<1>5. CASE g = h /\ (old.state = "starting" \/ (old.state = "ready" /\ ~old.busy))
  BY <1>3, <1>5, StoppedLives
<1>6. CASE \/ g # h
           \/ /\ ~(old.state = "ready" /\ old.busy)
              /\ ~(old.state = "starting" \/ (old.state = "ready" /\ ~old.busy))
  BY <1>3, <1>6, StayingLives
<1> QED BY <1>4, <1>5, <1>6

LEMMA RemovedLives ==
  ASSUME SessionsInv, NEW g \in Gens,
         (\E n \in Names : RemoveServer(n)) \/ Shutdown
  PROVE  Lives(g)
<1>1. generations'[g] \in {Stopped(generations[g], FALSE), generations[g]}
  BY DEF RemoveServer, Shutdown
<1> QED BY <1>1, StoppedLives, StayingLives

\* The spawn and the process.
LEMMA SpawnedLives ==
  ASSUME SessionsInv, NEW g \in Gens, NEW h \in Gens, Spawned(h)
  PROVE  Lives(g)
<1> DEFINE old == generations[h]
           new == [old EXCEPT !.child = "spawned"]
<1>1. Fits(old) /\ old.child = "waiting" /\ Become(h, new) BY GenerationFits DEF Spawned
<1>2. /\ new.state = old.state /\ new.child = "spawned"
      /\ new.killRequested = old.killRequested /\ new.failed = old.failed
      /\ new.busy = old.busy /\ new.waiters = old.waiters /\ new.members = old.members
  BY <1>1 DEF Fits, Generations
<1> HIDE DEF new
<1>3. CASE g = h BY <1>1, <1>3, OthersStay, <1>2 DEF Life!vars, Lives
<1>4. CASE g # h BY <1>1, <1>4, OthersStay, StayingLives
<1> QED BY <1>3, <1>4

LEMMA SpawnRejectsLives ==
  ASSUME SessionsInv, NEW g \in Gens, NEW h \in Gens, SpawnRejects(h)
  PROVE  Lives(g)
<1> DEFINE gen == [generations[h] EXCEPT !.child = "none"]
           stopped == Stopped(gen, TRUE)
<1>1. generations[h] \in Generations /\ generations[h].child = "waiting"
  BY GenerationFits DEF Fits, SpawnRejects
<1>2. Retired(h, stopped) BY DEF SpawnRejects
<1>3. /\ gen \in Generations /\ gen.state = generations[h].state /\ gen.child = "none"
      /\ gen.killRequested = generations[h].killRequested
      /\ gen.failed = generations[h].failed /\ gen.busy = generations[h].busy
      /\ gen.waiters = generations[h].waiters /\ gen.members = generations[h].members
  BY <1>1, ChildGiven DEF Children
<1> HIDE DEF gen
<1>4. stopped \in Generations BY <1>3, StoppedFields
<1>5. stopped = [stopped EXCEPT !.killRequested = stopped.killRequested] BY <1>4, SetToItself
<1>6. stopped.killRequested \in BOOLEAN BY <1>4 DEF Generations
<1>7. CASE g = h BY <1>2, <1>5, <1>1, <1>3, <1>6, <1>7, EndingLives
<1>8. CASE g # h BY <1>2, <1>8, OthersStay, StayingLives DEF Retired
<1> QED BY <1>7, <1>8

LEMMA ExitsLives ==
  ASSUME SessionsInv, NEW g \in Gens, NEW h \in Gens, Exits(h)
  PROVE  Lives(g)
<1> DEFINE gen == [generations[h] EXCEPT !.child = "exited"]
           stopped == Stopped(gen, TRUE)
<1>1. generations[h] \in Generations /\ generations[h].child = "alive"
  BY GenerationFits DEF Fits, Exits
<1>2. Retired(h, stopped) BY DEF Exits
<1>3. /\ gen \in Generations /\ gen.state = generations[h].state /\ gen.child = "exited"
      /\ gen.killRequested = generations[h].killRequested
      /\ gen.failed = generations[h].failed /\ gen.busy = generations[h].busy
      /\ gen.waiters = generations[h].waiters /\ gen.members = generations[h].members
  BY <1>1, ChildGiven DEF Children
<1> HIDE DEF gen
<1>4. stopped \in Generations BY <1>3, StoppedFields
<1>5. stopped = [stopped EXCEPT !.killRequested = stopped.killRequested] BY <1>4, SetToItself
<1>6. stopped.killRequested \in BOOLEAN BY <1>4 DEF Generations
<1>7. CASE g = h BY <1>2, <1>5, <1>1, <1>3, <1>6, <1>7, EndingLives
<1>8. CASE g # h BY <1>2, <1>8, OthersStay, StayingLives DEF Retired
<1> QED BY <1>7, <1>8

LEMMA ArrivesLives ==
  ASSUME SessionsInv, NEW g \in Gens, NEW h \in Gens, Arrives(h)
  PROVE  Lives(g)
<1> DEFINE old == generations[h]
           told == [old EXCEPT !.child = "alive", !.killRequested = TRUE]
           gen == [old EXCEPT !.child = "alive"]
           gone == [old EXCEPT !.child = "exited"]
           ended == [Stopped(gone, TRUE) EXCEPT !.killRequested = TRUE]
<1>1. Fits(old) /\ old.child = "spawned" BY GenerationFits DEF Arrives
<1>2. CASE old.state = "stopping" /\ Become(h, told)
 <2>1. /\ told.state = old.state /\ told.child = "alive" /\ told.killRequested = TRUE
       /\ told.busy = old.busy /\ told.waiters = old.waiters /\ told.members = old.members
       /\ told.failed = old.failed
   BY <1>1 DEF Fits, Generations
 <2> HIDE DEF told
 <2>2. CASE g = h
  <3>1. generations'[g] = told BY <1>2, <2>2, OthersStay
  <3>2. Life(g)!Spawned BY <1>1, <1>2, <2>1, <2>2, <3>1 DEF Life!Spawned
  <3> QED BY <3>2 DEF Lives, Life!Next
 <2>3. CASE g # h BY <1>2, <2>3, OthersStay, StayingLives
 <2> QED BY <2>2, <2>3
<1>3. CASE old.state = "starting" /\ (Become(h, gen) \/ Become(h, Stopped(gen, TRUE)))
 <2>1. /\ gen \in Generations /\ gen.state = old.state /\ gen.child = "alive"
       /\ gen.killRequested = old.killRequested /\ gen.failed = old.failed
       /\ gen.busy = old.busy /\ gen.waiters = old.waiters /\ gen.members = old.members
   BY <1>1, ChildGiven DEF Fits, Children
 <2> HIDE DEF gen
 <2>2. CASE g = h /\ Become(h, gen)
   BY <2>2, OthersStay, <1>1, <1>3, <2>1 DEF Fits, ProcessFits, Generations, Life!Spawned, Lives, Life!Next
 <2>3. CASE g = h /\ Become(h, Stopped(gen, TRUE))
  <3>1. generations'[g] = Stopped(gen, TRUE) BY <2>3, OthersStay
  <3>2. Live(old) BY <1>3 DEF Live
  <3> QED BY <1>1, <2>1, <2>3, <3>1, <3>2, StoppingLives DEF Fits
 <2>4. CASE g # h BY <1>3, <2>4, OthersStay, StayingLives
 <2> QED BY <1>3, <2>2, <2>3, <2>4
<1>4. CASE Retired(h, ended)
 <2>1. /\ gone \in Generations /\ gone.state = old.state /\ gone.child = "exited"
       /\ gone.killRequested = old.killRequested /\ gone.failed = old.failed
       /\ gone.busy = old.busy /\ gone.waiters = old.waiters /\ gone.members = old.members
   BY <1>1, ChildGiven DEF Fits, Children
 <2>2. CASE g = h BY <1>1, <1>4, <2>1, <2>2, EndingLives
 <2>3. CASE g # h BY <1>4, <2>3, OthersStay, StayingLives DEF Retired
 <2> QED BY <2>2, <2>3
<1> QED BY <1>2, <1>3, <1>4 DEF Arrives

LEMMA ReadyLives ==
  ASSUME SessionsInv, NEW g \in Gens, NEW h \in Gens, Ready(h)
  PROVE  Lives(g)
<1> DEFINE old == generations[h]
           new == [old EXCEPT !.state = "ready"]
<1>1. Fits(old) /\ old.state = "starting" /\ old.child = "alive" /\ Become(h, new)
  BY GenerationFits DEF Ready
<1>2. /\ new.state = "ready" /\ new.child = old.child
      /\ new.killRequested = old.killRequested /\ new.failed = old.failed
      /\ new.busy = old.busy /\ new.waiters = old.waiters /\ new.members = old.members
  BY <1>1 DEF Fits, Generations
<1> HIDE DEF new
<1>3. CASE g = h BY <1>1, <1>3, OthersStay, <1>2 DEF Life!BecomeReady, Lives, Life!Next
<1>4. CASE g # h BY <1>1, <1>4, OthersStay, StayingLives
<1> QED BY <1>3, <1>4

\* The work.
LEMMA WorkStartsLives ==
  ASSUME SessionsInv, NEW g \in Gens, NEW h \in Gens, WorkStarts(h)
  PROVE  Lives(g)
<1> DEFINE old == generations[h]
           new == [old EXCEPT !.busy = TRUE]
<1>1. Fits(old) /\ old.state = "ready" /\ Become(h, new) BY GenerationFits DEF WorkStarts
<1>2. /\ new \in Generations /\ new.state = old.state /\ new.child = old.child
      /\ new.killRequested = old.killRequested /\ new.failed = old.failed
  BY <1>1 DEF Fits, Generations
<1> HIDE DEF new
<1>3. CASE g = h BY <1>1, <1>3, OthersStay, <1>2, ServingLives DEF Live, Fits
<1>4. CASE g # h BY <1>1, <1>4, OthersStay, StayingLives
<1> QED BY <1>3, <1>4

LEMMA WorkEndsLives ==
  ASSUME SessionsInv, NEW g \in Gens, NEW h \in Gens, WorkEnds(h)
  PROVE  Lives(g)
<1> DEFINE old == generations[h]
           new == [old EXCEPT !.busy = FALSE]
<1>1. Fits(old) /\ old.busy BY GenerationFits DEF WorkEnds
<1>2. old.state \in {"ready", "draining"} BY <1>1 DEF Fits, UsersFit
<1>3. CASE old.state = "draining" BY <1>3, OthersStay, StoppedLives, StayingLives DEF WorkEnds
<1>4. CASE old.state # "draining"
 <2>1. Become(h, new) BY <1>4 DEF WorkEnds
 <2>2. /\ new \in Generations /\ new.state = old.state /\ new.child = old.child
       /\ new.killRequested = old.killRequested /\ new.failed = old.failed
   BY <1>1 DEF Fits, Generations
 <2> HIDE DEF new
 <2>3. CASE g = h BY <2>1, <2>3, OthersStay, <1>2, <1>4, <1>1, <2>2, ServingLives DEF Live, Fits
 <2>4. CASE g # h BY <2>1, <2>4, OthersStay, StayingLives
 <2> QED BY <2>3, <2>4
<1> QED BY <1>3, <1>4

LEMMA WorkTimesOutLives ==
  ASSUME SessionsInv, NEW g \in Gens, NEW h \in Gens, WorkTimesOut(h)
  PROVE  Lives(g)
<1> DEFINE old == generations[h]
           new == [old EXCEPT !.state = "draining", !.failed = TRUE]
<1>1. Fits(old) /\ old.state = "ready" /\ old.busy /\ Become(h, new)
  BY GenerationFits DEF WorkTimesOut
<1>2. /\ new.state = "draining" /\ new.child = old.child /\ new.failed = TRUE
      /\ new.killRequested = old.killRequested /\ new.busy = old.busy
      /\ new.waiters = old.waiters /\ new.members = old.members
  BY <1>1 DEF Fits, Generations
<1> HIDE DEF new
<1>3. CASE g = h BY <1>1, <1>3, OthersStay, <1>2 DEF Life!StartDrain, Lives, Life!Next
<1>4. CASE g # h BY <1>1, <1>4, OthersStay, StayingLives
<1> QED BY <1>3, <1>4

LEMMA KillReportLives ==
  ASSUME SessionsInv, NEW g \in Gens, NEW h \in Gens, KillReport(h)
  PROVE  Lives(g)
<1> DEFINE old == generations[h]
           new == [old EXCEPT !.failed = TRUE]
<1>1. Fits(old) /\ old.state = "stopping" /\ old.killRequested /\ Become(h, new)
  BY GenerationFits DEF KillReport
<1>2. /\ new.state = old.state /\ new.child = old.child /\ new.failed = TRUE
      /\ new.killRequested = old.killRequested /\ new.busy = old.busy
      /\ new.waiters = old.waiters /\ new.members = old.members
  BY <1>1 DEF Fits, Generations
<1> HIDE DEF new
<1>3. CASE g = h BY <1>1, <1>3, OthersStay, <1>2 DEF Life!KillFails, Lives, Life!Next
<1>4. CASE g # h BY <1>1, <1>4, OthersStay, StayingLives
<1> QED BY <1>3, <1>4

\* Timers and faults.
LEMMA FailsLives ==
  ASSUME SessionsInv, NEW g \in Gens, NEW h \in Gens, LingerExpires(h) \/ Fails(h)
  PROVE  Lives(g)
<1>1. PICK fail \in BOOLEAN : Become(h, Stopped(generations[h], fail)) BY DEF LingerExpires, Fails
<1> QED BY <1>1, OthersStay, StoppedLives, StayingLives

\* A new generation is appended; the others do not notice.
LEMMA StartedLives ==
  ASSUME SessionsInv, NEW c \in Callers, NEW n \in Names, NEW k \in Keys, Started(c, n, k)
  PROVE  /\ \A g \in Gens : Lives(g)
         /\ \A g \in Gens' \ Gens : (Life(g)!Init)'
<1> DEFINE new == NewGeneration(c, n, k)
           last == Len(generations) + 1
<1>1. generations \in Seq(Generations) /\ Gens = 1..Len(generations) /\ Len(generations) \in Nat
  BY DEF SessionsInv, SessionsTypeOK, Gens
<1>2. CASE UNCHANGED generations BY <1>2, StayingLives DEF Gens
<1>3. CASE generations' = Append(generations, new)
 <2>1. \A g \in Gens : generations'[g] = generations[g] BY <1>1, <1>3
 <2>2. Gens' = 1..last BY <1>1, <1>3 DEF Gens
 <2>3. \A g \in Gens' \ Gens : g = last BY <1>1, <2>2
 <2>4. generations'[last] = new BY <1>1, <1>3
 <2>5. /\ new.state = "starting" /\ new.child = "waiting" /\ new.killRequested = FALSE
       /\ new.failed = FALSE /\ new.waiters = {c} /\ new.members = {} /\ new.busy = FALSE
   BY DEF NewGeneration
 <2> HIDE DEF new, last
 <2>6. ASSUME NEW g \in Gens' \ Gens
       PROVE  (Life(g)!Init)'
   BY <2>3, <2>4, <2>5 DEF Life!Init
 <2> QED BY <2>1, <2>6, StayingLives
<1> QED BY <1>2, <1>3 DEF Started

\* No other step starts a generation.
LEMMA SameGens ==
  ASSUME SessionsInv, [Next]_vars, ~ \E c \in Callers, n \in Names, k \in Keys : Started(c, n, k)
  PROVE  Gens' = Gens
<1> USE DEF Gens
<1>1. ASSUME NEW h, NEW gen, Become(h, gen) PROVE Gens' = Gens BY <1>1 DEF Become
<1>2. ASSUME NEW h, NEW gen, Retired(h, gen) PROVE Gens' = Gens BY <1>1, <1>2 DEF Retired
<1>3. ASSUME NEW c \in Callers, NEW n \in Names, NEW k \in Keys, Joined(c, n, k)
      PROVE  Gens' = Gens
  BY <1>1, <1>3 DEF Joined
<1>4. ASSUME NEW g \in Gens, NEW c \in Callers, Resumed(g, c) \/ Detached(g, c)
      PROVE  Gens' = Gens
  BY <1>1, <1>4 DEF Resumed, Detached
<1>5. ASSUME NEW n \in Names, Recycle(n) \/ RemoveServer(n) \/ DelayElapses(n)
      PROVE  Gens' = Gens
 <2>1. CASE Recycle(n) BY <1>1, <2>1 DEF Recycle
 <2>2. CASE RemoveServer(n) BY <2>2 DEF RemoveServer
 <2>3. CASE DelayElapses(n) BY <2>3 DEF DelayElapses
 <2> QED BY <1>5, <2>1, <2>2, <2>3
<1>6. CASE BeginShutdown BY <1>6 DEF BeginShutdown
<1>7. CASE Shutdown BY <1>7 DEF Shutdown
<1>8. ASSUME NEW g \in Gens,
             \/ Spawned(g) \/ SpawnRejects(g) \/ Arrives(g) \/ Ready(g)
             \/ WorkStarts(g) \/ WorkEnds(g) \/ WorkTimesOut(g)
             \/ LingerExpires(g) \/ Fails(g) \/ Exits(g) \/ KillReport(g)
      PROVE  Gens' = Gens
 <2>1. CASE SpawnRejects(g) \/ Exits(g) BY <1>2, <2>1 DEF SpawnRejects, Exits
 <2>2. CASE Arrives(g) BY <1>1, <1>2, <2>2 DEF Arrives
 <2>3. CASE Spawned(g) \/ Ready(g) \/ WorkStarts(g) \/ WorkEnds(g) \/ WorkTimesOut(g)
   BY <1>1, <2>3 DEF Spawned, Ready, WorkStarts, WorkEnds, WorkTimesOut
 <2>4. CASE LingerExpires(g) \/ Fails(g) \/ KillReport(g)
   BY <1>1, <2>4 DEF LingerExpires, Fails, KillReport
 <2> QED BY <1>8, <2>1, <2>2, <2>3, <2>4
<1>9. CASE UNCHANGED vars BY <1>9 DEF vars
<1> QED BY <1>3, <1>4, <1>5, <1>6, <1>7, <1>8, <1>9 DEF Next

LEMMA LifeStep ==
  ASSUME SessionsInv, [Next]_vars
  PROVE  /\ \A g \in Gens : Lives(g)
         /\ \A g \in Gens' \ Gens : (Life(g)!Init)'
<1>1. CASE \E c \in Callers, n \in Names, k \in Keys : Started(c, n, k) BY <1>1, StartedLives
<1>2. CASE ~ \E c \in Callers, n \in Names, k \in Keys : Started(c, n, k)
 <2>1. Gens' = Gens BY <1>2, SameGens
 <2>2. ASSUME NEW g \in Gens PROVE Lives(g)
  <3>1. ASSUME UNCHANGED generations PROVE Lives(g) BY <3>1, StayingLives
  <3>2. CASE UNCHANGED vars BY <3>1, <3>2 DEF vars
  <3>3. ASSUME NEW c \in Callers, NEW n \in Names, NEW k \in Keys, Joined(c, n, k)
        PROVE  Lives(g)
    BY <3>3, JoinedLives
  <3>4. ASSUME NEW h \in Gens, NEW c \in Callers, Resumed(h, c) \/ Detached(h, c)
        PROVE  Lives(g)
    BY <3>4, ResumedLives, DetachedLives
  <3>5. ASSUME NEW n \in Names, Recycle(n) \/ RemoveServer(n) \/ DelayElapses(n)
        PROVE  Lives(g)
   <4>1. CASE DelayElapses(n) BY <3>1, <4>1 DEF DelayElapses
   <4> QED BY <3>5, <4>1, RecycleLives, RemovedLives
  <3>6. CASE BeginShutdown BY <3>1, <3>6 DEF BeginShutdown
  <3>7. CASE Shutdown BY <3>7, RemovedLives
  <3>8. ASSUME NEW h \in Gens,
               \/ Spawned(h) \/ SpawnRejects(h) \/ Arrives(h) \/ Ready(h)
               \/ WorkStarts(h) \/ WorkEnds(h) \/ WorkTimesOut(h)
               \/ LingerExpires(h) \/ Fails(h) \/ Exits(h) \/ KillReport(h)
        PROVE  Lives(g)
    BY <3>8, SpawnedLives, SpawnRejectsLives, ArrivesLives, ReadyLives, WorkStartsLives,
      WorkEndsLives, WorkTimesOutLives, FailsLives, ExitsLives, KillReportLives
  <3> QED BY <1>2, <3>2, <3>3, <3>4, <3>5, <3>6, <3>7, <3>8 DEF Next
 <2> QED BY <2>1, <2>2
<1> QED BY <1>1, <1>2

\* The manager, with the bridge's spawn callback, implements for each of its
\* generations the life of a group: it is born starting, and every step of the
\* manager is one step of that life or none.
THEOREM EachLivesLikeAGroup == Spec => LivesLikeAGroup
<1>1. SessionsInv /\ [Next]_vars =>
        [/\ \A g \in Gens : Life(g)!Next \/ UNCHANGED Life(g)!vars
         /\ \A g \in Gens' \ Gens : (Life(g)!Init)']_vars
  BY LifeStep DEF Lives
<1> QED BY <1>1, SessionsInvariance, PTL DEF Spec, LivesLikeAGroup

-----------------------------------------------------------------------------
(* The log of the bridge, and who reads it.  What follows is about LogFollow, for any number of lines a *)
(* file may have and any number of records, rolls and restarts: until somebody else truncates the log,  *)
(* the files, what was read, what was written and what the reader keeps fit together (Uncut).           *)

Marks == [first : BOOLEAN, hit : BOOLEAN]
Cursors == [file : Nat, offset : Nat, start : Nat, matched : BOOLEAN, anchor : Nat]
Readers ==
    [at : {"current", "archive", "check", "resume", "drain", "turn", "archived", "next", "rest", "waiting", "over"},
     follow : BOOLEAN, grep : BOOLEAN, current : Nat, archive : Nat, cursor : Cursors, goal : Nat,
     then : {"none", "turn", "archived", "rest"}, last : Nat, told : BOOLEAN, blind : BOOLEAN]
LogTypes ==
    /\ lines \in Seq(Marks) /\ files \in Seq(Seq(Nat)) /\ path \in [current : Nat, archive : Nat]
    /\ reader \in Readers /\ seen \in Seq(Nat) /\ shown \in Seq(Nat)

\* The current file is the newest, and the archive the one before it.
NamesFit ==
    /\ path.current \in {NoFile, Len(files)}
    /\ path.archive = IF path.current = NoFile THEN Len(files) ELSE Len(files) - 1

\* The files hold all lines in order, and no record is cut in two.
FirstIn(f) == files[f][1]
LastIn(f) == files[f][Len(files[f])]
FileFits(f) ==
    /\ Len(files[f]) > 0 /\ lines[FirstIn(f)].first
    /\ \A i \in 1 .. Len(files[f]) : files[f][i] = FirstIn(f) + i - 1 /\ files[f][i] \in 1 .. Len(lines)
    /\ f > 1 => FirstIn(f) = LastIn(f - 1) + 1
FilesFit ==
    /\ \A f \in 1 .. Len(files) : FileFits(f)
    /\ \A f, g \in 1 .. Len(files) : f < g => LastIn(f) < FirstIn(g)
    /\ Len(files) > 0 => LastIn(Len(files)) = Len(lines)
    /\ Len(files) = 0 => lines = <<>>

\* The last line read.
Position == IF seen = <<>> THEN 0 ELSE Last(seen)
Behind(f) == Position < FirstIn(f)
Requested ==
    {n \in ToSet(seen) : ~reader.grep \/ \E m \in ToSet(seen) : lines[m].hit /\ SameRecord(m, n)}
SeenFits ==
    /\ Increasing(seen) /\ Increasing(shown)
    /\ \A i \in 1 .. Len(seen) : seen[i] \in 1 .. Position
    /\ Position <= Len(lines)
    /\ \A i \in 1 .. Len(shown) : shown[i] \in 1 .. Position
    /\ ToSet(shown) = Requested
    /\ ~reader.grep => shown = seen

\* What may be read next without a notice.
Excused == seen = <<>> \/ reader.told \/ reader.blind
Follows(f) == Excused \/ Position = FirstIn(f) - 1

\* A cursor in a file: all before it has been read, the file is read from its
\* beginning, and the record that it is in is written if it has had a hit.
InFile(c) ==
    LET file == files[c.file] IN
    /\ c.anchor = file[c.offset] /\ Position = c.anchor
    /\ c.start \in 1 .. c.offset /\ lines[file[c.start]].first
    /\ \A i \in c.start + 1 .. c.offset : ~lines[file[i]].first
    /\ \A i \in 1 .. c.offset : file[i] \in ToSet(seen)
    /\ c.matched <=> reader.grep /\ \E i \in c.start .. c.offset : lines[file[i]].hit
    /\ reader.grep /\ ~c.matched => \A i \in 1 .. Len(shown) : shown[i] < file[c.start]
CursorFits(c) ==
    /\ c.file = NoFile => c = NoCursor
    /\ c.file # NoFile =>
         /\ c.file \in 1 .. Len(files) /\ c.offset \in 0 .. Len(files[c.file]) /\ reader.last < c.file
         /\ c.offset = 0 => c = Fresh(c.file) /\ Behind(c.file) /\ Follows(c.file)
         /\ c.offset > 0 => InFile(c)

\* The two files that are open belong together.
OpenFit ==
    LET c == reader.cursor IN
    /\ reader.last <= path.archive
    /\ reader.at = "archive" =>
         IF reader.current = NoFile THEN c.file <= path.archive
         ELSE reader.current <= Len(files) /\ c.file <= reader.current
    /\ reader.at \in {"check", "resume", "drain", "turn", "archived", "next", "rest"} =>
         /\ reader.last <= reader.archive /\ reader.archive <= path.archive
         /\ IF reader.current = NoFile THEN c.file <= reader.archive
            ELSE /\ reader.current <= Len(files) /\ c.file <= reader.current
                 /\ reader.archive >= reader.current - 1
                 /\ reader.at # "check" => reader.archive = reader.current - 1

Read(c) == c.offset = Len(files[c.file])
\* Where the reader is in what it has open.
PlaceFits ==
    LET c == reader.cursor IN
    /\ reader.at = "drain" =>
         /\ c.file # NoFile /\ reader.goal <= Len(files[c.file]) /\ c.offset <= reader.goal
         /\ reader.then \in {"turn", "archived", "rest"}
         /\ reader.then = "archived" => c.file = reader.archive
         /\ reader.then = "turn" => c.file \in {reader.archive, reader.current}
         /\ reader.then = "rest" => c.file = reader.current
         /\ c.file = reader.archive => reader.goal = Len(files[c.file])
    /\ reader.at = "turn" /\ c.file # NoFile => c.file = reader.current \/ (c.file = reader.archive /\ Read(c))
    /\ reader.at = "archived" => c.file # NoFile /\ c.file = reader.archive /\ Read(c)
    /\ reader.at = "next" => c.file \in {NoFile, reader.current}
    /\ reader.at = "rest" => c.file = reader.current

\* Without a cursor nothing was read of what is still to be read.
ReadUpToLast == \A f \in 1 .. Len(files) : f > reader.last => Behind(f)
GoneFits ==
    reader.cursor.file = NoFile =>
        /\ reader.at \in {"current", "archive", "check", "resume", "waiting", "next", "rest"} => ReadUpToLast
        /\ reader.at \in {"current", "archive", "check", "resume", "waiting", "turn"} => Excused
        /\ reader.at = "turn" =>
             \/ ReadUpToLast
             \/ reader.archive > reader.last /\ Behind(reader.archive)
        /\ reader.at = "next" /\ reader.current # NoFile => Follows(reader.current)

Uncut ==
    LogTypes /\ NamesFit /\ FilesFit /\ SeenFits /\ CursorFits(reader.cursor) /\ OpenFit /\ PlaceFits /\ GoneFits
LogInv == logged \in [events : Nat, cut : BOOLEAN] /\ (~logged.cut => Uncut)

\* A file, a line, and the last line read.
LEMMA InLog ==
    ASSUME Uncut
    PROVE  /\ Len(files) \in Nat /\ Len(lines) \in Nat /\ Len(seen) \in Nat /\ Position \in 0 .. Len(lines)
           /\ \A f \in 1 .. Len(files) :
                /\ files[f] \in Seq(Nat) /\ Len(files[f]) \in Nat \ {0} /\ FileFits(f)
                /\ FirstIn(f) \in 1 .. Len(lines) /\ LastIn(f) \in 1 .. Len(lines)
                /\ LastIn(f) = FirstIn(f) + Len(files[f]) - 1
                /\ \A i \in 1 .. Len(files[f]) : files[f][i] = FirstIn(f) + i - 1
           /\ reader.cursor \in Cursors /\ reader \in Readers
<1>1. /\ lines \in Seq(Marks) /\ files \in Seq(Seq(Nat)) /\ seen \in Seq(Nat) /\ reader \in Readers
      /\ Position <= Len(lines) /\ \A f \in 1 .. Len(files) : FileFits(f)
  BY DEF Uncut, LogTypes, SeenFits, FilesFit
<1>2. Position \in Nat BY <1>1 DEF Position, Last
<1>3. ASSUME NEW f \in 1 .. Len(files)
      PROVE  /\ files[f] \in Seq(Nat) /\ Len(files[f]) \in Nat \ {0} /\ FileFits(f)
             /\ FirstIn(f) \in 1 .. Len(lines) /\ LastIn(f) \in 1 .. Len(lines)
             /\ LastIn(f) = FirstIn(f) + Len(files[f]) - 1
             /\ \A i \in 1 .. Len(files[f]) : files[f][i] = FirstIn(f) + i - 1
 <2>1. files[f] \in Seq(Nat) /\ FileFits(f) BY <1>1
 <2>2. Len(files[f]) \in Nat \ {0} /\ 1 \in 1 .. Len(files[f]) /\ Len(files[f]) \in 1 .. Len(files[f])
   BY <2>1 DEF FileFits
 <2>3. \A i \in 1 .. Len(files[f]) : files[f][i] = FirstIn(f) + i - 1 /\ files[f][i] \in 1 .. Len(lines)
   BY <2>1 DEF FileFits
 <2>4. QED BY <2>1, <2>2, <2>3 DEF FirstIn, LastIn
<1>4. QED BY <1>1, <1>2, <1>3 DEF Readers

\* The lines between two say whether they are of one record.
LEMMA SameRecordIs ==
    ASSUME NEW m \in Nat, NEW n \in Nat, m <= n
    PROVE  /\ SameRecord(m, n) <=> \A k \in m + 1 .. n : ~lines[k].first
           /\ SameRecord(n, m) <=> \A k \in m + 1 .. n : ~lines[k].first
<1>1. Min({m, n}) = m /\ Max({m, n}) = n BY DEF Min, Max
<1>2. Min({n, m}) = m /\ Max({n, m}) = n BY DEF Min, Max
<1>3. QED BY <1>1, <1>2 DEF SameRecord

\* What a step of the bridge may do: the log grows, at its end.
LogGrows ==
    /\ UNCHANGED <<reader, seen, shown>>
    /\ Len(lines) <= Len(lines') /\ \A i \in 1 .. Len(lines) : lines'[i] = lines[i]
    /\ Len(files) <= Len(files')
    /\ \A f \in 1 .. Len(files) :
         /\ Len(files[f]) <= Len(files'[f]) /\ \A i \in 1 .. Len(files[f]) : files'[f][i] = files[f][i]
         /\ f # path.current => files'[f] = files[f]
    /\ \A f \in 1 .. Len(files') : f > Len(files) => files'[f][1] > Len(lines)
    /\ path.archive <= path'.archive

LEMMA SeenStays ==
    ASSUME Uncut, LogGrows, LogTypes'
    PROVE  SeenFits' /\ Position' = Position
<1>1. seen' = seen /\ shown' = shown /\ reader' = reader BY DEF LogGrows
<1>2. Position' = Position BY <1>1 DEF Position
<1>3. /\ lines \in Seq(Marks) /\ lines' \in Seq(Marks) /\ Len(lines) <= Len(lines')
      /\ \A i \in 1 .. Len(lines) : lines'[i] = lines[i]
  BY DEF Uncut, LogTypes, LogGrows
<1>4. \A n \in ToSet(seen) : n \in 1 .. Len(lines) BY InLog DEF Uncut, SeenFits, ToSet
<1>5. ASSUME NEW m \in ToSet(seen), NEW n \in ToSet(seen)
      PROVE  lines'[m] = lines[m] /\ (SameRecord(m, n)' <=> SameRecord(m, n))
 <2>1. m \in 1 .. Len(lines) /\ n \in 1 .. Len(lines) /\ Len(lines) \in Nat BY <1>3, <1>4
 <2>2. /\ m <= n => (SameRecord(m, n)' <=> \A k \in m + 1 .. n : ~lines'[k].first)
       /\ n <= m => (SameRecord(m, n)' <=> \A k \in n + 1 .. m : ~lines'[k].first)
  <3>1. /\ m <= n => Min({m, n}) = m /\ Max({m, n}) = n
        /\ n <= m => Min({m, n}) = n /\ Max({m, n}) = m
    BY <2>1 DEF Min, Max
  <3>2. QED BY <3>1 DEF SameRecord
 <2>3. \A k \in 1 .. Len(lines) : lines'[k] = lines[k] BY <1>3
 <2>4. CASE m <= n
  <3>1. SameRecord(m, n) <=> \A k \in m + 1 .. n : ~lines[k].first BY <2>1, <2>4, SameRecordIs
  <3>2. \A k \in m + 1 .. n : k \in 1 .. Len(lines) BY <2>1
  <3>3. QED BY <2>1, <2>2, <2>3, <2>4, <3>1, <3>2
 <2>5. CASE n <= m
  <3>1. SameRecord(m, n) <=> \A k \in n + 1 .. m : ~lines[k].first BY <2>1, <2>5, SameRecordIs
  <3>2. \A k \in n + 1 .. m : k \in 1 .. Len(lines) BY <2>1
  <3>3. QED BY <2>1, <2>2, <2>3, <2>5, <3>1, <3>2
 <2>6. QED BY <2>1, <2>4, <2>5
<1>6. Requested' = Requested BY <1>1, <1>5 DEF Requested
<1>7. QED BY <1>1, <1>3, InLog, <1>2, <1>6 DEF Increasing, ToSet, Uncut, SeenFits

LEMMA LogGrowsOn ==
    ASSUME Uncut, LogGrows, LogTypes', NamesFit', FilesFit'
    PROVE  Uncut'
<1>1. seen' = seen /\ shown' = shown /\ reader' = reader /\ Position' = Position /\ SeenFits'
  BY SeenStays DEF LogGrows
<1>2. /\ lines \in Seq(Marks) /\ lines' \in Seq(Marks) /\ Len(lines) <= Len(lines')
      /\ \A i \in 1 .. Len(lines) : lines'[i] = lines[i]
      /\ files \in Seq(Seq(Nat)) /\ files' \in Seq(Seq(Nat)) /\ Len(files) <= Len(files')
      /\ path.archive <= path'.archive /\ path \in [current : Nat, archive : Nat]
      /\ path' \in [current : Nat, archive : Nat]
  BY DEF Uncut, LogTypes, LogGrows
<1>3. ASSUME NEW f \in 1 .. Len(files)
      PROVE  /\ f \in 1 .. Len(files') /\ Len(files[f]) <= Len(files'[f])
             /\ \A i \in 1 .. Len(files[f]) : files'[f][i] = files[f][i] /\ lines'[files[f][i]] = lines[files[f][i]]
             /\ files'[f][1] = files[f][1]
             /\ f <= path.archive => files'[f] = files[f]
 <2>1. Len(files[f]) \in Nat \ {0} /\ files[f] \in Seq(Nat) /\ FileFits(f) BY InLog
 <2>2. \A i \in 1 .. Len(files[f]) : files[f][i] \in 1 .. Len(lines) BY <2>1 DEF FileFits
 <2>3. /\ Len(files[f]) <= Len(files'[f]) /\ \A i \in 1 .. Len(files[f]) : files'[f][i] = files[f][i]
       /\ f # path.current => files'[f] = files[f]
   BY DEF LogGrows
 <2>4. files'[f][1] = files[f][1] BY <2>1, <2>3
 <2>5. f <= path.archive => f # path.current BY <1>2, SMTT(20) DEF Uncut, NamesFit, NoFile
 <2>7. f \in 1 .. Len(files') BY <1>2
 <2>8. \A i \in 1 .. Len(files[f]) : files'[f][i] = files[f][i] /\ lines'[files[f][i]] = lines[files[f][i]]
   BY <1>2, <2>2, <2>3
 <2>9. QED BY <2>3, <2>4, <2>5, <2>7, <2>8
<1>4. ASSUME NEW f \in 1 .. Len(files'), f > Len(files)
      PROVE  Position < files'[f][1]
 <2>1. files'[f] \in Seq(Nat) /\ FileFits(f)' /\ files'[f][1] > Len(lines)
   BY <1>2, <1>4 DEF FilesFit, LogGrows
 <2>2. Len(files'[f]) \in Nat \ {0} BY <2>1 DEF FileFits
 <2>3. files'[f][1] \in Nat BY <2>1, <2>2
 <2>4. QED BY <1>2, <2>1, <2>3, InLog, SMTT(20)
<1> DEFINE c == reader.cursor
<1>5. c \in Cursors /\ (c.file # NoFile => c.file \in 1 .. Len(files) /\ c.offset \in 0 .. Len(files[c.file]))
  BY InLog DEF Uncut, CursorFits
<1>6. CursorFits(c)'
 <2>1. CASE c.file = NoFile BY <1>1, <2>1 DEF Uncut, CursorFits, NoFile
 <2>2. CASE c.file # NoFile
  <3>1. c.offset > 0 /\ InFile(c) => InFile(c)'
   <4> SUFFICES ASSUME c.offset > 0, InFile(c)
                PROVE  InFile(c)'
     OBVIOUS
   <4>1. /\ c.start \in 1 .. c.offset /\ c.offset \in 1 .. Len(files[c.file]) /\ c.file \in 1 .. Len(files)
         /\ c.offset \in Nat /\ c.start \in Nat
     BY <1>5, <2>2, InLog DEF InFile, Cursors
   <4>2. \A i \in 1 .. c.offset : files'[c.file][i] = files[c.file][i] /\ lines'[files[c.file][i]] = lines[files[c.file][i]]
     BY <1>3, <4>1, SMTT(20)
   <4>3. \A i \in c.start .. c.offset : i \in 1 .. c.offset BY <4>1
   <4>4. \A i \in c.start + 1 .. c.offset : i \in 1 .. c.offset BY <4>1
   <4>5. c.offset \in 1 .. c.offset BY <4>1
   <4>6. /\ c' = c /\ ToSet(seen)' = ToSet(seen) /\ seen' = seen /\ shown' = shown /\ Position' = Position
         /\ reader'.grep = reader.grep
     BY <1>1
   <4>7. /\ c.anchor = files'[c.file][c.offset] /\ Position = c.anchor
         /\ c.start \in 1 .. c.offset /\ lines'[files'[c.file][c.start]].first
         /\ \A i \in c.start + 1 .. c.offset : ~lines'[files'[c.file][i]].first
         /\ \A i \in 1 .. c.offset : files'[c.file][i] \in ToSet(seen)
    <5>1. /\ c.anchor = files[c.file][c.offset] /\ Position = c.anchor
          /\ c.start \in 1 .. c.offset /\ lines[files[c.file][c.start]].first
          /\ \A i \in c.start + 1 .. c.offset : ~lines[files[c.file][i]].first
          /\ \A i \in 1 .. c.offset : files[c.file][i] \in ToSet(seen)
      BY Zenon DEF InFile
    <5>2. \A i \in c.start + 1 .. c.offset : ~lines'[files'[c.file][i]].first
      BY <4>2, <4>4, <5>1, Zenon
    <5>3. \A i \in 1 .. c.offset : files'[c.file][i] \in ToSet(seen) BY <4>2, <5>1, Zenon
    <5>4. lines'[files'[c.file][c.start]].first BY <4>2, <5>1, Zenon
    <5>5. c.anchor = files'[c.file][c.offset] BY <4>2, <4>5, <5>1, Zenon
    <5>6. QED BY <5>1, <5>2, <5>3, <5>4, <5>5
   <4>8. /\ c.matched <=> reader.grep /\ \E i \in c.start .. c.offset : lines'[files'[c.file][i]].hit
         /\ reader.grep /\ ~c.matched => \A i \in 1 .. Len(shown) : shown[i] < files'[c.file][c.start]
    <5>1. /\ c.matched <=> reader.grep /\ \E i \in c.start .. c.offset : lines[files[c.file][i]].hit
          /\ reader.grep /\ ~c.matched => \A i \in 1 .. Len(shown) : shown[i] < files[c.file][c.start]
          /\ c.start \in 1 .. c.offset
      BY Zenon DEF InFile
    <5>2. \A i \in c.start .. c.offset : lines'[files'[c.file][i]].hit <=> lines[files[c.file][i]].hit
      BY <4>2, <4>3, Zenon
    <5>3. files'[c.file][c.start] = files[c.file][c.start] BY <4>2, <5>1, Zenon
    <5>4. QED BY <5>1, <5>2, <5>3, Zenon
   <4>9. QED BY <4>6, <4>7, <4>8 DEF InFile
  <3>2. c.file \in 1 .. Len(files') /\ c.offset \in 0 .. Len(files'[c.file])
   <4>1. c.file \in 1 .. Len(files') /\ Len(files[c.file]) <= Len(files'[c.file]) /\ files'[c.file] \in Seq(Nat)
    <5>1. c.file \in 1 .. Len(files) BY <1>5, <2>2
    <5>2. c.file \in 1 .. Len(files') /\ Len(files[c.file]) <= Len(files'[c.file]) BY <1>3, <5>1
    <5>3. QED BY <1>2, <5>2
   <4>2. Len(files'[c.file]) \in Nat BY <4>1
   <4>3. c.offset \in 0 .. Len(files[c.file]) /\ Len(files[c.file]) \in Nat BY <1>5, <2>2, InLog
   <4>4. QED BY <4>1, <4>2, <4>3, SMTT(20)
  <3>3. QED
    BY <1>1, <1>3, <1>5, <2>2, <3>1, <3>2 DEF Uncut, CursorFits, Behind, Follows, Excused, FirstIn
 <2>3. QED BY <2>1, <2>2
<1>7. OpenFit'
 <2>1. /\ reader.last \in Nat /\ reader.current \in Nat /\ reader.archive \in Nat /\ c.file \in Nat
       /\ path.archive \in Nat /\ path'.archive \in Nat /\ path.archive <= path'.archive
       /\ Len(files) \in Nat /\ Len(files') \in Nat /\ Len(files) <= Len(files')
   BY <1>2, InLog, SMTT(20) DEF Readers, Cursors
 <2>2. OpenFit BY DEF Uncut
 <2>3. QED BY <1>1, <2>1, <2>2 DEF OpenFit
<1>8. PlaceFits'
 <2>1. c.file # NoFile => c.file \in 1 .. Len(files) /\ Len(files[c.file]) <= Len(files'[c.file])
   BY <1>3, <1>5
 <2>2. reader.at \in {"drain", "turn", "archived"} /\ c.file # NoFile /\ c.file = reader.archive => files'[c.file] = files[c.file]
   BY <1>3, <1>5 DEF Uncut, OpenFit
 <2>3. reader \in Readers /\ (c.file # NoFile => Len(files'[c.file]) \in Nat /\ Len(files[c.file]) \in Nat)
  <3>1. c.file # NoFile => c.file \in 1 .. Len(files') /\ files'[c.file] \in Seq(Nat)
    BY <1>2, <1>3, <1>5, SMTT(20)
  <3>2. QED BY <1>5, <3>1, InLog, SMTT(20)
 <2>4. QED BY <1>1, <2>1, <2>2, <2>3 DEF Uncut, PlaceFits, Read, Readers
<1>9. GoneFits'
 <2>1. ReadUpToLast => ReadUpToLast'
  <3> SUFFICES ASSUME ReadUpToLast, NEW f \in 1 .. Len(files'), f > reader.last
               PROVE  Position < files'[f][1]
    BY <1>1 DEF ReadUpToLast, Behind, FirstIn
  <3>1. CASE f > Len(files) BY <1>4, <3>1
  <3>2. CASE f <= Len(files)
   <4>1. f \in 1 .. Len(files) BY <3>2, InLog
   <4>2. QED BY <1>3, <4>1 DEF ReadUpToLast, Behind, FirstIn
  <3>3. QED BY <1>2, <3>1, <3>2, InLog
 <2>2. reader.archive > reader.last /\ Behind(reader.archive) /\ reader.at = "turn" => Behind(reader.archive)'
  <3>1. ASSUME reader.archive > reader.last, reader.at = "turn"
        PROVE  reader.archive \in 1 .. Len(files)
    BY <1>2, <3>1, InLog, SMTT(20) DEF Uncut, OpenFit, NamesFit, Readers, NoFile
  <3>2. QED BY <1>1, <1>3, <3>1 DEF Behind, FirstIn
 <2>3. reader.at = "next" /\ reader.current # NoFile /\ Follows(reader.current) => Follows(reader.current)'
  <3>1. ASSUME reader.current # NoFile, reader.at = "next"
        PROVE  reader.current \in 1 .. Len(files)
    BY <1>2, <3>1, InLog, SMTT(20) DEF Uncut, OpenFit, NamesFit, Readers, NoFile
  <3>2. QED BY <1>1, <1>3, <3>1 DEF Follows, Excused, FirstIn
 <2>4. QED BY <1>1, <2>1, <2>2, <2>3 DEF Uncut, GoneFits, Excused
<1>10. QED BY <1>1, <1>6, <1>7, <1>8, <1>9 DEF Uncut

LEMMA LogRolls ==
    ASSUME Uncut, Roll
    PROVE  Uncut'
<1>1. /\ UNCHANGED <<lines, files, reader, seen, shown>> /\ path.current # NoFile
      /\ path' = [current |-> NoFile, archive |-> path.current]
  BY DEF Roll, ReaderOut
<1>2. /\ LogTypes /\ NamesFit /\ FilesFit /\ Len(files) \in Nat /\ path.current = Len(files)
      /\ path.archive = Len(files) - 1
  BY <1>1, InLog DEF Uncut, NamesFit
<1>3. LogTypes' BY <1>1, <1>2 DEF LogTypes, NoFile
<1>4. NamesFit' BY <1>1, <1>2 DEF NamesFit, NoFile
<1>5. FilesFit' BY <1>1, <1>2 DEF FilesFit, FileFits, FirstIn, LastIn
<1>6. LogGrows BY <1>1, <1>2, InLog DEF LogGrows
<1>7. QED BY <1>3, <1>4, <1>5, <1>6, LogGrowsOn

LEMMA LogRestarts ==
    ASSUME Uncut, UNCHANGED <<lines, files, path, reader, seen, shown>>
    PROVE  Uncut'
<1>1. LogTypes' /\ NamesFit' /\ FilesFit'
  BY DEF Uncut, LogTypes, NamesFit, FilesFit, FileFits, FirstIn, LastIn
<1>2. LogGrows BY InLog DEF LogGrows, Uncut, LogTypes
<1>3. QED BY <1>1, <1>2, LogGrowsOn

\* Two lists, one after the other.
LEMMA OneAfterTheOther ==
    ASSUME NEW T, NEW s \in Seq(T), NEW t \in Seq(T)
    PROVE  /\ s \o t \in Seq(T) /\ Len(s \o t) = Len(s) + Len(t)
           /\ \A i \in 1 .. Len(s) : (s \o t)[i] = s[i]
           /\ \A i \in Len(s) + 1 .. Len(s) + Len(t) : (s \o t)[i] = t[i - Len(s)]
  OBVIOUS

LEMMA OneMore ==
    ASSUME NEW T, NEW s \in Seq(T), NEW x \in T
    PROVE  /\ Append(s, x) \in Seq(T) /\ Len(Append(s, x)) = Len(s) + 1
           /\ \A i \in 1 .. Len(s) : Append(s, x)[i] = s[i]
           /\ Append(s, x)[Len(s) + 1] = x
  OBVIOUS

LEMMA OneChanged ==
    ASSUME NEW T, NEW s \in Seq(T), NEW k \in 1 .. Len(s), NEW x \in T
    PROVE  /\ [s EXCEPT ![k] = x] \in Seq(T) /\ Len([s EXCEPT ![k] = x]) = Len(s)
           /\ \A i \in 1 .. Len(s) : i # k => [s EXCEPT ![k] = x][i] = s[i]
           /\ [s EXCEPT ![k] = x][k] = x
  OBVIOUS

\* The marks of a record: its first line says so.
NewMarks(hits) == [i \in DOMAIN hits |-> [first |-> i = 1, hit |-> hits[i]]]
LEMMA MarksOf ==
    ASSUME NEW hits \in Seq(BOOLEAN), Len(hits) > 0
    PROVE  /\ NewMarks(hits) \in Seq(Marks) /\ Len(NewMarks(hits)) = Len(hits) /\ NewMarks(hits)[1].first
<1>1. \A i \in 1 .. Len(hits) : [first |-> i = 1, hit |-> hits[i]] \in Marks
 <2> TAKE i \in 1 .. Len(hits)
 <2>1. hits[i] \in BOOLEAN OBVIOUS
 <2>2. (i = 1) \in BOOLEAN OBVIOUS
 <2>3. QED BY <2>1, <2>2, Zenon DEF Marks
<1>2. NewMarks(hits) = [i \in 1 .. Len(hits) |-> [first |-> i = 1, hit |-> hits[i]]]
  BY DEF NewMarks
<1>3. NewMarks(hits) \in Seq(Marks) /\ Len(NewMarks(hits)) = Len(hits) BY <1>1, <1>2
<1>4. NewMarks(hits)[1] = [first |-> (1 = 1), hit |-> hits[1]] BY <1>2
<1>5. NewMarks(hits)[1].first
 <2>1. ASSUME NEW r, NEW x, r = [first |-> (1 = 1), hit |-> x]
       PROVE  r.first
   BY <2>1
 <2>2. QED BY <1>4, <2>1, Zenon
<1>6. QED BY <1>3, <1>5

\* A file fits any log that begins with the same lines.
Whole(L, s) ==
    Len(s) > 0 /\ L[s[1]].first /\ \A i \in 1 .. Len(s) : s[i] = s[1] + i - 1 /\ s[i] \in 1 .. Len(L)
Begins(L, M) == Len(L) <= Len(M) /\ \A i \in 1 .. Len(L) : M[i] = L[i]
LEMMA FitsIs ==
    ASSUME NEW L \in Seq(Marks), NEW s \in Seq(Nat), Whole(L, s)
    PROVE  /\ Len(s) \in Nat \ {0} /\ Len(L) \in Nat /\ s[1] \in 1 .. Len(L) /\ s[Len(s)] \in 1 .. Len(L)
           /\ s[Len(s)] = s[1] + Len(s) - 1
<1>1. Len(s) > 0 /\ Len(s) \in Nat /\ \A i \in 1 .. Len(s) : s[i] = s[1] + i - 1 /\ s[i] \in 1 .. Len(L)
  BY DEF Whole
<1>2. 1 \in 1 .. Len(s) /\ Len(s) \in 1 .. Len(s) BY <1>1
<1>3. QED BY <1>1, <1>2
LEMMA FitsStill ==
    ASSUME NEW L \in Seq(Marks), NEW M \in Seq(Marks), NEW s \in Seq(Nat), Whole(L, s), Begins(L, M)
    PROVE  Whole(M, s)
<1>1. s[1] \in 1 .. Len(L) /\ Len(L) \in Nat /\ Len(M) \in Nat BY FitsIs
<1>2. L[s[1]].first /\ M[s[1]] = L[s[1]] BY <1>1 DEF Whole, Begins
<1>3. \A i \in 1 .. Len(s) : s[i] = s[1] + i - 1 /\ s[i] \in 1 .. Len(M) BY <1>1 DEF Whole, Begins
<1>4. M[s[1]].first BY <1>2
<1>5. QED BY <1>3, <1>4 DEF Whole
BeginsIn(L, M, s, count) ==
    /\ Len(M) = Len(L) + count /\ M[Len(L) + 1].first /\ Len(s) = count
    /\ \A i \in 1 .. count : s[i] = Len(L) + i
LEMMA FitsNew ==
    ASSUME NEW L \in Seq(Marks), NEW M \in Seq(Marks), NEW s \in Seq(Nat), NEW count \in Nat \ {0},
           BeginsIn(L, M, s, count)
    PROVE  Whole(M, s) /\ s[1] = Len(L) + 1 /\ s[Len(s)] = Len(M)
<1>1. PICK l \in Nat, m \in Nat : l = Len(L) /\ m = Len(M) OBVIOUS
<1>2. m = l + count /\ M[l + 1].first /\ Len(s) = count /\ \A i \in 1 .. count : s[i] = l + i
  BY <1>1 DEF BeginsIn
<1>3. s[1] = l + 1 /\ s[count] = m /\ \A i \in 1 .. count : s[i] = s[1] + i - 1 /\ s[i] \in 1 .. m
  BY <1>2
<1>4. M[s[1]].first BY <1>2, <1>3
<1>5. QED BY <1>1, <1>2, <1>3, <1>4 DEF Whole
GoesOnIn(L, M, s, t, count) ==
    /\ Whole(L, s) /\ s[Len(s)] = Len(L) /\ Begins(L, M) /\ Len(M) = Len(L) + count
    /\ Len(t) = Len(s) + count /\ \A i \in 1 .. Len(s) : t[i] = s[i]
    /\ \A i \in Len(s) + 1 .. Len(s) + count : t[i] = Len(L) + i - Len(s)
LEMMA FitsLonger ==
    ASSUME NEW L \in Seq(Marks), NEW M \in Seq(Marks), NEW s \in Seq(Nat), NEW t \in Seq(Nat),
           NEW count \in Nat \ {0}, GoesOnIn(L, M, s, t, count)
    PROVE  Whole(M, t) /\ t[1] = s[1] /\ t[Len(t)] = Len(M)
<1>0. /\ Whole(L, s) /\ s[Len(s)] = Len(L) /\ Begins(L, M) /\ Len(M) = Len(L) + count
      /\ Len(t) = Len(s) + count /\ \A i \in 1 .. Len(s) : t[i] = s[i]
      /\ \A i \in Len(s) + 1 .. Len(s) + count : t[i] = Len(L) + i - Len(s)
  BY DEF GoesOnIn
<1>1. PICK l \in Nat, m \in Nat, k \in Nat, x \in Nat : l = Len(L) /\ m = Len(M) /\ k = Len(s) /\ x = s[1]
  BY <1>0, FitsIs
<1>2. k >= 1 /\ x >= 1 /\ l = x + k - 1 /\ m = l + count /\ Len(t) = k + count
  BY <1>0, <1>1, FitsIs, SMTT(20)
<1>3. t[1] = x BY <1>0, <1>1, <1>2
<1>4. ASSUME NEW i \in 1 .. k
      PROVE  t[i] = x + i - 1 /\ t[i] \in 1 .. m
 <2>1. t[i] = s[i] /\ s[i] = x + i - 1 BY <1>0, <1>1 DEF Whole
 <2>2. QED BY <1>2, <2>1
<1>5. ASSUME NEW i \in k + 1 .. k + count
      PROVE  t[i] = x + i - 1 /\ t[i] \in 1 .. m
 <2>1. t[i] = l + i - k BY <1>0, <1>1
 <2>2. QED BY <1>2, <2>1
<1>6. ASSUME NEW i \in 1 .. k + count
      PROVE  t[i] = x + i - 1 /\ t[i] \in 1 .. m
  BY <1>4, <1>5
<1>7. M[x].first
 <2>1. L[x].first /\ x \in 1 .. l BY <1>0, <1>1, <1>2 DEF Whole
 <2>2. M[x] = L[x] BY <1>1, <2>1, <1>0 DEF Begins
 <2>3. QED BY <2>1, <2>2
<1>8. t[Len(t)] = m BY <1>2, <1>6
<1>9. QED BY <1>1, <1>2, <1>3, <1>6, <1>7, <1>8 DEF Whole

\* The files hold the lines, for any lines and files.
Hold(L, F) ==
    /\ \A f \in 1 .. Len(F) : Whole(L, F[f])
    /\ \A f \in 1 .. Len(F) - 1 : F[f + 1][1] = F[f][Len(F[f])] + 1
    /\ \A f, g \in 1 .. Len(F) : f < g => F[f][Len(F[f])] < F[g][1]
    /\ Len(F) > 0 => F[Len(F)][Len(F[Len(F)])] = Len(L)
    /\ Len(F) = 0 => L = <<>>
LEMMA HoldIs ==
    ASSUME NEW L, NEW F \in Seq(Seq(Nat))
    PROVE  Hold(L, F) <=>
      /\ \A f \in 1 .. Len(F) :
         /\ Len(F[f]) > 0 /\ L[F[f][1]].first
         /\ \A i \in 1 .. Len(F[f]) : F[f][i] = F[f][1] + i - 1 /\ F[f][i] \in 1 .. Len(L)
         /\ f > 1 => F[f][1] = F[f - 1][Len(F[f - 1])] + 1
      /\ \A f, g \in 1 .. Len(F) : f < g => F[f][Len(F[f])] < F[g][1]
      /\ Len(F) > 0 => F[Len(F)][Len(F[Len(F)])] = Len(L)
      /\ Len(F) = 0 => L = <<>>
<1>1. PICK n \in Nat : n = Len(F) OBVIOUS
<1>2. (\A f \in 1 .. n - 1 : F[f + 1][1] = F[f][Len(F[f])] + 1)
      <=> \A f \in 1 .. n : f > 1 => F[f][1] = F[f - 1][Len(F[f - 1])] + 1
 <2>1. ASSUME \A f \in 1 .. n - 1 : F[f + 1][1] = F[f][Len(F[f])] + 1, NEW f \in 1 .. n, f > 1
       PROVE  F[f][1] = F[f - 1][Len(F[f - 1])] + 1
   BY <2>1
 <2>2. ASSUME \A f \in 1 .. n : f > 1 => F[f][1] = F[f - 1][Len(F[f - 1])] + 1, NEW f \in 1 .. n - 1
       PROVE  F[f + 1][1] = F[f][Len(F[f])] + 1
   BY <2>2
 <2>3. QED BY <2>1, <2>2
<1>3. QED BY <1>1, <1>2, Zenon DEF Hold, Whole
LEMMA FilesHold ==
    /\ files \in Seq(Seq(Nat)) => (FilesFit <=> Hold(lines, files))
    /\ files' \in Seq(Seq(Nat)) => (FilesFit' <=> Hold(lines', files'))
<1>1. files \in Seq(Seq(Nat)) => (FilesFit <=> Hold(lines, files))
  BY HoldIs, Zenon DEF FilesFit, FileFits, FirstIn, LastIn
<1>2. files' \in Seq(Seq(Nat)) => (FilesFit' <=> Hold(lines', files'))
  BY HoldIs, Zenon DEF FilesFit, FileFits, FirstIn, LastIn
<1>3. QED BY <1>1, <1>2

\* What a record does, in a new file, with nothing before it, or in the last one.
Longer(L, M, F, G, old, count) ==
    /\ Len(M) = Len(L) + count /\ (\A i \in 1 .. Len(L) : M[i] = L[i]) /\ M[Len(L) + 1].first
    /\ \/ Len(G) = Len(F) + 1 /\ old = 0
       \/ Len(G) = Len(F) /\ Len(F) > 0 /\ old = Len(F[Len(F)])
    /\ \A f \in 1 .. Len(G) - 1 : G[f] = F[f]
    /\ Len(G[Len(G)]) = old + count
    /\ \A i \in 1 .. old : G[Len(G)][i] = F[Len(G)][i]
    /\ \A i \in old + 1 .. old + count : G[Len(G)][i] = Len(L) + i - old

LEMMA HoldLonger ==
    ASSUME NEW L \in Seq(Marks), NEW M \in Seq(Marks), NEW F \in Seq(Seq(Nat)), NEW G \in Seq(Seq(Nat)),
           NEW old \in Nat, NEW count \in Nat \ {0}, Hold(L, F), Longer(L, M, F, G, old, count)
    PROVE  /\ Hold(M, G)
           /\ Len(F) <= Len(G) /\ Len(L) <= Len(M) /\ \A i \in 1 .. Len(L) : M[i] = L[i]
           /\ \A f \in 1 .. Len(F) :
                /\ Len(F[f]) <= Len(G[f]) /\ \A i \in 1 .. Len(F[f]) : G[f][i] = F[f][i]
                /\ f < Len(G) => G[f] = F[f]
           /\ \A f \in 1 .. Len(G) : f > Len(F) => G[f][1] > Len(L)
<1>1. PICK z \in Nat, n \in Nat, l \in Nat, m \in Nat : z = Len(G) /\ n = Len(F) /\ l = Len(L) /\ m = Len(M)
  OBVIOUS
<1>2. /\ z >= 1 /\ (z = n \/ z = n + 1)
      /\ (z = n + 1 => old = 0) /\ (z = n => old = Len(F[n]))
 <2>1. \/ z = n + 1 /\ old = 0
       \/ z = n /\ n > 0 /\ old = Len(F[n])
   BY <1>1, Zenon DEF Longer
 <2>2. QED BY <2>1
<1>3. Len(M) = Len(L) + count /\ Begins(L, M) /\ M[Len(L) + 1].first BY DEF Longer, Begins
<1>4. \A f \in 1 .. z - 1 : G[f] = F[f] BY <1>1 DEF Longer
<1>5. /\ Len(G[z]) = old + count
      /\ \A i \in 1 .. old : G[z][i] = F[z][i]
      /\ \A i \in old + 1 .. old + count : G[z][i] = Len(L) + i - old
  BY <1>1 DEF Longer
<1>6. ASSUME NEW f \in 1 .. n
      PROVE  F[f] \in Seq(Nat) /\ Whole(L, F[f]) /\ Len(F[f]) \in Nat /\ F[f][Len(F[f])] \in 1 .. l /\ F[f][1] \in 1 .. l
  BY <1>1, FitsIs, SMTT(20) DEF Hold
<1>7. \A f \in 1 .. z : G[f] \in Seq(Nat) BY <1>1
<1>8. /\ \A f \in 1 .. n - 1 : F[f + 1][1] = F[f][Len(F[f])] + 1
      /\ \A f, g \in 1 .. n : f < g => F[f][Len(F[f])] < F[g][1]
      /\ n > 0 => F[n][Len(F[n])] = l
      /\ \A f \in 1 .. n : Whole(L, F[f])
  BY <1>1 DEF Hold
\* The last file.
<1>9. CASE z = n + 1
 <2>1. Whole(M, G[z]) /\ G[z][1] = l + 1 /\ G[z][Len(G[z])] = m
  <3>1. G[z] \in Seq(Nat) /\ Len(G[z]) = count BY <1>2, <1>5, <1>7, <1>9
  <3>2. \A i \in 1 .. count : G[z][i] = Len(L) + i BY <1>2, <1>9, <1>5
  <3>3. Whole(M, G[z]) /\ G[z][1] = Len(L) + 1 /\ G[z][Len(G[z])] = Len(M)
   <4>1. BeginsIn(L, M, G[z], count) BY <1>3, <3>1, <3>2 DEF BeginsIn
   <4>2. QED BY <3>1, <4>1, FitsNew, SMTT(20)
  <3>4. QED BY <1>1, <3>3
 <2>2. ASSUME NEW f \in 1 .. n
       PROVE  G[f] = F[f] /\ Whole(M, G[f])
   BY <1>9, <1>3, <1>4, <1>6, FitsStill
 <2>3. ASSUME NEW f \in 1 .. z PROVE Whole(M, G[f])
  <3>1. f \in 1 .. n \/ f = z BY <1>9
  <3>2. CASE f \in 1 .. n BY <2>2, <3>2
  <3>3. CASE f = z BY <2>1, <3>3
  <3>4. QED BY <3>1, <3>2, <3>3
 <2>4. ASSUME NEW f \in 1 .. z - 1
       PROVE  G[f + 1][1] = G[f][Len(G[f])] + 1
  <3>1. f \in 1 .. n /\ G[f] = F[f] BY <1>9, <2>2
  <3>2. CASE f = n
   <4>1. n > 0 /\ n + 1 = z BY <1>9, <3>1, <3>2
   <4>2. G[f] = F[n] /\ F[n][Len(F[n])] = l BY <1>8, <3>1, <3>2, <4>1
   <4>3. G[f + 1][1] = l + 1 BY <2>1, <3>2, <4>1
   <4>4. QED BY <4>2, <4>3
  <3>3. CASE f # n
   <4>1. f + 1 \in 1 .. n /\ f \in 1 .. n - 1 BY <3>1, <3>3
   <4>2. G[f + 1] = F[f + 1] BY <2>2, <4>1
   <4>3. QED BY <1>8, <3>1, <4>1, <4>2
  <3>4. QED BY <3>2, <3>3
 <2>5. ASSUME NEW f \in 1 .. z, NEW g \in 1 .. z, f < g
       PROVE  G[f][Len(G[f])] < G[g][1]
  <3>1. f \in 1 .. n /\ G[f] = F[f]
   <4>1. f \in 1 .. n BY <1>9, <2>5
   <4>2. QED BY <2>2, <4>1
  <3>2. CASE g = z
   <4>1. G[f][Len(G[f])] \in 1 .. l BY <1>6, <3>1
   <4>2. G[g][1] = l + 1 BY <2>1, <3>2
   <4>3. PICK x \in 1 .. l : x = G[f][Len(G[f])] BY <4>1
   <4>4. x < l + 1 OBVIOUS
   <4>5. QED BY <4>2, <4>3, <4>4
  <3>3. CASE g # z
   <4>1. g \in 1 .. n BY <1>9, <3>3
   <4>2. G[g] = F[g] BY <2>2, <4>1
   <4>3. QED BY <1>8, <2>5, <3>1, <4>1, <4>2
  <3>4. QED BY <3>2, <3>3
 <2>6. Hold(M, G)
  <3>1. z > 0 /\ G[z][Len(G[z])] = m BY <1>2, <2>1
  <3>2. QED BY <1>1, <2>3, <2>4, <2>5, <3>1 DEF Hold
 <2>7. ASSUME NEW f \in 1 .. n
       PROVE  Len(F[f]) <= Len(G[f]) /\ (\A i \in 1 .. Len(F[f]) : G[f][i] = F[f][i]) /\ G[f] = F[f]
   BY <1>6, <2>2, SMTT(20)
 <2>8. \A f \in 1 .. z : f > n => G[f][1] > l BY <1>9, <2>1, SMTT(20)
 <2>9. QED BY <1>1, <1>3, <1>9, <2>6, <2>7, <2>8 DEF Begins
<1>10. CASE z = n
 <2>1. z \in 1 .. n BY <1>2, <1>10
 <2>2. Whole(M, G[z]) /\ G[z][1] = F[z][1] /\ G[z][Len(G[z])] = m
  <3>1. G[z] \in Seq(Nat) /\ F[z] \in Seq(Nat) /\ Whole(L, F[z]) BY <1>6, <1>7, <1>10, <2>1
  <3>2. old = Len(F[z]) /\ F[z][Len(F[z])] = Len(L) BY <1>1, <1>2, <1>8, <1>10
  <3>3. /\ Len(G[z]) = Len(F[z]) + count /\ \A i \in 1 .. Len(F[z]) : G[z][i] = F[z][i]
        /\ \A i \in Len(F[z]) + 1 .. Len(F[z]) + count : G[z][i] = Len(L) + i - Len(F[z])
    BY <1>5, <3>2
  <3>4. Whole(M, G[z]) /\ G[z][1] = F[z][1] /\ G[z][Len(G[z])] = Len(M)
   <4>1. GoesOnIn(L, M, F[z], G[z], count) BY <1>3, <3>1, <3>2, <3>3, Zenon DEF GoesOnIn
   <4>2. PICK s \in Seq(Nat), t \in Seq(Nat) : s = F[z] /\ t = G[z] BY <3>1
   <4>3. Whole(M, t) /\ t[1] = s[1] /\ t[Len(t)] = Len(M)
    <5>1. GoesOnIn(L, M, s, t, count) BY <4>1, <4>2, Zenon
    <5>2. QED BY <5>1, FitsLonger, SMT
   <4>4. QED BY <4>2, <4>3
  <3>5. QED BY <1>1, <3>4
 <2>3. ASSUME NEW f \in 1 .. n, f # z
       PROVE  G[f] = F[f] /\ Whole(M, G[f])
   BY <1>10, <2>3, <1>3, <1>4, <1>6, FitsStill
 <2>4. \A f \in 1 .. z : Whole(M, G[f]) /\ G[f][1] = F[f][1] BY <1>10, <2>2, <2>3
 <2>5. ASSUME NEW f \in 1 .. z - 1
       PROVE  G[f + 1][1] = G[f][Len(G[f])] + 1
  <3>1. f \in 1 .. n /\ f # z /\ f + 1 \in 1 .. z /\ f \in 1 .. n - 1 BY <1>10
  <3>2. G[f] = F[f] /\ G[f + 1][1] = F[f + 1][1] BY <2>3, <2>4, <3>1
  <3>3. QED BY <1>8, <3>1, <3>2
 <2>6. ASSUME NEW f \in 1 .. z, NEW g \in 1 .. z, f < g
       PROVE  G[f][Len(G[f])] < G[g][1]
  <3>1. f \in 1 .. n /\ f # z /\ g \in 1 .. n BY <1>10, <2>6
  <3>2. G[f] = F[f] /\ G[g][1] = F[g][1] BY <2>3, <2>4, <3>1
  <3>3. QED BY <1>8, <2>6, <3>1, <3>2
 <2>7. Hold(M, G) BY <1>1, <1>2, <2>2, <2>4, <2>5, <2>6 DEF Hold
 <2>8. ASSUME NEW f \in 1 .. n
       PROVE  Len(F[f]) <= Len(G[f]) /\ (\A i \in 1 .. Len(F[f]) : G[f][i] = F[f][i]) /\ (f < z => G[f] = F[f])
  <3>1. CASE f = z
   <4>1. old = Len(F[z]) /\ Len(F[z]) \in Nat BY <1>2, <1>6, <1>10, <2>1
   <4>2. QED BY <1>5, <3>1, <4>1
  <3>2. CASE f # z
   <4>1. G[f] = F[f] /\ Len(F[f]) \in Nat BY <1>6, <2>3, <3>2
   <4>2. QED BY <4>1
  <3>3. QED BY <3>1, <3>2
 <2>9. Len(F) <= Len(G) /\ Len(L) <= Len(M) /\ \A i \in 1 .. Len(L) : M[i] = L[i]
   BY <1>1, <1>3, <1>10 DEF Begins
 <2>10. \A f \in 1 .. Len(G) : f > Len(F) => G[f][1] > Len(L)
  <3>1. \A f \in 1 .. z : ~(f > n) BY <1>10
  <3>2. QED BY <1>1, <3>1, Zenon
 <2>11. \A f \in 1 .. Len(F) :
               /\ Len(F[f]) <= Len(G[f]) /\ \A i \in 1 .. Len(F[f]) : G[f][i] = F[f][i]
               /\ f < Len(G) => G[f] = F[f]
   BY <1>1, <2>8, Zenon
 <2>12. QED BY <2>7, <2>9, <2>10, <2>11, Zenon
<1>11. QED BY <1>2, <1>9, <1>10

LEMMA LogIsLonger ==
    ASSUME Uncut, NEW old \in Nat, NEW count \in Nat \ {0}, Longer(lines, lines', files, files', old, count),
           lines' \in Seq(Marks), files' \in Seq(Seq(Nat)), UNCHANGED <<reader, seen, shown>>,
           path' = [current |-> Len(files'), archive |-> path.archive],
           Len(files') = IF path.current = NoFile THEN Len(files) + 1 ELSE Len(files)
    PROVE  Uncut'
<1>1. /\ lines \in Seq(Marks) /\ files \in Seq(Seq(Nat)) /\ Hold(lines, files) /\ NamesFit /\ LogTypes
      /\ path \in [current : Nat, archive : Nat]
  BY FilesHold DEF Uncut, LogTypes
<1>2. /\ Hold(lines', files')
      /\ Len(files) <= Len(files') /\ Len(lines) <= Len(lines') /\ \A i \in 1 .. Len(lines) : lines'[i] = lines[i]
      /\ \A f \in 1 .. Len(files) :
                /\ Len(files[f]) <= Len(files'[f]) /\ \A i \in 1 .. Len(files[f]) : files'[f][i] = files[f][i]
                /\ f < Len(files') => files'[f] = files[f]
      /\ \A f \in 1 .. Len(files') : f > Len(files) => files'[f][1] > Len(lines)
  BY <1>1, HoldLonger
<1>3. FilesFit' BY <1>2, FilesHold
<1>4. Len(files) \in Nat /\ Len(files') \in Nat BY <1>1
<1>5. LogTypes' BY <1>1, <1>4 DEF LogTypes
<1>6. NamesFit' BY <1>1, <1>4 DEF NamesFit, NoFile
<1>7. \A f \in 1 .. Len(files) : f # path.current => f < Len(files') BY <1>1, <1>4 DEF NamesFit
<1>8. LogGrows
 <2>1. \A f \in 1 .. Len(files) :
        /\ Len(files[f]) <= Len(files'[f]) /\ \A i \in 1 .. Len(files[f]) : files'[f][i] = files[f][i]
        /\ f # path.current => files'[f] = files[f]
   BY <1>2, <1>7
 <2>2. path.archive <= path'.archive BY <1>1
 <2>3. QED BY <1>2, <2>1, <2>2 DEF LogGrows
<1>9. QED BY <1>3, <1>5, <1>6, <1>8, LogGrowsOn

LEMMA LogRecords ==
    ASSUME Uncut, NEW hits \in Records, AppendRecord(hits)
    PROVE  Uncut'
<1>1. hits \in Seq(BOOLEAN) /\ Len(hits) \in Nat \ {0}
 <2>1. hits \in {<<FALSE>>, <<FALSE, TRUE>>, <<TRUE, FALSE>>} BY DEF Records
 <2>2. FALSE \in BOOLEAN /\ TRUE \in BOOLEAN OBVIOUS
 <2>3. /\ <<FALSE>> \in Seq(BOOLEAN) /\ Len(<<FALSE>>) = 1
       /\ <<FALSE, TRUE>> \in Seq(BOOLEAN) /\ Len(<<FALSE, TRUE>>) = 2
       /\ <<TRUE, FALSE>> \in Seq(BOOLEAN) /\ Len(<<TRUE, FALSE>>) = 2
   OBVIOUS
 <2>4. CASE hits = <<FALSE>> BY <2>3, <2>4
 <2>5. CASE hits = <<FALSE, TRUE>> BY <2>3, <2>5
 <2>6. CASE hits = <<TRUE, FALSE>> BY <2>3, <2>6
 <2>7. QED BY <2>1, <2>4, <2>5, <2>6
<1>2. /\ lines \in Seq(Marks) /\ Len(lines) \in Nat /\ Len(files) \in Nat /\ path \in [current : Nat, archive : Nat]
      /\ files \in Seq(Seq(Nat)) /\ NamesFit /\ \A f \in 1 .. Len(files) : Len(files[f]) \in Nat \ {0}
  BY InLog DEF Uncut, LogTypes
<1> DEFINE new == NewMarks(hits)
           count == Len(hits)
           numbers == [i \in DOMAIN hits |-> Len(lines) + i]
<1>3. new \in Seq(Marks) /\ Len(new) = count /\ new[1].first BY <1>1, MarksOf
<1>4. numbers \in Seq(Nat) /\ Len(numbers) = count /\ \A i \in 1 .. count : numbers[i] = Len(lines) + i
  BY <1>1, <1>2
<1>5. /\ lines' = lines \o new
      /\ IF path.current = NoFile
           THEN /\ files' = Append(files, numbers) /\ path' = [path EXCEPT !.current = Len(files) + 1]
           ELSE files' = [files EXCEPT ![path.current] = @ \o numbers] /\ path' = path
      /\ UNCHANGED <<reader, seen, shown>>
  BY Zenon DEF AppendRecord, ReaderOut, NewMarks
<1> HIDE DEF new, numbers
<1>6. /\ lines' \in Seq(Marks) /\ Len(lines') = Len(lines) + count
      /\ \A i \in 1 .. Len(lines) : lines'[i] = lines[i]
      /\ lines'[Len(lines) + 1].first
 <2>1. /\ lines \o new \in Seq(Marks) /\ Len(lines \o new) = Len(lines) + Len(new)
       /\ \A i \in 1 .. Len(lines) : (lines \o new)[i] = lines[i]
       /\ \A i \in Len(lines) + 1 .. Len(lines) + Len(new) : (lines \o new)[i] = new[i - Len(lines)]
  <3>1. PICK s \in Seq(Marks), t \in Seq(Marks) : s = lines /\ t = new BY <1>2, <1>3
  <3>2. /\ s \o t \in Seq(Marks) /\ Len(s \o t) = Len(s) + Len(t)
        /\ \A i \in 1 .. Len(s) : (s \o t)[i] = s[i]
        /\ \A i \in Len(s) + 1 .. Len(s) + Len(t) : (s \o t)[i] = t[i - Len(s)]
    BY OneAfterTheOther
  <3>3. QED BY <3>1, <3>2, Zenon
 <2>2. (lines \o new)[Len(lines) + 1] = new[1] BY <1>1, <1>2, <1>3, <2>1
 <2>3. QED BY <1>3, <1>5, <2>1, <2>2
<1>7. CASE path.current = NoFile
 <2>1. files' = Append(files, numbers) /\ path' = [path EXCEPT !.current = Len(files) + 1]
   BY <1>5, <1>7
 <2>2. /\ files' \in Seq(Seq(Nat)) /\ Len(files') = Len(files) + 1 /\ files'[Len(files) + 1] = numbers
       /\ \A f \in 1 .. Len(files) : files'[f] = files[f]
   BY <1>2, <1>4, <2>1, OneMore
 <2>3. path' = [current |-> Len(files'), archive |-> path.archive] BY <1>2, <2>1, <2>2
 <2>4. Longer(lines, lines', files, files', 0, count) BY <1>2, <1>4, <1>6, <2>2 DEF Longer
 <2>5. QED BY <1>1, <1>5, <1>6, <1>7, <2>2, <2>3, <2>4, LogIsLonger
<1>8. CASE path.current # NoFile
 <2>1. files' = [files EXCEPT ![path.current] = @ \o numbers] /\ path' = path BY <1>5, <1>8
 <2>2. path.current = Len(files) /\ Len(files) \in 1 .. Len(files)
   BY <1>2, <1>8 DEF NamesFit, NoFile
 <2> DEFINE z == Len(files)
            longer == files[z] \o numbers
 <2>3. /\ files[z] \in Seq(Nat) /\ Len(files[z]) \in Nat /\ longer \in Seq(Nat) /\ Len(longer) = Len(files[z]) + count
       /\ \A i \in 1 .. Len(files[z]) : longer[i] = files[z][i]
       /\ \A i \in Len(files[z]) + 1 .. Len(files[z]) + count : longer[i] = Len(lines) + i - Len(files[z])
  <3>1. files[z] \in Seq(Nat) /\ Len(files[z]) \in Nat BY <1>2, <2>2
  <3>2. /\ longer \in Seq(Nat) /\ Len(longer) = Len(files[z]) + Len(numbers)
        /\ \A i \in 1 .. Len(files[z]) : longer[i] = files[z][i]
        /\ \A i \in Len(files[z]) + 1 .. Len(files[z]) + Len(numbers) : longer[i] = numbers[i - Len(files[z])]
   <4>1. PICK s \in Seq(Nat), t \in Seq(Nat) : s = files[z] /\ t = numbers BY <1>4, <3>1
   <4>2. /\ s \o t \in Seq(Nat) /\ Len(s \o t) = Len(s) + Len(t)
         /\ \A i \in 1 .. Len(s) : (s \o t)[i] = s[i]
         /\ \A i \in Len(s) + 1 .. Len(s) + Len(t) : (s \o t)[i] = t[i - Len(s)]
     BY OneAfterTheOther
   <4>3. QED BY <4>1, <4>2, Zenon
  <3>3. ASSUME NEW i \in Len(files[z]) + 1 .. Len(files[z]) + count
        PROVE  longer[i] = Len(lines) + i - Len(files[z])
   <4>1. longer[i] = numbers[i - Len(files[z])] BY <1>4, <3>1, <3>2
   <4>2. i - Len(files[z]) \in 1 .. count BY <1>1, <3>1
   <4>3. QED BY <1>2, <1>4, <3>1, <4>1, <4>2
  <3>4. QED BY <1>4, <3>1, <3>2, <3>3
 <2>4. files' = [files EXCEPT ![z] = longer] BY <2>1, <2>2
 <2> HIDE DEF longer
 <2>5. /\ files' \in Seq(Seq(Nat)) /\ Len(files') = Len(files) /\ files'[z] = longer
       /\ \A f \in 1 .. Len(files) : f # z => files'[f] = files[f]
   BY <1>2, <2>2, <2>3, <2>4, OneChanged
 <2>6. path' = [current |-> Len(files'), archive |-> path.archive] BY <1>2, <2>1, <2>2, <2>5
 <2>7. Longer(lines, lines', files, files', Len(files[z]), count)
  <3>1. Len(lines') = Len(lines) + count /\ (\A i \in 1 .. Len(lines) : lines'[i] = lines[i]) /\ lines'[Len(lines) + 1].first
    BY <1>6
  <3>2. Len(files') = Len(files) /\ Len(files) > 0 /\ files'[Len(files')] = longer
    BY <1>2, <2>2, <2>5
  <3>3. \A f \in 1 .. Len(files') - 1 : files'[f] = files[f]
   <4>1. PICK k \in Nat : k = Len(files) /\ k = Len(files') BY <1>2, <2>5
   <4>2. \A f \in 1 .. k - 1 : files'[f] = files[f] BY <2>5, <4>1
   <4>3. QED BY <4>1, <4>2
  <3>4. /\ Len(files'[Len(files')]) = Len(files[z]) + count
        /\ \A i \in 1 .. Len(files[z]) : files'[Len(files')][i] = files[Len(files')][i]
        /\ \A i \in Len(files[z]) + 1 .. Len(files[z]) + count : files'[Len(files')][i] = Len(lines) + i - Len(files[z])
    BY <2>3, <3>2
  <3>5. QED BY <3>1, <3>2, <3>3, <3>4, Zenon DEF Longer
 <2>8. QED BY <1>1, <1>5, <1>6, <1>8, <2>3, <2>5, <2>6, <2>7, LogIsLonger
<1>9. QED BY <1>7, <1>8

\* What a step of the reader that reads nothing leaves as it is.
LEMMA Undisturbed ==
    ASSUME Uncut, Quietly
    PROVE  /\ lines' = lines /\ files' = files /\ path' = path /\ seen' = seen /\ shown' = shown
           /\ Position' = Position /\ NamesFit' /\ FilesFit'
           /\ \A f : Behind(f)' <=> Position < files[f][1]
<1>1. lines' = lines /\ files' = files /\ path' = path /\ seen' = seen /\ shown' = shown
  BY DEF Quietly, Bridge
<1>2. Position' = Position BY <1>1 DEF Position
<1>3. NamesFit' /\ FilesFit' BY <1>1 DEF Uncut, NamesFit, FilesFit, FileFits, FirstIn, LastIn
<1>4. \A f : Behind(f)' <=> Position < files[f][1] BY <1>1, <1>2, Zenon DEF Behind, FirstIn
<1>5. QED BY <1>1, <1>2, <1>3, <1>4

LEMMA QuietStep ==
    ASSUME Uncut, Quietly, reader' \in Readers, reader'.grep = reader.grep,
           CursorFits(reader.cursor)', OpenFit', PlaceFits', GoneFits'
    PROVE  Uncut'
<1>1. lines' = lines /\ files' = files /\ path' = path /\ seen' = seen /\ shown' = shown /\ Position' = Position
  BY Undisturbed
<1>2. LogTypes' BY <1>1 DEF Uncut, LogTypes
<1>3. SeenFits' BY <1>1 DEF SameRecord, Requested, Uncut, SeenFits
<1>4. QED BY <1>2, <1>3, Undisturbed DEF Uncut

LEMMA CursorStays ==
    ASSUME Uncut, Quietly, reader'.cursor = reader.cursor, reader'.last = reader.last, reader'.grep = reader.grep,
           reader.told => reader'.told, reader.blind => reader'.blind
    PROVE  CursorFits(reader.cursor)'
<1>1. lines' = lines /\ files' = files /\ seen' = seen /\ shown' = shown /\ Position' = Position
  BY Undisturbed
<1>2. CursorFits(reader.cursor) BY DEF Uncut
<1>4. InFile(reader.cursor) => InFile(reader.cursor)' BY <1>1, Zenon DEF InFile
<1>5. Excused => Excused' BY <1>1, Zenon DEF Excused
<1>7. Behind(reader.cursor.file) => Behind(reader.cursor.file)' BY <1>1, Zenon DEF Behind, FirstIn
<1>8. Follows(reader.cursor.file) => Follows(reader.cursor.file)'
  BY <1>1, <1>5, Zenon DEF Follows, FirstIn
<1>9. QED BY <1>1, <1>2, <1>4, <1>7, <1>8, Zenon DEF CursorFits

LEMMA CursorGone ==
    ASSUME reader'.cursor = NoCursor
    PROVE  CursorFits(reader.cursor)'
  BY DEF CursorFits, NoCursor, Fresh, NoFile

LEMMA CursorNew ==
    ASSUME Uncut, Quietly, NEW f \in 1 .. Len(files), reader'.cursor = Fresh(f), reader'.last < f, Behind(f),
           Excused' \/ Position = FirstIn(f) - 1
    PROVE  CursorFits(reader.cursor)'
<1>1. files' = files /\ Position' = Position BY Undisturbed
<1>2. /\ reader'.cursor.file = f /\ reader'.cursor.offset = 0 /\ f # NoFile /\ reader'.cursor = Fresh(reader'.cursor.file)
  BY DEF Fresh, NoFile
<1>3. Len(files[f]) \in Nat BY InLog
<1>4. Behind(reader.cursor.file)' /\ Follows(reader.cursor.file)'
  BY <1>1, <1>2 DEF Behind, Follows, FirstIn
<1>5. reader'.cursor.offset \in 0 .. Len(files'[reader'.cursor.file]) BY <1>1, <1>2, <1>3
<1>6. QED BY <1>1, <1>2, <1>4, <1>5 DEF CursorFits

\* A file that was read has not changed.
LEMMA NotChanged ==
    ASSUME Uncut
    PROVE  /\ reader.cursor.file # NoFile => ~Changed(reader.cursor)
           /\ \A f \in 1 .. Len(files) : ~Changed(Fresh(f))
<1>1. ASSUME NEW f \in 1 .. Len(files)
      PROVE  ~Changed(Fresh(f))
  BY InLog DEF Changed, Fresh
<1>2. ASSUME reader.cursor.file # NoFile
      PROVE  ~Changed(reader.cursor)
 <2> DEFINE c == reader.cursor
 <2>1. /\ c.file \in 1 .. Len(files) /\ c.offset \in 0 .. Len(files[c.file])
       /\ c.offset = 0 => c = Fresh(c.file)
       /\ c.offset > 0 => c.anchor = files[c.file][c.offset]
   BY <1>2 DEF Uncut, CursorFits, InFile
 <2>2. Len(files[c.file]) \in Nat BY <2>1, InLog
 <2>3. CASE c.offset = 0 BY <1>1, <2>1, <2>3
 <2>4. CASE c.offset > 0 BY <2>1, <2>2, <2>4 DEF Changed
 <2>5. QED BY <2>1, <2>2, <2>3, <2>4
<1>3. QED BY <1>1, <1>2

\* A file after the one that is read is still to be read, the next one next.
LEMMA BehindLater ==
    ASSUME Uncut, reader.cursor.file # NoFile
    PROVE  /\ \A f \in 1 .. Len(files) : f > reader.cursor.file => Behind(f)
           /\ Read(reader.cursor) => \A f \in 1 .. Len(files) : f = reader.cursor.file + 1 => Position = FirstIn(f) - 1
<1>1. PICK k \in 1 .. Len(files), o \in Nat, size \in Nat, first \in Nat, last \in Nat, p \in Nat :
        /\ k = reader.cursor.file /\ o = reader.cursor.offset /\ size = Len(files[k])
        /\ first = FirstIn(k) /\ last = LastIn(k) /\ p = Position
 <2>1. PICK k \in 1 .. Len(files) : k = reader.cursor.file BY DEF Uncut, CursorFits
 <2>2. reader.cursor.offset \in Nat BY InLog DEF Cursors
 <2>3. Len(files[k]) \in Nat /\ FirstIn(k) \in Nat /\ LastIn(k) \in Nat /\ Position \in Nat
   BY InLog
 <2>4. QED BY <2>1, <2>2, <2>3
<1>2. /\ o <= size /\ (o = 0 => p < first) /\ (o > 0 => p = files[k][o])
  BY <1>1, SMTT(20) DEF Uncut, CursorFits, InFile, Behind
<1>3. /\ size >= 1 /\ last = first + size - 1 /\ \A i \in 1 .. size : files[k][i] = first + i - 1
 <2>1. /\ Len(files[k]) \in Nat \ {0} /\ LastIn(k) = FirstIn(k) + Len(files[k]) - 1
       /\ \A i \in 1 .. Len(files[k]) : files[k][i] = FirstIn(k) + i - 1
   BY InLog
 <2>2. QED BY <1>1, <2>1, SMTT(20)
<1>4. p <= last /\ (o = size => p = last)
 <2>1. CASE o = 0 BY <1>2, <1>3, <2>1
 <2>2. CASE o > 0 BY <1>2, <2>2, <1>3
 <2>3. QED BY <2>1, <2>2
<1>5. ASSUME NEW f \in 1 .. Len(files), f > k
      PROVE  Behind(f)
 <2>1. LastIn(k) < FirstIn(f) /\ FirstIn(f) \in Nat BY <1>5, InLog DEF Uncut, FilesFit
 <2>2. QED BY <1>1, <1>4, <2>1 DEF Behind
<1>6. ASSUME Read(reader.cursor), NEW f \in 1 .. Len(files), f = k + 1
      PROVE  Position = FirstIn(f) - 1
 <2>1. o = size BY <1>1, <1>6 DEF Read
 <2>2. f > 1 /\ f - 1 = k BY <1>6
 <2>3. FileFits(f) BY InLog
 <2>4. FirstIn(f) = LastIn(k) + 1 BY <2>2, <2>3 DEF FileFits
 <2>5. QED BY <1>1, <1>4, <2>1, <2>4
<1>7. QED BY <1>1, <1>5, <1>6

\* What is open, and what is read.
LEMMA PlacesAre ==
    ASSUME Uncut
    PROVE  /\ reader \in Readers /\ path \in [current : Nat, archive : Nat] /\ Len(files) \in Nat
           /\ reader.current \in Nat /\ reader.archive \in Nat /\ reader.last \in Nat /\ reader.cursor \in Cursors
           /\ reader.cursor.file \in Nat /\ reader.cursor.file <= Len(files)
           /\ reader.cursor.file = NoFile <=> reader.cursor = NoCursor
           /\ reader.cursor.file # NoFile =>
                reader.cursor.file \in 1 .. Len(files) /\ reader.last < reader.cursor.file
           /\ path.archive <= Len(files) /\ Len(files) - 1 <= path.archive
           /\ path.current = NoFile => path.archive = Len(files)
           /\ path.current # NoFile => path.current = Len(files) /\ path.archive = Len(files) - 1
           /\ OpenFit /\ PlaceFits /\ GoneFits /\ CursorFits(reader.cursor)
<1>1. /\ reader \in Readers /\ path \in [current : Nat, archive : Nat] /\ Len(files) \in Nat
      /\ reader.current \in Nat /\ reader.archive \in Nat /\ reader.last \in Nat /\ reader.cursor \in Cursors
      /\ reader.cursor.file \in Nat
  BY InLog DEF Uncut, LogTypes, Readers, Cursors
<1>2. /\ reader.cursor.file = NoFile <=> reader.cursor = NoCursor
      /\ reader.cursor.file # NoFile =>
                reader.cursor.file \in 1 .. Len(files) /\ reader.last < reader.cursor.file
  BY DEF Uncut, CursorFits, NoCursor, Fresh
<1>3. reader.cursor.file <= Len(files) BY <1>1, <1>2 DEF NoFile
<1>4. /\ path.archive <= Len(files) /\ Len(files) - 1 <= path.archive
      /\ path.current = NoFile => path.archive = Len(files)
      /\ path.current # NoFile => path.current = Len(files) /\ path.archive = Len(files) - 1
  BY <1>1 DEF Uncut, NamesFit
<1>5. OpenFit /\ PlaceFits /\ GoneFits /\ CursorFits(reader.cursor) BY DEF Uncut
<1>6. QED BY <1>1, <1>2, <1>3, <1>4, <1>5

\* What stays of the cursor that is gone.
LEMMA GoneStays ==
    ASSUME Uncut, Quietly
    PROVE  /\ reader'.last = reader.last => (ReadUpToLast => ReadUpToLast')
           /\ (reader.told => reader'.told) /\ (reader.blind => reader'.blind) => (Excused => Excused')
<1>1. files' = files /\ seen' = seen /\ Position' = Position BY Undisturbed
<1>2. ASSUME reader'.last = reader.last, ReadUpToLast
      PROVE  ReadUpToLast'
  BY <1>1, <1>2, Zenon DEF ReadUpToLast, Behind, FirstIn
<1>3. QED BY <1>1, <1>2 DEF Excused

LEMMA OpensCurrent ==
    ASSUME Uncut, OpenCurrent
    PROVE  Uncut'
<1>1. reader.at = "current" /\ Quietly /\ reader' = [reader EXCEPT !.at = "archive", !.current = path.current]
  BY DEF OpenCurrent
<1>2. /\ reader' \in Readers /\ reader'.at = "archive" /\ reader'.current = path.current
      /\ reader'.cursor = reader.cursor /\ reader'.last = reader.last /\ reader'.grep = reader.grep
      /\ reader'.told = reader.told /\ reader'.blind = reader.blind
  BY <1>1, PlacesAre DEF Readers
<1>3. CursorFits(reader.cursor)' /\ path' = path /\ files' = files
  BY <1>1, <1>2, CursorStays, Undisturbed
<1>4. OpenFit' BY <1>2, <1>3, PlacesAre DEF OpenFit, NoFile
<1>5. PlaceFits' BY <1>2 DEF PlaceFits
<1>6. GoneFits' BY <1>1, <1>2, PlacesAre, GoneStays DEF GoneFits
<1>7. QED BY <1>1, <1>2, <1>3, <1>4, <1>5, <1>6, QuietStep

LEMMA OpensArchive ==
    ASSUME Uncut, OpenArchive
    PROVE  Uncut'
<1>1. reader.at = "archive" /\ Quietly /\ reader' = [reader EXCEPT !.at = "check", !.archive = path.archive]
  BY DEF OpenArchive
<1>2. /\ reader' \in Readers /\ reader'.at = "check" /\ reader'.archive = path.archive
      /\ reader'.current = reader.current
      /\ reader'.cursor = reader.cursor /\ reader'.last = reader.last /\ reader'.grep = reader.grep
      /\ reader'.told = reader.told /\ reader'.blind = reader.blind
  BY <1>1, PlacesAre DEF Readers
<1>3. CursorFits(reader.cursor)' /\ path' = path /\ files' = files
  BY <1>1, <1>2, CursorStays, Undisturbed
<1>4. OpenFit' BY <1>1, <1>2, <1>3, PlacesAre DEF OpenFit, NoFile
<1>5. PlaceFits' BY <1>2 DEF PlaceFits
<1>6. GoneFits' BY <1>1, <1>2, PlacesAre, GoneStays DEF GoneFits
<1>7. QED BY <1>1, <1>2, <1>3, <1>4, <1>5, <1>6, QuietStep

LEMMA ChecksNames ==
    ASSUME Uncut, CheckNames
    PROVE  Uncut'
<1>1. /\ reader.at = "check" /\ Quietly
      /\ reader' = IF StillCurrent
                   THEN [reader EXCEPT !.at = "resume",
                            !.archive = IF @ = reader.current THEN NoFile ELSE @]
                   ELSE [reader EXCEPT !.at = "current", !.current = NoFile, !.archive = NoFile]
  BY DEF CheckNames
<1>2. /\ reader' \in Readers
      /\ reader'.cursor = reader.cursor /\ reader'.last = reader.last /\ reader'.grep = reader.grep
      /\ reader'.told = reader.told /\ reader'.blind = reader.blind
      /\ StillCurrent => /\ reader'.at = "resume" /\ reader'.current = reader.current
                         /\ reader'.archive = IF reader.archive = reader.current THEN NoFile ELSE reader.archive
      /\ ~StillCurrent => reader'.at = "current" /\ reader'.current = NoFile /\ reader'.archive = NoFile
 <2>1. CASE StillCurrent BY <1>1, <2>1, PlacesAre DEF Readers, NoFile
 <2>2. CASE ~StillCurrent BY <1>1, <2>2, PlacesAre DEF Readers, NoFile
 <2>3. QED BY <2>1, <2>2
<1>3. CursorFits(reader.cursor)' /\ path' = path /\ files' = files
  BY <1>1, <1>2, CursorStays, Undisturbed
<1>4. OpenFit'
 <2>1. CASE StillCurrent BY <1>1, <1>2, <1>3, <2>1, PlacesAre DEF OpenFit, NoFile, StillCurrent
 <2>2. CASE ~StillCurrent BY <1>1, <1>2, <1>3, <2>2, PlacesAre DEF OpenFit, NoFile
 <2>3. QED BY <2>1, <2>2
<1>5. PlaceFits' BY <1>2 DEF PlaceFits
<1>6. GoneFits' BY <1>1, <1>2, PlacesAre, GoneStays DEF GoneFits
<1>7. QED BY <1>1, <1>2, <1>3, <1>4, <1>5, <1>6, QuietStep

LEMMA Stops ==
    ASSUME Uncut, StopReading
    PROVE  Uncut'
<1>1. Quietly /\ reader' = [reader EXCEPT !.at = "over", !.current = NoFile, !.archive = NoFile]
  BY DEF StopReading
<1>2. /\ reader' \in Readers /\ reader'.at = "over"
      /\ reader'.cursor = reader.cursor /\ reader'.last = reader.last /\ reader'.grep = reader.grep
      /\ reader'.told = reader.told /\ reader'.blind = reader.blind
  BY <1>1, PlacesAre DEF Readers, NoFile
<1>3. CursorFits(reader.cursor)' /\ path' = path /\ files' = files
  BY <1>1, <1>2, CursorStays, Undisturbed
<1>4. OpenFit' /\ PlaceFits' /\ GoneFits' BY <1>2, <1>3, PlacesAre DEF OpenFit, PlaceFits, GoneFits
<1>5. QED BY <1>1, <1>2, <1>3, <1>4, QuietStep

LEMMA WakesUp ==
    ASSUME Uncut, Wakes
    PROVE  Uncut'
<1>1. reader.at = "waiting" /\ Quietly /\ reader' = [reader EXCEPT !.at = "current"] BY DEF Wakes
<1>2. /\ reader' \in Readers /\ reader'.at = "current"
      /\ reader'.cursor = reader.cursor /\ reader'.last = reader.last /\ reader'.grep = reader.grep
      /\ reader'.told = reader.told /\ reader'.blind = reader.blind
  BY <1>1, PlacesAre DEF Readers
<1>3. CursorFits(reader.cursor)' /\ path' = path /\ files' = files
  BY <1>1, <1>2, CursorStays, Undisturbed
<1>4. OpenFit' /\ PlaceFits' BY <1>2, <1>3, PlacesAre DEF OpenFit, PlaceFits
<1>5. GoneFits' BY <1>1, <1>2, PlacesAre, GoneStays DEF GoneFits
<1>6. QED BY <1>1, <1>2, <1>3, <1>4, <1>5, QuietStep

LEMMA Rests ==
    ASSUME Uncut, Rest
    PROVE  Uncut'
<1>1. /\ reader.at = "rest" /\ Quietly
      /\ reader' = [reader EXCEPT !.at = IF reader.follow THEN "waiting" ELSE "over",
                     !.current = NoFile, !.archive = NoFile,
                     !.blind = @ \/ reader.cursor = NoCursor]
  BY DEF Rest
<1>2. /\ reader'.at \in {"waiting", "over"}
      /\ reader'.cursor = reader.cursor /\ reader'.last = reader.last /\ reader'.grep = reader.grep
      /\ reader'.told = reader.told /\ (reader'.blind <=> reader.blind \/ reader.cursor = NoCursor)
  BY <1>1, PlacesAre DEF Readers
<1>3. reader' \in Readers BY <1>1, PlacesAre DEF Readers, NoFile
<1>4. CursorFits(reader.cursor)' /\ path' = path /\ files' = files
  BY <1>1, <1>2, CursorStays, Undisturbed
<1>5. OpenFit' /\ PlaceFits' BY <1>2, <1>4, PlacesAre DEF OpenFit, PlaceFits
<1>6. GoneFits' BY <1>1, <1>2, PlacesAre, GoneStays DEF GoneFits, Excused
<1>7. QED BY <1>1, <1>2, <1>3, <1>4, <1>5, <1>6, QuietStep

LEMMA DrainEnds ==
    ASSUME Uncut, DrainOver
    PROVE  Uncut'
<1>1. reader.at = "drain" /\ reader.cursor.offset >= reader.goal /\ Quietly /\ reader' = [reader EXCEPT !.at = reader.then]
  BY DEF DrainOver
<1>2. /\ reader.cursor.file # NoFile /\ reader.goal <= Len(files[reader.cursor.file])
      /\ reader.cursor.offset <= reader.goal
      /\ reader.then \in {"turn", "archived", "rest"}
      /\ reader.then = "archived" => reader.cursor.file = reader.archive
      /\ reader.then = "turn" => reader.cursor.file \in {reader.archive, reader.current}
      /\ reader.then = "rest" => reader.cursor.file = reader.current
      /\ reader.cursor.file = reader.archive => reader.goal = Len(files[reader.cursor.file])
  BY <1>1, PlacesAre DEF PlaceFits
<1>3. /\ reader' \in Readers /\ reader'.at = reader.then /\ reader'.current = reader.current /\ reader'.archive = reader.archive
      /\ reader'.cursor = reader.cursor /\ reader'.last = reader.last /\ reader'.grep = reader.grep
      /\ reader'.told = reader.told /\ reader'.blind = reader.blind
  BY <1>1, <1>2, PlacesAre DEF Readers
<1>4. CursorFits(reader.cursor)' /\ path' = path /\ files' = files
  BY <1>1, <1>3, CursorStays, Undisturbed
<1>5. OpenFit' BY <1>1, <1>2, <1>3, <1>4, PlacesAre DEF OpenFit
<1>6. reader.cursor.offset = reader.goal BY <1>1, <1>2, PlacesAre DEF Readers, Cursors
<1>7. PlaceFits' BY <1>2, <1>3, <1>4, <1>6 DEF PlaceFits, Read
<1>8. GoneFits' BY <1>2, <1>3 DEF GoneFits
<1>9. QED BY <1>1, <1>3, <1>4, <1>5, <1>7, <1>8, QuietStep

LEMMA Resumes ==
    ASSUME Uncut, Resume
    PROVE  Uncut'
<1>1. /\ reader.at = "resume" /\ Quietly
      /\ reader' =
          IF reader.cursor = NoCursor
            THEN [reader EXCEPT !.at =
                     IF reader.current = NoFile /\ ~reader.follow THEN "over" ELSE "turn"]
          ELSE IF Kept THEN Drain(reader, reader.cursor, "turn")
          ELSE [reader EXCEPT !.at = "turn", !.cursor = NoCursor, !.told = TRUE]
  BY DEF Resume
<1>2. CASE reader.cursor = NoCursor
 <2>1. /\ reader' \in Readers /\ reader'.at \in {"over", "turn"} /\ reader'.current = reader.current
       /\ reader'.archive = reader.archive
       /\ reader'.cursor = reader.cursor /\ reader'.last = reader.last /\ reader'.grep = reader.grep
       /\ reader'.told = reader.told /\ reader'.blind = reader.blind
   BY <1>1, <1>2, PlacesAre DEF Readers
 <2>2. CursorFits(reader.cursor)' /\ path' = path /\ files' = files
   BY <1>1, <2>1, CursorStays, Undisturbed
 <2>3. OpenFit' BY <1>1, <2>1, <2>2, PlacesAre DEF OpenFit
 <2>4. PlaceFits' BY <1>2, <2>1, PlacesAre DEF PlaceFits
 <2>5. GoneFits' BY <1>1, <2>1, PlacesAre, GoneStays DEF GoneFits
 <2>6. QED BY <1>1, <2>1, <2>2, <2>3, <2>4, <2>5, QuietStep
<1>3. CASE reader.cursor # NoCursor /\ Kept
 <2>1. ~Changed(reader.cursor) /\ reader.cursor.file \in 1 .. Len(files)
   BY <1>3, PlacesAre, NotChanged
 <2>2. Len(files[reader.cursor.file]) \in Nat BY <2>1, InLog
 <2>3. reader' = Drain(reader, reader.cursor, "turn") BY <1>1, <1>3
 <2>4. /\ reader' \in Readers /\ reader'.at = "drain" /\ reader'.then = "turn"
       /\ reader'.goal = Len(files[reader.cursor.file]) /\ reader'.cursor = reader.cursor
       /\ reader'.told = reader.told /\ reader'.blind = reader.blind /\ reader'.last = reader.last
       /\ reader'.grep = reader.grep /\ reader'.current = reader.current /\ reader'.archive = reader.archive
  <3>1. reader \in Readers /\ reader.cursor \in Cursors /\ "turn" \in {"turn", "archived", "rest"}
    BY <2>1, <2>2, <2>3, PlacesAre
  <3>2. ~Changed(reader.cursor) /\ Len(files[reader.cursor.file]) \in Nat /\ reader.cursor.file = reader.cursor.file
    BY <2>1, <2>2, <2>3
  <3>3. (reader.told \/ Changed(reader.cursor)) = reader.told BY <3>1, <3>2 DEF Readers
  <3>4. reader' = [reader EXCEPT !.at = "drain", !.then = "turn", !.goal = Len(files[reader.cursor.file]),
                                 !.cursor = reader.cursor, !.told = reader.told]
    BY <2>3, <3>2, <3>3, Zenon DEF Drain
  <3>5. Len(files[reader.cursor.file]) \in Nat BY <3>2
  <3>6. QED BY <3>1, <3>4, <3>5 DEF Readers
 <2>5. CursorFits(reader.cursor)' /\ path' = path /\ files' = files
   BY <1>1, <2>4, CursorStays, Undisturbed
 <2>6. OpenFit' BY <1>1, <2>4, <2>5, PlacesAre DEF OpenFit
 <2>7. PlaceFits' BY <1>3, PlacesAre, <2>2, <2>4, <2>5 DEF CursorFits, Kept, PlaceFits
 <2>8. GoneFits' BY <2>1, <2>4 DEF GoneFits, NoFile
 <2>9. QED BY <1>1, <2>4, <2>5, <2>6, <2>7, <2>8, QuietStep
<1>4. CASE reader.cursor # NoCursor /\ ~Kept
 <2>1. reader' = [reader EXCEPT !.at = "turn", !.cursor = NoCursor, !.told = TRUE] BY <1>1, <1>4
 <2>2. /\ reader' \in Readers /\ reader'.at = "turn" /\ reader'.cursor = NoCursor /\ reader'.told
       /\ reader'.last = reader.last /\ reader'.grep = reader.grep
       /\ reader'.current = reader.current /\ reader'.archive = reader.archive
   BY <2>1, PlacesAre DEF NoCursor, Fresh, NoFile, Cursors, Readers
 <2>3. CursorFits(reader.cursor)' /\ path' = path /\ files' = files /\ reader'.cursor.file = NoFile
   BY <1>1, <2>2, CursorGone, Undisturbed DEF NoCursor, Fresh
 <2>4. OpenFit' BY <1>1, <2>2, <2>3, PlacesAre DEF OpenFit, NoFile
 <2>5. PlaceFits' BY <2>2, <2>3 DEF PlaceFits
 <2>6. reader.archive > reader.last /\ reader.archive \in 1 .. Len(files) /\ reader.archive > reader.cursor.file
   BY <1>1, <1>4, PlacesAre, SMTT(20) DEF OpenFit, Kept, NoFile
 <2>7. Behind(reader.archive) BY <1>4, <2>6, PlacesAre, BehindLater
 <2>8. Behind(reader.archive)' BY <1>1, <2>2, <2>3, <2>7, Undisturbed DEF Behind, FirstIn
 <2>9. GoneFits' BY <2>2, <2>3, <2>6, <2>8 DEF GoneFits, Excused
 <2>10. QED BY <1>1, <2>2, <2>3, <2>4, <2>5, <2>9, QuietStep
<1>5. QED BY <1>2, <1>3, <1>4

\* A file that was read to its end is done with.
LEMMA FileDone ==
    ASSUME Uncut, Quietly, reader.at \in {"turn", "archived"}, reader.cursor.file # NoFile,
           reader.cursor.file = reader.archive, Read(reader.cursor),
           reader' = [reader EXCEPT !.at = "next", !.last = reader.cursor.file, !.cursor = NoCursor]
    PROVE  Uncut'
<1>1. /\ reader' \in Readers /\ reader'.at = "next" /\ reader'.cursor = NoCursor
      /\ reader'.last = reader.archive /\ reader'.grep = reader.grep
      /\ reader'.current = reader.current /\ reader'.archive = reader.archive
  BY PlacesAre DEF NoCursor, Fresh, NoFile, Cursors, Readers
<1>2. CursorFits(reader.cursor)' /\ path' = path /\ files' = files /\ reader'.cursor.file = NoFile /\ Position' = Position
  BY <1>1, CursorGone, Undisturbed DEF NoCursor, Fresh
<1>3. OpenFit' BY <1>1, <1>2, PlacesAre DEF OpenFit, NoFile
<1>4. PlaceFits' BY <1>1, <1>2 DEF PlaceFits
<1>5. ReadUpToLast' BY BehindLater, <1>1, <1>2 DEF Behind, FirstIn, ReadUpToLast
<1>6. reader.current # NoFile => Follows(reader.current)'
 <2>1. ASSUME reader.current # NoFile
       PROVE  reader.current \in 1 .. Len(files) /\ reader.current = reader.cursor.file + 1
   BY <2>1, PlacesAre DEF OpenFit, NoFile
 <2>2. reader.current # NoFile => Position = FirstIn(reader.current) - 1 BY <2>1, BehindLater
 <2>3. QED BY <1>1, <1>2, <2>2 DEF Follows, FirstIn
<1>7. GoneFits' BY <1>1, <1>5, <1>6 DEF GoneFits
<1>8. QED BY <1>1, <1>2, <1>3, <1>4, <1>7, QuietStep

LEMMA ArchiveDone ==
    ASSUME Uncut, Archived
    PROVE  Uncut'
<1>1. /\ reader.at = "archived" /\ Quietly
      /\ reader' = [reader EXCEPT !.at = "next", !.last = reader.cursor.file, !.cursor = NoCursor]
  BY DEF Archived
<1>2. reader.cursor.file # NoFile /\ reader.cursor.file = reader.archive /\ Read(reader.cursor)
  BY <1>1, PlacesAre DEF PlaceFits
<1>3. QED BY <1>1, <1>2, FileDone

LEMMA Turns ==
    ASSUME Uncut, Turn
    PROVE  Uncut'
<1> DEFINE done == reader.cursor # NoCursor /\ reader.cursor.file # reader.current
           freed == [reader EXCEPT !.last = reader.cursor.file, !.cursor = NoCursor]
<1>1. /\ reader.at = "turn" /\ Quietly
      /\ done => reader' = IF Unread(freed) THEN Drain(freed, Fresh(reader.archive), "archived")
                           ELSE [freed EXCEPT !.at = "next"]
      /\ ~done => reader' = IF Unread(reader) THEN Drain(reader, Fresh(reader.archive), "archived")
                            ELSE [reader EXCEPT !.at = "next"]
  BY DEF Turn
<1>2. CASE done BY <1>1, <1>2, PlacesAre, FileDone DEF PlaceFits, Readers, Unread
<1>3. CASE ~done /\ Unread(reader)
 <2>1. reader.cursor = NoCursor /\ reader.cursor.file = NoFile /\ reader.archive # NoFile /\ reader.archive # reader.last
   BY <1>3, PlacesAre DEF Unread
 <2>2. reader.archive \in 1 .. Len(files) /\ reader.last < reader.archive
   BY <1>1, <2>1, PlacesAre DEF OpenFit, NoFile
 <2>3. Behind(reader.archive) /\ Excused BY <1>1, <2>1, <2>2, PlacesAre DEF GoneFits, ReadUpToLast
 <2>4. reader' = Drain(reader, Fresh(reader.archive), "archived") BY <1>1, <1>3
 <2>5. /\ Fresh(reader.archive) \in Cursors /\ Fresh(reader.archive).file = reader.archive
       /\ Fresh(reader.archive).offset = 0 /\ Len(files[reader.archive]) \in Nat
   BY <2>2, InLog, PlacesAre DEF Fresh, Cursors
 <2>6. ~Changed(Fresh(reader.archive)) BY <2>2, NotChanged
 <2>7. /\ reader' \in Readers /\ reader'.at = "drain" /\ reader'.then = "archived"
       /\ reader'.goal = Len(files[reader.archive]) /\ reader'.cursor = Fresh(reader.archive)
       /\ reader'.told = reader.told /\ reader'.blind = reader.blind /\ reader'.last = reader.last
       /\ reader'.grep = reader.grep /\ reader'.current = reader.current /\ reader'.archive = reader.archive
  <3>1. reader \in Readers /\ Fresh(reader.archive) \in Cursors /\ "archived" \in {"turn", "archived", "rest"}
    BY <2>4, <2>5, <2>6, PlacesAre
  <3>2. ~Changed(Fresh(reader.archive)) /\ Len(files[Fresh(reader.archive).file]) \in Nat /\ Fresh(reader.archive).file = reader.archive
    BY <2>4, <2>5, <2>6
  <3>3. (reader.told \/ Changed(Fresh(reader.archive))) = reader.told BY <3>1, <3>2 DEF Readers
  <3>4. reader' = [reader EXCEPT !.at = "drain", !.then = "archived", !.goal = Len(files[reader.archive]),
                                 !.cursor = Fresh(reader.archive), !.told = reader.told]
    BY <2>4, <3>2, <3>3, Zenon DEF Drain
  <3>5. Len(files[reader.archive]) \in Nat BY <3>2
  <3>6. QED BY <3>1, <3>4, <3>5 DEF Readers
 <2>8. path' = path /\ files' = files /\ Excused' BY <1>1, <2>3, <2>7, Undisturbed DEF Excused
 <2>9. CursorFits(reader.cursor)' BY <1>1, <2>2, <2>3, <2>7, <2>8, CursorNew
 <2>10. OpenFit' BY <1>1, <2>2, <2>5, <2>7, <2>8, PlacesAre DEF OpenFit
 <2>11. PlaceFits' BY <2>1, <2>5, <2>7, <2>8 DEF PlaceFits
 <2>12. GoneFits' BY <2>1, <2>5, <2>7 DEF GoneFits
 <2>13. QED BY <1>1, <2>7, <2>9, <2>10, <2>11, <2>12, QuietStep
<1>4. CASE ~done /\ ~Unread(reader)
 <2>1. reader' = [reader EXCEPT !.at = "next"] BY <1>1, <1>4
 <2>2. /\ reader' \in Readers /\ reader'.at = "next" /\ reader'.current = reader.current
       /\ reader'.archive = reader.archive
       /\ reader'.cursor = reader.cursor /\ reader'.last = reader.last /\ reader'.grep = reader.grep
       /\ reader'.told = reader.told /\ reader'.blind = reader.blind
   BY <2>1, PlacesAre DEF Readers
 <2>3. CursorFits(reader.cursor)' /\ path' = path /\ files' = files
   BY <1>1, <2>2, CursorStays, Undisturbed
 <2>4. OpenFit' BY <1>1, <2>2, <2>3, PlacesAre DEF OpenFit
 <2>5. PlaceFits' BY <1>4, <2>2, PlacesAre DEF PlaceFits
 <2>6. reader.cursor.file = NoFile => ReadUpToLast /\ Excused
   BY <1>1, <1>4, PlacesAre DEF Unread, OpenFit, NoFile, GoneFits
 <2>7. reader.cursor.file = NoFile => ReadUpToLast' /\ Excused' BY <1>1, <2>2, <2>6, GoneStays
 <2>8. GoneFits' BY <2>2, <2>7 DEF GoneFits, Follows
 <2>9. QED BY <1>1, <2>2, <2>3, <2>4, <2>5, <2>8, QuietStep
<1>5. QED BY <1>2, <1>3, <1>4

LEMMA GoesOn ==
    ASSUME Uncut, NextFile
    PROVE  Uncut'
<1>1. /\ reader.at = "next" /\ Quietly
      /\ reader' = IF reader.cursor = NoCursor /\ reader.current # NoFile
                   THEN Drain(reader, Fresh(reader.current), "rest")
                   ELSE [reader EXCEPT !.at = "rest"]
  BY DEF NextFile
<1>2. CASE reader.cursor = NoCursor /\ reader.current # NoFile
 <2>1. reader.current \in 1 .. Len(files) /\ reader.last < reader.current /\ reader.archive = reader.current - 1
   BY <1>1, <1>2, PlacesAre DEF OpenFit, NoFile
 <2>2. Behind(reader.current) /\ Follows(reader.current)
   BY <1>1, <1>2, <2>1, PlacesAre DEF GoneFits, ReadUpToLast
 <2>3. reader' = Drain(reader, Fresh(reader.current), "rest") BY <1>1, <1>2
 <2>4. /\ Fresh(reader.current) \in Cursors /\ Fresh(reader.current).file = reader.current
       /\ Fresh(reader.current).offset = 0 /\ Len(files[reader.current]) \in Nat
   BY <2>1, InLog, PlacesAre DEF Fresh, Cursors
 <2>5. ~Changed(Fresh(reader.current)) BY <2>1, NotChanged
 <2>6. /\ reader' \in Readers /\ reader'.at = "drain" /\ reader'.then = "rest"
       /\ reader'.goal = Len(files[reader.current]) /\ reader'.cursor = Fresh(reader.current)
       /\ reader'.told = reader.told /\ reader'.blind = reader.blind /\ reader'.last = reader.last
       /\ reader'.grep = reader.grep /\ reader'.current = reader.current /\ reader'.archive = reader.archive
  <3>1. reader \in Readers /\ Fresh(reader.current) \in Cursors /\ "rest" \in {"turn", "archived", "rest"}
    BY <2>3, <2>4, <2>5, PlacesAre
  <3>2. ~Changed(Fresh(reader.current)) /\ Len(files[Fresh(reader.current).file]) \in Nat /\ Fresh(reader.current).file = reader.current
    BY <2>3, <2>4, <2>5
  <3>3. (reader.told \/ Changed(Fresh(reader.current))) = reader.told BY <3>1, <3>2 DEF Readers
  <3>4. reader' = [reader EXCEPT !.at = "drain", !.then = "rest", !.goal = Len(files[reader.current]),
                                 !.cursor = Fresh(reader.current), !.told = reader.told]
    BY <2>3, <3>2, <3>3, Zenon DEF Drain
  <3>5. Len(files[reader.current]) \in Nat BY <3>2
  <3>6. QED BY <3>1, <3>4, <3>5 DEF Readers
 <2>7. path' = path /\ files' = files /\ (Excused => Excused')
   BY <1>1, <2>6, Undisturbed DEF Excused
 <2>8. Excused' \/ Position = FirstIn(reader.current) - 1 BY <2>2, <2>7 DEF Follows
 <2>9. CursorFits(reader.cursor)' BY <1>1, <2>1, <2>2, <2>6, <2>8, CursorNew
 <2>10. OpenFit' BY <1>1, <2>1, <2>4, <2>6, <2>7, PlacesAre, SMTT(20) DEF OpenFit
 <2>11. PlaceFits' BY <2>1, <2>4, <2>6, <2>7, PlacesAre DEF PlaceFits, NoFile
 <2>12. GoneFits' BY <1>2, <2>4, <2>6 DEF GoneFits
 <2>13. QED BY <1>1, <2>6, <2>9, <2>10, <2>11, <2>12, QuietStep
<1>3. CASE ~(reader.cursor = NoCursor /\ reader.current # NoFile)
 <2>1. reader' = [reader EXCEPT !.at = "rest"] BY <1>1, <1>3
 <2>2. /\ reader' \in Readers /\ reader'.at = "rest" /\ reader'.current = reader.current
       /\ reader'.archive = reader.archive
       /\ reader'.cursor = reader.cursor /\ reader'.last = reader.last /\ reader'.grep = reader.grep
       /\ reader'.told = reader.told /\ reader'.blind = reader.blind
   BY <2>1, PlacesAre DEF Readers
 <2>3. CursorFits(reader.cursor)' /\ path' = path /\ files' = files
   BY <1>1, <2>2, CursorStays, Undisturbed
 <2>4. OpenFit' BY <1>1, <2>2, <2>3, PlacesAre DEF OpenFit
 <2>5. PlaceFits' BY <1>1, <1>3, <2>2, PlacesAre DEF PlaceFits
 <2>6. GoneFits' BY <1>1, <2>2, PlacesAre, GoneStays DEF GoneFits
 <2>7. QED BY <1>1, <2>2, <2>3, <2>4, <2>5, <2>6, QuietStep
<1>4. QED BY <1>2, <1>3

\* Lists of line numbers.
LEMMA SetOfBoth ==
    ASSUME NEW s \in Seq(Nat), NEW t \in Seq(Nat)
    PROVE  ToSet(s \o t) = ToSet(s) \cup ToSet(t)
<1>1. /\ s \o t \in Seq(Nat) /\ Len(s \o t) = Len(s) + Len(t)
      /\ \A i \in 1 .. Len(s) : (s \o t)[i] = s[i]
      /\ \A i \in Len(s) + 1 .. Len(s) + Len(t) : (s \o t)[i] = t[i - Len(s)]
  BY OneAfterTheOther
<1> DEFINE both == s \o t
<1> HIDE DEF both
<1>2. PICK a \in Nat, b \in Nat : a = Len(s) /\ b = Len(t) OBVIOUS
<1>3. /\ DOMAIN both = 1 .. a + b /\ DOMAIN s = 1 .. a /\ DOMAIN t = 1 .. b
      /\ \A i \in 1 .. a : both[i] = s[i]
      /\ \A i \in a + 1 .. a + b : both[i] = t[i - a]
  BY <1>1, <1>2 DEF both
<1>4. ASSUME NEW x \in ToSet(both)
      PROVE  x \in ToSet(s) \cup ToSet(t)
 <2>1. PICK i \in 1 .. a + b : x = both[i] BY <1>3 DEF ToSet
 <2>2. CASE i <= a
  <3>1. i \in 1 .. a BY <2>2
  <3>2. both[i] = s[i] /\ i \in DOMAIN s BY <1>3, <3>1
  <3>3. QED BY <2>1, <3>2 DEF ToSet
 <2>3. CASE i > a
  <3>1. i \in a + 1 .. a + b /\ i - a \in 1 .. b BY <2>3
  <3>2. QED BY <1>3, <2>1, <3>1 DEF ToSet
 <2>4. QED BY <2>2, <2>3
<1>5. ASSUME NEW x \in ToSet(s)
      PROVE  x \in ToSet(both)
 <2>1. PICK i \in 1 .. a : x = s[i] BY <1>3 DEF ToSet
 <2>2. i \in 1 .. a + b /\ both[i] = x BY <1>3, <2>1
 <2>3. QED BY <1>3, <2>2 DEF ToSet
<1>6. ASSUME NEW x \in ToSet(t)
      PROVE  x \in ToSet(both)
 <2>1. PICK i \in 1 .. b : x = t[i] BY <1>3 DEF ToSet
 <2>2. a + i \in a + 1 .. a + b /\ (a + i) - a = i OBVIOUS
 <2>3. both[a + i] = x /\ a + i \in 1 .. a + b BY <1>3, <2>1, <2>2
 <2>4. QED BY <1>3, <2>3 DEF ToSet
<1>7. QED BY <1>4, <1>5, <1>6 DEF both

LEMMA IncreasingOn ==
    ASSUME NEW s \in Seq(Nat), NEW t \in Seq(Nat), Increasing(s), Increasing(t),
           \A i \in 1 .. Len(s), j \in 1 .. Len(t) : s[i] < t[j]
    PROVE  Increasing(s \o t)
<1>1. /\ s \o t \in Seq(Nat) /\ Len(s \o t) = Len(s) + Len(t)
      /\ \A i \in 1 .. Len(s) : (s \o t)[i] = s[i]
      /\ \A i \in Len(s) + 1 .. Len(s) + Len(t) : (s \o t)[i] = t[i - Len(s)]
  BY OneAfterTheOther
<1> DEFINE both == s \o t
<1> HIDE DEF both
<1>2. PICK a \in Nat, b \in Nat : a = Len(s) /\ b = Len(t) OBVIOUS
<1>3. /\ Len(both) = a + b
      /\ \A i \in 1 .. a : both[i] = s[i]
      /\ \A i \in a + 1 .. a + b : both[i] = t[i - a]
  BY <1>1, <1>2 DEF both
<1>4. ASSUME NEW i \in 1 .. (a + b) - 1
      PROVE  both[i] < both[i + 1]
 <2>1. CASE i < a
  <3>1. i \in 1 .. a /\ i + 1 \in 1 .. a /\ i \in 1 .. a - 1 BY <2>1
  <3>2. QED BY <1>2, <1>3, <3>1 DEF Increasing
 <2>2. CASE i = a BY <2>2, <1>3, <1>2
 <2>3. CASE i > a
  <3>1. /\ i \in a + 1 .. a + b /\ i + 1 \in a + 1 .. a + b /\ (i + 1) - a = (i - a) + 1
        /\ i - a \in 1 .. b - 1
    BY <2>3
  <3>2. both[i] = t[i - a] /\ both[i + 1] = t[(i - a) + 1] BY <1>3, <3>1
  <3>3. t[i - a] < t[(i - a) + 1] BY <1>2, <3>1 DEF Increasing
  <3>4. QED BY <3>2, <3>3
 <2>4. QED BY <2>1, <2>2, <2>3
<1>5. QED BY <1>3, <1>4 DEF Increasing, both

\* One line, and a stretch of a file.
LEMMA OneLine ==
    ASSUME NEW n \in Nat
    PROVE  <<n>> \in Seq(Nat) /\ Len(<<n>>) = 1 /\ <<n>>[1] = n /\ Increasing(<<n>>) /\ ToSet(<<n>>) = {n}
<1>1. <<n>> \in Seq(Nat) /\ Len(<<n>>) = 1 /\ <<n>>[1] = n /\ DOMAIN <<n>> = 1 .. 1 OBVIOUS
<1>2. Increasing(<<n>>) BY <1>1 DEF Increasing
<1>3. ToSet(<<n>>) = {n} BY <1>1 DEF ToSet
<1>4. QED BY <1>1, <1>2, <1>3

Contiguous(file, first) == \A i \in 1 .. Len(file) : file[i] = first + i - 1
StretchOf(t, file, first, a, b) ==
    1 <= a /\ a <= b /\ b <= Len(file) /\ Contiguous(file, first) /\ t = SubSeq(file, a, b)
LEMMA Stretch ==
    ASSUME NEW file \in Seq(Nat), NEW first \in Nat, NEW a \in Nat, NEW b \in Nat, NEW t,
           StretchOf(t, file, first, a, b)
    PROVE  /\ t \in Seq(Nat) /\ Len(t) = b - a + 1 /\ \A i \in 1 .. b - a + 1 : t[i] = (first + a - 1) + i - 1
           /\ Increasing(t) /\ ToSet(t) = first + a - 1 .. first + b - 1
<1>a. 1 <= a /\ a <= b /\ b <= Len(file) /\ Contiguous(file, first) /\ t = SubSeq(file, a, b) /\ Len(file) \in Nat
  BY DEF StretchOf
<1>1. t \in Seq(Nat) /\ Len(t) = b - a + 1 /\ \A i \in 1 .. b - a + 1 : t[i] = file[a + i - 1]
 <2>1. /\ SubSeq(file, a, b) \in Seq(Nat) /\ Len(SubSeq(file, a, b)) = b - a + 1
       /\ \A i \in 1 .. b - a + 1 : SubSeq(file, a, b)[i] = file[a + i - 1]
  <3>1. a \in Int /\ b \in Int /\ a <= b /\ \A i \in a .. b : file[i] \in Nat BY <1>a
  <3>2. /\ SubSeq(file, a, b) \in Seq(Nat)
        /\ Len(SubSeq(file, a, b)) = IF a <= b THEN b - a + 1 ELSE 0
        /\ \A i \in 1 .. b - a + 1 : SubSeq(file, a, b)[i] = file[a + i - 1]
    BY <3>1, SubSeqProperties
  <3>3. QED BY <3>1, <3>2, Zenon
 <2>2. QED BY <1>a, <2>1, Zenon
<1>2. ASSUME NEW i \in 1 .. b - a + 1
      PROVE  t[i] = (first + a - 1) + i - 1
  BY <1>a, <1>1 DEF Contiguous
<1>3. Increasing(t)
 <2>1. ASSUME NEW i \in 1 .. b - a
       PROVE  t[i] < t[i + 1]
  <3>1. i \in 1 .. b - a + 1 /\ i + 1 \in 1 .. b - a + 1 BY <1>a
  <3>2. t[i] = (first + a - 1) + i - 1 /\ t[i + 1] = (first + a - 1) + (i + 1) - 1 BY <1>2, <3>1
  <3>3. QED BY <3>2
 <2>2. Len(t) - 1 = b - a BY <1>a, <1>1
 <2>3. QED BY <2>1, <2>2 DEF Increasing
<1>4. ToSet(t) = first + a - 1 .. first + b - 1
 <2>1. DOMAIN t = 1 .. b - a + 1 BY <1>1
 <2>2. ASSUME NEW x \in ToSet(t)
       PROVE  x \in first + a - 1 .. first + b - 1
  <3>1. PICK i \in 1 .. b - a + 1 : x = t[i] BY <2>1, <2>2 DEF ToSet
  <3>2. t[i] = (first + a - 1) + i - 1 BY <1>2
  <3>3. QED BY <1>a, <3>1, <3>2
 <2>3. ASSUME NEW x \in first + a - 1 .. first + b - 1
       PROVE  x \in ToSet(t)
  <3>1. x - (first + a - 1) + 1 \in 1 .. b - a + 1 BY <1>a
  <3>2. t[x - (first + a - 1) + 1] = (first + a - 1) + (x - (first + a - 1) + 1) - 1 BY <1>2, <3>1
  <3>a. (first + a - 1) + (x - (first + a - 1) + 1) - 1 = x BY <1>a
  <3>3. QED BY <2>1, <3>1, <3>2, <3>a DEF ToSet
 <2>4. QED BY <2>2, <2>3
<1>5. QED BY <1>1, <1>2, <1>3, <1>4

\* The record of line n begins at line s.
LEMMA RecordIs ==
    ASSUME NEW n \in Nat, NEW s \in 1 .. n, lines[s].first, \A k \in s + 1 .. n : ~lines[k].first,
           NEW j \in 1 .. n, NEW k \in 1 .. n, j >= s
    PROVE  SameRecord(j, k) <=> k >= s
<1>1. CASE k < s BY <1>1, SameRecordIs
<1>2. CASE k >= s /\ j <= k BY <1>2, SameRecordIs
<1>3. CASE k >= s /\ k <= j BY <1>3, SameRecordIs
<1>4. QED BY <1>1, <1>2, <1>3
LEMMA RecordIsNot ==
    ASSUME NEW n \in Nat, NEW s \in 1 .. n, lines[s].first, NEW j \in 1 .. n, NEW k \in 1 .. n, j < s, k >= s
    PROVE  ~SameRecord(j, k)
<1>1. SameRecord(j, k) <=> \A i \in j + 1 .. k : ~lines[i].first BY SameRecordIs
<1>2. s \in j + 1 .. k OBVIOUS
<1>3. QED BY <1>1, <1>2

\* What a further line of a record makes wanted.
WantedOf(S) == {k \in S : \E m \in S : lines[m].hit /\ SameRecord(m, k)}
LEMMA WantedGrows ==
    ASSUME NEW n \in Nat, NEW s \in 1 .. n, lines[s].first, \A k \in s + 1 .. n : ~lines[k].first,
           NEW S \in SUBSET (1 .. n), n \notin S, s .. n - 1 \subseteq S
    PROVE  /\ (\E m \in s .. n : lines[m].hit) => WantedOf(S \cup {n}) = WantedOf(S) \cup (s .. n)
           /\ (\E m \in s .. n - 1 : lines[m].hit) => WantedOf(S \cup {n}) = WantedOf(S) \cup {n}
           /\ ~(\E m \in s .. n : lines[m].hit) => WantedOf(S \cup {n}) = WantedOf(S)
<1> DEFINE T == S \cup {n}
<1>1. T \subseteq 1 .. n /\ s .. n \subseteq T /\ n \in 1 .. n /\ \A k \in s .. n : k = n \/ k \in s .. n - 1
  OBVIOUS
\* The lines before the record.
<1>2. ASSUME NEW k \in S, k < s
      PROVE  k \in WantedOf(T) <=> k \in WantedOf(S)
  BY <1>1, <1>2, RecordIs DEF WantedOf
\* The lines of the record.
<1>3. ASSUME NEW k \in s .. n
      PROVE  /\ k \in WantedOf(T) <=> \E m \in s .. n : lines[m].hit
             /\ k \in S => (k \in WantedOf(S) <=> \E m \in (s .. n) \cap S : lines[m].hit)
 <2>1. k \in T /\ k \in 1 .. n /\ k >= s BY <1>1
 <2>2. ASSUME NEW m \in T
       PROVE  SameRecord(m, k) <=> m \in s .. n
  <3>1. m \in 1 .. n BY <1>1
  <3>2. CASE m >= s BY <2>1, <3>1, <3>2, RecordIs
  <3>3. CASE m < s BY <2>1, <3>1, <3>3, RecordIsNot
  <3>4. QED BY <3>1, <3>2, <3>3
 <2>3. k \in WantedOf(T) <=> \E m \in s .. n : lines[m].hit BY <1>1, <2>1, <2>2, Zenon DEF WantedOf
 <2>4. k \in S => (k \in WantedOf(S) <=> \E m \in (s .. n) \cap S : lines[m].hit)
   BY <2>2, Zenon DEF WantedOf
 <2>5. QED BY <2>3, <2>4
<1>4. WantedOf(T) \subseteq T /\ WantedOf(S) \subseteq S BY DEF WantedOf
<1>5. \A k \in T : (k \in S /\ k < s) \/ k \in s .. n BY <1>1
<1>6. CASE \E m \in s .. n : lines[m].hit
 <2>1. WantedOf(T) = WantedOf(S) \cup (s .. n) BY <1>3, <1>6, <1>2, <1>4, <1>5
 <2>2. ASSUME \E m \in s .. n - 1 : lines[m].hit
       PROVE  WantedOf(T) = WantedOf(S) \cup {n}
  <3>1. \E m \in (s .. n) \cap S : lines[m].hit
   <4>1. PICK m \in s .. n - 1 : lines[m].hit BY <2>2
   <4>2. m \in (s .. n) \cap S BY <4>1
   <4>3. QED BY <4>1, <4>2
  <3>2. \A k \in s .. n : k = n \/ k \in WantedOf(S) BY <1>1, <1>3, <3>1
  <3>3. n \in s .. n OBVIOUS
  <3>4. \A x : x \in WantedOf(S) \cup (s .. n) <=> x \in WantedOf(S) \cup {n} BY <3>2, <3>3, Zenon
  <3>5. QED BY <2>1, <3>4
 <2>3. QED BY <1>6, <2>1, <2>2
<1>7. CASE ~(\E m \in s .. n : lines[m].hit) BY <1>3, <1>4, <1>7, <1>2, <1>5
<1>8. QED BY <1>6, <1>7

\* Where the reader is when it reads a line, and what line it reads.
HeldFile == files[reader.cursor.file]
HeldFirst == FirstIn(reader.cursor.file)
HeldOffset == reader.cursor.offset
HeldStart == IF lines[HeldFirst + HeldOffset].first THEN HeldOffset + 1 ELSE reader.cursor.start
LEMMA LineIs ==
    ASSUME Uncut, ReadLine
    PROVE  /\ HeldFile \in Seq(Nat) /\ HeldFirst \in Nat /\ HeldOffset \in Nat /\ HeldStart \in Nat
           /\ reader.cursor.file \in 1 .. Len(files)
           /\ HeldOffset < reader.goal /\ reader.goal <= Len(HeldFile)
           /\ HeldFirst >= 1 /\ HeldFirst + HeldOffset <= Len(lines)
           /\ \A i \in 1 .. Len(HeldFile) : HeldFile[i] = HeldFirst + i - 1
           /\ HeldStart \in 1 .. HeldOffset + 1 /\ lines[HeldFirst + HeldStart - 1].first
           /\ \A n \in HeldFirst + HeldStart .. HeldFirst + HeldOffset : ~lines[n].first
           /\ Position < HeldFirst + HeldOffset
           /\ \A n \in HeldFirst + HeldStart - 1 .. HeldFirst + HeldOffset - 1 : n \in ToSet(seen)
           /\ HeldOffset > 0 => Position = HeldFirst + HeldOffset - 1 /\ InFile(reader.cursor)
           /\ HeldOffset = 0 =>
                /\ Follows(reader.cursor.file) /\ reader.cursor = Fresh(reader.cursor.file)
                /\ lines[HeldFirst].first
<1>1. /\ reader.at = "drain" /\ reader.cursor.offset < reader.goal BY DEF ReadLine
<1>2. /\ reader.cursor.file \in 1 .. Len(files) /\ reader.goal <= Len(files[reader.cursor.file])
      /\ reader.goal \in Nat /\ reader.cursor.offset \in Nat /\ reader.cursor.start \in Nat
      /\ reader.cursor.offset = 0 => reader.cursor = Fresh(reader.cursor.file)
            /\ Behind(reader.cursor.file) /\ Follows(reader.cursor.file)
      /\ reader.cursor.offset > 0 => InFile(reader.cursor)
  BY <1>1, PlacesAre DEF PlaceFits, CursorFits, Cursors, Readers
<1>3. PICK k \in 1 .. Len(files), o \in Nat, goal \in Nat, c \in Nat :
        k = reader.cursor.file /\ o = reader.cursor.offset /\ goal = reader.goal /\ c = reader.cursor.start
  BY <1>2
<1>4. /\ files[k] \in Seq(Nat) /\ FileFits(k) /\ FirstIn(k) \in 1 .. Len(lines) /\ LastIn(k) \in 1 .. Len(lines)
      /\ LastIn(k) = FirstIn(k) + Len(files[k]) - 1 /\ Len(files[k]) \in Nat \ {0}
      /\ \A i \in 1 .. Len(files[k]) : files[k][i] = FirstIn(k) + i - 1
      /\ Len(lines) \in Nat /\ Position \in 0 .. Len(lines)
  BY InLog
<1>5. PICK file \in Seq(Nat), first \in Nat, size \in Nat, z \in Nat, p \in Nat :
        file = files[k] /\ first = FirstIn(k) /\ size = Len(file) /\ z = Len(lines) /\ p = Position
  BY <1>4
<1>6. /\ o < goal /\ goal <= size /\ first >= 1 /\ first + size - 1 <= z
      /\ \A i \in 1 .. size : file[i] = first + i - 1
      /\ lines[first].first
  BY <1>4, <1>5, <1>1, <1>2, <1>3 DEF FileFits
<1>7. o = 0 => p < first /\ Follows(k) BY <1>2, <1>3, <1>5 DEF Behind
<1>8. ASSUME o > 0
      PROVE  /\ p = first + o - 1 /\ c \in 1 .. o /\ lines[first + c - 1].first
             /\ \A i \in c + 1 .. o : ~lines[first + i - 1].first
             /\ \A i \in 1 .. o : first + i - 1 \in ToSet(seen)
 <2>1. /\ p = file[o] /\ c \in 1 .. o /\ lines[file[c]].first
       /\ \A i \in c + 1 .. o : ~lines[file[i]].first
       /\ \A i \in 1 .. o : file[i] \in ToSet(seen)
   BY <1>2, <1>3, <1>5, <1>8 DEF InFile
 <2>2. \A i \in 1 .. o : file[i] = first + i - 1 BY <1>6
 <2>3. \A i \in c + 1 .. o : i \in 1 .. o BY <2>1
 <2>4. o \in 1 .. o BY <1>8
 <2>5. p = first + o - 1 /\ c \in 1 .. o BY <2>1, <2>2, <2>4
 <2>6. lines[first + c - 1].first BY <2>1, <2>2
 <2>7. \A i \in c + 1 .. o : ~lines[first + i - 1].first BY <2>1, <2>2, <2>3
 <2>8. \A i \in 1 .. o : first + i - 1 \in ToSet(seen) BY <2>1, <2>2
 <2>9. QED BY <2>5, <2>6, <2>7, <2>8
<1>9. PICK start \in Nat : start = IF lines[first + o].first THEN o + 1 ELSE c OBVIOUS
<1>10. /\ start \in 1 .. o + 1 /\ lines[first + start - 1].first
       /\ \A n \in first + start .. first + o : ~lines[n].first
       /\ \A n \in first + start - 1 .. first + o - 1 : n \in ToSet(seen)
 <2>1. CASE lines[first + o].first BY <1>9, <2>1
 <2>2. CASE ~lines[first + o].first
  <3>1. start = c /\ o > 0 BY <1>6, <1>9, <2>2
  <3>2. ASSUME NEW n \in first + start .. first + o
        PROVE  ~lines[n].first
   <4>1. CASE n = first + o BY <2>2, <4>1
   <4>2. CASE n # first + o
    <5>1. n - first + 1 \in c + 1 .. o /\ first + (n - first + 1) - 1 = n BY <1>8, <3>1, <4>2
    <5>2. ~lines[first + (n - first + 1) - 1].first BY <1>8, <3>1, <5>1
    <5>3. QED BY <5>1, <5>2
   <4>3. QED BY <4>1, <4>2
  <3>3. ASSUME NEW n \in first + start - 1 .. first + o - 1
        PROVE  n \in ToSet(seen)
   <4>1. n - first + 1 \in 1 .. o /\ first + (n - first + 1) - 1 = n BY <1>8, <3>1
   <4>2. first + (n - first + 1) - 1 \in ToSet(seen) BY <1>8, <3>1, <4>1
   <4>3. QED BY <4>1, <4>2
  <3>4. QED BY <1>8, <3>1, <3>2, <3>3
 <2>3. QED BY <2>1, <2>2
<1>11. p < first + o /\ first + o <= z BY <1>6, <1>7, <1>8
<1>12. /\ file = HeldFile /\ first = HeldFirst /\ o = HeldOffset /\ goal = reader.goal /\ size = Len(HeldFile)
       /\ z = Len(lines) /\ p = Position /\ k = reader.cursor.file
  BY <1>3, <1>5 DEF HeldFile, HeldFirst, HeldOffset
<1>13. start = HeldStart BY <1>3, <1>9, <1>12 DEF HeldStart
<1>14. /\ HeldOffset > 0 => Position = HeldFirst + HeldOffset - 1 /\ InFile(reader.cursor)
       /\ HeldOffset = 0 =>
            /\ Follows(reader.cursor.file) /\ reader.cursor = Fresh(reader.cursor.file)
            /\ lines[HeldFirst].first
  BY <1>8, <1>12, <1>2, <1>6, <1>7 DEF HeldOffset
<1>15. /\ HeldOffset < reader.goal /\ reader.goal <= Len(HeldFile)
       /\ HeldFirst >= 1 /\ HeldFirst + HeldOffset <= Len(lines) /\ Position < HeldFirst + HeldOffset
       /\ \A i \in 1 .. Len(HeldFile) : HeldFile[i] = HeldFirst + i - 1
  BY <1>6, <1>11, <1>12, Zenon
<1>16. /\ HeldStart \in 1 .. HeldOffset + 1 /\ lines[HeldFirst + HeldStart - 1].first
       /\ \A n \in HeldFirst + HeldStart .. HeldFirst + HeldOffset : ~lines[n].first
       /\ \A n \in HeldFirst + HeldStart - 1 .. HeldFirst + HeldOffset - 1 : n \in ToSet(seen)
  BY <1>10, <1>12, <1>13, Zenon
<1>17. HeldFile \in Seq(Nat) /\ HeldFirst \in Nat /\ HeldOffset \in Nat /\ HeldStart \in Nat
  BY <1>12, <1>13
<1>18. QED BY <1>2, <1>14, <1>15, <1>16, <1>17, Zenon

LEMMA WantedIs ==
    /\ Requested = IF reader.grep THEN WantedOf(ToSet(seen)) ELSE ToSet(seen)
    /\ Requested' = IF reader'.grep THEN {k \in ToSet(seen') : \E m \in ToSet(seen') : lines'[m].hit /\ SameRecord(m, k)'}
                 ELSE ToSet(seen')
<1>1. Requested = IF reader.grep THEN WantedOf(ToSet(seen)) ELSE ToSet(seen)
  BY Zenon DEF Requested, WantedOf
<1>2. Requested' = IF reader'.grep THEN {k \in ToSet(seen') : \E m \in ToSet(seen') : lines'[m].hit /\ SameRecord(m, k)'}
                 ELSE ToSet(seen')
  BY Zenon DEF Requested
<1>3. QED BY <1>1, <1>2

\* A line that is read: what is asked for is written, once and in order.
LEMMA ReadsALine ==
    ASSUME Uncut, ReadLine
    PROVE  /\ Uncut'
           /\ seen # <<>> => Last(seen') = Last(seen) + 1 \/ reader.told \/ reader.blind
<1>1. PICK file \in Seq(Nat), first \in Nat, o \in Nat, start \in Nat, p \in Nat, n \in Nat, h \in Nat, z \in Nat,
        size \in Nat :
        /\ file = HeldFile /\ first = HeldFirst /\ o = HeldOffset /\ start = HeldStart /\ p = Position
        /\ n = first + o /\ h = first + start - 1 /\ z = Len(lines) /\ size = Len(file)
 <2>1. /\ HeldFile \in Seq(Nat) /\ HeldFirst \in Nat /\ HeldOffset \in Nat /\ HeldStart \in Nat
       /\ HeldStart >= 1
   BY LineIs
 <2>2. HeldFirst + HeldOffset \in Nat /\ HeldFirst + HeldStart - 1 \in Nat BY <2>1
 <2>3. Position \in Nat /\ Len(lines) \in Nat /\ Len(HeldFile) \in Nat BY <2>1, InLog
 <2>4. QED BY <2>1, <2>2, <2>3
<1>a. n = first + o /\ h = first + start - 1 BY <1>1
<1>2. /\ first >= 1 /\ n <= z /\ start \in 1 .. o + 1 /\ h \in 1 .. n /\ p < n /\ n \in 1 .. n
      /\ lines[h].first /\ (\A k \in h + 1 .. n : ~lines[k].first)
      /\ \A k \in h .. n - 1 : k \in ToSet(seen)
      /\ o > 0 => p = n - 1
  BY <1>1, LineIs
<1>3. /\ reader.cursor.file \in 1 .. Len(files) /\ file = files[reader.cursor.file] /\ o = reader.cursor.offset
      /\ o + 1 <= reader.goal /\ reader.goal <= size /\ reader.goal \in Nat
      /\ (\A i \in 1 .. size : file[i] = first + i - 1) /\ o + 1 <= size /\ file[o + 1] = n
      /\ o > 0 => InFile(reader.cursor)
      /\ o = 0 => Follows(reader.cursor.file) /\ reader.cursor = Fresh(reader.cursor.file) /\ lines[n].first
      /\ start = IF lines[n].first THEN o + 1 ELSE reader.cursor.start
 <2>1. /\ reader.cursor.file \in 1 .. Len(files) /\ file = files[reader.cursor.file] /\ o = reader.cursor.offset
       /\ o < reader.goal /\ reader.goal <= size /\ \A i \in 1 .. size : file[i] = first + i - 1
   BY <1>1, LineIs DEF HeldFile, HeldOffset
 <2>2. reader.goal \in Nat BY PlacesAre DEF Readers
 <2>3. o + 1 \in 1 .. size /\ o + 1 <= reader.goal /\ first + (o + 1) - 1 = n
  <3>1. PICK goal \in Nat : goal = reader.goal BY <2>2
  <3>2. o < goal /\ goal <= size BY <2>1, <3>1
  <3>3. o + 1 \in 1 .. size /\ o + 1 <= goal /\ first + (o + 1) - 1 = n BY <1>a, <3>2
  <3>4. QED BY <3>1, <3>3
 <2>4. file[o + 1] = n BY <2>1, <2>3
 <2>5. /\ o > 0 => InFile(reader.cursor)
       /\ o = 0 => Follows(reader.cursor.file) /\ reader.cursor = Fresh(reader.cursor.file) /\ lines[first].first
   BY <1>1, LineIs
 <2>6. o = 0 => first = n BY <1>1
 <2>7. start = IF lines[n].first THEN o + 1 ELSE reader.cursor.start BY <1>1, <2>1 DEF HeldStart
 <2>8. /\ o = 0 => Follows(reader.cursor.file) /\ reader.cursor = Fresh(reader.cursor.file) /\ lines[n].first
       /\ o + 1 <= size
   BY <2>3, <2>5, <2>6
 <2>9. QED BY <2>1, <2>2, <2>3, <2>4, <2>5, <2>7, <2>8, Zenon
<1>4. PICK open \in BOOLEAN, starts \in BOOLEAN :
        /\ open = (reader.cursor.matched /\ ~lines[n].first)
        /\ starts = (reader.grep /\ ~open /\ lines[n].hit)
  OBVIOUS
<1>5. PICK t : t = IF starts THEN SubSeq(file, start, o + 1) ELSE IF ~reader.grep \/ open THEN <<n>> ELSE <<>>
  OBVIOUS
<1>6. /\ seen' = Append(seen, n) /\ shown' = shown \o t
      /\ reader' = [reader EXCEPT !.told = FALSE, !.blind = FALSE, !.cursor =
                          [reader.cursor EXCEPT !.offset = o + 1, !.start = start, !.matched = open \/ starts,
                                    !.anchor = n]]
      /\ lines' = lines /\ files' = files /\ path' = path
 <2>1. ~(o + 1 > size) BY <1>3
 <2>2. /\ reader.cursor.offset + 1 = o + 1 /\ files[reader.cursor.file] = file /\ Len(file) = size
       /\ file[o + 1] = n
   BY <1>1, <1>3
 <2>3. lines' = lines /\ files' = files /\ path' = path BY DEF ReadLine, Bridge
 <2>4. QED BY <1>3, <1>4, <1>5, <2>1, <2>2, <2>3, Zenon DEF ReadLine
<1>7. /\ seen \in Seq(Nat) /\ shown \in Seq(Nat) /\ Increasing(seen) /\ Increasing(shown)
      /\ \A i \in 1 .. Len(seen) : seen[i] \in 1 .. p
      /\ \A i \in 1 .. Len(shown) : shown[i] \in 1 .. p
      /\ ToSet(shown) = Requested /\ (~reader.grep => shown = seen) /\ reader \in Readers
  BY <1>1, PlacesAre DEF Uncut, LogTypes, SeenFits
\* What was read.
<1>8. /\ seen' \in Seq(Nat) /\ Increasing(seen)' /\ ToSet(seen)' = ToSet(seen) \cup {n} /\ Position' = n
      /\ seen' # <<>> /\ Last(seen') = n /\ \A i \in 1 .. Len(seen') : seen'[i] \in 1 .. n
 <2>1. seen' = seen \o <<n>> BY <1>6, <1>7, AppendIsConcat
 <2>2. /\ <<n>> \in Seq(Nat) /\ Len(<<n>>) = 1 /\ <<n>>[1] = n /\ Increasing(<<n>>) /\ ToSet(<<n>>) = {n}
   BY OneLine
 <2>3. \A i \in 1 .. Len(seen), j \in 1 .. Len(<<n>>) : seen[i] < <<n>>[j] BY <1>2, <1>7, <2>2
 <2> DEFINE one == <<n>>
 <2> HIDE DEF one
 <2>a. Increasing(seen \o one) BY <2>2, <2>3, <1>7, IncreasingOn DEF one
 <2>b. ToSet(seen \o one) = ToSet(seen) \cup {n}
  <3>1. one \in Seq(Nat) /\ ToSet(one) = {n} BY <2>2 DEF one
  <3>2. ToSet(seen \o one) = ToSet(seen) \cup ToSet(one) BY <1>7, <3>1, SetOfBoth
  <3>3. QED BY <3>1, <3>2
 <2>4. Increasing(seen \o <<n>>) /\ ToSet(seen \o <<n>>) = ToSet(seen) \cup {n}
   BY <2>a, <2>b DEF one
 <2>5. Increasing(seen)' /\ ToSet(seen)' = ToSet(seen) \cup {n} BY <2>1, <2>4
 <2>6. /\ seen' \in Seq(Nat) /\ Len(seen') = Len(seen) + 1 /\ seen'[Len(seen) + 1] = n
       /\ \A i \in 1 .. Len(seen) : seen'[i] = seen[i]
   BY <1>6, <1>7, OneMore
 <2>7. seen' # <<>> /\ Last(seen') = n BY <1>7, <2>6 DEF Last
 <2>8. \A i \in 1 .. Len(seen') : seen'[i] \in 1 .. n
  <3>1. \A i \in 1 .. Len(seen) : seen'[i] \in 1 .. n
   <4> TAKE i \in 1 .. Len(seen)
   <4>1. seen'[i] = seen[i] /\ seen[i] \in 1 .. p BY <1>7, <2>6
   <4>2. QED BY <1>2, <4>1
  <3>2. Len(seen) \in Nat BY <1>7
  <3>3. QED BY <1>2, <2>6, <3>1, <3>2
 <2>9. Position' = n BY <2>7 DEF Position
 <2>10. QED BY <2>5, <2>6, <2>7, <2>8, <2>9
\* The hits of the record.
<1>9. open <=> reader.grep /\ \E m \in h .. n - 1 : lines[m].hit
 <2>1. CASE lines[n].first
  <3>1. start = o + 1 /\ h = n BY <1>1, <1>3, <2>1
  <3>2. ~ \E m \in h .. n - 1 : TRUE BY <3>1
  <3>3. QED BY <1>4, <2>1, <3>2
 <2>2. CASE ~lines[n].first
  <3>1. o > 0 /\ start = reader.cursor.start BY <1>3, <2>2, SMTT(20)
  <3>2. reader.cursor.matched <=> reader.grep /\ \E i \in start .. o : lines[file[i]].hit
    BY <1>3, <3>1 DEF InFile
  <3>3. ASSUME NEW i \in start .. o
        PROVE  file[i] \in h .. n - 1
   <4>1. i \in 1 .. size
    <5>1. o <= size /\ start >= 1 BY <1>2, <1>3
    <5>2. QED BY <5>1
   <4>2. file[i] = first + i - 1 BY <1>3, <4>1
   <4>3. QED BY <1>a, <4>2
  <3>4. ASSUME NEW m \in h .. n - 1
        PROVE  m - first + 1 \in start .. o /\ file[m - first + 1] = m
   <4>1. m - first + 1 \in start .. o /\ m - first + 1 \in 1 .. size
    <5>1. o <= size /\ start >= 1 BY <1>2, <1>3
    <5>2. QED BY <1>a, <5>1
   <4>2. file[m - first + 1] = first + (m - first + 1) - 1 BY <1>3, <4>1
   <4>3. QED BY <4>1, <4>2
  <3>5. (\E i \in start .. o : lines[file[i]].hit) <=> \E m \in h .. n - 1 : lines[m].hit
    BY <3>3, <3>4
  <3>6. QED BY <1>4, <2>2, <3>2, <3>5
 <2>3. QED BY <2>1, <2>2
<1>10. (open \/ starts) <=> reader.grep /\ \E m \in h .. n : lines[m].hit
 <2>1. n \in h .. n /\ \A m \in h .. n : m = n \/ m \in h .. n - 1 BY <1>2
 <2>2. \A m \in h .. n - 1 : m \in h .. n BY <1>2
 <2>3. QED BY <1>4, <1>9, <2>1, <2>2
\* What was written before.
<1>11. reader.grep /\ ~open => \A i \in 1 .. Len(shown) : shown[i] < h
 <2>1. CASE lines[n].first
  <3>1. h = n BY <1>1, <1>3, <2>1
  <3>2. QED BY <1>2, <1>7, <3>1
 <2>2. CASE ~lines[n].first
  <3>1. o > 0 /\ start = reader.cursor.start BY <1>3, <2>2, SMTT(20)
  <3>2. reader.grep /\ ~open => \A i \in 1 .. Len(shown) : shown[i] < file[start]
    BY <1>4, <2>2, PlacesAre, <1>3, <3>1 DEF Cursors, InFile
  <3>3. file[start] = h
   <4>1. start \in 1 .. size BY <1>2, <1>3, SMTT(20)
   <4>2. QED BY <1>1, <1>3, <4>1
  <3>4. QED BY <3>2, <3>3
 <2>3. QED BY <2>1, <2>2
\* What is asked for now.
<1>12. /\ reader'.grep = reader.grep /\ reader' \in Readers /\ reader'.told = FALSE /\ reader'.blind = FALSE
       /\ reader'.at = reader.at /\ reader'.then = reader.then /\ reader'.goal = reader.goal
       /\ reader'.last = reader.last /\ reader'.current = reader.current /\ reader'.archive = reader.archive
       /\ reader'.cursor.file = reader.cursor.file /\ reader'.cursor.offset = o + 1
       /\ reader'.cursor.start = start /\ reader'.cursor.anchor = n /\ reader'.cursor.matched = (open \/ starts)
 <2>1. reader.cursor \in Cursors /\ (open \/ starts) \in BOOLEAN BY PlacesAre
 <2>a. PICK hit \in BOOLEAN, b \in Nat : hit = (open \/ starts) /\ b = o + 1 BY <2>1
 <2>2. PICK c : c = [reader.cursor EXCEPT !.offset = b, !.start = start, !.matched = hit, !.anchor = n]
   OBVIOUS
 <2>3. /\ c \in Cursors /\ c.file = reader.cursor.file /\ c.offset = o + 1 /\ c.start = start /\ c.anchor = n
       /\ c.matched = (open \/ starts)
   BY <2>1, <2>2, <2>a DEF Cursors
 <2>4. reader' = [reader EXCEPT !.told = FALSE, !.blind = FALSE, !.cursor = c]
   BY <1>6, <2>a, <2>2, Zenon
 <2>5. QED BY <1>7, <2>3, <2>4 DEF Readers
<1>13. /\ ToSet(seen) \in SUBSET (1 .. n) /\ n \notin ToSet(seen) /\ h .. n - 1 \subseteq ToSet(seen)
       /\ ToSet(shown) \in SUBSET (1 .. n)
 <2>1. DOMAIN seen = 1 .. Len(seen) /\ DOMAIN shown = 1 .. Len(shown) BY <1>7
 <2>2. \A x \in ToSet(seen) : x \in 1 .. p BY <1>7, <2>1 DEF ToSet
 <2>3. \A x \in ToSet(shown) : x \in 1 .. p BY <1>7, <2>1 DEF ToSet
 <2>4. \A x \in 1 .. p : x \in 1 .. n /\ x # n BY <1>2
 <2>5. QED BY <1>2, <2>2, <2>3, <2>4
<1>14. /\ reader.grep => Requested' = WantedOf(ToSet(seen) \cup {n}) /\ ToSet(shown) = WantedOf(ToSet(seen))
       /\ ~reader.grep => Requested' = ToSet(seen) \cup {n} /\ ToSet(shown) = ToSet(seen)
  BY <1>6, <1>8, <1>12, <1>7, WantedIs DEF SameRecord, Requested, WantedOf
\* What is written now.
<1>15. /\ t \in Seq(Nat) /\ Increasing(t) /\ (\A i \in 1 .. Len(t) : t[i] \in 1 .. n)
       /\ \A i \in 1 .. Len(shown), j \in 1 .. Len(t) : shown[i] < t[j]
       /\ Requested' = ToSet(shown) \cup ToSet(t)
       /\ ~reader.grep => t = <<n>>
 <2>1. CASE starts
  <3>1. t = SubSeq(file, start, o + 1) /\ reader.grep /\ ~open /\ lines[n].hit BY <1>4, <1>5, <2>1
  <3>2. /\ t \in Seq(Nat) /\ Len(t) = (o + 1) - start + 1
        /\ \A i \in 1 .. (o + 1) - start + 1 : t[i] = (first + start - 1) + i - 1
        /\ Increasing(t) /\ ToSet(t) = first + start - 1 .. first + (o + 1) - 1
   <4>2. PICK b \in Nat : b = o + 1 OBVIOUS
   <4>1. 1 <= start /\ start <= b /\ b <= size /\ Len(file) = size
    <5>1. 1 <= start /\ start <= b BY <1>2, <4>2
    <5>2. b <= size /\ Len(file) = size BY <1>1, <1>3, <4>2
    <5>3. QED BY <5>1, <5>2
   <4>3. b <= Len(file) /\ Contiguous(file, first) /\ t = SubSeq(file, start, b)
     BY <1>3, <3>1, <4>1, <4>2 DEF Contiguous
   <4>4. /\ t \in Seq(Nat) /\ Len(t) = b - start + 1 /\ \A i \in 1 .. b - start + 1 : t[i] = (first + start - 1) + i - 1
         /\ Increasing(t) /\ ToSet(t) = first + start - 1 .. first + b - 1
    <5>1. StretchOf(t, file, first, start, b) BY <4>1, <4>3 DEF StretchOf
    <5>2. QED BY <5>1, Stretch
   <4>5. QED BY <4>2, <4>4, Zenon
  <3>3. ToSet(t) = h .. n BY <1>a, <3>2
  <3>4. \A i \in 1 .. Len(t) : t[i] \in 1 .. n /\ t[i] >= h
   <4> TAKE i \in 1 .. Len(t)
   <4>1. i \in 1 .. (o + 1) - start + 1 /\ t[i] = h + i - 1 BY <1>a, <1>2, <3>2
   <4>2. QED BY <1>a, <1>2, <4>1
  <3>5. ASSUME NEW i \in 1 .. Len(shown), NEW j \in 1 .. Len(t)
        PROVE  shown[i] < t[j]
   <4>1. shown[i] < h /\ shown[i] \in Nat BY <1>7, <1>11, <3>1
   <4>2. t[j] >= h /\ t[j] \in Nat BY <3>4
   <4>3. QED BY <4>1, <4>2
  <3>6. \E m \in h .. n : lines[m].hit BY <1>2, <3>1
  <3>7. Requested' = ToSet(shown) \cup (h .. n) BY <1>2, <1>13, <1>14, <3>1, <3>6, WantedGrows
  <3>8. QED BY <3>1, <3>2, <3>3, <3>4, <3>5, <3>7
 <2>2. CASE ~starts /\ (~reader.grep \/ open)
  <3>1. t = <<n>> BY <1>5, <2>2
  <3>2. t \in Seq(Nat) /\ Len(t) = 1 /\ t[1] = n /\ Increasing(t) /\ ToSet(t) = {n}
    BY <3>1, OneLine
  <3>3. ASSUME NEW i \in 1 .. Len(shown), NEW j \in 1 .. Len(t)
        PROVE  shown[i] < t[j]
    BY <1>7, <3>2, <1>2
  <3>4. Requested' = ToSet(shown) \cup {n}
   <4>1. CASE ~reader.grep BY <1>14, <4>1
   <4>2. CASE reader.grep BY <1>9, <2>2, <4>2, <1>2, <1>13, <1>14, WantedGrows
   <4>3. QED BY <4>1, <4>2
  <3>5. \A i \in 1 .. Len(t) : t[i] \in 1 .. n BY <1>2, <3>2
  <3>6. QED BY <3>1, <3>2, <3>3, <3>4, <3>5
 <2>3. CASE ~starts /\ reader.grep /\ ~open
  <3>1. t = <<>> BY <1>5, <2>3
  <3>2. t \in Seq(Nat) /\ Len(t) = 0 /\ DOMAIN t = {} BY <3>1
  <3>3. Increasing(t) /\ ToSet(t) = {} /\ \A i \in 1 .. Len(t) : FALSE
    BY <3>2 DEF Increasing, ToSet
  <3>4. ~ \E m \in h .. n : lines[m].hit BY <1>10, <2>3
  <3>5. Requested' = ToSet(shown)
   <4>1. WantedOf(ToSet(seen) \cup {n}) = WantedOf(ToSet(seen))
     BY <1>2, <1>13, <3>4, WantedGrows, ZenonT(60)
   <4>2. QED BY <1>14, <2>3, <4>1
  <3>6. QED BY <2>3, <3>2, <3>3, <3>5
 <2>4. QED BY <2>1, <2>2, <2>3
<1>16. SeenFits'
 <2>1. Increasing(shown \o t) /\ ToSet(shown \o t) = ToSet(shown) \cup ToSet(t)
   BY <1>7, <1>15, IncreasingOn, SetOfBoth
 <2>2. Increasing(shown)' /\ ToSet(shown)' = Requested' BY <1>6, <1>15, <2>1
 <2>3. \A i \in 1 .. Len(shown') : shown'[i] \in 1 .. n
  <3>1. /\ shown \o t \in Seq(Nat) /\ Len(shown \o t) = Len(shown) + Len(t) BY <1>7, <1>15
  <3>2. ToSet(shown \o t) \subseteq 1 .. n BY <1>15, <1>13, <2>1 DEF ToSet
  <3>3. \A i \in 1 .. Len(shown \o t) : (shown \o t)[i] \in ToSet(shown \o t)
   <4>1. PICK u \in Seq(Nat) : u = shown \o t BY <3>1
   <4>2. \A i \in 1 .. Len(u) : u[i] \in ToSet(u) BY DEF ToSet
   <4>3. QED BY <4>1, <4>2
  <3>4. QED BY <1>6, <3>2, <3>3
 <2>4. ~reader'.grep => shown' = seen'
  <3>1. ~reader.grep => shown' = seen \o <<n>> BY <1>6, <1>7, <1>15
  <3>2. seen' = seen \o <<n>> BY <1>6, <1>7, AppendIsConcat
  <3>3. QED BY <1>12, <3>1, <3>2
 <2>5. Position' <= Len(lines') BY <1>1, <1>2, <1>6, <1>8
 <2>6. QED BY <1>8, <2>2, <2>3, <2>4, <2>5 DEF SeenFits
\* Where the reader is now.
<1>17. InFile(reader.cursor)'
 <2>1. reader.grep /\ ~(open \/ starts) => \A i \in 1 .. Len(shown') : shown'[i] < h
  <3>1. ASSUME reader.grep, ~open, ~starts
        PROVE  shown' = shown
   <4>1. t = <<>> BY <1>5, <3>1
   <4>2. QED BY <1>6, <1>7, <4>1
  <3>2. QED BY <1>11, <3>1
 <2>2. \A i \in 1 .. o + 1 : i \in 1 .. size /\ file[i] = first + i - 1
  <3>1. \A i \in 1 .. o + 1 : i \in 1 .. size BY <1>3
  <3>2. QED BY <1>3, <3>1
 <2>3. file[start] = h /\ file[o + 1] = n
  <3>1. start \in 1 .. o + 1 /\ o + 1 \in 1 .. o + 1 BY <1>2
  <3>2. file[start] = first + start - 1 /\ file[o + 1] = first + (o + 1) - 1 BY <2>2, <3>1
  <3>3. QED BY <1>a, <3>2
 <2>4. ASSUME NEW i \in start + 1 .. o + 1
       PROVE  ~lines[file[i]].first
   BY <1>2, <1>a, <2>2
 <2>5. ASSUME NEW i \in 1 .. o + 1
       PROVE  file[i] \in ToSet(seen) \cup {n}
  <3>1. CASE i = o + 1 BY <2>3, <3>1
  <3>2. CASE i # o + 1
   <4>1. i \in 1 .. o /\ o > 0 BY <3>2
   <4>2. QED BY <1>3, <4>1 DEF InFile
  <3>3. QED BY <3>1, <3>2
 <2>6. (open \/ starts) <=> reader.grep /\ \E i \in start .. o + 1 : lines[file[i]].hit
  <3>1. ASSUME NEW i \in start .. o + 1
        PROVE  file[i] \in h .. n
    BY <1>2, <2>2, <1>a
  <3>2. ASSUME NEW m \in h .. n
        PROVE  m - first + 1 \in start .. o + 1 /\ file[m - first + 1] = m
    BY <1>a, <1>2, <2>2
  <3>3. QED BY <1>10, <3>1, <3>2
 <2>7. /\ n = file[o + 1] /\ Position' = n /\ start \in 1 .. o + 1 /\ lines[file[start]].first
       /\ \A i \in start + 1 .. o + 1 : ~lines[file[i]].first
       /\ \A i \in 1 .. o + 1 : file[i] \in ToSet(seen')
       /\ reader.grep /\ ~(open \/ starts) => \A i \in 1 .. Len(shown') : shown'[i] < file[start]
   BY <1>2, <1>8, <2>1, <2>3, <2>4, <2>5
 <2>8. QED BY <1>3, <1>6, <1>12, <2>6, <2>7, Zenon DEF InFile
<1>18. CursorFits(reader.cursor)'
 <2>1. /\ reader.cursor.file \in 1 .. Len(files) /\ reader.last < reader.cursor.file /\ reader.cursor.file # NoFile
   BY <1>3, PlacesAre, SMTT(20) DEF NoFile
 <2>2. o + 1 \in 0 .. Len(files[reader.cursor.file]) /\ o + 1 > 0 BY <1>3, <1>1
 <2>3. ~(o + 1 = 0) BY <2>2
 <2>4. QED BY <1>6, <1>12, <1>17, <2>1, <2>2, <2>3, Zenon DEF CursorFits
<1>19. OpenFit' /\ PlaceFits' /\ GoneFits'
 <2>1. reader.cursor.file # NoFile /\ reader.at = "drain" BY <1>3 DEF NoFile, ReadLine
 <2>2. OpenFit' BY <1>6, <1>12, <2>1, PlacesAre DEF OpenFit
 <2>3. PlaceFits' BY <1>3, <1>6, <1>12, <2>1, PlacesAre DEF PlaceFits
 <2>4. GoneFits' BY <1>12, <2>1 DEF GoneFits
 <2>5. QED BY <2>2, <2>3, <2>4
<1>20. LogTypes' /\ NamesFit' /\ FilesFit'
 <2>1. shown' \in Seq(Nat) BY <1>6, <1>7, <1>15
 <2>2. LogTypes' BY <1>6, <1>8, <1>12, <2>1 DEF Uncut, LogTypes
 <2>3. NamesFit' /\ FilesFit' BY <1>6 DEF Uncut, NamesFit, FilesFit, FileFits, FirstIn, LastIn
 <2>4. QED BY <2>2, <2>3
\* Without a notice, the next line.
<1>21. seen # <<>> => Last(seen') = Last(seen) + 1 \/ reader.told \/ reader.blind
 <2>1. seen # <<>> => Last(seen) = p BY <1>1 DEF Position
 <2>2. CASE o > 0 BY <1>2, <1>8, <2>1, <2>2
 <2>3. CASE o = 0
  <3>1. Follows(reader.cursor.file) /\ first = FirstIn(reader.cursor.file) /\ n = first
    BY <1>a, <1>1, <1>3, <2>3 DEF HeldFirst
  <3>2. Excused \/ p = n - 1 BY <1>1, <3>1 DEF Follows
  <3>3. QED BY <1>8, <2>1, <3>2 DEF Excused
 <2>4. QED BY <2>2, <2>3
<1>22. QED BY <1>16, <1>18, <1>19, <1>20, <1>21 DEF Uncut

-----------------------------------------------------------------------------
(* All steps. *)

\* What a step does to the log book, and whether somebody truncates.
LoggedSo == logged' \in [events : Nat, cut : BOOLEAN] /\ (logged.cut => logged'.cut)

LEMMA LogInitFits ==
    ASSUME LogInit
    PROVE  LogInv
<1>1. /\ lines = <<>> /\ files = <<>> /\ seen = <<>> /\ shown = <<>>
      /\ path = [current |-> NoFile, archive |-> NoFile] /\ logged = [events |-> 0, cut |-> FALSE]
  BY DEF LogInit
<1>2. PICK f \in BOOLEAN, g \in BOOLEAN :
        reader = [at |-> "current", follow |-> f, grep |-> g, current |-> NoFile,
                    archive |-> NoFile, cursor |-> NoCursor, goal |-> 0, then |-> "none",
                    last |-> NoFile, told |-> FALSE, blind |-> FALSE]
  BY DEF LogInit
<1>3. /\ reader.at = "current" /\ reader.grep = g /\ reader.current = NoFile /\ reader.archive = NoFile
      /\ reader.cursor = NoCursor /\ reader.last = NoFile
  BY <1>2
<1>4. NoCursor \in Cursors /\ NoCursor.file = NoFile /\ NoFile = 0
  BY DEF NoCursor, Fresh, Cursors, NoFile
<1>5. reader \in Readers BY <1>2, <1>4 DEF Readers
<1>6. LogTypes BY <1>1, <1>4, <1>5 DEF LogTypes
<1>7. NamesFit BY <1>1, <1>4 DEF NamesFit
<1>8. FilesFit BY <1>1 DEF FilesFit
<1>9. SeenFits BY <1>1 DEF Position, ToSet, Requested, Increasing, SeenFits
<1>10. CursorFits(reader.cursor) BY <1>3, <1>4 DEF CursorFits
<1>11. OpenFit BY <1>1, <1>3, <1>4 DEF OpenFit
<1>12. PlaceFits BY <1>3 DEF PlaceFits
<1>13. GoneFits BY <1>1, <1>3, <1>4 DEF GoneFits, ReadUpToLast, Excused
<1> QED BY <1>1, <1>6, <1>7, <1>8, <1>9, <1>10, <1>11, <1>12, <1>13 DEF LogInv, Uncut

LEMMA LogBook ==
    ASSUME logged \in [events : Nat, cut : BOOLEAN], [LogNext]_logVars
    PROVE  LoggedSo
<1>1. PICK e \in Nat, c \in BOOLEAN : logged = [events |-> e, cut |-> c] OBVIOUS
<1>2. CASE logged' = [logged EXCEPT !.events = @ + 1] BY <1>1, <1>2 DEF LoggedSo
<1>3. CASE logged' = [events |-> logged.events + 1, cut |-> TRUE] BY <1>1, <1>3 DEF LoggedSo
<1>4. CASE logged' = logged BY <1>1, <1>4 DEF LoggedSo
<1>5. CASE UNCHANGED logVars BY <1>4, <1>5 DEF logVars
<1>6. CASE Roll BY <1>4, <1>6 DEF Roll
<1>7. CASE BridgeRestarts BY <1>2, <1>7 DEF BridgeRestarts
<1>8. CASE Cut BY <1>3, <1>8 DEF Cut
<1>9. ASSUME NEW hits \in Records, AppendRecord(hits) PROVE LoggedSo BY <1>2, <1>9 DEF AppendRecord
<1>10. CASE Reads \/ StopReading
  BY <1>4, <1>10 DEF Reads, StopReading, OpenCurrent, OpenArchive, CheckNames, ReadLine, DrainOver, Resume,
    Turn, Archived, NextFile, Rest, Wakes, Quietly, Bridge
<1> QED BY <1>5, <1>6, <1>7, <1>8, <1>9, <1>10 DEF LogNext

\* A step while nobody has truncated.
LEMMA UncutStays ==
    ASSUME Uncut, [LogNext]_logVars, ~Cut
    PROVE  Uncut'
<1>1. CASE UNCHANGED logVars BY <1>1, LogRestarts DEF logVars
<1>2. CASE BridgeRestarts BY <1>2, LogRestarts DEF BridgeRestarts, ReaderOut
<1>3. CASE Roll BY <1>3, LogRolls
<1>4. ASSUME NEW hits \in Records, AppendRecord(hits) PROVE Uncut' BY <1>4, LogRecords
<1>5. CASE StopReading BY <1>5, Stops
<1>6. CASE OpenCurrent BY <1>6, OpensCurrent
<1>7. CASE OpenArchive BY <1>7, OpensArchive
<1>8. CASE CheckNames BY <1>8, ChecksNames
<1>9. CASE ReadLine BY <1>9, ReadsALine
<1>10. CASE DrainOver BY <1>10, DrainEnds
<1>11. CASE Resume BY <1>11, Resumes
<1>12. CASE Turn BY <1>12, Turns
<1>13. CASE Archived BY <1>13, ArchiveDone
<1>14. CASE NextFile BY <1>14, GoesOn
<1>15. CASE Rest BY <1>15, Rests
<1>16. CASE Wakes BY <1>16, WakesUp
<1> QED
  BY <1>1, <1>2, <1>3, <1>4, <1>5, <1>6, <1>7, <1>8, <1>9, <1>10, <1>11, <1>12, <1>13, <1>14, <1>15, <1>16
    DEF LogNext, Reads

LEMMA LogStep ==
    ASSUME LogInv, [LogNext]_logVars
    PROVE  LogInv'
<1>1. LoggedSo BY LogBook DEF LogInv
<1>2. ASSUME ~logged'.cut PROVE Uncut'
 <2>1. Uncut BY <1>1, <1>2 DEF LogInv, LoggedSo
 <2>2. ~Cut
  <3>1. SUFFICES ASSUME Cut PROVE FALSE OBVIOUS
  <3>2. logged' = [events |-> logged.events + 1, cut |-> TRUE] BY <3>1 DEF Cut
  <3> QED BY <1>2, <3>2
 <2> QED BY <2>1, <2>2, UncutStays
<1> QED BY <1>1, <1>2 DEF LogInv, LoggedSo

\* However many records are logged, whenever the file is rolled and the bridge
\* restarts, and until somebody else truncates it (appendLog, LogReader): the
\* files hold every line in order and no record in two of them, what the reader
\* has read and written is what was asked for, its cursor knows where the record
\* began and whether it has had a hit, and what it may read next without a notice
\* is the line after the last.
THEOREM LogInvariance == LogSpec => []LogInv
<1>1. LogInit => LogInv BY LogInitFits
<1>2. LogInv /\ [LogNext]_logVars => LogInv' BY LogStep
<1> QED BY <1>1, <1>2, PTL DEF LogSpec

LEMMA WritesWhatIsWanted ==
    ASSUME LogInv'
    PROVE  WritesEachOnce'
<1>1. ~logged'.cut => SeenFits' BY DEF LogInv, Uncut
<1>2. SeenFits' => Increasing(seen)' /\ Increasing(shown)' /\ (ToSet(shown) = Requested)'
  BY DEF SeenFits
<1> QED BY <1>1, <1>2, Zenon DEF WritesEachOnce, Requested

LEMMA GapsAreTold ==
    ASSUME LogInv, [LogNext]_logVars
    PROVE  NoSilentGap
<1>1. CASE ReadLine BY <1>1, ReadsALine DEF LogInv, NoSilentGap
<1>2. CASE seen' = seen BY <1>2 DEF NoSilentGap
<1>3. CASE UNCHANGED logVars BY <1>2, <1>3 DEF logVars
<1>4. CASE Roll \/ BridgeRestarts \/ Cut BY <1>2, <1>4 DEF Roll, BridgeRestarts, Cut, ReaderOut
<1>5. ASSUME NEW hits \in Records, AppendRecord(hits) PROVE NoSilentGap
  BY <1>2, <1>5 DEF AppendRecord, ReaderOut
<1>6. CASE StopReading \/ OpenCurrent \/ OpenArchive \/ CheckNames \/ DrainOver \/ Resume \/ Turn \/ Archived
           \/ NextFile \/ Rest \/ Wakes
  BY <1>2, <1>6 DEF StopReading, OpenCurrent, OpenArchive, CheckNames, DrainOver, Resume, Turn,
    Archived, NextFile, Rest, Wakes, Quietly
<1> QED BY <1>1, <1>3, <1>4, <1>5, <1>6 DEF LogNext, Reads

\* A command that reads or follows the log writes what was asked for of what it
\* has read, once and in order, however the bridge appends, rolls and restarts
\* between its steps, and leaves no line out without a notice, unless it has
\* waited with no file of its own (LogReader: snapshot, drain, line, run).
THEOREM LogIsRead == LogSpec => LogRead
<1>1. LogInv /\ LogInv' /\ [LogNext]_logVars => WritesEachOnce' /\ NoSilentGap
  BY WritesWhatIsWanted, GapsAreTold
<1>2. LogInv /\ LogInv' /\ [LogNext]_logVars => [WritesEachOnce' /\ NoSilentGap]_logVars BY <1>1
<1> QED BY <1>2, LogInvariance, PTL DEF LogSpec, LogRead
=============================================================================

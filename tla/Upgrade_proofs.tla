---------------------------- MODULE Upgrade_proofs ----------------------------
(***************************************************************************)
(* Proofs about the upgrades.  Of a managed instance (ManagedUpgrade),     *)
(* for any number of generations, faults, edits and stops, and so for any  *)
(* number of recoveries: the old version never comes back over a new one   *)
(* that has served or may still come up, nobody serves between the stop    *)
(* and the admission, and what is settled is open and selected as it says. *)
(* Of an installation of version 1.3 (LegacyUpgrade), for any number of    *)
(* births, faults and changes by others: one version serves at a time, and *)
(* at the end the one that the journal names, with all that belongs to it. *)
(* Of the service of another account (TaskTransaction), for any number of  *)
(* operations, faults and changes by others: the task is as its journals   *)
(* say, and no backend is stopped, admitted or left but with the task that *)
(* belongs to it.                                                          *)
(***************************************************************************)
EXTENDS ManagedUpgrade, LegacyUpgrade, TaskTransaction, SequenceTheorems, TLAPS

-----------------------------------------------------------------------------
(* The invariant. *)

Generations ==
    [at : {"begun", "hashing", "read", "spawned", "up", "ready", "gone"}, pending : BOOLEAN,
     token : Nat, seen : Versions \cup {None}, version : Versions \cup {None},
     held : BOOLEAN, drained : BOOLEAN, stopping : {None, "hold", "tied", "quiet"},
     launcher : BOOLEAN, farewell : BOOLEAN, traffic : BOOLEAN, served : BOOLEAN]

Proofs(gs) == [kind : {"managed", "startup"}, g : DOMAIN gs, tied : BOOLEAN] \cup {None}
Holds(gs) == [g : DOMAIN gs, stopped : BOOLEAN, tied : BOOLEAN] \cup {None}
Shutdowns ==
    [version : Versions \cup {None}, tied : BOOLEAN, expected : Nat \cup {None}, sent : BOOLEAN]
Counters ==
    {"off", "prepared", "quiesce", "drained", "resume", "stop", "rollback", "activate",
     "select", "chosen", "intent", "start", "wait", "cleanup", "inspect", "admit", "commit"}
Journals(gs) ==
    [phase : Phases \cup {None}, authority : Nat, token : Nat,
     stopId : DOMAIN gs \cup {None}, proof : Proofs(gs)]
Upgraders(gs) ==
    [pc : Counters, run : {None, "execute", "recover"}, g : DOMAIN gs \cup {None},
     proof : Proofs(gs), stop : Shutdowns \cup {None}]

Types ==
    /\ gens \in Seq(Generations) /\ record \in DOMAIN gens
    /\ journal \in Journals(gens) /\ up \in Upgraders(gens)
    /\ active \in Versions /\ admission \in BOOLEAN
    /\ hold \in Holds(gens) /\ config \in Nat

\* Where the upgrader may be, for what the journal says.
InPlace ==
    /\ up.pc = "prepared" => journal.phase = "prepared"
    /\ up.pc \in {"quiesce", "drained"} => journal.phase = "quiescing"
    /\ up.pc = "resume" => journal.phase \in {"prepared", "quiescing"}
    /\ up.pc = "stop" =>
         journal.phase \in {"stopping"} \cup BeforeLaunch \cup LaunchIntent \cup RollbackBeforeLaunch
    /\ up.pc = "rollback" =>
         journal.phase \in BeforeLaunch \cup LaunchIntent \cup RollbackBeforeLaunch
    /\ up.pc = "activate" => journal.phase = "stopped"
    /\ up.pc \in {"select", "chosen"} => journal.phase \in {"selecting", "rollback-selecting"}
    /\ up.pc = "intent" => journal.phase \in {"selected", "rollback-selected"}
    /\ up.pc \in {"start", "wait", "cleanup", "inspect"} => journal.phase \in LaunchIntent
    /\ up.pc \in {"admit", "commit"} => journal.phase \in {"admitting", "admitting-rollback"}

UntouchedPhases == {None, "prepared", "quiescing", "stopping", "stopped", "aborted"}
Forward == {"selected", "launching", "admitting", "committed"}
Backward == {"rollback-selected", "rollback-launching", "admitting-rollback", "rolled-back"}
Early == {None, "prepared", "quiescing", "stopping"} \cup BeforeLaunch
Sealed == {"stopping"} \cup BeforeLaunch \cup LaunchIntent \cup RollbackBeforeLaunch

\* What is selected, and whose launch it is.
Selected ==
    /\ up.pc = "chosen" => active = IF Rolling THEN "old" ELSE "new"
    /\ journal.phase \in UntouchedPhases \cup Backward => active = "old"
    /\ journal.phase \in Forward => active = "new"
    /\ journal.phase \in Early \cup {"launching"} => journal.phase = None \/ journal.token = 1

\* The generations.  Until the launch nothing new was started, and nothing new
\* was seen before the upgrade; then one generation at most, known by its
\* token, and it does not serve.
Unseen == \A g \in DOMAIN gens : gens[g].seen # "new"
NothingNew == \A g \in DOMAIN gens : gens[g].token = 0 /\ gens[g].version # "new"
OneNew ==
    /\ \A g \in DOMAIN gens : gens[g].token \in {0, 1}
    /\ \A g \in DOMAIN gens : gens[g].version = "new" => gens[g].token = 1
    /\ \A g \in DOMAIN gens : gens[g].token = 1 => ~gens[g].served
    /\ \A g, h \in DOMAIN gens : gens[g].token = 1 /\ gens[h].token = 1 => g = h
\* In the rollback what the upgrade has launched is gone; what the rollback
\* launches has seen the old selection; and until it is settled the journal lets
\* nobody in who has seen the new one.
NewGone ==
    \A g \in DOMAIN gens :
        gens[g].version = "new" \/ gens[g].token = 1 => Gone(g) /\ ~gens[g].served
Retired == \A g \in DOMAIN gens : gens[g].token = 1 => Gone(g) /\ ~gens[g].served
NewLate ==
    \A g \in DOMAIN gens :
        /\ gens[g].version = "new" => gens[g].token = 0 \/ (Gone(g) /\ ~gens[g].served)
        /\ gens[g].token \notin {0, 1} => gens[g].seen # "new" /\ active = "old"
Said == \A g \in DOMAIN gens : gens[g].farewell => Gone(g)
\* One supervisor listens, and the record is its own.
Alone == \A g \in DOMAIN gens : Up(g) => g = record

Rollbacks == RollbackBeforeLaunch \cup {"rollback-launching", "admitting-rollback"}
News ==
    /\ journal.phase = None => Unseen
    /\ journal.phase \in Early => NothingNew
    /\ up.pc = "start" /\ journal.phase = "launching" => NothingNew
    /\ journal.phase = "launching" => OneNew
    /\ journal.phase \in RollbackPhases => journal.token # 0 /\ Retired /\ NewLate
    /\ journal.phase = "rollback-launching" => journal.token # 1
    /\ journal.phase \in Rollbacks => NewGone

\* Nobody is admitted, and no bridge that begins will be.
Shut == admission /\ \A g \in DOMAIN gens : Up(g) => gens[g].held

Gate ==
    /\ journal.phase \in Sealed \/ up.pc = "drained" => Shut
    /\ journal.phase \in Terminal \/ up.pc = "commit" => ~admission

\* What is known of a generation by its receipt, its farewell or its answers.
Receipts == hold # None /\ hold.stopped => Gone(hold.g)
Starting == {"begun", "hashing"}
AskedFits ==
    up.pc = "stop" =>
        /\ up.stop \in Shutdowns
        /\ journal.phase = "launching" => up.stop.version = "new"
        /\ up.stop.sent => /\ up.g \in DOMAIN gens /\ gens[up.g].at \notin Starting
                           /\ gens[up.g].version = up.stop.version
Watched ==
    up.pc \in {"wait", "cleanup"} =>
        up.g \in DOMAIN gens /\ (journal.phase = "launching" => gens[up.g].token = 1)
ProvenFits ==
    up.proof # None =>
        /\ up.pc = "rollback" /\ journal.phase = "launching"
        /\ up.proof.kind = "startup" /\ Gone(up.proof.g) /\ gens[up.proof.g].token = 1

UpgradeInv ==
    /\ Types /\ InPlace /\ Selected
    /\ News /\ Said /\ Alone
    /\ Gate /\ Receipts /\ AskedFits /\ Watched /\ ProvenFits

-----------------------------------------------------------------------------
(* Names apart. *)

LEMMA Apart ==
  /\ None # "new" /\ None # "old"
  /\ None \notin Terminal /\ None \notin Sealed /\ None \notin RollbackPhases
  /\ None \notin Rollbacks
  /\ None # "launching" /\ None # "rollback-launching" /\ None # "stopping" /\ None # "quiescing" /\ None # "prepared"
BY UpgradeAssumption DEF Phases, Versions, Terminal, Sealed, RollbackPhases, Rollbacks,
  BeforeLaunch, RollbackBeforeLaunch, LaunchIntent

\* How a generation goes on from one state to the next.
LEMMA Turned ==
  ASSUME gens \in Seq(Generations), NEW g \in DOMAIN gens, NEW m \in Generations, Turns(g, m)
  PROVE  /\ gens' \in Seq(Generations) /\ DOMAIN gens' = DOMAIN gens
         /\ \A h \in DOMAIN gens : gens'[h] = IF h = g THEN m ELSE gens[h]
<1>1. gens' = [gens EXCEPT ![g] = m] BY DEF Turns
<1>2. Len(gens) \in Nat /\ DOMAIN gens = 1..Len(gens) BY LenProperties
<1>3. DOMAIN gens' = DOMAIN gens BY <1>1
<1>4. \A h \in DOMAIN gens : gens'[h] = IF h = g THEN m ELSE gens[h] BY <1>1
<1>5. \A h \in DOMAIN gens : gens[h] \in Generations BY <1>2, ElementOfSeq
<1>6. gens' \in [1..Len(gens) -> Generations] BY <1>1, <1>2, <1>5
<1>7. gens' \in Seq(Generations) BY <1>2, <1>6, SeqDef
<1> QED BY <1>3, <1>4, <1>7

LEMMA Typed ==
  ASSUME gens \in Seq(Generations), NEW g \in DOMAIN gens
  PROVE  gens[g] \in Generations
BY LenProperties, ElementOfSeq

-----------------------------------------------------------------------------
(* How generations go on. *)

\* A generation keeps its token; it keeps its version once it has read one; it
\* reads the selection, and only if it may; and it serves when it is open.
Evolves ==
    /\ gens' \in Seq(Generations) /\ DOMAIN gens' = DOMAIN gens
    /\ \A h \in DOMAIN gens :
         /\ gens'[h].token = gens[h].token
         /\ gens[h].at \notin Starting =>
              gens'[h].at \notin Starting /\ gens'[h].version = gens[h].version
         /\ Gone(h) => gens'[h].at = "gone"
         /\ gens'[h].seen \in {gens[h].seen, active}
         /\ \/ gens'[h].version = gens[h].version
            \/ Authorized(h) /\ ~Gone(h) /\ gens'[h].version = gens[h].seen
         /\ gens'[h].farewell => gens[h].farewell \/ gens'[h].at = "gone"
         /\ gens'[h].served => gens[h].served \/ (Up(h) /\ ~gens[h].held)

LEMMA NewsKeep ==
  ASSUME UpgradeInv, Evolves, UNCHANGED <<journal, active>>, up'.pc = "start" => up.pc = "start"
  PROVE  News'
<1>1. Types /\ Selected /\ News /\ Gate BY DEF UpgradeInv
<1>2. journal.phase \in Phases \cup {None} BY <1>1 DEF Types, Journals
<1>3. ASSUME journal.phase = None PROVE active = "old" /\ Unseen
  BY <1>1, <1>3 DEF Selected, UntouchedPhases, News
<1>4. ASSUME journal.phase = None PROVE Unseen' BY <1>3, <1>4 DEF Evolves, Unseen
<1>5. ASSUME journal.phase \in Early PROVE NothingNew'
 <2>1. NothingNew BY <1>1, <1>5 DEF News
 <2>2. ASSUME NEW h \in DOMAIN gens, Authorized(h) PROVE gens[h].seen # "new"
  <3>1. journal.phase = None BY <1>5, <2>2, UpgradeAssumption DEF Authorized, Unfinished, Early,
    Terminal, LaunchIntent, BeforeLaunch, Phases
  <3> QED BY <1>3, <3>1 DEF Unseen
 <2>3. ASSUME NEW h \in DOMAIN gens
       PROVE  gens'[h].token = 0 /\ gens'[h].version # "new"
   BY <2>1, <2>2 DEF Evolves, NothingNew
 <2> QED BY <2>3 DEF Evolves, NothingNew
<1>6. ASSUME up'.pc = "start", journal.phase = "launching" PROVE NothingNew'
 <2>1. NothingNew BY <1>1, <1>6 DEF News
 <2>2. journal.token = 1 BY <1>1, <1>6, Apart DEF Selected
 <2>3. ASSUME NEW h \in DOMAIN gens PROVE ~Authorized(h)
   BY <1>6, <2>1, <2>2, Apart DEF Authorized, Unfinished, Terminal, NothingNew
 <2> QED BY <2>1, <2>3 DEF Evolves, NothingNew
<1>7. ASSUME journal.phase = "launching" PROVE OneNew'
 <2>1. OneNew /\ Shut BY <1>1, <1>7 DEF News, Gate, Sealed, LaunchIntent
 <2>2. journal.token = 1 BY <1>1, <1>7, Apart DEF Selected
 <2>3. ASSUME NEW h \in DOMAIN gens, Authorized(h) PROVE gens[h].token = 1
   BY <1>7, <2>2, <2>3, Apart DEF Authorized, Unfinished, Terminal
 <2>4. ASSUME NEW h \in DOMAIN gens
       PROVE  /\ gens'[h].token \in {0, 1}
              /\ gens'[h].version = "new" => gens'[h].token = 1
              /\ gens'[h].token = 1 => ~gens'[h].served
   BY <2>1, <2>3 DEF Evolves, OneNew, Shut
 <2>5. \A g, h \in DOMAIN gens : gens'[g].token = 1 /\ gens'[h].token = 1 => g = h
   BY <2>1 DEF Evolves, OneNew
 <2> QED BY <2>4, <2>5 DEF Evolves, OneNew
<1>8. ASSUME journal.phase \in RollbackPhases PROVE Retired' /\ NewLate'
 <2>1. Retired /\ NewLate BY <1>1, <1>8 DEF News
 <2>2. Retired' BY <2>1 DEF Evolves, Retired, Gone, Up
 <2>3. ASSUME NEW h \in DOMAIN gens
       PROVE  /\ gens'[h].version = "new" =>
                    gens'[h].token = 0 \/ (gens'[h].at = "gone" /\ ~gens'[h].served)
              /\ gens'[h].token \notin {0, 1} => gens'[h].seen # "new" /\ active' = "old"
   BY <2>1 DEF Evolves, Retired, NewLate, Gone, Up
 <2> QED BY <2>2, <2>3 DEF NewLate, Evolves, Gone
<1>9. ASSUME journal.phase \in Rollbacks PROVE NewGone'
 <2>1. NewGone /\ NewLate BY <1>1, <1>9 DEF News, Rollbacks, RollbackPhases
 <2>2. ASSUME NEW h \in DOMAIN gens, Authorized(h) PROVE gens[h].token \notin {0, 1}
  <3>1. journal.phase = "rollback-launching" /\ gens[h].token = journal.token BY <1>9, <2>2, Apart
    DEF Authorized, Unfinished, Rollbacks, RollbackBeforeLaunch, LaunchIntent, Terminal
  <3> QED BY <1>1, <3>1 DEF News, RollbackPhases
 <2>3. ASSUME NEW h \in DOMAIN gens, gens'[h].version = "new" \/ gens'[h].token = 1
       PROVE  gens'[h].at = "gone" /\ ~gens'[h].served
   BY <2>2, <2>3, <2>1 DEF Evolves, NewGone, NewLate, Gone, Up
 <2> QED BY <2>3 DEF Evolves, NewGone, Gone
<1>10. journal.phase \in RollbackPhases => journal.token # 0 BY <1>1 DEF News
<1>11. journal.phase = "rollback-launching" => journal.token # 1 BY <1>1 DEF News
<1> QED BY <1>4, <1>5, <1>6, <1>7, <1>8, <1>9, <1>10, <1>11 DEF News

LEMMA SaidKeeps ==
  ASSUME UpgradeInv, Evolves
  PROVE  Said'
BY DEF UpgradeInv, Evolves, Said, Gone

LEMMA ReceiptsKeep ==
  ASSUME UpgradeInv, Evolves, UNCHANGED hold
  PROVE  Receipts'
<1>1. ASSUME hold # None, hold.stopped PROVE gens'[hold.g].at = "gone"
  BY <1>1 DEF UpgradeInv, Types, Holds, Receipts, Evolves
<1> QED BY <1>1 DEF Receipts, Gone

\* What the upgrader knows of a generation stays so.
LEMMA KnowledgeKeeps ==
  ASSUME UpgradeInv, Evolves, UNCHANGED <<up, journal>>
  PROVE  AskedFits' /\ Watched' /\ ProvenFits'
<1>1. Types /\ AskedFits /\ Watched /\ ProvenFits BY DEF UpgradeInv
<1>2. up.g # None => up.g \in DOMAIN gens BY <1>1 DEF Types, Upgraders
<1>3. AskedFits' BY <1>1, <1>2 DEF AskedFits, Evolves
<1>4. Watched' BY <1>1, <1>2 DEF Watched, Evolves
<1>5. up.proof # None => up.proof.g \in DOMAIN gens BY <1>1 DEF Types, Upgraders, Proofs
<1>6. ProvenFits' BY <1>1, <1>5 DEF ProvenFits, Evolves, Gone
<1> QED BY <1>3, <1>4, <1>6

\* Nobody begins to listen, and nobody's admission is opened.
LEMMA GateKeeps ==
  ASSUME UpgradeInv, Evolves, UNCHANGED <<journal, admission, record>>,
         up'.pc \in {"drained", "commit"} => up'.pc = up.pc,
         \A h \in DOMAIN gens : gens'[h].at \in {"up", "ready"} =>
            Up(h) /\ (gens[h].held /\ admission => gens'[h].held)
  PROVE  Gate' /\ Alone'
<1>1. Alone /\ Gate BY DEF UpgradeInv
<1>2. Alone' BY <1>1 DEF Alone, Up, Evolves
<1>3. Shut => Shut' BY DEF Shut, Up, Evolves
<1> QED BY <1>1, <1>2, <1>3 DEF Gate

\* A step of one generation.
LEMMA GenerationKeeps ==
  ASSUME UpgradeInv, Evolves, UNCHANGED <<up, journal, active, admission, config>>,
         record' \in DOMAIN gens, hold' \in Holds(gens), Receipts', Alone', Gate'
  PROVE  UpgradeInv'
<1>1. Types' BY DEF UpgradeInv, Types, Evolves, Journals, Upgraders, Proofs, Holds
<1>2. InPlace' /\ Selected' BY DEF UpgradeInv, InPlace, Selected, Rolling
<1> QED BY <1>1, <1>2, NewsKeep, SaidKeeps, KnowledgeKeeps DEF UpgradeInv

\* What a generation may become in one step.
Follows(m, g) ==
    /\ m.token = gens[g].token /\ (Gone(g) => m.at = "gone")
    /\ gens[g].at \notin Starting => m.at \notin Starting
    /\ m.seen \in {gens[g].seen, active}
    /\ \/ m.version = gens[g].version
       \/ gens[g].at = "hashing" /\ Authorized(g) /\ m.version = gens[g].seen
    /\ m.farewell => gens[g].farewell \/ m.at = "gone"
    /\ m.served => gens[g].served \/ (Up(g) /\ ~gens[g].held)

LEMMA TurnEvolves ==
  ASSUME UpgradeInv, NEW g \in DOMAIN gens, NEW m \in Generations, Turns(g, m), Follows(m, g)
  PROVE  Evolves
<1>1. gens \in Seq(Generations) BY DEF UpgradeInv, Types
<1>2. /\ gens' \in Seq(Generations) /\ DOMAIN gens' = DOMAIN gens
      /\ \A h \in DOMAIN gens : gens'[h] = IF h = g THEN m ELSE gens[h]
  BY <1>1, Turned
<1>3. \A h \in DOMAIN gens : h = g \/ gens'[h] = gens[h] BY <1>2
<1>4. gens'[g] = m BY <1>2
<1>5. /\ gens'[g].token = gens[g].token
      /\ gens[g].at \notin Starting =>
           gens'[g].at \notin Starting /\ gens'[g].version = gens[g].version
      /\ Gone(g) => gens'[g].at = "gone"
      /\ gens'[g].seen \in {gens[g].seen, active}
      /\ \/ gens'[g].version = gens[g].version
         \/ Authorized(g) /\ ~Gone(g) /\ gens'[g].version = gens[g].seen
      /\ gens'[g].farewell => gens[g].farewell \/ gens'[g].at = "gone"
      /\ gens'[g].served => gens[g].served \/ (Up(g) /\ ~gens[g].held)
  BY <1>4 DEF Gone, Follows, Starting
<1> QED BY <1>2, <1>3, <1>5, Zenon DEF Evolves, Gone

LEMMA EndedIs ==
  ASSUME UpgradeInv, NEW g \in DOMAIN gens
  PROVE  /\ Ended(g) \in Generations /\ Ended(g).token = gens[g].token
         /\ Ended(g).at = "gone" /\ Ended(g).version = gens[g].version
         /\ Ended(g).farewell = gens[g].farewell /\ Ended(g).served = gens[g].served
         /\ Ended(g).seen = gens[g].seen
         /\ [Ended(g) EXCEPT !.farewell = gens[g].launcher] \in Generations
<1>1. gens[g] \in Generations BY Typed DEF UpgradeInv, Types
<1> QED BY <1>1 DEF Ended, Generations

-----------------------------------------------------------------------------
(* The steps of a generation. *)

\* One that ends takes nothing along but what it knew.
LEMMA EndKeeps ==
  ASSUME UpgradeInv, NEW g \in DOMAIN gens, NEW m \in Generations, Turns(g, m),
         m.token = gens[g].token, m.at = "gone", m.version = gens[g].version,
         m.served = gens[g].served, m.seen = gens[g].seen,
         UNCHANGED <<up, journal, active, admission, config, record>>, hold' \in Holds(gens),
         hold' = hold \/ hold'.g = g \/ hold' = None
  PROVE  UpgradeInv'
<1>1. Evolves BY TurnEvolves DEF Follows, Starting
<1>2. \A h \in DOMAIN gens : gens'[h] = IF h = g THEN m ELSE gens[h]
  BY Turned DEF UpgradeInv, Types
<1>3. Gate' /\ Alone' BY <1>2, <1>1, GateKeeps DEF Up
<1>4. Receipts'
 <2>1. CASE hold' = hold BY <1>1, <2>1, ReceiptsKeep
 <2>2. CASE hold'.g = g BY <1>2, <2>2 DEF Receipts, Gone
 <2>3. CASE hold' = None BY <2>3 DEF Receipts
 <2> QED BY <2>1, <2>2, <2>3
<1>5. record' \in DOMAIN gens BY DEF UpgradeInv, Types
<1> QED BY <1>1, <1>3, <1>4, <1>5, GenerationKeeps

\* One that goes on stays as closed as it was.
LEMMA OnKeeps ==
  ASSUME UpgradeInv, NEW g \in DOMAIN gens, NEW m \in Generations, Turns(g, m),
         m.token = gens[g].token, m.at # "begun", m.at # "hashing", ~Gone(g),
         m.version = gens[g].version, m.farewell = gens[g].farewell, m.seen = gens[g].seen,
         m.served => gens[g].served \/ (Up(g) /\ ~gens[g].held),
         m.at \in {"up", "ready"} => Up(g) /\ (gens[g].held /\ admission => m.held),
         UNCHANGED <<up, journal, active, admission, config, record, hold>>
  PROVE  UpgradeInv'
<1>1. Evolves BY TurnEvolves DEF Follows, Starting
<1>2. \A h \in DOMAIN gens : gens'[h] = IF h = g THEN m ELSE gens[h]
  BY Turned DEF UpgradeInv, Types
<1>3. Gate' /\ Alone' BY <1>2, <1>1, GateKeeps DEF Up
<1>4. Receipts' BY <1>1, ReceiptsKeep
<1>5. record' \in DOMAIN gens /\ hold' \in Holds(gens) BY DEF UpgradeInv, Types
<1> QED BY <1>1, <1>3, <1>4, <1>5, GenerationKeeps

\* A launcher that goes on, and is not yet up.
LEMMA LauncherKeeps ==
  ASSUME UpgradeInv, NEW g \in DOMAIN gens, gens[g].at \in Starting,
         NEW m \in Generations, Turns(g, m), Follows(m, g), m.at \in {"hashing", "read"},
         UNCHANGED <<up, journal, active, record, hold, admission, config>>
  PROVE  UpgradeInv'
<1>1. Evolves BY TurnEvolves
<1>2. \A h \in DOMAIN gens : gens'[h] = IF h = g THEN m ELSE gens[h]
  BY Turned DEF UpgradeInv, Types
<1>3. Gate' /\ Alone' BY <1>1, <1>2, GateKeeps DEF Up
<1>4. Receipts' BY <1>1, ReceiptsKeep
<1>5. record' \in DOMAIN gens /\ hold' \in Holds(gens) BY DEF UpgradeInv, Types
<1> QED BY <1>1, <1>3, <1>4, <1>5, GenerationKeeps

LEMMA ReadsSelectionKeeps ==
  ASSUME UpgradeInv, NEW g \in DOMAIN gens, ReadsSelection(g)
  PROVE  UpgradeInv'
<1>1. gens[g] \in Generations /\ active \in Versions BY Typed DEF UpgradeInv, Types
<1> DEFINE m == [gens[g] EXCEPT !.at = "hashing", !.seen = active]
<1>2. /\ gens[g].at = "begun" /\ Turns(g, m)
      /\ UNCHANGED <<up, journal, active, record, hold, admission, config>>
  BY DEF ReadsSelection
<1>3. /\ m \in Generations /\ m.at = "hashing" /\ m.seen = active
      /\ m.token = gens[g].token /\ m.version = gens[g].version
      /\ m.farewell = gens[g].farewell /\ m.served = gens[g].served
  BY <1>1 DEF Generations
<1> HIDE DEF m
<1>4. Follows(m, g) BY <1>2, <1>3 DEF Follows, Gone, Starting
<1> QED BY <1>2, <1>3, <1>4, LauncherKeeps DEF Starting

LEMMA ReadsJournalKeeps ==
  ASSUME UpgradeInv, NEW g \in DOMAIN gens, ReadsJournal(g)
  PROVE  UpgradeInv'
<1>1. gens[g] \in Generations BY Typed DEF UpgradeInv, Types
<1>2. /\ gens[g].at = "hashing"
      /\ UNCHANGED <<up, journal, active, record, hold, admission, config>>
  BY DEF ReadsJournal
<1>3. CASE Authorized(g)
 <2> DEFINE m == [gens[g] EXCEPT !.at = "read", !.version = gens[g].seen]
 <2>1. /\ m \in Generations /\ m.at = "read" /\ m.version = gens[g].seen
       /\ m.token = gens[g].token /\ m.seen = gens[g].seen
       /\ m.farewell = gens[g].farewell /\ m.served = gens[g].served
   BY <1>1 DEF Generations
 <2>2. Turns(g, m) BY <1>3 DEF ReadsJournal
 <2> HIDE DEF m
 <2>3. Follows(m, g) BY <1>2, <1>3, <2>1 DEF Follows, Gone, Starting
 <2> QED BY <1>2, <2>1, <2>2, <2>3, LauncherKeeps DEF Starting
<1>4. CASE ~Authorized(g) BY <1>4, <1>2, EndedIs, EndKeeps DEF ReadsJournal, UpgradeInv, Types
<1> QED BY <1>3, <1>4

LEMMA SpawnsKeeps ==
  ASSUME UpgradeInv, NEW g \in DOMAIN gens, Spawns(g)
  PROVE  UpgradeInv'
<1>1. gens[g] \in Generations BY Typed DEF UpgradeInv, Types
<1>2. /\ gens[g].at = "read"
      /\ UNCHANGED <<up, journal, active, record, hold, admission, config>>
  BY DEF Spawns
<1>3. CASE hold = None
 <2> DEFINE m == [gens[g] EXCEPT !.at = "spawned"]
 <2>1. /\ m \in Generations /\ m.at = "spawned" /\ m.version = gens[g].version
       /\ m.token = gens[g].token
       /\ m.farewell = gens[g].farewell /\ m.seen = gens[g].seen /\ m.served = gens[g].served
   BY <1>1 DEF Generations
 <2>2. Turns(g, m) BY <1>3 DEF Spawns
 <2> HIDE DEF m
 <2>3. ~Gone(g) BY <1>2 DEF Gone
 <2> QED BY <1>2, <2>1, <2>2, <2>3, OnKeeps
<1>4. CASE hold # None BY <1>4, <1>2, EndedIs, EndKeeps DEF Spawns, UpgradeInv, Types
<1> QED BY <1>3, <1>4

LEMMA ListensKeeps ==
  ASSUME UpgradeInv, NEW g \in DOMAIN gens, Listens(g)
  PROVE  UpgradeInv'
<1>1. gens[g] \in Generations /\ admission \in BOOLEAN BY Typed DEF UpgradeInv, Types
<1>2. gens[g].at = "spawned" /\ UNCHANGED <<up, journal, active, hold, admission, config>>
  BY DEF Listens
<1>3. hold' \in Holds(gens) BY <1>2 DEF UpgradeInv, Types
<1>4. CASE \E h \in DOMAIN gens : Up(h) BY <1>4, <1>2, <1>3, EndedIs, EndKeeps DEF Listens
<1>5. CASE ~\E h \in DOMAIN gens : Up(h)
 <2> DEFINE m == IF hold # None THEN Ended(g)
                 ELSE [gens[g] EXCEPT !.at = "up", !.held = gens[g].pending \/ admission]
 <2>1. /\ m \in Generations /\ m.at # "begun" /\ m.at # "hashing"
       /\ m.version = gens[g].version
       /\ m.token = gens[g].token
       /\ m.farewell = gens[g].farewell /\ m.seen = gens[g].seen /\ m.served = gens[g].served
       /\ m.at \in {"up", "ready"} => (admission => m.held)
  <3>1. CASE hold # None BY <3>1, EndedIs
  <3>2. CASE hold = None BY <1>1, <3>2 DEF Generations
  <3> QED BY <3>1, <3>2
 <2>2. Turns(g, m) /\ record' = g BY <1>5 DEF Listens
 <2> HIDE DEF m
 <2>3. ~Gone(g) BY <1>2 DEF Gone
 <2>4. Evolves BY <1>2, <2>1, <2>3, <2>2, TurnEvolves DEF Follows, Starting
 <2>5. \A h \in DOMAIN gens : gens'[h] = IF h = g THEN m ELSE gens[h]
   BY <2>1, <2>2, Turned DEF UpgradeInv, Types
 <2>6. Alone' BY <1>5, <2>2, <2>4, <2>5 DEF Alone, Up, Evolves
 <2>7. Gate' BY <1>2, <1>5, <2>1, <2>4, <2>5 DEF UpgradeInv, Shut, Up, Evolves, Gate
 <2>8. Receipts' BY <1>2, <2>4, ReceiptsKeep
 <2> QED BY <1>2, <1>3, <2>2, <2>4, <2>6, <2>7, <2>8, GenerationKeeps
<1> QED BY <1>4, <1>5

LEMMA IsReadyKeeps ==
  ASSUME UpgradeInv, NEW g \in DOMAIN gens, IsReady(g)
  PROVE  UpgradeInv'
<1>1. gens[g] \in Generations BY Typed DEF UpgradeInv, Types
<1> DEFINE m == [gens[g] EXCEPT !.at = "ready"]
<1>2. /\ gens[g].at = "up" /\ Turns(g, m)
      /\ UNCHANGED <<up, journal, active, record, hold, admission, config>>
  BY DEF IsReady
<1>3. /\ m \in Generations /\ m.at = "ready" /\ m.version = gens[g].version
      /\ m.token = gens[g].token /\ m.held = gens[g].held
      /\ m.farewell = gens[g].farewell /\ m.seen = gens[g].seen /\ m.served = gens[g].served
  BY <1>1 DEF Generations
<1> HIDE DEF m
<1>4. ~Gone(g) /\ Up(g) BY <1>2 DEF Gone, Up
<1> QED BY <1>2, <1>3, <1>4, OnKeeps

LEMMA ServesKeeps ==
  ASSUME UpgradeInv, NEW g \in DOMAIN gens, Serves(g)
  PROVE  UpgradeInv'
<1>1. gens[g] \in Generations BY Typed DEF UpgradeInv, Types
<1> DEFINE m == [gens[g] EXCEPT !.traffic = TRUE, !.served = TRUE]
<1>2. /\ gens[g].at = "ready" /\ ~gens[g].held /\ Turns(g, m)
      /\ UNCHANGED <<up, journal, active, record, hold, admission, config>>
  BY DEF Serves, Open
<1>3. /\ m \in Generations /\ m.at = gens[g].at /\ m.version = gens[g].version
      /\ m.token = gens[g].token /\ m.held = gens[g].held
      /\ m.farewell = gens[g].farewell /\ m.seen = gens[g].seen
  BY <1>1 DEF Generations
<1> HIDE DEF m
<1>4. ~Gone(g) /\ Up(g) BY <1>2 DEF Gone, Up
<1> QED BY <1>2, <1>3, <1>4, OnKeeps

LEMMA StopsKeeps ==
  ASSUME UpgradeInv, NEW g \in DOMAIN gens, Stops(g)
  PROVE  UpgradeInv'
<1> DEFINE m == [Ended(g) EXCEPT !.farewell = gens[g].launcher]
           tied == gens[g].stopping = "tied"
<1>1. /\ Turns(g, m) /\ UNCHANGED <<up, journal, active, record, admission, config>>
      /\ hold' = hold \/ hold' = [g |-> g, stopped |-> TRUE, tied |-> tied]
  BY DEF Stops
<1>2. /\ m \in Generations /\ m.at = "gone" /\ m.version = gens[g].version
      /\ m.token = gens[g].token /\ m.seen = gens[g].seen /\ m.served = gens[g].served
  BY EndedIs DEF Generations
<1>3. tied \in BOOLEAN /\ hold \in Holds(gens) BY DEF UpgradeInv, Types
<1> HIDE DEF m, tied
<1>4. hold' \in Holds(gens) /\ (hold' = hold \/ hold'.g = g)
 <2>1. CASE hold' = hold BY <1>3, <2>1
 <2>2. CASE hold' = [g |-> g, stopped |-> TRUE, tied |-> tied] BY <1>3, <2>2 DEF Holds
 <2> QED BY <1>1, <2>1, <2>2
<1> QED BY <1>1, <1>2, <1>4, EndKeeps

LEMMA BridgeEndsKeeps ==
  ASSUME UpgradeInv, NEW g \in DOMAIN gens, BridgeEnds(g)
  PROVE  UpgradeInv'
<1>1. gens[g] \in Generations /\ admission \in BOOLEAN BY Typed DEF UpgradeInv, Types
<1>2. Up(g) /\ UNCHANGED <<up, journal, active, record, hold, admission, config>> BY DEF BridgeEnds
<1>3. CASE gens[g].pending
 <2> DEFINE m == [Ended(g) EXCEPT !.farewell = gens[g].launcher]
 <2>1. Turns(g, m) BY <1>3 DEF BridgeEnds
 <2>2. /\ m \in Generations /\ m.at = "gone" /\ m.version = gens[g].version
       /\ m.token = gens[g].token /\ m.seen = gens[g].seen /\ m.served = gens[g].served
   BY EndedIs DEF Generations
 <2> HIDE DEF m
 <2>3. hold' \in Holds(gens) BY <1>2 DEF UpgradeInv, Types
 <2> QED BY <1>2, <2>1, <2>2, <2>3, EndKeeps
<1>4. CASE ~gens[g].pending
 <2> DEFINE m == [gens[g] EXCEPT !.at = "up", !.traffic = FALSE, !.held = admission]
 <2>1. Turns(g, m) BY <1>4 DEF BridgeEnds
 <2>2. /\ m \in Generations /\ m.at = "up" /\ m.version = gens[g].version
       /\ m.token = gens[g].token /\ m.held = admission
       /\ m.farewell = gens[g].farewell /\ m.seen = gens[g].seen /\ m.served = gens[g].served
   BY <1>1 DEF Generations
 <2> HIDE DEF m
 <2>3. ~Gone(g) BY <1>2 DEF Gone, Up
 <2> QED BY <1>2, <2>1, <2>2, <2>3, OnKeeps
<1> QED BY <1>3, <1>4

LEMMA DiesKeeps ==
  ASSUME UpgradeInv, NEW g \in DOMAIN gens, Dies(g)
  PROVE  UpgradeInv'
<1>1. /\ Turns(g, Ended(g))
      /\ UNCHANGED <<up, journal, active, record, hold, admission, config>>
  BY DEF Dies
<1>2. hold' \in Holds(gens) BY <1>1 DEF UpgradeInv, Types
<1> QED BY <1>1, <1>2, EndedIs, EndKeeps

LEMMA LauncherDiesKeeps ==
  ASSUME UpgradeInv, NEW g \in DOMAIN gens, LauncherDies(g)
  PROVE  UpgradeInv'
<1>1. gens[g] \in Generations BY Typed DEF UpgradeInv, Types
<1> DEFINE s == IF Up(g) /\ gens[g].stopping = None THEN "quiet" ELSE gens[g].stopping
           m == [gens[g] EXCEPT !.launcher = FALSE, !.stopping = s]
<1>2. /\ gens[g].at \in {"spawned", "up", "ready"} /\ Turns(g, m)
      /\ UNCHANGED <<up, journal, active, record, hold, admission, config>>
  BY DEF LauncherDies
<1>3. /\ m \in Generations /\ m.at = gens[g].at /\ m.version = gens[g].version
      /\ m.token = gens[g].token /\ m.held = gens[g].held
      /\ m.farewell = gens[g].farewell /\ m.seen = gens[g].seen /\ m.served = gens[g].served
  BY <1>1 DEF Generations
<1> HIDE DEF m
<1>4. ~Gone(g) /\ m.at # "begun" /\ m.at # "hashing" /\ (m.at \in {"up", "ready"} => Up(g))
  BY <1>2, <1>3 DEF Gone, Up
<1> QED BY <1>2, <1>3, <1>4, OnKeeps

-----------------------------------------------------------------------------
(* Users and the operating system. *)

\* One more generation, and what was known stays so.
LEMMA Another ==
  ASSUME UpgradeInv, NEW pending \in BOOLEAN, NEW token \in Nat,
         gens' = Append(gens, Generation(pending, token)),
         UNCHANGED <<active, admission, record>>, hold' \in {hold, None}
  PROVE  /\ gens' \in Seq(Generations) /\ DOMAIN gens \subseteq DOMAIN gens'
         /\ \A h \in DOMAIN gens : gens'[h] = gens[h]
         /\ Len(gens) + 1 \in DOMAIN gens'
         /\ gens'[Len(gens) + 1] = Generation(pending, token)
         /\ token = 0 /\ NothingNew => NothingNew'
         /\ token = 0 /\ OneNew => OneNew'
         /\ token = 1 /\ NothingNew => OneNew'
         /\ token # 1 /\ NewGone => NewGone'
         /\ token # 1 /\ Retired => Retired'
         /\ (token = 0 \/ active = "old") /\ NewLate => NewLate'
         /\ Unseen => Unseen'
         /\ Shut => Shut'
         /\ Said' /\ Alone' /\ Receipts'
<1> DEFINE n == Len(gens) + 1
           m == Generation(pending, token)
<1>1. gens \in Seq(Generations) /\ Types /\ Said /\ Alone /\ Receipts BY DEF UpgradeInv, Types
<1>2. /\ m \in Generations /\ m.token = token /\ m.version = None /\ m.at = "begun"
      /\ m.seen = None /\ ~m.farewell /\ ~m.served
  BY DEF Generation, Generations
<1>3. Len(gens) \in Nat /\ DOMAIN gens = 1..Len(gens) BY <1>1, LenProperties
<1> HIDE DEF m
<1>4. /\ gens' \in Seq(Generations) /\ Len(gens') = n
      /\ \A h \in 1..Len(gens) : gens'[h] = gens[h]
      /\ gens'[n] = m
  BY <1>1, <1>2, AppendProperties DEF m
<1>5. DOMAIN gens' = 1..n BY <1>4, LenProperties
<1>6. /\ n \in DOMAIN gens' /\ n \notin DOMAIN gens /\ DOMAIN gens \subseteq DOMAIN gens'
      /\ \A h \in DOMAIN gens' : h = n \/ h \in DOMAIN gens
      /\ \A h \in DOMAIN gens : gens'[h] = gens[h]
  BY <1>3, <1>4, <1>5
<1>7. gens'[n] = m BY <1>4
<1> HIDE DEF n
<1>8. token = 0 /\ NothingNew => NothingNew' BY <1>2, <1>6, <1>7, Apart DEF NothingNew
<1>9. token = 0 /\ OneNew => OneNew' BY <1>2, <1>6, <1>7, Apart DEF OneNew
<1>10. token = 1 /\ NothingNew => OneNew' BY <1>2, <1>6, <1>7, Apart DEF NothingNew, OneNew
<1>11. /\ token # 1 /\ NewGone => NewGone'
       /\ token # 1 /\ Retired => Retired'
  BY <1>2, <1>6, <1>7, Apart DEF NewGone, Retired, Gone
<1>16. (token = 0 \/ active = "old") /\ NewLate => NewLate'
  BY <1>2, <1>6, <1>7, Apart DEF NewLate, Gone
<1>17. Unseen => Unseen' BY <1>2, <1>6, <1>7, Apart DEF Unseen
<1>12. Shut => Shut' BY <1>2, <1>6, <1>7 DEF Shut, Up
<1>13. Said' BY <1>1, <1>2, <1>6, <1>7 DEF Said, Gone
<1>14. Alone' BY <1>1, <1>2, <1>6, <1>7 DEF Alone, Up
<1>15. Receipts' BY <1>1, <1>6 DEF Types, Holds, Receipts, Gone
<1> QED BY <1>4, <1>6, <1>7, <1>8, <1>9, <1>10, <1>11, <1>12, <1>13, <1>14, <1>15,
<1>16, <1>17 DEF m, n

\* What may be named may still be named when there are more generations.
LEMMA Wider ==
  ASSUME NEW gs, NEW hs, DOMAIN gs \subseteq DOMAIN hs
  PROVE  /\ Proofs(gs) \subseteq Proofs(hs) /\ Holds(gs) \subseteq Holds(hs)
         /\ Journals(gs) \subseteq Journals(hs) /\ Upgraders(gs) \subseteq Upgraders(hs)
<1>1. Proofs(gs) \subseteq Proofs(hs) BY DEF Proofs
<1>2. Holds(gs) \subseteq Holds(hs) BY DEF Holds
<1>3. Journals(gs) \subseteq Journals(hs) BY <1>1 DEF Journals
<1>4. Upgraders(gs) \subseteq Upgraders(hs) BY <1>1 DEF Upgraders
<1> QED BY <1>1, <1>2, <1>3, <1>4

LEMMA StartKeeps ==
  ASSUME UpgradeInv, NEW byUser \in BOOLEAN, Start(byUser)
  PROVE  UpgradeInv'
<1>1. /\ gens' = Append(gens, Generation(FALSE, 0)) /\ hold' \in {hold, None}
      /\ UNCHANGED <<up, journal, active, record, admission, lock, config, used>>
  BY DEF Start
<1>2. /\ gens' \in Seq(Generations) /\ DOMAIN gens \subseteq DOMAIN gens'
      /\ \A h \in DOMAIN gens : gens'[h] = gens[h]
      /\ NothingNew => NothingNew'
      /\ OneNew => OneNew'
      /\ NewGone => NewGone'
      /\ Retired => Retired'
      /\ NewLate => NewLate'
      /\ Unseen => Unseen'
      /\ Shut => Shut'
      /\ Said' /\ Alone' /\ Receipts'
 <2>1. PICK token \in Nat : token = 0 /\ gens' = Append(gens, Generation(FALSE, token)) BY <1>1
 <2>2. token # 1 BY <2>1
 <2> QED BY <1>1, <2>1, <2>2, Another
<1>3. Types' BY <1>2, Wider, <1>1 DEF Holds, UpgradeInv, Types
<1>4. InPlace' /\ Selected' BY <1>1 DEF UpgradeInv, InPlace, Selected, Rolling
<1>5. News' /\ Gate' BY <1>1, <1>2 DEF UpgradeInv, News, Gate
<1>6. /\ up.g # None => up.g \in DOMAIN gens
      /\ up.proof # None => up.proof.g \in DOMAIN gens
  BY DEF UpgradeInv, Types, Upgraders, Proofs
<1>7. AskedFits' BY <1>1, <1>2, <1>6 DEF UpgradeInv, AskedFits
<1>8. Watched' BY <1>1, <1>2, <1>6 DEF UpgradeInv, Watched
<1>9. ProvenFits' BY <1>1, <1>2, <1>6 DEF UpgradeInv, ProvenFits, Gone
<1> QED BY <1>2, <1>3, <1>4, <1>5, <1>7, <1>8, <1>9 DEF UpgradeInv

\* A stop is asked for: the service that answers is told, and the hold is new.
LEMMA Asks ==
  ASSUME UpgradeInv, NEW how \in {"hold", "tied"}, AsksStop(how), Answers,
         UNCHANGED <<journal, active, record, admission, config>>,
         up'.pc \in {"drained", "commit", "start"} => up'.pc = up.pc
  PROVE  /\ Evolves /\ News' /\ Said' /\ Alone' /\ Gate' /\ Receipts'
         /\ hold' \in Holds(gens)
<1>1. record \in DOMAIN gens /\ gens[record] \in Generations BY Typed DEF UpgradeInv, Types
<1> DEFINE m == [gens[record] EXCEPT !.stopping = how]
<1>2. Turns(record, m) /\ hold' = [g |-> record, stopped |-> FALSE, tied |-> FALSE] BY DEF AsksStop
<1>3. /\ m \in Generations /\ m.at = gens[record].at /\ m.version = gens[record].version
      /\ m.token = gens[record].token /\ m.held = gens[record].held
      /\ m.farewell = gens[record].farewell /\ m.seen = gens[record].seen
      /\ m.served = gens[record].served
  BY <1>1 DEF Generations
<1> HIDE DEF m
<1>4. gens[record].at = "ready" BY DEF Answers
<1>5. Evolves BY <1>3, <1>4, <1>1, <1>2, TurnEvolves DEF Follows, Gone
<1>6. \A h \in DOMAIN gens : gens'[h] = IF h = record THEN m ELSE gens[h]
  BY <1>1, <1>2, <1>3, Turned DEF UpgradeInv, Types
<1>7. Gate' /\ Alone' BY <1>3, <1>6, <1>5, GateKeeps DEF Up
<1>8. Receipts' /\ hold' \in Holds(gens) BY <1>1, <1>2 DEF Receipts, Holds
<1> QED BY <1>5, <1>7, <1>8, NewsKeep, SaidKeeps

LEMMA UserStopsKeeps ==
  ASSUME UpgradeInv, UserStops
  PROVE  UpgradeInv'
<1>1. /\ AsksStop("hold") /\ Answers
      /\ UNCHANGED <<up, journal, active, record, admission, lock, config>>
  BY DEF UserStops
<1>2. /\ Evolves /\ News' /\ Said' /\ Alone' /\ Gate' /\ Receipts' /\ hold' \in Holds(gens)
  BY <1>1, Asks
<1>3. record' \in DOMAIN gens BY <1>1 DEF UpgradeInv, Types
<1> QED BY <1>1, <1>2, <1>3, GenerationKeeps

LEMMA UserEditsKeeps ==
  ASSUME UpgradeInv, UserEdits
  PROVE  UpgradeInv'
<1>1. /\ config' = config + 1
      /\ UNCHANGED <<gens, up, journal, active, record, hold, admission>>
  BY DEF UserEdits
<1>2. Types' BY <1>1 DEF UpgradeInv, Types, Journals, Upgraders, Proofs, Holds
<1>3. /\ InPlace' /\ Selected' /\ News' /\ Said' /\ Alone'
  BY <1>1 DEF UpgradeInv, InPlace, Selected, Rolling, News, NothingNew, OneNew, NewGone, NewLate,
    Retired, Unseen, Said, Alone, Gone, Up
<1>4. Gate' /\ Receipts' /\ AskedFits' /\ Watched' /\ ProvenFits'
  BY <1>1 DEF UpgradeInv, Gate, Shut, Receipts, AskedFits, Watched, ProvenFits, Gone, Up
<1> QED BY <1>2, <1>3, <1>4 DEF UpgradeInv

-----------------------------------------------------------------------------
(* The upgrader, in steps that leave the world as it is. *)

Still == UNCHANGED <<gens, active, record, hold, admission, config>>

LEMMA SameGens ==
  ASSUME UNCHANGED <<gens, record, hold, admission>>
  PROVE  /\ NothingNew' <=> NothingNew
         /\ OneNew' <=> OneNew
         /\ NewGone' <=> NewGone
         /\ Retired' <=> Retired
         /\ Shut' <=> Shut
         /\ Said' <=> Said
         /\ Alone' <=> Alone
         /\ Receipts' <=> Receipts
<1>1. gens' = gens /\ record' = record /\ hold' = hold /\ admission' = admission OBVIOUS
<1>2. \A g : (Up(g)' <=> Up(g)) /\ (Gone(g)' <=> Gone(g)) BY <1>1 DEF Up, Gone
<1>3. (NothingNew' <=> NothingNew) /\ (OneNew' <=> OneNew) BY <1>1 DEF NothingNew, OneNew
<1>4. (NewGone' <=> NewGone) /\ (Retired' <=> Retired) /\ (Said' <=> Said)
  BY <1>1, <1>2 DEF NewGone, Retired, Said
<1>5. (Shut' <=> Shut) /\ (Alone' <=> Alone) BY <1>1, <1>2 DEF Shut, Alone
<1>6. Receipts' <=> Receipts BY <1>1, <1>2 DEF Receipts
<1> QED BY <1>3, <1>4, <1>5, <1>6

LEMMA Same ==
  ASSUME Still
  PROVE  /\ NothingNew' <=> NothingNew
         /\ OneNew' <=> OneNew
         /\ NewGone' <=> NewGone
         /\ Retired' <=> Retired
         /\ NewLate' <=> NewLate
         /\ Unseen' <=> Unseen
         /\ Shut' <=> Shut
         /\ Said' <=> Said
         /\ Alone' <=> Alone
         /\ Receipts' <=> Receipts
<1>1. gens' = gens /\ active' = active BY DEF Still
<1>2. NewLate' <=> NewLate BY <1>1 DEF NewLate, Gone
<1>3. Unseen' <=> Unseen BY <1>1 DEF Unseen
<1> QED BY <1>2, <1>3, SameGens DEF Still

\* Only the journal and the upgrader have to be looked at.
LEMMA PaperKeeps ==
  ASSUME UpgradeInv, Still, journal' \in Journals(gens), up' \in Upgraders(gens),
         InPlace', Selected', News', Gate', AskedFits', Watched', ProvenFits'
  PROVE  UpgradeInv'
<1>1. Said' /\ Alone' /\ Receipts' BY Same DEF UpgradeInv
<1>2. Types' BY DEF UpgradeInv, Types, Still, Journals, Upgraders, Proofs, Holds
<1> QED BY <1>1, <1>2 DEF UpgradeInv

\* What an upgrader that has ended leaves.
LEMMA Idles ==
  ASSUME UpgradeInv, up' = Idle, UNCHANGED <<journal, active>>
  PROVE  /\ up' \in Upgraders(gens) /\ up'.pc = "off"
         /\ InPlace' /\ Selected' /\ AskedFits' /\ Watched' /\ ProvenFits'
<1>1. /\ up' \in Upgraders(gens) /\ up'.pc = "off" /\ up'.proof = None
  BY DEF Idle, Upgraders, Counters, Proofs
<1>2. InPlace' /\ AskedFits' /\ Watched' /\ ProvenFits'
  BY <1>1 DEF InPlace, AskedFits, Watched, ProvenFits
<1>3. Selected' BY <1>1 DEF UpgradeInv, Selected, Rolling
<1> QED BY <1>1, <1>2, <1>3

LEMMA IdleKeeps ==
  ASSUME UpgradeInv, Still, up' = Idle, UNCHANGED journal
  PROVE  UpgradeInv'
<1>1. /\ up' \in Upgraders(gens) /\ up'.pc = "off"
      /\ InPlace' /\ Selected' /\ AskedFits' /\ Watched' /\ ProvenFits'
  BY Idles DEF Still
<1>2. journal' \in Journals(gens) BY DEF UpgradeInv, Types
<1>3. News' /\ Gate' BY <1>1, Same DEF UpgradeInv, News, Gate, Still
<1> QED BY <1>1, <1>2, <1>3, PaperKeeps

LEMMA BeginKeeps ==
  ASSUME UpgradeInv, Begin
  PROVE  UpgradeInv'
<1>1. /\ Still /\ journal.phase = None
      /\ journal' = [journal EXCEPT !.phase = "prepared", !.authority = config, !.token = 1]
      /\ up' = [Idle EXCEPT !.pc = "prepared", !.run = "execute"]
  BY DEF Begin, World, Still
<1>2. journal \in Journals(gens) /\ config \in Nat BY DEF UpgradeInv, Types
<1>3. journal' \in Journals(gens) /\ journal'.phase = "prepared" /\ journal'.token = 1
  BY <1>1, <1>2 DEF Journals, Phases
<1>4. up' \in Upgraders(gens) /\ up'.pc = "prepared" /\ up'.proof = None
  BY <1>1 DEF Idle, Upgraders, Counters, Proofs, Shutdowns
<1>5. NothingNew /\ active = "old" BY <1>1 DEF UpgradeInv, News, Early, Selected, UntouchedPhases
<1>6. InPlace' /\ AskedFits' /\ Watched' /\ ProvenFits'
  BY <1>3, <1>4 DEF InPlace, AskedFits, Watched, ProvenFits
<1>7. Selected' BY <1>1, <1>3, <1>4, <1>5 DEF Selected, Still, UntouchedPhases, Forward, Backward
<1>8. News' BY <1>1, <1>3, <1>4, <1>5, Same, Apart DEF News, Early, RollbackPhases, Rollbacks,
  RollbackBeforeLaunch
<1>9. Gate' BY <1>3, <1>4 DEF Gate, Sealed, Terminal, BeforeLaunch, LaunchIntent,
  RollbackBeforeLaunch
<1> QED BY <1>1, <1>3, <1>4, <1>6, <1>7, <1>8, <1>9, PaperKeeps

\* A transition that changes nothing of what may be running.
LEMMA TransitionKeeps ==
  ASSUME UpgradeInv, Still, NEW phase \in Phases, NEW pc \in Counters, Transition(phase, pc),
         up.proof = None, pc \notin {"stop", "start", "wait", "cleanup", "commit", "drained"},
         InPlace', Selected', News', Gate'
  PROVE  UpgradeInv'
<1>1. journal \in Journals(gens) /\ up \in Upgraders(gens) BY DEF UpgradeInv, Types
<1>2. journal' \in Journals(gens) /\ journal'.phase = phase BY <1>1 DEF Transition, Journals
<1>3. up' \in Upgraders(gens) /\ up'.pc = pc /\ up'.proof = None BY <1>1 DEF Transition, Upgraders
<1>4. AskedFits' /\ Watched' /\ ProvenFits' BY <1>3 DEF AskedFits, Watched, ProvenFits
<1> QED BY <1>2, <1>3, <1>4, PaperKeeps

LEMMA PreparedKeeps ==
  ASSUME UpgradeInv, Prepared
  PROVE  UpgradeInv'
<1>1. Still /\ up.pc = "prepared" /\ Transition("quiescing", "quiesce")
  BY DEF Prepared, World, Still
<1>2. journal \in Journals(gens) /\ up \in Upgraders(gens) BY DEF UpgradeInv, Types
<1>3. up'.pc = "quiesce" /\ journal'.phase = "quiescing" /\ journal'.token = journal.token
  BY <1>1, <1>2 DEF Transition, Journals, Upgraders
<1>4. journal.phase = "prepared" /\ up.proof = None BY <1>1 DEF UpgradeInv, InPlace, ProvenFits
<1>5. NothingNew /\ active = "old" /\ journal.token = 1
  BY <1>4, Apart DEF UpgradeInv, News, Early, Selected, UntouchedPhases
<1>6. InPlace' BY <1>3 DEF InPlace
<1>7. Selected' BY <1>1, <1>3, <1>5 DEF Selected, Still, UntouchedPhases, Forward, Backward
<1>8. News'
  BY <1>1, <1>3, <1>5, Same, Apart DEF News, Early, RollbackPhases, Rollbacks, RollbackBeforeLaunch
<1>9. Gate' BY <1>3 DEF Gate, Sealed, Terminal, BeforeLaunch, LaunchIntent, RollbackBeforeLaunch
<1> QED BY <1>1, <1>4, <1>6, <1>7, <1>8, <1>9, TransitionKeeps DEF Phases, Counters

\* Before there is a new version, it is as if it were one that is gone.
LEMMA NoneYet == NothingNew => OneNew /\ NewGone /\ NewLate /\ Retired
BY DEF NothingNew, OneNew, NewGone, NewLate, Retired

LEMMA DrainedKeeps ==
  ASSUME UpgradeInv, Drained
  PROVE  UpgradeInv'
<1>1. Still /\ up.pc = "drained" BY DEF Drained, World, Still
<1>2. CASE ~Unchanged BY <1>1, <1>2, IdleKeeps DEF Drained, Fails, Finished
<1>3. CASE Unchanged
 <2>1. /\ journal' = [journal EXCEPT !.phase = "stopping"]
       /\ up' = [up EXCEPT !.pc = "stop", !.stop = ShutDown("old", TRUE, None)]
   BY <1>3 DEF Drained
 <2>2. journal \in Journals(gens) /\ up \in Upgraders(gens) BY DEF UpgradeInv, Types
 <2>3. journal' \in Journals(gens) /\ journal'.phase = "stopping" /\ journal'.token = journal.token
   BY <2>1, <2>2 DEF Journals, Phases
 <2>4. /\ up' \in Upgraders(gens) /\ up'.pc = "stop" /\ up'.proof = up.proof
       /\ up'.stop \in Shutdowns /\ ~up'.stop.sent
   BY <2>1, <2>2 DEF Upgraders, Counters, Shutdowns, ShutDown, Versions
 <2>5. journal.phase = "quiescing" /\ up.proof = None BY <1>1 DEF UpgradeInv, InPlace, ProvenFits
 <2>6. NothingNew /\ active = "old" /\ journal.token = 1 /\ Shut
   BY <1>1, <2>5, Apart DEF UpgradeInv, News, Early, Selected, UntouchedPhases, Gate
 <2>7. InPlace' BY <2>3, <2>4 DEF InPlace
 <2>8. Selected' BY <1>1, <2>3, <2>4, <2>6 DEF Selected, Still, UntouchedPhases, Forward, Backward
 <2>9. News'
   BY <1>1, <2>3, <2>6, Same, Apart DEF News, Early, RollbackPhases, Rollbacks, RollbackBeforeLaunch
 <2>10. Gate' BY <1>1, <2>3, <2>4, <2>6, Same DEF Gate, Terminal
 <2>11. AskedFits' BY <2>3, <2>4 DEF AskedFits
 <2>12. Watched' /\ ProvenFits' BY <2>4, <2>5 DEF Watched, ProvenFits
 <2> QED BY <1>1, <2>3, <2>4, <2>7, <2>8, <2>9, <2>10, <2>11, <2>12, PaperKeeps
<1> QED BY <1>2, <1>3

\* An upgrader that turns to the rollback takes what it knows along.
LEMMA TurnsBack ==
  ASSUME UpgradeInv, Still, Goes("rollback"), up.proof = None,
         journal.phase \in BeforeLaunch \cup LaunchIntent \cup RollbackBeforeLaunch
  PROVE  UpgradeInv'
<1>1. up' = [up EXCEPT !.pc = "rollback"] /\ journal' = journal BY DEF Goes
<1>2. journal' \in Journals(gens) /\ up \in Upgraders(gens) BY <1>1 DEF UpgradeInv, Types
<1>3. up' \in Upgraders(gens) /\ up'.pc = "rollback" /\ up'.proof = None
  BY <1>1, <1>2 DEF Upgraders, Counters
<1>4. InPlace' /\ AskedFits' /\ Watched' /\ ProvenFits'
  BY <1>1, <1>3 DEF InPlace, AskedFits, Watched, ProvenFits
<1>5. Selected' BY <1>1, <1>3 DEF UpgradeInv, Selected, Still, Rolling
<1>6. News' /\ Gate' BY <1>1, <1>3, Same DEF UpgradeInv, News, Gate, Still
<1> QED BY <1>2, <1>3, <1>4, <1>5, <1>6, PaperKeeps

LEMMA ErrsKeep ==
  ASSUME UpgradeInv, Still, NEW verified \in BOOLEAN, Errs(verified), up.proof = None,
         journal.phase \in BeforeLaunch \cup LaunchIntent \cup RollbackBeforeLaunch
  PROVE  UpgradeInv'
<1>1. Goes("rollback") \/ Fails BY DEF Errs
<1>2. CASE Goes("rollback") BY <1>2, TurnsBack
<1>3. CASE Fails BY <1>3, IdleKeeps DEF Fails, Finished
<1> QED BY <1>1, <1>2, <1>3

\* The rollback begins when all that is new is gone.
LEMMA RollsBackKeeps ==
  ASSUME UpgradeInv, Still, NEW proof \in Proofs(gens), RollsBack(proof),
         NewGone, NewLate, journal.token # 0, Shut
  PROVE  UpgradeInv'
<1>1. /\ journal' = [journal EXCEPT !.phase = "rollback-selecting", !.proof = proof]
      /\ up' = [up EXCEPT !.pc = "select", !.proof = None, !.stop = None]
  BY DEF RollsBack
<1>2. journal \in Journals(gens) /\ up \in Upgraders(gens) BY DEF UpgradeInv, Types
<1>3. /\ journal' \in Journals(gens) /\ journal'.phase = "rollback-selecting"
      /\ journal'.phase # None /\ journal'.token = journal.token
  BY <1>1, <1>2, UpgradeAssumption DEF Journals, Phases, RollbackBeforeLaunch
<1>4. up' \in Upgraders(gens) /\ up'.pc = "select" /\ up'.proof = None
  BY <1>1, <1>2 DEF Proofs, Upgraders, Counters
<1>5. InPlace' /\ AskedFits' /\ Watched' /\ ProvenFits'
  BY <1>3, <1>4 DEF InPlace, AskedFits, Watched, ProvenFits
<1>6. Selected' BY <1>3, <1>4 DEF Selected, UntouchedPhases, Forward, Backward, Early, BeforeLaunch
<1>7. News' BY <1>3, <1>4, Same DEF News, Early, BeforeLaunch, NewGone, Retired
<1>8. Gate' BY <1>3, <1>4, Same DEF Gate, Terminal
<1> QED BY <1>3, <1>4, <1>5, <1>6, <1>7, <1>8, PaperKeeps

\* While a shutdown is pending, all that is new is gone once the service that
\* the record names is, if that is the one to be shut down.
LEMMA OneGone ==
  ASSUME UpgradeInv, NEW g \in DOMAIN gens, Gone(g),
         journal.phase \in BeforeLaunch \cup LaunchIntent \cup RollbackBeforeLaunch,
         journal.phase = "launching" => gens[g].token = 1
  PROVE  NewGone /\ NewLate /\ journal.token # 0 /\ Shut
<1>1. News /\ Gate /\ Selected BY DEF UpgradeInv
<1>2. Shut BY <1>1 DEF Gate, Sealed
<1>3. CASE journal.phase \in BeforeLaunch
 <2>1. journal.phase # None BY <1>3, UpgradeAssumption DEF Phases
 <2> QED BY <1>1, <1>2, <1>3, <2>1, NoneYet DEF News, Early, Selected
<1>4. CASE journal.phase = "launching"
 <2>1. OneNew /\ journal.token = 1 BY <1>1, <1>4, Apart DEF News, Selected
 <2>2. ASSUME NEW h \in DOMAIN gens, gens[h].version = "new" \/ gens[h].token = 1
       PROVE  Gone(h) /\ ~gens[h].served
   BY <2>1, <2>2, <1>4 DEF OneNew
 <2>3. NewGone BY <2>2 DEF NewGone
 <2>4. NewLate BY <2>1, <2>3 DEF NewLate, NewGone, OneNew
 <2> QED BY <1>2, <2>1, <2>3, <2>4
<1>5. CASE journal.phase \in {"rollback-launching"} \cup RollbackBeforeLaunch
  BY <1>1, <1>2, <1>5 DEF News, RollbackPhases, Rollbacks
<1> QED BY <1>2, <1>3, <1>4, <1>5 DEF LaunchIntent

LEMMA VerifiedKeeps ==
  ASSUME UpgradeInv, Still, up.pc = "stop", NEW tied \in BOOLEAN, Verified(tied),
         Gone(record), journal.phase = "launching" => gens[record].version = "new"
  PROVE  UpgradeInv'
<1>1. /\ journal \in Journals(gens) /\ up \in Upgraders(gens) /\ record \in DOMAIN gens
      /\ up.proof = None
  BY DEF UpgradeInv, Types, ProvenFits
<1>2. CASE journal.phase = "stopping"
 <2> DEFINE pc == IF up.run = "execute" THEN "activate" ELSE "rollback"
 <2>1. /\ journal' = [journal EXCEPT !.phase = "stopped", !.stopId = record]
       /\ up' = [up EXCEPT !.pc = pc, !.stop = None]
   BY <1>2 DEF Verified
 <2>2. /\ journal' \in Journals(gens) /\ journal'.phase = "stopped"
       /\ journal'.token = journal.token
   BY <1>1, <2>1 DEF Journals, Phases, BeforeLaunch
 <2>3. /\ up' \in Upgraders(gens) /\ up'.pc \in {"activate", "rollback"}
       /\ up'.proof = None
   BY <1>1, <2>1 DEF Upgraders, Counters
 <2>4. NothingNew /\ active = "old" /\ journal.token = 1 /\ Shut
   BY <1>2, Apart DEF UpgradeInv, News, Early, Selected, UntouchedPhases, Gate, Sealed
 <2>5. InPlace' /\ AskedFits' /\ Watched' /\ ProvenFits'
   BY <2>2, <2>3 DEF InPlace, AskedFits, Watched, ProvenFits, BeforeLaunch
 <2>6. Selected' BY <2>2, <2>3, <2>4 DEF Selected, Still, UntouchedPhases, Forward, Backward
 <2>7. News' BY <2>2, <2>3, <2>4, Same, Apart, UpgradeAssumption DEF News, Early, RollbackPhases,
   Rollbacks, RollbackBeforeLaunch, Phases, BeforeLaunch
 <2>8. Gate' BY <2>2, <2>3, <2>4, Same DEF Gate, Terminal
 <2> QED BY <2>2, <2>3, <2>5, <2>6, <2>7, <2>8, PaperKeeps
<1>3. CASE journal.phase # "stopping"
 <2> DEFINE proof == [kind |-> "managed", g |-> record, tied |-> tied]
 <2>1. RollsBack(proof) BY <1>3 DEF Verified
 <2>2. proof \in Proofs(gens) BY <1>1 DEF Proofs
 <2>3. journal.phase \in BeforeLaunch \cup LaunchIntent \cup RollbackBeforeLaunch
   BY <1>3 DEF UpgradeInv, InPlace
 <2>4. journal.phase = "launching" => gens[record].token = 1 BY <1>1 DEF UpgradeInv, News, OneNew
 <2>5. NewGone /\ NewLate /\ journal.token # 0 /\ Shut BY <1>1, <2>3, <2>4, OneGone
 <2> HIDE DEF proof
 <2> QED BY <2>1, <2>2, <2>5, RollsBackKeeps
<1> QED BY <1>2, <1>3

LEMMA StopKeeps ==
  ASSUME UpgradeInv, Stop
  PROVE  UpgradeInv'
<1> DEFINE s == up.stop
<1>1. /\ up.pc = "stop" /\ UNCHANGED <<active, record, admission, config>> BY DEF Stop
<1>2. /\ s \in Shutdowns /\ record \in DOMAIN gens /\ up \in Upgraders(gens)
      /\ journal.phase = "launching" => s.version = "new"
      /\ up.proof = None
  BY <1>1 DEF UpgradeInv, Types, AskedFits, ProvenFits
<1>3. CASE Fails /\ UNCHANGED <<gens, hold>> BY <1>1, <1>3, IdleKeeps DEF Fails, Finished, Still
<1>4. CASE /\ Matches(s.version) /\ Receipt(s.tied) /\ Verified(s.tied)
           /\ UNCHANGED <<gens, hold>>
  BY <1>1, <1>4, <1>2, VerifiedKeeps DEF Still, Receipt, UpgradeInv, Receipts, Matches, Shutdowns
<1>5. CASE /\ Matches(s.version) /\ Answers /\ UNCHANGED journal
           /\ AsksStop(IF s.tied THEN "tied" ELSE "hold")
           /\ up' = [up EXCEPT !.stop = [s EXCEPT !.sent = TRUE], !.g = record]
 <2> DEFINE how == IF s.tied THEN "tied" ELSE "hold"
            order == [s EXCEPT !.sent = TRUE]
 <2>1. how \in {"tied", "hold"} OBVIOUS
 <2>2. order \in Shutdowns /\ order.sent /\ order.version = s.version BY <1>2 DEF Shutdowns
 <2>3. AsksStop(how) /\ up' = [up EXCEPT !.stop = order, !.g = record] BY <1>5
 <2> HIDE DEF how, order
 <2>4. /\ up' \in Upgraders(gens) /\ up'.pc = "stop" /\ up'.stop = order
       /\ up'.g = record /\ up'.proof = None
   BY <1>1, <1>2, <2>2, <2>3 DEF Upgraders, Counters
 <2>5. /\ Evolves /\ News' /\ Said' /\ Alone' /\ Gate' /\ Receipts'
       /\ hold' \in Holds(gens)
   BY <1>1, <1>5, <2>1, <2>3, <2>4, Asks
 <2>6. Types' BY <1>1, <1>5, <2>4, <2>5 DEF UpgradeInv, Types, Evolves, Journals, Upgraders,
   Proofs, Holds
 <2>7. InPlace' /\ Selected' BY <1>1, <1>5, <2>4 DEF UpgradeInv, InPlace, Selected
 <2>8. gens[record].at = "ready" /\ gens[record].version = s.version BY <1>5 DEF Answers, Matches
 <2>9. AskedFits' BY <1>2, <2>5, <2>8, <1>5, <2>2, <2>4 DEF Evolves, AskedFits, Starting
 <2>10. Watched' /\ ProvenFits' BY <2>4 DEF Watched, ProvenFits
 <2> QED BY <2>5, <2>6, <2>7, <2>9, <2>10 DEF UpgradeInv
<1> QED BY <1>3, <1>4, <1>5 DEF Stop

LEMMA StopAnsweredKeeps ==
  ASSUME UpgradeInv, StopAnswered
  PROVE  UpgradeInv'
<1> DEFINE s == up.stop
<1>1. Still /\ up.pc = "stop" /\ s.sent /\ Gone(up.g) BY DEF StopAnswered, World, Still
<1>2. CASE Fails BY <1>1, <1>2, IdleKeeps DEF Fails, Finished
<1>3. CASE up.g = record /\ Verified(s.tied)
  BY <1>1, <1>3, VerifiedKeeps DEF UpgradeInv, AskedFits, Shutdowns
<1> QED BY <1>2, <1>3 DEF StopAnswered

-----------------------------------------------------------------------------
(* The activation and the launch. *)

\* A step of the upgrader that writes nothing.
LEMMA GoesKeeps ==
  ASSUME UpgradeInv, Still, NEW pc \in Counters, Goes(pc), up.proof = None,
         pc \notin {"stop", "start", "wait", "cleanup", "commit", "drained", "chosen"}, InPlace'
  PROVE  UpgradeInv'
<1>1. up' = [up EXCEPT !.pc = pc] /\ journal' = journal BY DEF Goes
<1>2. journal' \in Journals(gens) /\ up \in Upgraders(gens) BY <1>1 DEF UpgradeInv, Types
<1>3. up' \in Upgraders(gens) /\ up'.pc = pc /\ up'.proof = None BY <1>1, <1>2 DEF Upgraders
<1>4. AskedFits' /\ Watched' /\ ProvenFits' BY <1>3 DEF AskedFits, Watched, ProvenFits
<1>5. Selected' BY <1>1, <1>3 DEF UpgradeInv, Selected, Still, Rolling
<1>6. News' /\ Gate' BY <1>1, <1>3, Same DEF UpgradeInv, News, Gate, Still
<1> QED BY <1>2, <1>3, <1>4, <1>5, <1>6, PaperKeeps

LEMMA ActivateKeeps ==
  ASSUME UpgradeInv, Activate
  PROVE  UpgradeInv'
<1>1. /\ Still /\ up.pc = "activate" /\ journal.phase = "stopped" /\ up.proof = None
  BY DEF Activate, World, Still, UpgradeInv, InPlace, ProvenFits
<1>2. CASE Errs(TRUE)
 <2>1. PICK verified \in BOOLEAN : Errs(verified) BY <1>2, Zenon
 <2> QED BY <1>1, <2>1, ErrsKeep DEF BeforeLaunch
<1>3. CASE Transition("selecting", "select")
 <2>1. journal \in Journals(gens) /\ up \in Upgraders(gens) BY DEF UpgradeInv, Types
 <2>2. /\ journal'.phase = "selecting" /\ journal'.phase # None
       /\ journal'.token = journal.token /\ up'.pc = "select"
   BY <1>3, <2>1, UpgradeAssumption DEF Transition, Journals, Upgraders, Phases, BeforeLaunch
 <2>3. NothingNew /\ Shut /\ journal.token = 1 BY <1>1, Apart, UpgradeAssumption DEF UpgradeInv,
   News, Early, Gate, Sealed, Selected, BeforeLaunch, Phases
 <2>4. InPlace' BY <2>2 DEF InPlace
 <2>5. Selected' BY <2>2, <2>3 DEF Selected, UntouchedPhases, Forward, Backward
 <2>6. News' BY <1>1, <2>2, <2>3, Same DEF News, RollbackPhases, Rollbacks, RollbackBeforeLaunch
 <2>7. Gate' BY <1>1, <2>2, <2>3, Same DEF Gate, Terminal
 <2>8. "selecting" \in Phases /\ "select" \in Counters BY DEF Phases, BeforeLaunch, Counters
 <2> QED BY <1>1, <1>3, <2>4, <2>5, <2>6, <2>7, <2>8, TransitionKeeps
<1> QED BY <1>2, <1>3 DEF Activate

LEMMA SelectKeeps ==
  ASSUME UpgradeInv, Select
  PROVE  UpgradeInv'
<1>1. /\ up.pc = "select" /\ up' = [up EXCEPT !.pc = "chosen"] /\ journal' = journal
      /\ active' = (IF Rolling THEN "old" ELSE "new")
      /\ UNCHANGED <<gens, record, hold, admission, config>>
  BY DEF Select, Goes
<1>2. /\ journal.phase \in {"selecting", "rollback-selecting"} /\ journal.phase # None
      /\ up.proof = None /\ up \in Upgraders(gens)
  BY <1>1, UpgradeAssumption DEF UpgradeInv, InPlace, ProvenFits, Types, Phases, BeforeLaunch,
    RollbackBeforeLaunch
<1>3. up' \in Upgraders(gens) /\ up'.pc = "chosen" /\ up'.proof = None
  BY <1>1, <1>2 DEF Upgraders, Counters
<1>4. Types' BY <1>1, <1>3 DEF UpgradeInv, Types, Journals, Upgraders, Proofs, Holds, Versions
<1>5. InPlace' /\ AskedFits' /\ Watched' /\ ProvenFits'
  BY <1>1, <1>2, <1>3 DEF InPlace, AskedFits, Watched, ProvenFits
<1>6. Selected'
  BY <1>1, <1>2, <1>3 DEF UpgradeInv, Selected, Rolling, UntouchedPhases, Forward, Backward
<1>7. Gate' BY <1>1, <1>3, SameGens DEF UpgradeInv, Gate
<1>9. News'
 <2>1. News BY DEF UpgradeInv
 <2>2. CASE journal.phase = "selecting" BY <1>1, <1>2, <1>3, <2>1, <2>2, SameGens DEF News, Early,
   BeforeLaunch, RollbackPhases, Rollbacks, RollbackBeforeLaunch
 <2>3. CASE journal.phase = "rollback-selecting"
  <3>1. NewLate /\ NewGone /\ Retired /\ journal.token # 0 /\ active' = "old" BY <1>1, <2>1, <2>3
    DEF News, RollbackPhases, Rollbacks, RollbackBeforeLaunch, Rolling
  <3>2. NewLate' BY <1>1, <3>1 DEF NewLate, Gone
  <3> QED BY <1>1, <1>2, <1>3, <2>3, <3>1, <3>2, SameGens DEF News, Early, BeforeLaunch
 <2> QED BY <1>2, <2>2, <2>3
<1>8. Said' /\ Alone' /\ Receipts' BY <1>1, SameGens DEF UpgradeInv
<1> QED BY <1>4, <1>5, <1>6, <1>7, <1>8, <1>9 DEF UpgradeInv

LEMMA ChosenKeeps ==
  ASSUME UpgradeInv, Chosen
  PROVE  UpgradeInv'
<1> DEFINE phase == IF Rolling THEN "rollback-selected" ELSE "selected"
<1>1. /\ Still /\ up.pc = "chosen" /\ Transition(phase, "intent") BY DEF Chosen, World, Still
<1>2. /\ journal.phase \in {"selecting", "rollback-selecting"} /\ up.proof = None
      /\ active = IF Rolling THEN "old" ELSE "new"
  BY <1>1 DEF UpgradeInv, InPlace, ProvenFits, Selected
<1>3. Rolling <=> journal.phase = "rollback-selecting" BY <1>2 DEF Rolling, RollbackBeforeLaunch
<1>4. journal \in Journals(gens) /\ up \in Upgraders(gens) BY DEF UpgradeInv, Types
<1>5. /\ phase \in Phases /\ "intent" \in Counters /\ phase # None
  BY UpgradeAssumption DEF Phases, BeforeLaunch, RollbackBeforeLaunch, Counters
<1>6. /\ journal'.phase = phase /\ journal'.token = journal.token /\ up'.pc = "intent"
  BY <1>1, <1>4 DEF Transition, Journals, Upgraders
<1>7. Shut BY <1>2 DEF UpgradeInv, Gate, Sealed, BeforeLaunch, RollbackBeforeLaunch
<1>8. journal.phase = "selecting" => NothingNew /\ journal.token = 1
  BY UpgradeAssumption DEF UpgradeInv, News, Selected, Early, BeforeLaunch, Phases
<1>9. journal.phase = "rollback-selecting" => NewGone /\ NewLate /\ Retired /\ journal.token # 0
  BY DEF UpgradeInv, News, RollbackPhases, Rollbacks, RollbackBeforeLaunch
<1>10. InPlace' BY <1>6 DEF InPlace
<1>11. Selected' BY <1>1, <1>2, <1>3, <1>5, <1>6, <1>8 DEF Selected, Still, UntouchedPhases,
  Forward, Backward, Early, BeforeLaunch
<1>12. News' BY <1>1, <1>2, <1>3, <1>5, <1>6, <1>8, <1>9, Same DEF News, Early, BeforeLaunch,
  RollbackPhases, Rollbacks, RollbackBeforeLaunch
<1>13. Gate' BY <1>1, <1>6, <1>7, Same DEF Gate, Terminal
<1> QED BY <1>1, <1>2, <1>5, <1>10, <1>11, <1>12, <1>13, TransitionKeeps

LEMMA IntentKeeps ==
  ASSUME UpgradeInv, Intent
  PROVE  UpgradeInv'
<1> DEFINE phase == IF Rolling THEN "rollback-launching" ELSE "launching"
           token == IF Rolling THEN journal.token + 1 ELSE journal.token
<1>1. /\ Still /\ up.pc = "intent" /\ up' = [up EXCEPT !.pc = "start"]
      /\ journal' = [journal EXCEPT !.phase = phase, !.token = token]
  BY DEF Intent, World, Still
<1>2. /\ journal.phase \in {"selected", "rollback-selected"} /\ up.proof = None
  BY <1>1 DEF UpgradeInv, InPlace, ProvenFits
<1>3. Rolling <=> journal.phase = "rollback-selected" BY <1>2 DEF Rolling, RollbackBeforeLaunch
<1>4. journal \in Journals(gens) /\ up \in Upgraders(gens) BY DEF UpgradeInv, Types
<1>5. token \in Nat BY <1>4 DEF Journals
<1>6. phase \in Phases /\ phase # None BY UpgradeAssumption DEF Phases, LaunchIntent
<1>7. journal' \in Journals(gens) /\ journal'.phase = phase /\ journal'.token = token
  BY <1>1, <1>4, <1>5, <1>6 DEF Journals
<1>8. up' \in Upgraders(gens) /\ up'.pc = "start" /\ up'.proof = None
  BY <1>1, <1>2, <1>4 DEF Upgraders, Counters
<1>9. Shut BY <1>2 DEF UpgradeInv, Gate, Sealed, BeforeLaunch, RollbackBeforeLaunch
<1>10. journal.phase = "selected" => NothingNew /\ journal.token = 1 /\ active = "new"
  BY UpgradeAssumption DEF UpgradeInv, News, Selected, Early, BeforeLaunch, Phases, Forward
<1>11. journal.phase = "rollback-selected" =>
         NewGone /\ NewLate /\ Retired /\ journal.token # 0 /\ active = "old"
  BY DEF UpgradeInv, News, Selected, RollbackPhases, Rollbacks, RollbackBeforeLaunch, Backward
<1>16. journal.phase = "rollback-selected" => token \notin {0, 1} BY <1>3, <1>4, <1>11 DEF Journals
<1>12. InPlace' /\ AskedFits' /\ Watched' /\ ProvenFits'
  BY <1>7, <1>8 DEF InPlace, AskedFits, Watched, ProvenFits, LaunchIntent
<1>13. Selected' BY <1>1, <1>2, <1>3, <1>6, <1>7, <1>8, <1>10, <1>11 DEF Selected, Still,
  UntouchedPhases, Forward, Backward, Early, BeforeLaunch
<1>14. News' BY <1>1, <1>2, <1>3, <1>6, <1>7, <1>10, <1>11, <1>16, Same, NoneYet DEF News, Early,
  BeforeLaunch, RollbackPhases, Rollbacks, RollbackBeforeLaunch
<1>15. Gate' BY <1>1, <1>7, <1>8, <1>9, Same DEF Gate, Terminal
<1> QED BY <1>1, <1>7, <1>8, <1>12, <1>13, <1>14, <1>15, PaperKeeps

LEMMA LaunchKeeps ==
  ASSUME UpgradeInv, Launch
  PROVE  UpgradeInv'
<1>1. /\ up.pc = "start" /\ UNCHANGED <<active, record, admission, config>>
      /\ journal.phase \in LaunchIntent /\ up.proof = None
  BY DEF Launch, UpgradeInv, InPlace, ProvenFits
<1>2. CASE Errs(TRUE) /\ UNCHANGED <<gens, hold>>
 <2>1. PICK verified \in BOOLEAN : Errs(verified) BY <1>2, Zenon
 <2>2. Still BY <1>1, <1>2 DEF Still
 <2> QED BY <1>1, <2>1, <2>2, ErrsKeep
<1>3. CASE /\ hold' = None /\ gens' = Append(gens, Generation(TRUE, journal.token))
           /\ up' = [up EXCEPT !.pc = "wait", !.g = Len(gens) + 1]
           /\ UNCHANGED journal
 <2> DEFINE n == Len(gens) + 1
            token == journal.token
 <2>1. journal \in Journals(gens) /\ up \in Upgraders(gens) /\ token \in Nat
   BY DEF UpgradeInv, Types, Journals
 <2>2. PICK pending \in BOOLEAN : gens' = Append(gens, Generation(pending, token)) BY <1>3, Zenon
 <2>3. /\ gens' \in Seq(Generations) /\ DOMAIN gens \subseteq DOMAIN gens'
       /\ n \in DOMAIN gens' /\ gens'[n] = Generation(pending, token)
       /\ token = 1 /\ NothingNew => OneNew'
       /\ token # 1 /\ NewGone => NewGone'
       /\ token # 1 /\ Retired => Retired'
       /\ active = "old" /\ NewLate => NewLate'
       /\ Shut => Shut'
       /\ Said' /\ Alone' /\ Receipts'
   BY <1>1, <1>3, <2>1, <2>2, Another
 <2>4. gens'[n].token = token BY <2>3 DEF Generation
 <2>5. up' = [up EXCEPT !.pc = "wait", !.g = n] BY <1>3
 <2> HIDE DEF n
 <2>6. /\ Journals(gens) \subseteq Journals(gens') /\ Upgraders(gens) \subseteq Upgraders(gens')
       /\ None \in Holds(gens')
   BY <2>3, Wider DEF Holds
 <2>7. up' \in Upgraders(gens') /\ up'.pc = "wait" /\ up'.g = n /\ up'.proof = None
   BY <1>1, <2>1, <2>3, <2>5, <2>6, SMTT(30), ZenonT(30) DEF Upgraders, Counters
 <2>8. Types' BY <1>1, <1>3, <2>3, <2>6, <2>7 DEF UpgradeInv, Types
 <2>9. InPlace' BY <1>1, <1>3, <2>7 DEF InPlace
 <2>10. Selected' BY <1>1, <1>3, <2>7 DEF UpgradeInv, Selected
 <2>11. News'
  <3>1. News /\ Selected BY DEF UpgradeInv
  <3>2. CASE journal.phase = "launching"
   <4>1. NothingNew /\ token = 1 BY <1>1, <3>1, <3>2, Apart DEF News, Selected
   <4> QED BY <1>3, <2>3, <2>7, <3>2, <4>1, Apart DEF News, Early, BeforeLaunch, RollbackPhases,
     Rollbacks, RollbackBeforeLaunch
  <3>3. CASE journal.phase = "rollback-launching"
   <4>1. /\ NewGone /\ Retired /\ NewLate /\ token \notin {0, 1} /\ active = "old"
         /\ journal.phase # None
     BY <3>1, <3>3, Apart DEF News, Selected, Backward, RollbackPhases, Rollbacks
   <4> QED BY <1>3, <2>3, <2>7, <3>3, <4>1 DEF News, Early, BeforeLaunch
  <3> QED BY <1>1, <3>2, <3>3 DEF LaunchIntent
 <2>12. Gate' BY <1>1, <2>3, <1>3, <2>7 DEF UpgradeInv, Gate, Sealed, Terminal, LaunchIntent
 <2>13. Watched' BY Apart, <1>3, <2>3, <2>4, <2>7 DEF UpgradeInv, Selected, Watched
 <2>14. AskedFits' /\ ProvenFits' BY <2>7 DEF AskedFits, ProvenFits
 <2> QED BY <2>3, <2>8, <2>9, <2>10, <2>11, <2>12, <2>13, <2>14 DEF UpgradeInv
<1> QED BY <1>2, <1>3 DEF Launch

\* A start that failed: if its supervisor has said that all has stopped, the
\* upgrade turns to the rollback with that as its proof.
LEMMA StartFailedKeeps ==
  ASSUME UpgradeInv, Still, up.pc \in {"wait", "cleanup"}, StartFailed
  PROVE  UpgradeInv'
<1>1. /\ journal.phase \in LaunchIntent /\ up.proof = None /\ up.g \in DOMAIN gens
      /\ journal.phase = "launching" => gens[up.g].token = 1
  BY DEF UpgradeInv, InPlace, ProvenFits, Watched
<1>2. CASE Fails BY <1>2, IdleKeeps DEF Fails, Finished
<1>3. CASE /\ SaidStopped(up.g) /\ ~Rolling /\ UNCHANGED journal
           /\ up' = [up EXCEPT !.pc = "rollback",
                               !.proof = [kind |-> "startup", g |-> up.g, tied |-> FALSE]]
 <2> DEFINE proof == [kind |-> "startup", g |-> up.g, tied |-> FALSE]
 <2>1. journal.phase = "launching" BY <1>1, <1>3 DEF LaunchIntent, Rolling
 <2>2. Gone(up.g) BY <1>1, <1>3 DEF SaidStopped, UpgradeInv, Said
 <2>3. proof \in Proofs(gens) /\ proof.kind = "startup" /\ proof.g = up.g BY <1>1 DEF Proofs
 <2>4. journal' \in Journals(gens) /\ up \in Upgraders(gens) BY <1>3 DEF UpgradeInv, Types
 <2>5. up' = [up EXCEPT !.pc = "rollback", !.proof = proof] BY <1>3
 <2> HIDE DEF proof
 <2>6. up' \in Upgraders(gens) /\ up'.pc = "rollback" /\ up'.proof = proof
   BY <2>3, <2>4, <2>5 DEF Upgraders, Counters
 <2>7. InPlace' /\ AskedFits' /\ Watched'
   BY <1>3, <2>1, <2>6 DEF InPlace, AskedFits, Watched, LaunchIntent
 <2>8. ProvenFits' BY <1>1, <1>3, <2>1, <2>2, <2>3, <2>6 DEF ProvenFits, Gone, Still
 <2>9. Selected' BY <1>3, <2>6 DEF UpgradeInv, Selected, Still
 <2>10. News' /\ Gate' BY <1>3, <2>6, Same DEF UpgradeInv, News, Gate, Still
 <2> QED BY <2>4, <2>6, <2>7, <2>8, <2>9, <2>10, PaperKeeps
<1> QED BY <1>2, <1>3 DEF StartFailed, Errs

LEMMA StartedKeeps ==
  ASSUME UpgradeInv, Started
  PROVE  UpgradeInv'
<1>1. Still /\ up.pc = "wait" BY DEF Started, World, Still
<1>2. CASE StartFailed BY <1>1, <1>2, StartFailedKeeps
<1>3. CASE Goes("inspect")
 <2>1. journal.phase \in LaunchIntent /\ up.proof = None
   BY <1>1 DEF UpgradeInv, InPlace, ProvenFits
 <2>2. up \in Upgraders(gens) BY DEF UpgradeInv, Types
 <2>3. journal' = journal /\ up'.pc = "inspect" BY <1>3, <2>2 DEF Goes, Upgraders
 <2>4. InPlace' BY <2>1, <2>3 DEF InPlace
 <2>5. "inspect" \in Counters BY DEF Counters
 <2> QED BY <1>1, <1>3, <2>1, <2>4, <2>5, GoesKeeps
<1> QED BY <1>2, <1>3 DEF Started

LEMMA CleanedUpKeeps ==
  ASSUME UpgradeInv, CleanedUp
  PROVE  UpgradeInv'
BY StartFailedKeeps DEF CleanedUp, World, Still

LEMMA CleanupTimeoutKeeps ==
  ASSUME UpgradeInv, CleanupTimeout
  PROVE  UpgradeInv'
<1>1. /\ Still /\ up.pc = "cleanup" /\ Errs(TRUE) BY DEF CleanupTimeout, Still
<1>2. journal.phase \in LaunchIntent /\ up.proof = None BY <1>1 DEF UpgradeInv, InPlace, ProvenFits
<1>3. PICK verified \in BOOLEAN : Errs(verified) BY <1>1, Zenon
<1> QED BY <1>1, <1>2, <1>3, ErrsKeep

LEMMA StartTimeoutKeeps ==
  ASSUME UpgradeInv, StartTimeout
  PROVE  UpgradeInv'
<1> DEFINE g == up.g
           m == [gens[g] EXCEPT !.stopping = "quiet"]
<1>1. /\ up.pc = "wait" /\ Turns(g, m) /\ ~Exited(g)
      /\ up' = [up EXCEPT !.pc = "cleanup"] /\ journal' = journal
      /\ UNCHANGED <<active, record, hold, admission, config>>
  BY DEF StartTimeout, Goes
<1>2. /\ gens \in Seq(Generations) /\ g \in DOMAIN gens /\ up.proof = None
      /\ up \in Upgraders(gens) /\ journal.phase \in LaunchIntent
      /\ journal.phase = "launching" => gens[g].token = 1
  BY <1>1 DEF UpgradeInv, Types, Watched, ProvenFits, InPlace
<1>3. gens[g] \in Generations BY <1>2, Typed
<1>4. /\ m \in Generations /\ m.at = gens[g].at /\ m.version = gens[g].version
      /\ m.token = gens[g].token /\ m.held = gens[g].held
      /\ m.farewell = gens[g].farewell /\ m.seen = gens[g].seen /\ m.served = gens[g].served
  BY <1>3 DEF Generations
<1>5. up' \in Upgraders(gens) /\ up'.pc = "cleanup" /\ up'.g = g /\ up'.proof = None
  BY <1>1, <1>2 DEF Upgraders, Counters
<1> HIDE DEF m, g
<1>6. /\ gens' \in Seq(Generations) /\ DOMAIN gens' = DOMAIN gens
      /\ \A h \in DOMAIN gens : gens'[h] = IF h = g THEN m ELSE gens[h]
  BY <1>1, <1>2, <1>4, Turned
<1>7. Evolves BY <1>4, <1>6 DEF Evolves, Gone
<1>8. Gate' /\ Alone' BY <1>4, <1>6, <1>1, <1>5, <1>7, GateKeeps DEF Up
<1>9. News' /\ Said' /\ Receipts' BY <1>1, <1>5, <1>7, NewsKeep, SaidKeeps, ReceiptsKeep
<1>10. Types' BY <1>1, <1>5, <1>6 DEF UpgradeInv, Types, Journals, Upgraders, Proofs, Holds
<1>11. InPlace' /\ Selected' BY <1>1, <1>2, <1>5 DEF UpgradeInv, InPlace, Selected, Rolling
<1>12. AskedFits' /\ Watched' /\ ProvenFits'
  BY <1>1, <1>2, <1>4, <1>5, <1>6 DEF AskedFits, Watched, ProvenFits
<1> QED BY <1>8, <1>9, <1>10, <1>11, <1>12 DEF UpgradeInv

LEMMA InspectKeeps ==
  ASSUME UpgradeInv, Inspect
  PROVE  UpgradeInv'
<1>1. /\ Still /\ up.pc = "inspect" /\ journal.phase \in LaunchIntent /\ up.proof = None
  BY DEF Inspect, World, Still, UpgradeInv, InPlace, ProvenFits
<1> DEFINE phase == IF Rolling THEN "admitting-rollback" ELSE "admitting"
<1>2. CASE Errs(TRUE)
 <2>1. PICK verified \in BOOLEAN : Errs(verified) BY <1>2, Zenon
 <2> QED BY <1>1, <2>1, ErrsKeep
<1>3. CASE Transition(phase, "admit")
 <2>1. journal \in Journals(gens) /\ up \in Upgraders(gens) BY DEF UpgradeInv, Types
 <2>2. phase \in Phases /\ phase # None /\ "admit" \in Counters
   BY UpgradeAssumption DEF Phases, Counters
 <2>3. journal'.phase = phase /\ journal'.token = journal.token /\ up'.pc = "admit"
   BY <1>3, <2>1 DEF Transition, Journals, Upgraders
 <2>4. Rolling <=> journal.phase = "rollback-launching"
   BY <1>1 DEF Rolling, LaunchIntent, RollbackBeforeLaunch
 <2>5. /\ active = IF Rolling THEN "old" ELSE "new"
       /\ Rolling => NewGone /\ NewLate /\ Retired /\ journal.token # 0
   BY <1>1, <2>4 DEF UpgradeInv, Selected, News, LaunchIntent, Forward, Backward, RollbackPhases,
     Rollbacks
 <2>6. InPlace' BY <2>3 DEF InPlace
 <2>7. Selected' BY <1>1, <2>2, <2>3, <2>5 DEF Selected, Still, UntouchedPhases, Forward, Backward,
   Early, BeforeLaunch
 <2>8. News' BY <1>1, <2>2, <2>3, <2>5, Same DEF News, Early, BeforeLaunch, RollbackPhases,
   Rollbacks, RollbackBeforeLaunch
 <2>9. Gate' BY <2>2, <2>3 DEF Gate, Sealed, Terminal, BeforeLaunch, RollbackBeforeLaunch,
   LaunchIntent
 <2> HIDE DEF phase
 <2> QED BY <1>1, <1>3, <2>2, <2>6, <2>7, <2>8, <2>9, TransitionKeeps
<1> QED BY <1>2, <1>3 DEF Inspect

-----------------------------------------------------------------------------
(* Admission. *)

\* The service that the record names is held, or let go of.
LEMMA ServiceAnswered ==
  ASSUME UpgradeInv, Answers, NEW m \in Generations, Turns(record, m),
         m = [gens[record] EXCEPT !.held = m.held, !.pending = m.pending, !.drained = m.drained],
         UNCHANGED <<record, hold>>
  PROVE  /\ Evolves /\ Said' /\ Alone' /\ Receipts'
         /\ \A h \in DOMAIN gens' : Up(h)' => gens'[h] = m
<1>1. /\ record \in DOMAIN gens /\ gens[record] \in Generations /\ Alone
      /\ gens \in Seq(Generations)
  BY Typed DEF UpgradeInv, Types
<1>2. /\ m.at = "ready" /\ gens[record].at = "ready" /\ m.version = gens[record].version
      /\ m.token = gens[record].token
      /\ m.farewell = gens[record].farewell /\ m.seen = gens[record].seen
      /\ m.served = gens[record].served
  BY <1>1 DEF Answers, Generations
<1>3. Evolves BY <1>2, <1>1, TurnEvolves DEF Follows, Gone
<1>4. \A h \in DOMAIN gens : gens'[h] = IF h = record THEN m ELSE gens[h] BY <1>1, Turned
<1>5. Alone' BY <1>1, <1>3, <1>4 DEF Alone, Up, Evolves
<1>6. \A h \in DOMAIN gens' : Up(h)' => gens'[h] = m BY <1>3, <1>4, <1>5 DEF Evolves, Alone
<1> QED BY <1>3, <1>5, <1>6, SaidKeeps, ReceiptsKeep

LEMMA OpensAnswered ==
  ASSUME UpgradeInv, Answers, OpensAdmission, UNCHANGED <<record, hold>>
  PROVE  Evolves /\ Said' /\ Alone' /\ Receipts' /\ ~admission' /\ admission' \in BOOLEAN
<1> DEFINE m == [gens[record] EXCEPT !.held = FALSE, !.pending = FALSE, !.drained = FALSE]
<1>1. gens[record] \in Generations BY Typed DEF UpgradeInv, Types
<1>2. /\ m \in Generations
      /\ m = [gens[record] EXCEPT !.held = m.held, !.pending = m.pending, !.drained = m.drained]
  BY <1>1 DEF Generations
<1>3. Turns(record, m) /\ admission' = FALSE BY DEF OpensAdmission
<1> HIDE DEF m
<1> QED BY <1>2, <1>3, ServiceAnswered

LEMMA AdmitKeeps ==
  ASSUME UpgradeInv, Admit
  PROVE  UpgradeInv'
<1>1. /\ up.pc = "admit" /\ UNCHANGED <<active, record, hold, config>>
      /\ journal.phase \in {"admitting", "admitting-rollback"} /\ up.proof = None
  BY DEF Admit, UpgradeInv, InPlace, ProvenFits
<1>2. CASE Fails /\ UNCHANGED <<gens, admission>>
  BY <1>1, <1>2, IdleKeeps DEF Fails, Finished, Still
<1>3. CASE Answers /\ OpensAdmission /\ (Goes("commit") \/ Fails)
 <2>1. Evolves /\ Said' /\ Alone' /\ Receipts' /\ ~admission' /\ admission' \in BOOLEAN
   BY <1>1, <1>3, OpensAnswered
 <2>2. journal' = journal BY <1>3 DEF Goes, Fails
 <2>3. up \in Upgraders(gens) BY DEF UpgradeInv, Types
 <2>4. up' \in Upgraders(gens) /\ up'.pc \in {"commit", "off"} /\ up'.proof = None
  <3>1. CASE Goes("commit") BY <1>1, <2>3, <3>1 DEF Goes, Upgraders, Counters
  <3>2. CASE Fails BY <3>2 DEF Fails, Finished, Idle, Upgraders, Counters, Proofs
  <3> QED BY <1>3, <3>1, <3>2
 <2>5. Types' BY <1>1, <2>1, <2>2, <2>4 DEF UpgradeInv, Types, Evolves, Journals, Upgraders,
   Proofs, Holds
 <2>6. InPlace' /\ AskedFits' /\ Watched' /\ ProvenFits'
   BY <1>1, <2>2, <2>4 DEF InPlace, AskedFits, Watched, ProvenFits
 <2>7. Selected' BY <1>1, <2>2, <2>4 DEF UpgradeInv, Selected
 <2>8. News' BY <1>1, <2>1, <2>2, <2>4, NewsKeep
 <2>9. Gate'
   BY <1>1, <2>1, <2>2, <2>4 DEF Sealed, BeforeLaunch, LaunchIntent, RollbackBeforeLaunch, Gate
 <2> QED BY <2>1, <2>5, <2>6, <2>7, <2>8, <2>9 DEF UpgradeInv
<1> QED BY <1>1, <1>2, <1>3 DEF Admit

LEMMA ResumeKeeps ==
  ASSUME UpgradeInv, Resume
  PROVE  UpgradeInv'
<1>1. /\ up.pc = "resume" /\ UNCHANGED <<active, record, hold, config>>
      /\ journal.phase \in {"prepared", "quiescing"} /\ journal.phase # None
  BY Apart DEF Resume, UpgradeInv, InPlace
<1>2. CASE Fails /\ UNCHANGED <<gens, admission>>
  BY <1>1, <1>2, IdleKeeps DEF Fails, Finished, Still
<1>3. CASE /\ Answers /\ OpensAdmission /\ Finished
           /\ journal' = journal \/ journal' = [journal EXCEPT !.phase = "aborted"]
 <2>1. Evolves /\ Said' /\ Alone' /\ Receipts' /\ ~admission' /\ admission' \in BOOLEAN
   BY <1>1, <1>3, OpensAnswered
 <2>2. up' \in Upgraders(gens) /\ up'.pc = "off" /\ up'.proof = None
   BY <1>3 DEF Finished, Idle, Upgraders, Counters, Proofs
 <2>3. journal \in Journals(gens) BY DEF UpgradeInv, Types
 <2>4. /\ journal' \in Journals(gens) /\ journal'.phase \in {journal.phase, "aborted"}
       /\ journal'.token = journal.token /\ journal'.phase # None
   BY <1>1, <1>3, <2>3, UpgradeAssumption DEF Journals, Phases, Terminal
 <2>5. Types' BY <1>1, <2>1, <2>2, <2>4 DEF UpgradeInv, Types, Evolves, Journals, Upgraders,
   Proofs, Holds
 <2>6. InPlace' /\ AskedFits' /\ Watched' /\ ProvenFits' BY <2>2 DEF InPlace, AskedFits, Watched, ProvenFits
 <2>7. active = "old" /\ journal.token = 1 BY <1>1 DEF UpgradeInv, Selected, UntouchedPhases, Early
 <2>8. Selected'
   BY <1>1, <2>2, <2>4, <2>7 DEF Selected, UntouchedPhases, Forward, Backward, Early, BeforeLaunch
 <2>9. News'
  <3>1. CASE journal' = journal BY <1>1, <2>1, <2>2, <3>1, NewsKeep
  <3>2. CASE journal'.phase = "aborted"
    BY <2>4, <3>2 DEF News, Early, BeforeLaunch, RollbackPhases, Rollbacks, RollbackBeforeLaunch
  <3> QED BY <1>3, <2>3, <3>1, <3>2 DEF Journals
 <2>10. Gate'
   BY <1>1, <2>4, <2>1, <2>2 DEF Sealed, BeforeLaunch, LaunchIntent, RollbackBeforeLaunch, Gate
 <2> QED BY <2>1, <2>5, <2>6, <2>8, <2>9, <2>10 DEF UpgradeInv
<1> QED BY <1>1, <1>2, <1>3 DEF Resume, Fails

\* The service closes admission.
LEMMA ClosesKeeps ==
  ASSUME UpgradeInv, up.pc = "quiesce", Answers, ClosesAdmission,
         Turns(record, [gens[record] EXCEPT !.held = TRUE, !.drained = TRUE]),
         UNCHANGED <<journal, active, record, hold, config>>,
         NEW pc \in {"drained", "resume", "off"},
         up' \in Upgraders(gens), up'.pc = pc, up'.proof = None
  PROVE  UpgradeInv'
<1> DEFINE m == [gens[record] EXCEPT !.held = TRUE, !.drained = TRUE]
<1>1. gens[record] \in Generations BY Typed DEF UpgradeInv, Types
<1>2. /\ m \in Generations /\ m.held
      /\ m = [gens[record] EXCEPT !.held = m.held, !.pending = m.pending, !.drained = m.drained]
  BY <1>1 DEF Generations
<1>3. Turns(record, m) OBVIOUS
<1> HIDE DEF m
<1>4. /\ Evolves /\ Said' /\ Alone' /\ Receipts'
      /\ \A h \in DOMAIN gens' : Up(h)' => gens'[h] = m
  BY <1>2, <1>3, ServiceAnswered
<1>5. journal.phase = "quiescing" BY DEF UpgradeInv, InPlace
<1>6. Types'
  BY <1>4 DEF UpgradeInv, Types, Evolves, Journals, Upgraders, Proofs, Holds, ClosesAdmission
<1>7. InPlace' /\ AskedFits' /\ Watched' /\ ProvenFits' BY <1>5 DEF InPlace, AskedFits, Watched, ProvenFits
<1>8. Selected' BY DEF UpgradeInv, Selected
<1>9. News' BY <1>4, NewsKeep
<1>10. Gate' BY <1>2, <1>4, <1>5 DEF Shut, ClosesAdmission, Gate, Terminal
<1> QED BY <1>4, <1>6, <1>7, <1>8, <1>9, <1>10 DEF UpgradeInv

LEMMA QuiesceKeeps ==
  ASSUME UpgradeInv, Quiesce
  PROVE  UpgradeInv'
<1>1. /\ up.pc = "quiesce" /\ UNCHANGED <<active, record, hold, config>>
      /\ journal.phase = "quiescing" /\ up.proof = None /\ up \in Upgraders(gens)
  BY DEF Quiesce, UpgradeInv, InPlace, ProvenFits, Types
<1>2. CASE Fails /\ UNCHANGED <<gens, admission>>
  BY <1>1, <1>2, IdleKeeps DEF Fails, Finished, Still
<1>3. CASE /\ Answers /\ ClosesAdmission
           /\ Turns(record, [gens[record] EXCEPT !.held = TRUE, !.drained = TRUE])
           /\ Goes("drained") \/ Goes("resume") \/ Fails
 <2>1. PICK pc \in {"drained", "resume", "off"} :
         up' \in Upgraders(gens) /\ up'.pc = pc /\ up'.proof = None
  <3>1. CASE Fails BY <3>1 DEF Fails, Finished, Idle, Upgraders, Counters, Proofs
  <3>2. CASE Goes("drained") BY <1>1, <3>2 DEF Goes, Upgraders, Counters
  <3>3. CASE Goes("resume") BY <1>1, <3>3 DEF Goes, Upgraders, Counters
  <3> QED BY <1>3, <3>1, <3>2, <3>3
 <2>2. journal' = journal BY <1>3 DEF Goes, Fails
 <2> QED BY <1>1, <1>3, <2>1, <2>2, ClosesKeeps
<1>4. CASE Fails /\ UNCHANGED gens /\ ClosesAdmission
 <2>1. /\ up' \in Upgraders(gens) /\ up'.pc = "off"
       /\ InPlace' /\ Selected' /\ AskedFits' /\ Watched' /\ ProvenFits'
   BY <1>1, <1>4, Idles DEF Fails, Finished
 <2>2. journal' = journal BY <1>4 DEF Fails
 <2>3. Types' BY <1>1, <1>4, <2>1, <2>2 DEF UpgradeInv, Types, Journals, Upgraders, Proofs, Holds,
   ClosesAdmission
 <2>4. News' /\ Said' /\ Alone' BY <1>1, <1>4, <2>1, <2>2 DEF UpgradeInv, News, NothingNew, OneNew,
   NewGone, NewLate, Retired, Unseen, Said, Alone, Gone, Up
 <2>5. Receipts' BY <1>1, <1>4 DEF UpgradeInv, Receipts, Gone
 <2>6. Gate' BY <1>1, <2>1, <2>2 DEF Gate, Sealed, Terminal, BeforeLaunch, LaunchIntent,
   RollbackBeforeLaunch
 <2> QED BY <2>1, <2>3, <2>4, <2>5, <2>6 DEF UpgradeInv
<1> QED BY <1>1, <1>2, <1>3, <1>4 DEF Quiesce

LEMMA CommitKeeps ==
  ASSUME UpgradeInv, Commit
  PROVE  UpgradeInv'
<1> DEFINE phase == IF Rolling THEN "rolled-back" ELSE "committed"
<1>1. /\ Still /\ up.pc = "commit" /\ up' = Idle /\ journal' = [journal EXCEPT !.phase = phase]
      /\ journal.phase \in {"admitting", "admitting-rollback"} /\ ~admission
  BY DEF Commit, Finished, World, Still, UpgradeInv, InPlace, Gate
<1>2. journal \in Journals(gens) BY DEF UpgradeInv, Types
<1>3. phase \in Phases /\ phase # None BY UpgradeAssumption DEF Phases, Terminal
<1>4. journal' \in Journals(gens) /\ journal'.phase = phase /\ journal'.token = journal.token
  BY <1>1, <1>2, <1>3 DEF Journals
<1>5. up' \in Upgraders(gens) /\ up'.pc = "off" /\ up'.proof = None
  BY <1>1 DEF Idle, Upgraders, Counters, Proofs
<1>6. Rolling <=> journal.phase = "admitting-rollback" BY <1>1 DEF Rolling, RollbackBeforeLaunch
<1>7. /\ active = IF Rolling THEN "old" ELSE "new"
      /\ Rolling => NewLate /\ Retired /\ journal.token # 0
  BY <1>1, <1>6 DEF UpgradeInv, Selected, News, Forward, Backward, RollbackPhases
<1>8. InPlace' /\ AskedFits' /\ Watched' /\ ProvenFits'
  BY <1>5 DEF InPlace, AskedFits, Watched, ProvenFits
<1>9. Selected' BY <1>1, <1>3, <1>4, <1>5, <1>7 DEF Selected, Still, UntouchedPhases, Forward,
  Backward, Early, BeforeLaunch
<1>10. News' BY <1>1, <1>3, <1>4, <1>5, <1>7, Same DEF News, Early, BeforeLaunch, RollbackPhases,
  Rollbacks, RollbackBeforeLaunch
<1>11. Gate' BY <1>1, <1>3, <1>4, <1>5 DEF Gate, Sealed, Still, BeforeLaunch, RollbackBeforeLaunch,
  LaunchIntent
<1> QED BY <1>1, <1>4, <1>5, <1>8, <1>9, <1>10, <1>11, PaperKeeps

-----------------------------------------------------------------------------
(* The rollback and the recovery. *)

\* A rollback that asks for a stop: of the service that its journal expects.
LEMMA ShutsDownKeeps ==
  ASSUME UpgradeInv, Still, UNCHANGED journal, up.pc = "rollback", up.proof = None,
         NEW version \in Versions \cup {None}, NEW tied \in BOOLEAN,
         NEW expected \in Nat \cup {None},
         up' = [up EXCEPT !.pc = "stop", !.stop = ShutDown(version, tied, expected)],
         journal.phase = "launching" => version = "new"
  PROVE  UpgradeInv'
<1> DEFINE m == ShutDown(version, tied, expected)
<1>1. m \in Shutdowns /\ ~m.sent /\ m.version = version BY DEF ShutDown, Shutdowns
<1>2. up \in Upgraders(gens) /\ journal' \in Journals(gens) BY DEF UpgradeInv, Types
<1> HIDE DEF m
<1>3. up' \in Upgraders(gens) /\ up'.pc = "stop" /\ up'.stop = m /\ up'.proof = None
  BY <1>1, <1>2 DEF Upgraders, Counters, m
<1>4. InPlace' BY <1>3 DEF UpgradeInv, InPlace
<1>5. AskedFits' BY <1>1, <1>3 DEF AskedFits
<1>6. Watched' /\ ProvenFits' BY <1>3 DEF Watched, ProvenFits
<1>7. Selected' BY <1>3 DEF UpgradeInv, Selected, Still
<1>8. News' /\ Gate' BY <1>3, Same DEF UpgradeInv, News, Gate, Still
<1> QED BY <1>2, <1>3, <1>4, <1>5, <1>6, <1>7, <1>8, PaperKeeps

LEMMA RollbackKeeps ==
  ASSUME UpgradeInv, Rollback
  PROVE  UpgradeInv'
<1> DEFINE proof == IF journal.phase \in RollbackBeforeLaunch THEN journal.proof ELSE up.proof
<1>1. /\ Still /\ up.pc = "rollback"
      /\ journal.phase \in BeforeLaunch \cup LaunchIntent \cup RollbackBeforeLaunch
      /\ News /\ Gate /\ ProvenFits
      /\ journal \in Journals(gens) /\ up \in Upgraders(gens) /\ active \in Versions
      /\ gens \in Seq(Generations)
  BY DEF Rollback, World, Still, UpgradeInv, InPlace, Types
<1>2. journal.phase # "launching" => up.proof = None BY <1>1 DEF ProvenFits
<1>3. "launching" \notin BeforeLaunch \cup RollbackBeforeLaunch
  BY DEF BeforeLaunch, RollbackBeforeLaunch
<1>4. proof \in Proofs(gens) BY <1>1 DEF Journals, Upgraders
<1>5. DOMAIN gens \subseteq Nat BY <1>1, LenProperties
<1>6. CASE Fails BY <1>1, <1>6, IdleKeeps DEF Fails, Finished
<1>7. CASE /\ journal.phase \in BeforeLaunch /\ UNCHANGED journal
           /\ up' = [up EXCEPT !.pc = "stop", !.stop = ShutDown("old", TRUE, journal.stopId)]
 <2>1. journal.stopId \in Nat \cup {None} BY <1>1, <1>5 DEF Journals
 <2>2. up.proof = None /\ journal.phase # "launching" BY <1>2, <1>3, <1>7
 <2>3. PICK tied \in BOOLEAN :
         up' = [up EXCEPT !.pc = "stop", !.stop = ShutDown("old", tied, journal.stopId)]
   BY <1>7, Zenon
 <2>4. "old" \in Versions \cup {None} BY DEF Versions
 <2> QED BY <1>1, <1>7, <2>1, <2>2, <2>3, <2>4, ShutsDownKeeps
<1>8. CASE /\ proof # None /\ proof.kind = "managed" /\ UNCHANGED journal
           /\ up' = [up EXCEPT !.pc = "stop",
                               !.stop = ShutDown(gens[proof.g].version, proof.tied, proof.g)]
 <2>1. proof.g \in DOMAIN gens /\ proof.tied \in BOOLEAN BY <1>4, <1>8 DEF Proofs
 <2>2. gens[proof.g].version \in Versions \cup {None} BY <1>1, <2>1, Typed DEF Generations
 <2>3. journal.phase \in RollbackBeforeLaunch BY <1>1, <1>8 DEF ProvenFits
 <2>4. up.proof = None /\ journal.phase # "launching" BY <1>2, <1>3, <2>3
 <2>5. proof.g \in Nat \cup {None} BY <1>5, <2>1
 <2> HIDE DEF proof
 <2> QED BY <1>1, <1>8, <2>1, <2>2, <2>4, <2>5, ShutsDownKeeps
<1>9. CASE proof # None /\ StartupStopped(proof.g) /\ RollsBack(proof)
 <2>1. NewGone /\ NewLate /\ journal.token # 0 /\ Shut
  <3>1. CASE journal.phase \in RollbackBeforeLaunch
    BY <1>1, <3>1 DEF News, Gate, RollbackPhases, Rollbacks, Sealed
  <3>2. CASE journal.phase \notin RollbackBeforeLaunch
    BY <1>9, <3>2, <1>1, OneGone DEF ProvenFits, Upgraders, Proofs
  <3> QED BY <3>1, <3>2
 <2> HIDE DEF proof
 <2> QED BY <1>1, <1>4, <1>9, <2>1, RollsBackKeeps
<1>10. CASE /\ proof = None /\ journal.phase \notin BeforeLaunch /\ UNCHANGED journal
            /\ up' = [up EXCEPT !.pc = "stop", !.stop = ShutDown(active, FALSE, None)]
 <2>1. up.proof = None BY <1>2, <1>3, <1>10
 <2>2. PICK tied \in BOOLEAN :
         up' = [up EXCEPT !.pc = "stop", !.stop = ShutDown(active, tied, None)]
   BY <1>10, Zenon
 <2>3. journal.phase = "launching" => active = "new" BY DEF UpgradeInv, Selected, Forward
 <2>4. None \in Nat \cup {None} /\ active \in Versions \cup {None} BY <1>1
 <2> QED BY <1>1, <1>10, <2>1, <2>2, <2>3, <2>4, ShutsDownKeeps
<1> QED BY <1>6, <1>7, <1>8, <1>9, <1>10 DEF Rollback

\* Only the lock changes, or nothing at all.
LEMMA RestKeeps ==
  ASSUME UpgradeInv, UNCHANGED <<gens, up, journal, active, record, hold, admission, config>>
  PROVE  UpgradeInv'
<1>1. Still BY DEF Still
<1>2. journal' \in Journals(gens) /\ up' \in Upgraders(gens) BY DEF UpgradeInv, Types
<1>3. InPlace' /\ Selected' BY DEF UpgradeInv, InPlace, Selected, Rolling
<1>4. News' /\ Gate' BY <1>1, Same DEF UpgradeInv, News, Gate
<1>5. AskedFits' /\ Watched' /\ ProvenFits' BY DEF UpgradeInv, AskedFits, Watched, ProvenFits, Gone
<1> QED BY <1>1, <1>2, <1>3, <1>4, <1>5, PaperKeeps

LEMMA RecoverKeeps ==
  ASSUME UpgradeInv, Recover
  PROVE  UpgradeInv'
<1>1. Still /\ journal' = journal BY DEF Recover, World, Still
<1>2. journal' \in Journals(gens) BY <1>1 DEF UpgradeInv, Types
<1>3. CASE /\ journal.phase \in {"prepared", "quiescing"}
           /\ up' = [Idle EXCEPT !.pc = "resume", !.run = "recover"]
 <2>1. up' \in Upgraders(gens) /\ up'.pc = "resume" /\ up'.proof = None
   BY <1>3 DEF Idle, Upgraders, Counters, Proofs
 <2>2. InPlace' /\ AskedFits' /\ Watched' /\ ProvenFits'
   BY <1>1, <1>3, <2>1 DEF InPlace, AskedFits, Watched, ProvenFits
 <2>3. Selected' BY <1>1, <2>1 DEF UpgradeInv, Selected, Still
 <2>4. News' /\ Gate' BY <1>1, <2>1, Same DEF UpgradeInv, News, Gate, Still
 <2> QED BY <1>1, <1>2, <2>1, <2>2, <2>3, <2>4, PaperKeeps
<1>4. CASE /\ journal.phase = "stopping"
           /\ up' = [Idle EXCEPT !.pc = "stop", !.run = "recover",
                                 !.stop = ShutDown("old", TRUE, None)]
 <2> DEFINE m == ShutDown("old", TRUE, None)
 <2>1. m \in Shutdowns /\ ~m.sent BY DEF ShutDown, Shutdowns, Versions
 <2>2. up' = [Idle EXCEPT !.pc = "stop", !.run = "recover", !.stop = m] BY <1>4
 <2> HIDE DEF m
 <2>3. up' \in Upgraders(gens) /\ up'.pc = "stop" /\ up'.proof = None /\ up'.stop = m
   BY <2>1, <2>2 DEF Idle, Upgraders, Counters, Proofs
 <2>4. InPlace' /\ Watched' /\ ProvenFits' BY <1>1, <1>4, <2>3 DEF InPlace, Watched, ProvenFits
 <2>5. AskedFits' BY <1>1, <1>4, <2>1, <2>3 DEF AskedFits
 <2>6. Selected' BY <1>1, <2>3 DEF UpgradeInv, Selected, Still
 <2>7. News' /\ Gate' BY <1>1, <2>3, Same DEF UpgradeInv, News, Gate, Still
 <2> QED BY <1>1, <1>2, <2>3, <2>4, <2>5, <2>6, <2>7, PaperKeeps
<1>5. CASE /\ journal.phase \in Recoverable
           /\ up' = [Idle EXCEPT !.pc = "rollback", !.run = "recover"]
 <2>1. up' \in Upgraders(gens) /\ up'.pc = "rollback" /\ up'.proof = None
   BY <1>5 DEF Idle, Upgraders, Counters, Proofs
 <2>2. InPlace' /\ AskedFits' /\ Watched' /\ ProvenFits'
   BY <1>1, <1>5, <2>1 DEF InPlace, AskedFits, Watched, ProvenFits, Recoverable
 <2>3. Selected' BY <1>1, <2>1 DEF UpgradeInv, Selected, Still
 <2>4. News' /\ Gate' BY <1>1, <2>1, Same DEF UpgradeInv, News, Gate, Still
 <2> QED BY <1>1, <1>2, <2>1, <2>2, <2>3, <2>4, PaperKeeps
<1> QED BY <1>3, <1>4, <1>5 DEF Recover

-----------------------------------------------------------------------------
(* The theorems. *)

LEMMA UpgradeBegins == Init => UpgradeInv
<1> SUFFICES ASSUME Init PROVE UpgradeInv OBVIOUS
<1> DEFINE m == [Generation(FALSE, 0) EXCEPT !.at = "ready", !.seen = "old", !.version = "old"]
<1>1. gens = <<m>> /\ m \in Generations BY DEF Init, Generation, Generations, Versions
<1>2. /\ m.token = 0 /\ m.version = "old" /\ m.seen = "old" /\ ~m.farewell BY DEF Generation
<1> HIDE DEF m
<1>3. gens \in Seq(Generations) /\ DOMAIN gens = {1} /\ gens[1] = m BY <1>1
<1>4. /\ journal.phase = None /\ journal.proof = None /\ journal \in Journals(gens)
      /\ up.pc = "off" /\ up.proof = None /\ up \in Upgraders(gens)
  BY DEF Init, Idle, Journals, Upgraders, Counters, Proofs
<1>5. Types BY <1>3, <1>4 DEF Init, Types, Versions, Holds
<1>6. NothingNew /\ Unseen /\ Said /\ Alone
  BY <1>2, <1>3, Apart DEF Init, NothingNew, Unseen, Said, Alone
<1>7. InPlace /\ AskedFits /\ Watched /\ ProvenFits BY <1>4 DEF InPlace, AskedFits, Watched, ProvenFits
<1>8. Selected BY <1>4, UpgradeAssumption DEF Init, Selected, UntouchedPhases, Forward, Backward,
  Early, Phases, BeforeLaunch, RollbackBeforeLaunch, LaunchIntent, Terminal
<1>9. News BY <1>4, <1>6, Apart DEF News
<1>10. Gate /\ Receipts BY <1>4, Apart DEF Init, Gate, Receipts
<1> QED BY <1>5, <1>6, <1>7, <1>8, <1>9, <1>10 DEF UpgradeInv

\* Every step of a generation, of a user, of the upgrader and of the operator.
LEMMA UpgradeContinues ==
  ASSUME UpgradeInv, [Next]_vars
  PROVE  UpgradeInv'
<1>1. CASE UNCHANGED vars BY <1>1, RestKeeps DEF vars
<1>2. CASE Begin BY <1>2, BeginKeeps
<1>3. CASE Upgrades BY <1>3, PreparedKeeps, QuiesceKeeps, DrainedKeeps, ResumeKeeps, StopKeeps,
  StopAnsweredKeeps, ActivateKeeps, SelectKeeps, ChosenKeeps, IntentKeeps, LaunchKeeps,
  StartedKeeps, CleanedUpKeeps, InspectKeeps, AdmitKeeps, CommitKeeps, RollbackKeeps DEF Upgrades
<1>4. CASE Suffers
 <2>1. CASE StopUnanswered BY <2>1, IdleKeeps DEF StopUnanswered, Fails, Finished, Still
 <2>2. CASE UpgraderDies BY <2>2, IdleKeeps DEF UpgraderDies, Still
 <2> QED BY <1>4, <2>1, <2>2, StartTimeoutKeeps, CleanupTimeoutKeeps DEF Suffers
<1>5. CASE Recovers
 <2>1. CASE RemoveLock BY <2>1, RestKeeps DEF RemoveLock, World
 <2> QED BY <1>5, <2>1, RecoverKeeps DEF Recovers
<1>6. CASE Users BY <1>6, UserStopsKeeps, UserEditsKeeps, StartKeeps DEF Users
<1>7. ASSUME NEW g \in DOMAIN gens, Runs(g) \/ Breaks(g) PROVE UpgradeInv'
  BY <1>7, ReadsSelectionKeeps, ReadsJournalKeeps, SpawnsKeeps, ListensKeeps, IsReadyKeeps, ServesKeeps, StopsKeeps,
    BridgeEndsKeeps, DiesKeeps, LauncherDiesKeeps DEF Runs, Breaks
<1> QED BY <1>1, <1>2, <1>3, <1>4, <1>5, <1>6, <1>7 DEF Next

\* What is known of the generations, by their tokens, receipts and farewells,
\* holds in every reachable state.
THEOREM UpgradeInvariance == Spec => []UpgradeInv
<1>1. UpgradeInv /\ [Next]_vars => UpgradeInv' BY UpgradeContinues
<1> QED BY <1>1, UpgradeBegins, PTL DEF Spec

\* The old version never comes back over a new one that has served or may
\* still come up, however often the upgrader dies and is recovered; but once the
\* journal is settled a launcher that has seen the new selection is let in.
THEOREM NewIsFinal == Spec => []NoRollbackOverNew
<1>1. UpgradeInv => NoRollbackOverNew
  BY DEF UpgradeInv, News, NewGone, NewLate, RollbackPhases, Rollbacks, NoRollbackOverNew
<1> QED BY <1>1, UpgradeInvariance, PTL

\* Nobody serves between the stop and the admission, and what is settled is
\* open and selected as the journal says.
THEOREM ClosedInBetween == Spec => []ClosedUntilSettled
<1>1. ASSUME UpgradeInv PROVE ClosedUntilSettled
 <2>1. journal.phase \in Sealed => \A g \in DOMAIN gens : ~Open(g)
   BY <1>1 DEF UpgradeInv, Gate, Shut, Open, Up
 <2>2. journal.phase \in Terminal => ~admission BY <1>1 DEF UpgradeInv, Gate
 <2>3. journal.phase \in Terminal =>
         active = (IF journal.phase = "committed" THEN "new" ELSE "old")
   BY <1>1 DEF UpgradeInv, Selected, Terminal, UntouchedPhases, Forward, Backward
 <2> QED BY <2>1, <2>2, <2>3 DEF ClosedUntilSettled, Sealed
<1> QED BY <1>1, UpgradeInvariance, PTL

-----------------------------------------------------------------------------
(* The move of an installation of version 1.3. *)

LegacyPhases == legacyMigrationPhases \cup {"committed"}

ExecuteStages ==
    {"prepared", "hold", "held", "ready", "stop", "stopping", "receipt", "activate", "launch",
     "wait", "cleanup", "inspect", "repoint", "repointed", "cli-move", "cli-select", "cli-point",
     "cli-pointed", "enable", "enabled", "admit", "commit"}
BackStages ==
    {"rollback", "stop-new", "verify", "rehold", "rewrite", "reheld", "cli-unselect", "cli-return",
     "cli-unpoint", "cli-restored", "restore", "restored", "run", "observe",
     "untouched", "unhold", "abort", "gone"}

TaskSet == [action : {"old", "new"}, enabled : BOOLEAN, edited : BOOLEAN]
LegacyJournals ==
    [phase : LegacyPhases \cup {Nothing}, task : TaskSet, stop : BOOLEAN, pointer : BOOLEAN]
Movers == [pc : ExecuteStages \cup BackStages \cup {"off"},
           run : {Nothing, "execute", "rollback", "recover"}, proof : BOOLEAN]
CliSet == [path : {"old", "new", Nothing}, saved : BOOLEAN, staged : BOOLEAN]
OldSet == [supervisor : Nat \cup {Nothing}, bridge : Nat \cup {Nothing}, born : Nat]
TargetSet == [at : {"none", "starting", "ready", "gone"}, held : BOOLEAN,
              stopping : {Nothing, "quiet", "hold"}, said : BOOLEAN, receipt : BOOLEAN,
              served : BOOLEAN]

\* Every variable has its type.
LegacyTypeOK ==
    /\ mover \in Movers /\ memory \in LegacyJournals /\ written \in LegacyJournals
    /\ registration \in TaskSet /\ cli \in CliSet /\ pointer \in BOOLEAN
    /\ old \in OldSet /\ target \in TargetSet
    /\ broker \in {"none", "holding", "stopping", "stopping-bridge", "done"}
    /\ edited \in BOOLEAN

\* What the upgrader is about to do, and the phase of its journal.
PhaseAt(pc) ==
    CASE pc = "prepared" -> {"legacy-prepared"}
      [] pc \in {"hold", "held"} -> {"legacy-holding"}
      [] pc = "ready" -> {"legacy-held"}
      [] pc \in {"stop", "stopping", "receipt", "gone"} -> {"legacy-stopping"}
      [] pc = "activate" -> {"legacy-stopped"}
      [] pc \in {"launch", "wait", "cleanup", "inspect"} -> {"legacy-launching"}
      [] pc \in {"repoint", "repointed", "cli-move", "cli-select", "cli-point", "cli-pointed",
                 "enable", "enabled"} -> {"legacy-wiring"}
      [] pc \in {"admit", "commit"} -> {"legacy-admitting"}
      [] pc \in {"rollback", "stop-new"} -> MayRollBack
      [] pc \in {"verify", "rehold", "rewrite", "reheld"} -> {"legacy-rollback-stopping"}
      [] pc \in {"cli-unselect", "cli-return", "cli-unpoint", "cli-restored"} -> {"legacy-cli-restoring"}
      [] pc \in {"restore", "restored"} -> {"legacy-task-restoring"}
      [] pc \in {"run", "observe"} -> {"legacy-rollback-launching"}
      [] pc \in {"untouched", "abort"} -> {"legacy-prepared", "legacy-held"}
      [] pc = "unhold" -> {"legacy-held"}
      [] pc = "off" -> LegacyPhases \cup {Nothing}

Papers ==
    /\ written.phase = memory.phase
    /\ memory.phase \in PhaseAt(mover.pc)
    /\ mover.pc \in ExecuteStages => mover.run = "execute"
    /\ mover.pc \in BackStages => mover.run # "execute"
    /\ memory.phase \in {Nothing, "legacy-prepared"} =>
         written.task = Original /\ memory.task = Original

\* What the new service says of itself is so.
Told ==
    /\ target.served => ~target.held
    /\ target.receipt \/ target.said \/ mover.proof => target.at = "gone"
    /\ old.born >= 2

NotLaunched == {Nothing, "legacy-prepared", "legacy-holding", "legacy-held", "legacy-stopping",
                "legacy-stopped", "legacy-aborted"}
SinceLaunch == {"legacy-launching", "legacy-wiring", "legacy-admitting", "committed"}
Final == {"legacy-admitting", "committed"}
TakenBack == {"legacy-task-restoring", "legacy-rollback-launching", "legacy-rolled-back"}
Undoing == {"legacy-rollback-stopping", "legacy-cli-restoring"} \cup TakenBack
Reopened == {"legacy-rollback-launching", "legacy-rolled-back", "legacy-aborted"}

OpenTask(reg) == reg.action = "old" /\ reg.enabled

\* The two services, in each phase of the journal: the new one not before the
\* journal says so, gone before anything is taken back, and admitted only when
\* nothing is any more; of the old one nothing can come up once the new one may.
ServiceFits(phase) ==
    /\ phase \in NotLaunched => target.at = "none"
    /\ phase \in Undoing => target.at \in {"none", "gone"}
    /\ ~target.held => phase \in Final
    /\ phase = "committed" => ~target.held
    /\ phase \in SinceLaunch => old.supervisor = Nothing

\* The task of the operating system.
TaskFits(phase, reg) ==
    /\ phase \in SinceLaunch => ~OpenTask(reg)
    /\ phase \in Final => reg.action = "new" /\ reg.enabled
    /\ phase \in Reopened => OpenTask(reg)

CliAsFound(files) == files = [path |-> "old", saved |-> FALSE, staged |-> TRUE]
CliAside(files) == files = [path |-> Nothing, saved |-> TRUE, staged |-> TRUE]
CliNew(files) == files = [path |-> "new", saved |-> TRUE, staged |-> FALSE]

\* The command line file and its pointer.
CliFits(phase, files, pointed) ==
    /\ phase = Nothing => ~pointed /\ files = [path |-> "old", saved |-> FALSE, staged |-> FALSE]
    /\ phase # Nothing => CliAsFound(files) \/ CliAside(files) \/ CliNew(files)
    /\ phase \in (NotLaunched \ {Nothing}) \cup {"legacy-launching"} \cup TakenBack
         => CliAsFound(files) /\ ~pointed
    /\ phase \in Final => CliNew(files) /\ pointed

\* The same, for what the upgrader is about to do.
ServiceAt(pc) ==
    /\ pc = "launch" => target.at = "none"
    /\ pc = "commit" => ~target.held
    /\ pc \in {"stopping", "receipt", "activate"} => old.supervisor \in {1, Nothing}
\* known: as the journal has it.
TaskAt(pc, known, reg) ==
    /\ pc \in {"ready", "stop", "stopping", "receipt", "activate"} => ~reg.enabled
    /\ pc = "held" => ~known.enabled
    /\ pc \in {"repointed", "cli-move", "cli-select", "cli-point", "cli-pointed", "enable"}
         => known.action = "new"
    /\ pc = "enabled" => known.action = "new" /\ known.enabled
    /\ pc = "restored" => known = Original
    /\ pc = "abort" => OpenTask(reg)
CliAt(pc, files, pointed) ==
    /\ pc \in {"repoint", "repointed", "cli-move", "cli-restored"} => CliAsFound(files) /\ ~pointed
    /\ pc = "cli-select" => CliAside(files)
    /\ pc = "cli-point" => CliNew(files)
    /\ pc \in {"cli-pointed", "enable", "enabled"} => CliNew(files) /\ pointed
    /\ pc = "cli-return" => CliAsFound(files) \/ CliAside(files)
    /\ pc = "cli-unpoint" => CliAsFound(files)

LegacyInv ==
    /\ LegacyTypeOK /\ Papers /\ Told
    /\ ServiceFits(memory.phase) /\ ServiceAt(mover.pc)
    /\ TaskFits(memory.phase, registration) /\ TaskAt(mover.pc, memory.task, registration)
    /\ CliFits(memory.phase, cli, pointer) /\ CliAt(mover.pc, cli, pointer)

Stages == ExecuteStages \cup BackStages \cup {"off"}
Brokers == {"none", "holding", "stopping", "stopping-bridge", "done"}

-----------------------------------------------------------------------------
(* What the steps have in common. *)

LEMMA LegacyApart ==
  /\ Nothing \notin LegacyPhases
  /\ Nothing # "old" /\ Nothing # "new" /\ Nothing # "execute" /\ Nothing # "quiet" /\ Nothing # "hold"
BY LegacyAssumption DEF LegacyPhases

LEMMA StagesApart ==
  /\ "off" \notin ExecuteStages /\ "off" \notin BackStages
  /\ ExecuteStages \cap BackStages = {}
BY DEF ExecuteStages, BackStages

LEMMA PhaseIs ==
  ASSUME memory \in LegacyJournals, NEW phase \in LegacyPhases
  PROVE  /\ Phase(phase) \in LegacyJournals /\ Phase(phase).phase = phase
         /\ Phase(phase).task = memory.task
BY DEF Phase, LegacyJournals

LEMMA RestingIs ==
  /\ Resting \in Movers /\ Resting.pc = "off" /\ ~Resting.proof
BY DEF Resting, Movers, Stages

LEMMA PhaseAtOff == PhaseAt("off") = LegacyPhases \cup {Nothing} /\ PhaseAt("rollback") = MayRollBack
BY DEF PhaseAt

\* A run that ends, or turns to the rollback, expects nothing of what is there.
LEMMA LeavesKeep ==
  ASSUME LegacyTypeOK', Told', ServiceFits(memory.phase)', TaskFits(memory.phase, registration)',
         CliFits(memory.phase, cli, pointer)', written'.phase = memory'.phase,
         memory'.phase \in {Nothing, "legacy-prepared"} =>
            written'.task = Original /\ memory'.task = Original,
         \/ mover'.pc = "off"
         \/ mover'.pc = "rollback" /\ mover'.run # "execute" /\ memory'.phase \in MayRollBack
  PROVE  LegacyInv'
<1>1. Papers' BY PhaseAtOff DEF LegacyTypeOK, LegacyJournals, ExecuteStages, BackStages, Papers
<1>2. ServiceAt(mover.pc)' BY DEF ServiceAt
<1>3. TaskAt(mover.pc, memory.task, registration)' BY DEF TaskAt
<1>4. CliAt(mover.pc, cli, pointer)' BY DEF CliAt
<1> QED BY <1>1, <1>2, <1>3, <1>4 DEF LegacyInv

\* The end of a run, with the registration as it may have been left.
LEMMA EndsKeep ==
  ASSUME LegacyInv, Ends, UNCHANGED <<cli, pointer, old, target, edited>>,
         registration' \in TaskSet, TaskFits(memory.phase, registration')
  PROVE  LegacyInv'
<1>1. /\ LegacyTypeOK /\ Told /\ Papers /\ ServiceFits(memory.phase)
      /\ CliFits(memory.phase, cli, pointer)
  BY DEF LegacyInv
<1>2. /\ mover' = Resting /\ memory' = memory /\ written' = written /\ broker' \in Brokers
  BY <1>1 DEF Ends, LetsGo, LegacyTypeOK, Brokers
<1>3. mover' \in Movers /\ mover'.pc = "off" /\ ~mover'.proof BY <1>2, RestingIs
<1>4. LegacyTypeOK' BY <1>1, <1>2, <1>3 DEF LegacyTypeOK, Brokers
<1>5. Told' BY <1>1, <1>3 DEF Told
<1>6. /\ ServiceFits(memory.phase)' /\ TaskFits(memory.phase, registration)'
      /\ CliFits(memory.phase, cli, pointer)'
  BY <1>1, <1>2 DEF ServiceFits, TaskFits, CliFits, CliAsFound, CliAside, CliNew
<1>7. /\ written'.phase = memory'.phase
      /\ memory'.phase \in {Nothing, "legacy-prepared"} =>
            written'.task = Original /\ memory'.task = Original
  BY <1>1, <1>2 DEF Papers
<1> QED BY <1>3, <1>4, <1>5, <1>6, <1>7, LeavesKeep

\* The handler, with what the journal holds by then.
LEMMA CaughtKeeps ==
  ASSUME LegacyInv, NEW paper \in LegacyJournals, NEW rolls \in BOOLEAN, CaughtWith(paper, rolls),
         UNCHANGED <<cli, pointer, old, target, edited>>, registration' \in TaskSet,
         mover.run # "execute" => TaskFits(memory.phase, registration'),
         ServiceFits(paper.phase), TaskFits(paper.phase, registration'),
         CliFits(paper.phase, cli, pointer),
         paper.phase \in {Nothing, "legacy-prepared"} => paper.task = Original
  PROVE  LegacyInv'
<1>1. CASE mover.run # "execute" BY <1>1, EndsKeep DEF CaughtWith
<1>2. CASE mover.run = "execute"
 <2>1. LegacyTypeOK /\ Told BY DEF LegacyInv
 <2>2. /\ memory' = paper /\ written' = paper /\ broker' \in Brokers
   BY <1>2, <2>1 DEF CaughtWith, LetsGo, LegacyTypeOK, Brokers
 <2>3. \/ mover' = Resting
       \/ /\ mover' = [mover EXCEPT !.pc = "rollback", !.run = "rollback"]
          /\ paper.phase \in MayRollBack
   BY <1>2 DEF CaughtWith
 <2>4. /\ mover' \in Movers /\ (mover'.proof => mover.proof)
       /\ \/ mover'.pc = "off"
          \/ mover'.pc = "rollback" /\ mover'.run # "execute" /\ memory'.phase \in MayRollBack
  <3>1. CASE mover' = Resting BY <3>1, RestingIs
  <3>2. CASE /\ mover' = [mover EXCEPT !.pc = "rollback", !.run = "rollback"]
             /\ paper.phase \in MayRollBack
    BY <2>1, <3>2, <2>2 DEF LegacyTypeOK, BackStages, Movers
  <3> QED BY <2>3, <3>1, <3>2
 <2>5. LegacyTypeOK' BY <2>1, <2>2, <2>4 DEF LegacyTypeOK, Brokers
 <2>6. Told' BY <2>1, <2>4 DEF Told
 <2>7. /\ ServiceFits(memory.phase)' /\ TaskFits(memory.phase, registration)'
       /\ CliFits(memory.phase, cli, pointer)'
   BY <2>2 DEF ServiceFits, TaskFits, CliFits, CliAsFound, CliAside, CliNew
 <2> QED BY <2>2, <2>4, <2>5, <2>6, <2>7, LeavesKeep
<1> QED BY <1>1, <1>2

LEMMA MishapKeeps ==
  ASSUME LegacyInv, Mishap \/ CaughtWith(memory, FALSE),
         UNCHANGED <<cli, pointer, old, target, edited>>, registration' \in TaskSet,
         TaskFits(memory.phase, registration')
  PROVE  LegacyInv'
<1>1. /\ memory \in LegacyJournals /\ ServiceFits(memory.phase) /\ CliFits(memory.phase, cli, pointer)
      /\ memory.phase \in {Nothing, "legacy-prepared"} => memory.task = Original
  BY DEF LegacyInv, LegacyTypeOK, Papers
<1>2. PICK j \in LegacyJournals : j = memory BY <1>1
<1>3. CaughtWith(j, TRUE) \/ CaughtWith(j, FALSE) BY <1>2 DEF Mishap, CaughtWith, Ends
<1> QED BY <1>1, <1>2, <1>3, CaughtKeeps

\* The move to another stage, of the same kind.
LEMMA MoverMoves ==
  ASSUME LegacyInv, NEW pc \in ExecuteStages \cup BackStages, mover' = [mover EXCEPT !.pc = pc],
         mover.pc \in ExecuteStages <=> pc \in ExecuteStages, mover.pc # "off"
  PROVE  /\ mover' \in Movers /\ mover'.pc = pc /\ mover'.proof = mover.proof
         /\ pc \in ExecuteStages => mover'.run = "execute"
         /\ pc \in BackStages => mover'.run # "execute"
<1>1. mover \in Movers BY DEF LegacyInv, LegacyTypeOK
<1>2. mover' \in Movers /\ mover'.pc = pc /\ mover'.proof = mover.proof /\ mover'.run = mover.run
  BY <1>1 DEF Movers
<1>3. /\ mover.pc \in ExecuteStages => mover.run = "execute"
      /\ mover.pc \in BackStages => mover.run # "execute"
  BY DEF LegacyInv, Papers
<1>4. mover.pc \in ExecuteStages \cup BackStages BY <1>1 DEF Movers
<1> QED BY <1>2, <1>3, <1>4, StagesApart

\* A step that leaves the journal as it is.
LEMMA ProceedKeeps ==
  ASSUME LegacyInv, NEW pc \in ExecuteStages \cup BackStages, mover' = [mover EXCEPT !.pc = pc],
         memory' = memory, written' = written \/ written' = memory,
         mover.pc \in ExecuteStages <=> pc \in ExecuteStages, mover.pc # "off",
         memory.phase \in PhaseAt(pc), UNCHANGED <<registration, old, target, edited>>,
         broker' \in Brokers, cli' \in CliSet, pointer' \in BOOLEAN,
         CliFits(memory.phase, cli', pointer'), CliAt(pc, cli', pointer'),
         ServiceAt(pc), TaskAt(pc, memory.task, registration)
  PROVE  LegacyInv'
<1>1. /\ mover' \in Movers /\ mover'.pc = pc /\ mover'.proof = mover.proof
      /\ pc \in ExecuteStages => mover'.run = "execute"
      /\ pc \in BackStages => mover'.run # "execute"
  BY MoverMoves
<1>2. /\ LegacyTypeOK /\ Told /\ Papers /\ ServiceFits(memory.phase)
      /\ TaskFits(memory.phase, registration)
  BY DEF LegacyInv
<1>3. LegacyTypeOK' BY <1>1, <1>2 DEF LegacyTypeOK, Brokers
<1>4. Papers' BY <1>1, <1>2 DEF Papers
<1>5. Told' BY <1>1, <1>2 DEF Told
<1>6. ServiceFits(memory.phase)' /\ ServiceAt(mover.pc)' BY <1>1, <1>2 DEF ServiceFits, ServiceAt
<1>7. TaskFits(memory.phase, registration)' /\ TaskAt(mover.pc, memory.task, registration)'
  BY <1>1, <1>2 DEF TaskFits, TaskAt, OpenTask
<1>8. CliFits(memory.phase, cli, pointer)' /\ CliAt(mover.pc, cli, pointer)'
  BY <1>1, <1>2 DEF CliFits, CliAt, CliAsFound, CliAside, CliNew
<1> QED BY <1>3, <1>4, <1>5, <1>6, <1>7, <1>8 DEF LegacyInv

\* A transition of the journal to another phase.
LEMMA LegacyTransitionKeeps ==
  ASSUME LegacyInv, NEW pc \in ExecuteStages \cup BackStages, mover' = [mover EXCEPT !.pc = pc],
         NEW phase \in LegacyPhases, memory' \in LegacyJournals, memory'.phase = phase,
         memory'.task = memory.task, written' = memory',
         mover.pc \in ExecuteStages <=> pc \in ExecuteStages, mover.pc # "off",
         phase \in PhaseAt(pc), phase # "legacy-prepared",
         UNCHANGED <<registration, cli, pointer, old, target, edited>>, broker' \in Brokers,
         ServiceFits(phase), TaskFits(phase, registration), CliFits(phase, cli, pointer),
         CliAt(pc, cli, pointer), ServiceAt(pc), TaskAt(pc, memory.task, registration)
  PROVE  LegacyInv'
<1>1. /\ mover' \in Movers /\ mover'.pc = pc /\ mover'.proof = mover.proof
      /\ pc \in ExecuteStages => mover'.run = "execute"
      /\ pc \in BackStages => mover'.run # "execute"
  BY MoverMoves
<1>2. LegacyTypeOK /\ Told BY DEF LegacyInv
<1>3. LegacyTypeOK' BY <1>1, <1>2 DEF LegacyTypeOK, Brokers
<1>4. Papers' BY <1>1, LegacyApart DEF Papers
<1>5. Told' BY <1>1, <1>2 DEF Told
<1>6. ServiceFits(memory.phase)' /\ ServiceAt(mover.pc)' BY <1>1 DEF ServiceFits, ServiceAt
<1>7. TaskFits(memory.phase, registration)' /\ TaskAt(mover.pc, memory.task, registration)'
  BY <1>1 DEF TaskFits, TaskAt, OpenTask
<1>8. CliFits(memory.phase, cli, pointer)' /\ CliAt(mover.pc, cli, pointer)'
  BY <1>1 DEF CliFits, CliAt, CliAsFound, CliAside, CliNew
<1> QED BY <1>3, <1>4, <1>5, <1>6, <1>7, <1>8 DEF LegacyInv

\* A check and the transition after it: the check has to have shown what the
\* new phase and the next step expect.
LEMMA CheckedKeeps ==
  ASSUME LegacyInv, NEW phase \in LegacyPhases, NEW pc \in ExecuteStages \cup BackStages,
         UNCHANGED <<Files, old, target, edited>>,
         \/ Writes(Phase(phase), pc) /\ UNCHANGED broker
         \/ CaughtWith(Phase(phase), TRUE),
         mover.pc \in ExecuteStages <=> pc \in ExecuteStages, mover.pc # "off",
         phase \in PhaseAt(pc), phase # "legacy-prepared",
         ServiceFits(phase), TaskFits(phase, registration), CliFits(phase, cli, pointer),
         CliAt(pc, cli, pointer), ServiceAt(pc), TaskAt(pc, memory.task, registration)
  PROVE  LegacyInv'
<1>1. /\ memory \in LegacyJournals /\ registration \in TaskSet /\ broker \in Brokers
      /\ TaskFits(memory.phase, registration)
  BY DEF LegacyInv, LegacyTypeOK, Brokers
<1>2. /\ Phase(phase) \in LegacyJournals /\ Phase(phase).phase = phase
      /\ Phase(phase).task = memory.task
  BY <1>1, PhaseIs
<1>3. registration' = registration /\ UNCHANGED <<cli, pointer, old, target, edited>> BY DEF Files
<1>4. CASE Writes(Phase(phase), pc) /\ UNCHANGED broker
  BY <1>1, <1>4, <1>2, <1>3, LegacyTransitionKeeps DEF Writes
<1>5. CASE CaughtWith(Phase(phase), TRUE)
 <2>1. PICK j \in LegacyJournals : j = Phase(phase) BY <1>2
 <2>2. CaughtWith(j, TRUE) BY <1>5, <2>1 DEF CaughtWith
 <2>3. j.phase = phase BY <1>2, <2>1
 <2> QED BY <1>1, <1>3, <2>2, <2>3, LegacyApart, CaughtKeeps
<1> QED BY <1>4, <1>5

-----------------------------------------------------------------------------
(* Checks and transitions. *)

LEMMA LegacyPreparedKeeps ==
  ASSUME LegacyInv, LegacyPrepared
  PROVE  LegacyInv'
<1>1. /\ mover.pc = "prepared" /\ memory.phase = "legacy-prepared"
      /\ UNCHANGED <<Files, old, target, edited>>
  BY DEF LegacyPrepared, Checked, LegacyInv, Papers, PhaseAt
<1>2. \/ Mishap
      \/ /\ SourceAt(OldCli)
         /\ \/ Writes(Phase("legacy-holding"), "hold") /\ UNCHANGED broker
            \/ CaughtWith(Phase("legacy-holding"), TRUE)
  BY DEF LegacyPrepared, Checked
<1>3. CASE Mishap BY <1>1, <1>3, MishapKeeps DEF LegacyInv, LegacyTypeOK, Files
<1>4. CASE ~Mishap
 <2>1. /\ memory.phase \in LegacyPhases /\ "legacy-holding" \in LegacyPhases
       /\ "legacy-holding" \in PhaseAt("hold")
       /\ "hold" \in ExecuteStages \cup BackStages
       /\ mover.pc \in ExecuteStages <=> "hold" \in ExecuteStages
   BY <1>1 DEF LegacyPhases, legacyMigrationPhases, PhaseAt, ExecuteStages, BackStages, MayRollBack
 <2>2. ServiceFits("legacy-holding") /\ ServiceAt("hold") BY <1>1, <1>2, <1>4, <2>1, LegacyApart
   DEF LegacyInv, ServiceFits, ServiceAt, NotLaunched, SinceLaunch, Undoing, TakenBack, Final
 <2>3. TaskFits("legacy-holding", registration) /\ TaskAt("hold", memory.task, registration)
   BY <1>1, <1>2, <1>4, <2>1, LegacyApart DEF LegacyInv, TaskFits, TaskAt, SinceLaunch, Final,
     Reopened
 <2>4. CliFits("legacy-holding", cli, pointer) /\ CliAt("hold", cli, pointer)
   BY <1>1, <1>2, <1>4, <2>1, LegacyApart DEF LegacyInv, CliFits, CliAt, NotLaunched, TakenBack,
     Final
 <2> QED BY <1>1, <1>2, <1>4, <2>1, <2>2, <2>3, <2>4, CheckedKeeps
<1> QED BY <1>3, <1>4

LEMMA TaskHeldKeeps ==
  ASSUME LegacyInv, TaskHeld
  PROVE  LegacyInv'
<1>1. /\ mover.pc = "held" /\ memory.phase = "legacy-holding"
      /\ UNCHANGED <<Files, old, target, edited>>
  BY DEF TaskHeld, Checked, LegacyInv, Papers, PhaseAt
<1>2. \/ Mishap
      \/ /\ TaskMatches
         /\ \/ Writes(Phase("legacy-held"), "ready") /\ UNCHANGED broker
            \/ CaughtWith(Phase("legacy-held"), TRUE)
  BY DEF TaskHeld, Checked
<1>3. CASE Mishap BY <1>1, <1>3, MishapKeeps DEF LegacyInv, LegacyTypeOK, Files
<1>4. CASE ~Mishap
 <2>1. /\ memory.phase \in LegacyPhases /\ "legacy-held" \in LegacyPhases
       /\ "legacy-held" \in PhaseAt("ready")
       /\ "ready" \in ExecuteStages \cup BackStages
       /\ mover.pc \in ExecuteStages <=> "ready" \in ExecuteStages
   BY <1>1 DEF LegacyPhases, legacyMigrationPhases, PhaseAt, ExecuteStages, BackStages, MayRollBack
 <2>2. ServiceFits("legacy-held") /\ ServiceAt("ready") BY <1>1, <1>2, <1>4, <2>1, LegacyApart DEF
   LegacyInv, ServiceFits, ServiceAt, NotLaunched, SinceLaunch, Undoing, TakenBack, Final
 <2>3. TaskFits("legacy-held", registration) /\ TaskAt("ready", memory.task, registration)
   BY <1>1, <1>2, <1>4, <2>1, LegacyApart DEF LegacyInv, TaskFits, TaskAt, SinceLaunch, Final,
     Reopened, TaskMatches
 <2>4. CliFits("legacy-held", cli, pointer) /\ CliAt("ready", cli, pointer)
   BY <1>1, <1>2, <1>4, <2>1, LegacyApart DEF LegacyInv, CliFits, CliAt, NotLaunched, TakenBack,
     Final
 <2> QED BY <1>1, <1>2, <1>4, <2>1, <2>2, <2>3, <2>4, CheckedKeeps
<1> QED BY <1>3, <1>4

LEMMA ReadyToStopKeeps ==
  ASSUME LegacyInv, ReadyToStop
  PROVE  LegacyInv'
<1>1. /\ mover.pc = "ready" /\ memory.phase = "legacy-held"
      /\ UNCHANGED <<Files, old, target, edited>>
  BY DEF ReadyToStop, Checked, LegacyInv, Papers, PhaseAt
<1>2. \/ Mishap
      \/ /\ SourceAt(OldCli)
         /\ \/ Writes(Phase("legacy-stopping"), "stop") /\ UNCHANGED broker
            \/ CaughtWith(Phase("legacy-stopping"), TRUE)
  BY DEF ReadyToStop, Checked
<1>3. CASE Mishap BY <1>1, <1>3, MishapKeeps DEF LegacyInv, LegacyTypeOK, Files
<1>4. CASE ~Mishap
 <2>1. /\ memory.phase \in LegacyPhases /\ "legacy-stopping" \in LegacyPhases
       /\ "legacy-stopping" \in PhaseAt("stop")
       /\ "stop" \in ExecuteStages \cup BackStages
       /\ mover.pc \in ExecuteStages <=> "stop" \in ExecuteStages
   BY <1>1 DEF LegacyPhases, legacyMigrationPhases, PhaseAt, ExecuteStages, BackStages, MayRollBack
 <2>2. ServiceFits("legacy-stopping") /\ ServiceAt("stop") BY <1>1, <1>2, <1>4, <2>1, LegacyApart
   DEF LegacyInv, ServiceFits, ServiceAt, NotLaunched, SinceLaunch, Undoing, TakenBack, Final
 <2>3. TaskFits("legacy-stopping", registration) /\ TaskAt("stop", memory.task, registration)
   BY <1>1, <1>2, <1>4, <2>1, LegacyApart DEF LegacyInv, TaskFits, TaskAt, SinceLaunch, Final,
     Reopened
 <2>4. CliFits("legacy-stopping", cli, pointer) /\ CliAt("stop", cli, pointer)
   BY <1>1, <1>2, <1>4, <2>1, LegacyApart DEF LegacyInv, CliFits, CliAt, NotLaunched, TakenBack,
     Final
 <2> QED BY <1>1, <1>2, <1>4, <2>1, <2>2, <2>3, <2>4, CheckedKeeps
<1> QED BY <1>3, <1>4

LEMMA StopReceivedKeeps ==
  ASSUME LegacyInv, StopReceived
  PROVE  LegacyInv'
<1>1. /\ mover.pc = "receipt" /\ memory.phase = "legacy-stopping"
      /\ UNCHANGED <<Files, old, target, edited>>
  BY DEF StopReceived, Checked, LegacyInv, Papers, PhaseAt
<1>2. \/ Mishap
      \/ /\ memory.stop
         /\ \/ Writes(Phase("legacy-stopped"), "activate") /\ UNCHANGED broker
            \/ CaughtWith(Phase("legacy-stopped"), TRUE)
  BY DEF StopReceived, Checked
<1>3. CASE Mishap BY <1>1, <1>3, MishapKeeps DEF LegacyInv, LegacyTypeOK, Files
<1>4. CASE ~Mishap
 <2>1. /\ memory.phase \in LegacyPhases /\ "legacy-stopped" \in LegacyPhases
       /\ "legacy-stopped" \in PhaseAt("activate")
       /\ "activate" \in ExecuteStages \cup BackStages
       /\ mover.pc \in ExecuteStages <=> "activate" \in ExecuteStages
   BY <1>1 DEF LegacyPhases, legacyMigrationPhases, PhaseAt, ExecuteStages, BackStages, MayRollBack
 <2>2. ServiceFits("legacy-stopped") /\ ServiceAt("activate")
   BY <1>1, <1>2, <1>4, <2>1, LegacyApart DEF LegacyInv, ServiceFits, ServiceAt, NotLaunched,
     SinceLaunch, Undoing, TakenBack, Final
 <2>3. TaskFits("legacy-stopped", registration) /\ TaskAt("activate", memory.task, registration)
   BY <1>1, <1>2, <1>4, <2>1, LegacyApart DEF LegacyInv, TaskFits, TaskAt, SinceLaunch, Final,
     Reopened
 <2>4. CliFits("legacy-stopped", cli, pointer) /\ CliAt("activate", cli, pointer)
   BY <1>1, <1>2, <1>4, <2>1, LegacyApart DEF LegacyInv, CliFits, CliAt, NotLaunched, TakenBack,
     Final
 <2> QED BY <1>1, <1>2, <1>4, <2>1, <2>2, <2>3, <2>4, CheckedKeeps
<1> QED BY <1>3, <1>4

LEMMA ActivateNewKeeps ==
  ASSUME LegacyInv, ActivateNew
  PROVE  LegacyInv'
<1>1. /\ mover.pc = "activate" /\ memory.phase = "legacy-stopped"
      /\ UNCHANGED <<Files, old, target, edited>>
  BY DEF ActivateNew, Checked, LegacyInv, Papers, PhaseAt
<1>2. \/ Mishap
      \/ /\ OldStopped
         /\ \/ Writes(Phase("legacy-launching"), "launch") /\ UNCHANGED broker
            \/ CaughtWith(Phase("legacy-launching"), TRUE)
  BY DEF ActivateNew, Checked
<1>3. CASE Mishap BY <1>1, <1>3, MishapKeeps DEF LegacyInv, LegacyTypeOK, Files
<1>4. CASE ~Mishap
 <2>1. /\ memory.phase \in LegacyPhases /\ "legacy-launching" \in LegacyPhases
       /\ "legacy-launching" \in PhaseAt("launch")
       /\ "launch" \in ExecuteStages \cup BackStages
       /\ mover.pc \in ExecuteStages <=> "launch" \in ExecuteStages
   BY <1>1 DEF LegacyPhases, legacyMigrationPhases, PhaseAt, ExecuteStages, BackStages, MayRollBack
 <2>2. ServiceFits("legacy-launching") /\ ServiceAt("launch")
   BY <1>1, <1>2, <1>4, <2>1, LegacyApart DEF LegacyInv, ServiceFits, ServiceAt, NotLaunched,
     SinceLaunch, Undoing, TakenBack, Final, OldStopped, PlanGone
 <2>3. TaskFits("legacy-launching", registration) /\ TaskAt("launch", memory.task, registration)
   BY <1>1, <1>2, <1>4, <2>1, LegacyApart DEF LegacyInv, TaskFits, TaskAt, SinceLaunch, Final,
     Reopened, OpenTask
 <2>4. CliFits("legacy-launching", cli, pointer) /\ CliAt("launch", cli, pointer)
   BY <1>1, <1>2, <1>4, <2>1, LegacyApart DEF LegacyInv, CliFits, CliAt, NotLaunched, TakenBack,
     Final
 <2> QED BY <1>1, <1>2, <1>4, <2>1, <2>2, <2>3, <2>4, CheckedKeeps
<1> QED BY <1>3, <1>4

LEMMA NewInspectedKeeps ==
  ASSUME LegacyInv, NewInspected
  PROVE  LegacyInv'
<1>1. /\ mover.pc = "inspect" /\ memory.phase = "legacy-launching"
      /\ UNCHANGED <<Files, old, target, edited>>
  BY DEF NewInspected, Checked, LegacyInv, Papers, PhaseAt
<1>2. \/ Mishap
      \/ /\ NewHeld
         /\ \/ Writes(Phase("legacy-wiring"), "repoint") /\ UNCHANGED broker
            \/ CaughtWith(Phase("legacy-wiring"), TRUE)
  BY DEF NewInspected, Checked
<1>3. CASE Mishap BY <1>1, <1>3, MishapKeeps DEF LegacyInv, LegacyTypeOK, Files
<1>4. CASE ~Mishap
 <2>1. /\ memory.phase \in LegacyPhases /\ "legacy-wiring" \in LegacyPhases
       /\ "legacy-wiring" \in PhaseAt("repoint")
       /\ "repoint" \in ExecuteStages \cup BackStages
       /\ mover.pc \in ExecuteStages <=> "repoint" \in ExecuteStages
   BY <1>1 DEF LegacyPhases, legacyMigrationPhases, PhaseAt, ExecuteStages, BackStages, MayRollBack
 <2>2. ServiceFits("legacy-wiring") /\ ServiceAt("repoint") BY <1>1, <1>2, <1>4, <2>1, LegacyApart
   DEF LegacyInv, ServiceFits, ServiceAt, NotLaunched, SinceLaunch, Undoing, TakenBack, Final
 <2>3. TaskFits("legacy-wiring", registration) /\ TaskAt("repoint", memory.task, registration)
   BY <1>1, <1>2, <1>4, <2>1, LegacyApart DEF LegacyInv, TaskFits, TaskAt, SinceLaunch, Final,
     Reopened
 <2>4. CliFits("legacy-wiring", cli, pointer) /\ CliAt("repoint", cli, pointer)
   BY <1>1, <1>2, <1>4, <2>1, LegacyApart DEF LegacyInv, CliFits, CliAt, NotLaunched, TakenBack,
     Final
 <2> QED BY <1>1, <1>2, <1>4, <2>1, <2>2, <2>3, <2>4, CheckedKeeps
<1> QED BY <1>3, <1>4

LEMMA TaskEnabledKeeps ==
  ASSUME LegacyInv, TaskEnabled
  PROVE  LegacyInv'
<1>1. /\ mover.pc = "enabled" /\ memory.phase = "legacy-wiring"
      /\ UNCHANGED <<Files, old, target, edited>>
  BY DEF TaskEnabled, Checked, LegacyInv, Papers, PhaseAt
<1>2. \/ Mishap
      \/ /\ TaskMatches
         /\ \/ Writes(Phase("legacy-admitting"), "admit") /\ UNCHANGED broker
            \/ CaughtWith(Phase("legacy-admitting"), TRUE)
  BY DEF TaskEnabled, Checked
<1>3. CASE Mishap BY <1>1, <1>3, MishapKeeps DEF LegacyInv, LegacyTypeOK, Files
<1>4. CASE ~Mishap
 <2>1. /\ memory.phase \in LegacyPhases /\ "legacy-admitting" \in LegacyPhases
       /\ "legacy-admitting" \in PhaseAt("admit")
       /\ "admit" \in ExecuteStages \cup BackStages
       /\ mover.pc \in ExecuteStages <=> "admit" \in ExecuteStages
   BY <1>1 DEF LegacyPhases, legacyMigrationPhases, PhaseAt, ExecuteStages, BackStages, MayRollBack
 <2>2. ServiceFits("legacy-admitting") /\ ServiceAt("admit") BY <1>1, <1>2, <1>4, <2>1, LegacyApart
   DEF LegacyInv, ServiceFits, ServiceAt, NotLaunched, SinceLaunch, Undoing, TakenBack, Final
 <2>3. TaskFits("legacy-admitting", registration) /\ TaskAt("admit", memory.task, registration)
   BY <1>1, <1>2, <1>4, <2>1, LegacyApart DEF LegacyInv, TaskFits, TaskAt, SinceLaunch, Final,
     Reopened, TaskMatches, OpenTask
 <2>4. CliFits("legacy-admitting", cli, pointer) /\ CliAt("admit", cli, pointer)
   BY <1>1, <1>2, <1>4, <2>1, LegacyApart DEF LegacyInv, CliFits, CliAt, NotLaunched, TakenBack,
     Final
 <2> QED BY <1>1, <1>2, <1>4, <2>1, <2>2, <2>3, <2>4, CheckedKeeps
<1> QED BY <1>3, <1>4

LEMMA CliIntentKeeps ==
  ASSUME LegacyInv, CliIntent
  PROVE  LegacyInv'
<1>1. /\ mover.pc = "reheld" /\ memory.phase = "legacy-rollback-stopping"
      /\ UNCHANGED <<Files, old, target, edited>>
  BY DEF CliIntent, Checked, LegacyInv, Papers, PhaseAt
<1>2. \/ Mishap
      \/ /\ TRUE
         /\ \/ Writes(Phase("legacy-cli-restoring"), "cli-unselect") /\ UNCHANGED broker
            \/ CaughtWith(Phase("legacy-cli-restoring"), TRUE)
  BY DEF CliIntent, Checked
<1>3. CASE Mishap BY <1>1, <1>3, MishapKeeps DEF LegacyInv, LegacyTypeOK, Files
<1>4. CASE ~Mishap
 <2>1. /\ memory.phase \in LegacyPhases /\ "legacy-cli-restoring" \in LegacyPhases
       /\ "legacy-cli-restoring" \in PhaseAt("cli-unselect")
       /\ "cli-unselect" \in ExecuteStages \cup BackStages
       /\ mover.pc \in ExecuteStages <=> "cli-unselect" \in ExecuteStages
   BY <1>1 DEF LegacyPhases, legacyMigrationPhases, PhaseAt, ExecuteStages, BackStages, MayRollBack
 <2>2. ServiceFits("legacy-cli-restoring") /\ ServiceAt("cli-unselect")
   BY <1>1, <1>2, <1>4, <2>1, LegacyApart DEF LegacyInv, ServiceFits, ServiceAt, NotLaunched,
     SinceLaunch, Undoing, TakenBack, Final
 <2>3. TaskFits("legacy-cli-restoring", registration) /\ TaskAt("cli-unselect", memory.task, registration)
   BY <1>1, <1>2, <1>4, <2>1, LegacyApart DEF LegacyInv, TaskFits, TaskAt, SinceLaunch, Final,
     Reopened
 <2>4. CliFits("legacy-cli-restoring", cli, pointer) /\ CliAt("cli-unselect", cli, pointer)
   BY <1>1, <1>2, <1>4, <2>1, LegacyApart DEF LegacyInv, CliFits, CliAt, NotLaunched, TakenBack,
     Final
 <2> QED BY <1>1, <1>2, <1>4, <2>1, <2>2, <2>3, <2>4, CheckedKeeps
<1> QED BY <1>3, <1>4

LEMMA CliRestoredKeeps ==
  ASSUME LegacyInv, CliRestored
  PROVE  LegacyInv'
<1>1. /\ mover.pc = "cli-restored" /\ memory.phase = "legacy-cli-restoring"
      /\ UNCHANGED <<Files, old, target, edited>>
  BY DEF CliRestored, Checked, LegacyInv, Papers, PhaseAt
<1>2. \/ Mishap
      \/ /\ SourceAt(OldCli)
         /\ \/ Writes(Phase("legacy-task-restoring"), "restore") /\ UNCHANGED broker
            \/ CaughtWith(Phase("legacy-task-restoring"), TRUE)
  BY DEF CliRestored, Checked
<1>3. CASE Mishap BY <1>1, <1>3, MishapKeeps DEF LegacyInv, LegacyTypeOK, Files
<1>4. CASE ~Mishap
 <2>1. /\ memory.phase \in LegacyPhases /\ "legacy-task-restoring" \in LegacyPhases
       /\ "legacy-task-restoring" \in PhaseAt("restore")
       /\ "restore" \in ExecuteStages \cup BackStages
       /\ mover.pc \in ExecuteStages <=> "restore" \in ExecuteStages
   BY <1>1 DEF LegacyPhases, legacyMigrationPhases, PhaseAt, ExecuteStages, BackStages, MayRollBack
 <2>2. ServiceFits("legacy-task-restoring") /\ ServiceAt("restore")
   BY <1>1, <1>2, <1>4, <2>1, LegacyApart DEF LegacyInv, ServiceFits, ServiceAt, NotLaunched,
     SinceLaunch, Undoing, TakenBack, Final
 <2>3. TaskFits("legacy-task-restoring", registration) /\ TaskAt("restore", memory.task, registration)
   BY <1>1, <1>2, <1>4, <2>1, LegacyApart DEF LegacyInv, TaskFits, TaskAt, SinceLaunch, Final,
     Reopened
 <2>4. CliFits("legacy-task-restoring", cli, pointer) /\ CliAt("restore", cli, pointer)
   BY <1>1, <1>2, <1>4, <2>1, LegacyApart DEF LegacyInv, CliFits, CliAt, NotLaunched, TakenBack,
     Final
 <2> QED BY <1>1, <1>2, <1>4, <2>1, <2>2, <2>3, <2>4, CheckedKeeps
<1> QED BY <1>3, <1>4

LEMMA TaskRestoredKeeps ==
  ASSUME LegacyInv, TaskRestored
  PROVE  LegacyInv'
<1>1. /\ mover.pc = "restored" /\ memory.phase = "legacy-task-restoring"
      /\ UNCHANGED <<Files, old, target, edited>>
  BY DEF TaskRestored, Checked, LegacyInv, Papers, PhaseAt
<1>2. \/ Mishap
      \/ /\ TaskMatches
         /\ \/ Writes(Phase("legacy-rollback-launching"), "run") /\ UNCHANGED broker
            \/ CaughtWith(Phase("legacy-rollback-launching"), TRUE)
  BY DEF TaskRestored, Checked
<1>3. CASE Mishap BY <1>1, <1>3, MishapKeeps DEF LegacyInv, LegacyTypeOK, Files
<1>4. CASE ~Mishap
 <2>1. /\ memory.phase \in LegacyPhases /\ "legacy-rollback-launching" \in LegacyPhases
       /\ "legacy-rollback-launching" \in PhaseAt("run")
       /\ "run" \in ExecuteStages \cup BackStages
       /\ mover.pc \in ExecuteStages <=> "run" \in ExecuteStages
   BY <1>1 DEF LegacyPhases, legacyMigrationPhases, PhaseAt, ExecuteStages, BackStages, MayRollBack
 <2>2. ServiceFits("legacy-rollback-launching") /\ ServiceAt("run")
   BY <1>1, <1>2, <1>4, <2>1, LegacyApart DEF LegacyInv, ServiceFits, ServiceAt, NotLaunched,
     SinceLaunch, Undoing, TakenBack, Final
 <2>3. TaskFits("legacy-rollback-launching", registration) /\ TaskAt("run", memory.task, registration)
  <3>1. registration = Original BY <1>1, <1>2, <1>4 DEF LegacyInv, TaskAt, TaskMatches
  <3>2. OpenTask(registration) BY <3>1 DEF Original, OpenTask
  <3> QED BY <2>1, <3>2, LegacyApart DEF TaskFits, TaskAt, SinceLaunch, Final, Reopened
 <2>4. CliFits("legacy-rollback-launching", cli, pointer) /\ CliAt("run", cli, pointer)
   BY <1>1, <1>2, <1>4, <2>1, LegacyApart DEF LegacyInv, CliFits, CliAt, NotLaunched, TakenBack,
     Final
 <2> QED BY <1>1, <1>2, <1>4, <2>1, <2>2, <2>3, <2>4, CheckedKeeps
<1> QED BY <1>3, <1>4

\* The journal is written again as it is.
LEMMA RewrittenKeeps ==
  ASSUME LegacyInv, TaskRepointed \/ HeldAgain
  PROVE  LegacyInv'
<1>1. PICK pc \in {"cli-move", "reheld"} :
        /\ Mishap \/ (Writes(memory, pc) /\ UNCHANGED broker)
        /\ pc = "cli-move" => mover.pc = "repointed"
        /\ pc = "reheld" => mover.pc = "rewrite"
        /\ UNCHANGED <<Files, old, target, edited>>
  BY DEF TaskRepointed, HeldAgain, Checked, Mishap
<1>2. /\ mover.pc \in ExecuteStages <=> pc \in ExecuteStages
      /\ mover.pc # "off" /\ pc \in ExecuteStages \cup BackStages
      /\ memory.phase \in PhaseAt(pc)
  BY <1>1 DEF ExecuteStages, BackStages, LegacyInv, Papers, PhaseAt
<1>3. CASE Mishap BY <1>1, <1>3, MishapKeeps DEF LegacyInv, LegacyTypeOK, Files
<1>4. CASE Writes(memory, pc) /\ UNCHANGED broker
 <2>1. /\ mover' = [mover EXCEPT !.pc = pc] /\ memory' = memory /\ written' = memory
       /\ cli' = cli /\ pointer' = pointer /\ UNCHANGED <<registration, old, target, edited>>
       /\ broker' \in Brokers /\ cli' \in CliSet /\ pointer' \in BOOLEAN
   BY <1>1, <1>4 DEF Writes, LegacyInv, LegacyTypeOK, Brokers, Files
 <2>2. CliFits(memory.phase, cli', pointer') BY <2>1 DEF LegacyInv
 <2>3. CliAt(pc, cli', pointer') BY <1>1, <2>1 DEF LegacyInv, CliAt
 <2>4. TaskAt(pc, memory.task, registration) BY <1>1 DEF LegacyInv, TaskAt
 <2>5. ServiceAt(pc) BY <1>1 DEF ServiceAt
 <2> QED BY <1>2, <2>1, <2>2, <2>3, <2>4, <2>5, ProceedKeeps
<1> QED BY <1>1, <1>3, <1>4

LEMMA CliSelectedKeeps ==
  ASSUME LegacyInv, CliSelected
  PROVE  LegacyInv'
<1> DEFINE pointed == [memory EXCEPT !.pointer = TRUE]
<1>1. /\ mover.pc = "cli-pointed" /\ memory.phase = "legacy-wiring"
      /\ UNCHANGED <<Files, old, target, edited>>
  BY DEF CliSelected, Checked, LegacyInv, Papers, PhaseAt
<1>2. \/ Mishap
      \/ Writes(pointed, "enable") /\ UNCHANGED broker
      \/ CaughtWith(pointed, TRUE)
  BY DEF CliSelected, Checked
<1>3. /\ memory \in LegacyJournals /\ pointed \in LegacyJournals
      /\ pointed.phase = "legacy-wiring" /\ pointed.task = memory.task
  BY <1>1 DEF LegacyInv, LegacyTypeOK, LegacyJournals
<1>4. /\ ServiceFits("legacy-wiring") /\ TaskFits("legacy-wiring", registration)
      /\ CliFits("legacy-wiring", cli, pointer)
  BY <1>1 DEF LegacyInv
<1>5. /\ registration' = registration /\ UNCHANGED <<cli, pointer, old, target, edited>>
      /\ registration \in TaskSet /\ broker \in Brokers
  BY <1>1 DEF Files, LegacyInv, LegacyTypeOK, Brokers
<1>6. "legacy-wiring" \in LegacyPhases BY DEF LegacyPhases, legacyMigrationPhases
<1>7. PICK j \in LegacyJournals : j = pointed BY <1>3
<1> HIDE DEF pointed
<1>8. CASE Mishap BY <1>4, <1>1, <1>5, <1>8, MishapKeeps
<1>9. CASE Writes(pointed, "enable") /\ UNCHANGED broker
 <2>1. /\ mover' = [mover EXCEPT !.pc = "enable"] /\ memory' = pointed /\ written' = memory'
       /\ broker' \in Brokers
   BY <1>5, <1>9 DEF Writes
 <2>2. CliAt("enable", cli, pointer) BY <1>1 DEF LegacyInv, CliAt
 <2>3. TaskAt("enable", memory.task, registration) BY <1>1 DEF LegacyInv, TaskAt
 <2>4. ServiceAt("enable") BY DEF ServiceAt
 <2>5. /\ "enable" \in ExecuteStages \cup BackStages
       /\ mover.pc \in ExecuteStages <=> "enable" \in ExecuteStages
       /\ "legacy-wiring" \in PhaseAt("enable")
   BY <1>1 DEF ExecuteStages, BackStages, PhaseAt
 <2>6. /\ memory' \in LegacyJournals /\ memory'.phase = "legacy-wiring"
       /\ memory'.task = memory.task
   BY <1>3, <2>1
 <2> QED BY <1>1, <1>4, <1>5, <1>6, <2>1, <2>2, <2>3, <2>4, <2>5, <2>6, LegacyTransitionKeeps
<1>10. CASE CaughtWith(pointed, TRUE)
 <2>1. CaughtWith(j, TRUE) BY <1>7, <1>10 DEF CaughtWith
 <2>2. j.phase = "legacy-wiring" BY <1>3, <1>7
 <2> QED BY <1>1, <1>4, <1>5, <1>6, <2>1, <2>2, LegacyApart, CaughtKeeps
<1> QED BY <1>2, <1>8, <1>9, <1>10

\* Nothing of the plan runs any more: neither did the new service ever.
LEMMA IsGoneKeeps ==
  ASSUME LegacyInv, IsGone
  PROVE  LegacyInv'
<1> DEFINE gone == [memory EXCEPT !.phase = "legacy-stopped", !.stop = TRUE]
<1>1. /\ mover.pc = "gone" /\ memory.phase = "legacy-stopping"
      /\ UNCHANGED <<Files, old, target, edited>>
  BY DEF IsGone, Checked, LegacyInv, Papers, PhaseAt
<1>2. \/ Mishap
      \/ Writes(gone, "rollback") /\ UNCHANGED broker
      \/ CaughtWith(gone, TRUE)
  BY DEF IsGone, Checked
<1>3. /\ "legacy-stopped" \in LegacyPhases /\ "legacy-stopping" \in LegacyPhases
      /\ "legacy-stopped" \in PhaseAt("rollback") /\ "rollback" \in BackStages
      /\ mover.pc \in ExecuteStages <=> "rollback" \in ExecuteStages
  BY <1>1 DEF LegacyPhases, legacyMigrationPhases, PhaseAt, MayRollBack, ExecuteStages, BackStages
<1>4. /\ memory \in LegacyJournals /\ gone \in LegacyJournals
      /\ gone.phase = "legacy-stopped" /\ gone.task = memory.task
  BY <1>3 DEF LegacyInv, LegacyTypeOK, LegacyJournals
<1>5. /\ registration' = registration /\ UNCHANGED <<cli, pointer, old, target, edited>>
      /\ registration \in TaskSet /\ broker \in Brokers
  BY <1>1 DEF Files, LegacyInv, LegacyTypeOK, Brokers
<1>6. ServiceFits("legacy-stopped") /\ ServiceAt("rollback") BY <1>1, <1>3, LegacyApart DEF
  LegacyInv, ServiceFits, ServiceAt, NotLaunched, SinceLaunch, Undoing, TakenBack, Final
<1>7. TaskFits("legacy-stopped", registration) /\ TaskAt("rollback", memory.task, registration)
  BY DEF TaskFits, TaskAt, SinceLaunch, Final, Reopened
<1>8. CliFits("legacy-stopped", cli, pointer) /\ CliAt("rollback", cli, pointer)
  BY <1>1, <1>3, LegacyApart DEF LegacyInv, CliFits, CliAt, NotLaunched, TakenBack, Final
<1>9. PICK j \in LegacyJournals : j = gone BY <1>4
<1> HIDE DEF gone
<1>10. CASE Mishap BY <1>1, <1>5, <1>10, MishapKeeps DEF LegacyInv
<1>11. CASE Writes(gone, "rollback") /\ UNCHANGED broker
 <2>1. /\ mover' = [mover EXCEPT !.pc = "rollback"] /\ memory' = gone /\ written' = memory'
       /\ broker' \in Brokers
   BY <1>5, <1>11 DEF Writes
 <2> QED BY <1>1, <1>3, <1>4, <1>5, <1>6, <1>7, <1>8, <2>1, LegacyTransitionKeeps
<1>12. CASE CaughtWith(gone, TRUE)
 <2>1. CaughtWith(j, TRUE) BY <1>9, <1>12 DEF CaughtWith
 <2>2. j.phase = "legacy-stopped" BY <1>4, <1>9
 <2> QED BY <1>1, <1>3, <1>5, <1>6, <1>7, <1>8, <2>1, <2>2, LegacyApart, CaughtKeeps DEF LegacyInv
<1> QED BY <1>2, <1>10, <1>11, <1>12

-----------------------------------------------------------------------------
(* Steps that decide, or end a run. *)

\* What is as it was before, for the steps that leave the world alone.
LEMMA SameWorld ==
  ASSUME LegacyInv, UNCHANGED Files
  PROVE  /\ registration' = registration /\ cli' = cli /\ pointer' = pointer
         /\ registration \in TaskSet /\ cli' \in CliSet /\ pointer' \in BOOLEAN
         /\ broker \in Brokers /\ TaskFits(memory.phase, registration)
         /\ CliFits(memory.phase, cli', pointer')
BY DEF LegacyInv, LegacyTypeOK, Files, Brokers

\* The last transition of a run.
LEMMA ClosesKeep ==
  ASSUME LegacyInv, NEW phase \in LegacyPhases, memory' = Phase(phase), written' = memory',
         mover' = Resting, UNCHANGED <<Files, Service, edited>>, phase # "legacy-prepared",
         ServiceFits(phase), TaskFits(phase, registration), CliFits(phase, cli, pointer)
  PROVE  LegacyInv'
<1>1. LegacyTypeOK /\ Told BY DEF LegacyInv
<1>2. UNCHANGED <<registration, cli, pointer, old, broker, target, edited>> BY DEF Files, Service
<1>3. memory' \in LegacyJournals /\ memory'.phase = phase BY <1>1, PhaseIs DEF LegacyTypeOK
<1>4. mover' \in Movers /\ mover'.pc = "off" /\ ~mover'.proof BY RestingIs
<1>5. LegacyTypeOK' BY <1>1, <1>2, <1>3, <1>4 DEF LegacyTypeOK
<1>6. Told' BY <1>1, <1>2, <1>4 DEF Told
<1>7. /\ ServiceFits(memory.phase)' /\ TaskFits(memory.phase, registration)'
      /\ CliFits(memory.phase, cli, pointer)'
  BY <1>2, <1>3 DEF ServiceFits, TaskFits, CliFits, CliAsFound, CliAside, CliNew, OpenTask
<1>8. memory'.phase \notin {Nothing, "legacy-prepared"} BY <1>3, LegacyApart
<1> QED BY <1>4, <1>5, <1>6, <1>7, <1>8, LeavesKeep

LEMMA CommitNewKeeps ==
  ASSUME LegacyInv, CommitNew
  PROVE  LegacyInv'
<1>1. mover.pc = "commit" /\ memory.phase = "legacy-admitting"
  BY DEF CommitNew, LegacyInv, Papers, PhaseAt
<1>2. "committed" \in LegacyPhases /\ "legacy-admitting" \in LegacyPhases
  BY DEF LegacyPhases, legacyMigrationPhases
<1>3. ServiceFits("committed") BY <1>1, <1>2, LegacyApart DEF LegacyInv, ServiceFits, ServiceAt,
  NotLaunched, SinceLaunch, Undoing, TakenBack, Final
<1>4. TaskFits("committed", registration)
  BY <1>1 DEF LegacyInv, TaskFits, SinceLaunch, Final, Reopened
<1>5. CliFits("committed", cli, pointer)
  BY <1>1, <1>2, LegacyApart DEF LegacyInv, CliFits, NotLaunched, TakenBack, Final
<1> QED BY <1>2, <1>3, <1>4, <1>5, ClosesKeep DEF CommitNew

LEMMA ObservedKeeps ==
  ASSUME LegacyInv, Observed
  PROVE  LegacyInv'
<1>1. mover.pc = "observe" /\ memory.phase = "legacy-rollback-launching"
  BY DEF Observed, LegacyInv, Papers, PhaseAt
<1>2. "legacy-rolled-back" \in LegacyPhases /\ "legacy-rollback-launching" \in LegacyPhases
  BY DEF LegacyPhases, legacyMigrationPhases
<1>3. ServiceFits("legacy-rolled-back") BY <1>1, <1>2, LegacyApart DEF LegacyInv, ServiceFits,
  NotLaunched, SinceLaunch, Undoing, TakenBack, Final
<1>4. TaskFits("legacy-rolled-back", registration)
  BY <1>1 DEF LegacyInv, TaskFits, SinceLaunch, Final, Reopened
<1>5. CliFits("legacy-rolled-back", cli, pointer)
  BY <1>1, <1>2, LegacyApart DEF LegacyInv, CliFits, NotLaunched, TakenBack, Final
<1> QED BY <1>2, <1>3, <1>4, <1>5, ClosesKeep DEF Observed

LEMMA AbortLegacyKeeps ==
  ASSUME LegacyInv, AbortLegacy
  PROVE  LegacyInv'
<1>1. mover.pc = "abort" /\ memory.phase \in {"legacy-prepared", "legacy-held"}
  BY DEF AbortLegacy, LegacyInv, Papers, PhaseAt
<1>2. "legacy-aborted" \in LegacyPhases /\ memory.phase \in LegacyPhases
  BY <1>1 DEF LegacyPhases, legacyMigrationPhases
<1>3. ServiceFits("legacy-aborted") BY <1>1, <1>2, LegacyApart DEF LegacyInv, ServiceFits,
  NotLaunched, SinceLaunch, Undoing, TakenBack, Final
<1>4. TaskFits("legacy-aborted", registration)
  BY <1>1 DEF LegacyInv, TaskFits, TaskAt, SinceLaunch, Final, Reopened
<1>5. CliFits("legacy-aborted", cli, pointer)
  BY <1>1, <1>2, LegacyApart DEF LegacyInv, CliFits, NotLaunched, TakenBack, Final
<1> QED BY <1>2, <1>3, <1>4, <1>5, ClosesKeep DEF AbortLegacy

\* Runs that end without a transition, or go on without one.
LEMMA MoverDiesKeeps ==
  ASSUME LegacyInv, MoverDies
  PROVE  LegacyInv'
<1>1. Ends /\ UNCHANGED <<Files, old, target, edited>> BY DEF MoverDies, Ends
<1> QED BY <1>1, SameWorld, EndsKeep

LEMMA UnobservedKeeps ==
  ASSUME LegacyInv, Unobserved
  PROVE  LegacyInv'
<1>1. Ends /\ UNCHANGED <<Files, old, target, edited>> BY DEF Unobserved
<1> QED BY <1>1, SameWorld, EndsKeep

LEMMA StopOldKeeps ==
  ASSUME LegacyInv, StopOld
  PROVE  LegacyInv'
<1>1. mover.pc = "stop" /\ UNCHANGED <<Files, old, target, edited>> BY DEF StopOld
<1>2. CASE ~(TaskMatches /\ SameRoots) BY <1>1, <1>2, SameWorld, MishapKeeps DEF StopOld
<1>3. CASE TaskMatches /\ SameRoots
 <2>1. /\ mover' = [mover EXCEPT !.pc = "stopping"] /\ memory' = memory /\ written' = written
       /\ broker' \in Brokers
   BY <1>3 DEF StopOld, Proceeds, Brokers
 <2>2. /\ "stopping" \in ExecuteStages /\ mover.pc \in ExecuteStages
       /\ memory.phase \in PhaseAt("stopping")
   BY <1>1 DEF ExecuteStages, LegacyInv, Papers, PhaseAt
 <2>3. ServiceAt("stopping") /\ TaskAt("stopping", memory.task, registration)
   BY <1>1, <1>3 DEF ServiceAt, SameRoots, LegacyInv, TaskAt
 <2>4. CliAt("stopping", cli', pointer') BY DEF CliAt
 <2> QED BY <1>1, <2>1, <2>2, <2>3, <2>4, SameWorld, ProceedKeeps
<1> QED BY <1>2, <1>3

LEMMA OldAnsweredKeeps ==
  ASSUME LegacyInv, OldAnswered
  PROVE  LegacyInv'
<1>1. /\ mover.pc = "stopping" /\ UNCHANGED <<Files, old, target, edited>>
      /\ broker' \in Brokers /\ mover' = [mover EXCEPT !.pc = "receipt"] /\ written' = memory'
      /\ memory' = [memory EXCEPT !.stop = PlanGone]
  BY DEF OldAnswered, Writes, Brokers
<1>2. /\ "receipt" \in ExecuteStages /\ mover.pc \in ExecuteStages
      /\ memory.phase = "legacy-stopping" /\ "legacy-stopping" \in PhaseAt("receipt")
      /\ "legacy-stopping" \in LegacyPhases
  BY <1>1 DEF ExecuteStages, LegacyInv, Papers, PhaseAt, LegacyPhases, legacyMigrationPhases
<1>3. /\ memory' \in LegacyJournals /\ memory'.phase = "legacy-stopping"
      /\ memory'.task = memory.task
  BY <1>1, <1>2 DEF LegacyInv, LegacyTypeOK, PlanGone, LegacyJournals
<1>4. ServiceAt("receipt") /\ TaskAt("receipt", memory.task, registration)
  BY <1>1 DEF ServiceAt, LegacyInv, TaskAt
<1>5. CliAt("receipt", cli, pointer) BY DEF CliAt
<1>6. /\ ServiceFits("legacy-stopping") /\ TaskFits("legacy-stopping", registration)
      /\ CliFits("legacy-stopping", cli, pointer)
  BY <1>2 DEF LegacyInv
<1> QED BY <1>1, <1>2, <1>3, <1>4, <1>5, <1>6, SameWorld, LegacyTransitionKeeps

LEMMA OldUnansweredKeeps ==
  ASSUME LegacyInv, OldUnanswered
  PROVE  LegacyInv'
<1>1. /\ UNCHANGED <<Files, old, target, edited>> /\ memory' = memory
      /\ mover' = Resting /\ written' = memory /\ broker' \in Brokers
  BY DEF OldUnanswered, Brokers
<1>2. mover' \in Movers /\ mover'.pc = "off" /\ ~mover'.proof BY <1>1, RestingIs
<1>3. LegacyTypeOK /\ Told /\ ServiceFits(memory.phase) BY DEF LegacyInv
<1>4. LegacyTypeOK' BY <1>1, <1>2, <1>3, SameWorld DEF LegacyTypeOK, Brokers
<1>5. Told' BY <1>1, <1>2, <1>3 DEF Told
<1>6. /\ ServiceFits(memory.phase)' /\ TaskFits(memory.phase, registration)'
      /\ CliFits(memory.phase, cli, pointer)'
  BY <1>1, <1>3, SameWorld DEF ServiceFits, TaskFits, CliFits, CliAsFound, CliAside, CliNew,
    OpenTask
<1>7. memory.phase \in {Nothing, "legacy-prepared"} => memory.task = Original
  BY DEF LegacyInv, Papers
<1> QED BY <1>1, <1>2, <1>4, <1>5, <1>6, <1>7, LeavesKeep

LEMMA NewStartedKeeps ==
  ASSUME LegacyInv, NewStarted
  PROVE  LegacyInv'
<1>1. mover.pc = "wait" /\ UNCHANGED <<Files, old, target, edited>> BY DEF NewStarted
<1>2. /\ memory.phase = "legacy-launching" /\ memory.phase \in PhaseAt("inspect")
      /\ "inspect" \in ExecuteStages /\ mover.pc \in ExecuteStages
      /\ "legacy-launching" \in LegacyPhases
  BY <1>1 DEF LegacyInv, Papers, PhaseAt, ExecuteStages, LegacyPhases, legacyMigrationPhases
<1>3. CASE target.at = "ready" /\ Proceeds("inspect") /\ UNCHANGED broker
  BY <1>1, <1>2, <1>3, SameWorld, ProceedKeeps DEF ServiceAt, TaskAt, CliAt, Proceeds
<1>4. CASE CaughtWith(memory, FALSE) BY <1>1, <1>4, SameWorld, MishapKeeps
<1>5. CASE /\ target.at = "gone" /\ target.said /\ UNCHANGED memory /\ written' = memory
           /\ mover' = [mover EXCEPT !.pc = "rollback", !.run = "rollback", !.proof = TRUE]
           /\ UNCHANGED broker
 <2>1. /\ mover' \in Movers /\ mover'.pc = "rollback" /\ mover'.run # "execute"
   BY <1>5 DEF LegacyInv, LegacyTypeOK, BackStages, Movers
 <2>2. LegacyTypeOK /\ Told /\ ServiceFits(memory.phase) BY DEF LegacyInv
 <2>3. LegacyTypeOK' BY <1>1, <1>5, <2>1, <2>2, SameWorld DEF LegacyTypeOK, Brokers
 <2>4. Told' BY <1>1, <1>5, <2>2 DEF Told
 <2>5. /\ ServiceFits(memory.phase)' /\ TaskFits(memory.phase, registration)'
       /\ CliFits(memory.phase, cli, pointer)'
   BY <1>1, <1>5, <2>2, SameWorld DEF ServiceFits, TaskFits, CliFits, CliAsFound, CliAside, CliNew,
     OpenTask
 <2>6. memory'.phase \in MayRollBack /\ memory'.phase \notin {Nothing, "legacy-prepared"}
   BY <1>2, <1>5, LegacyApart DEF MayRollBack
 <2> QED BY <1>5, <2>1, <2>3, <2>4, <2>5, <2>6, LeavesKeep
<1> QED BY <1>3, <1>4, <1>5 DEF NewStarted

LEMMA NewCleanedUpKeeps ==
  ASSUME LegacyInv, NewCleanedUp
  PROVE  LegacyInv'
<1>1. mover.pc = "cleanup" /\ UNCHANGED <<Files, old, target, edited>> BY DEF NewCleanedUp
<1>2. CASE Mishap BY <1>1, <1>2, SameWorld, MishapKeeps
<1>3. CASE Proceeds("wait") /\ UNCHANGED broker
 <2>1. /\ memory.phase \in PhaseAt("wait") /\ "wait" \in ExecuteStages
       /\ mover.pc \in ExecuteStages
   BY <1>1 DEF LegacyInv, Papers, PhaseAt, ExecuteStages
 <2>2. ServiceAt("wait") /\ TaskAt("wait", memory.task, registration) BY DEF ServiceAt, TaskAt
 <2>3. CliAt("wait", cli', pointer') BY DEF CliAt
 <2> QED BY <1>1, <1>3, <2>1, <2>2, <2>3, SameWorld, ProceedKeeps DEF Proceeds
<1> QED BY <1>2, <1>3 DEF NewCleanedUp

LEMMA VerifyOldKeeps ==
  ASSUME LegacyInv, VerifyOld
  PROVE  LegacyInv'
<1>1. mover.pc = "verify" /\ UNCHANGED <<Files, old, target, edited>> BY DEF VerifyOld
<1>2. PICK pc \in {"rehold", "reheld"} : Ends \/ (Proceeds(pc) /\ UNCHANGED broker)
  BY DEF VerifyOld
<1>3. CASE Ends BY <1>1, <1>3, SameWorld, EndsKeep
<1>4. CASE Proceeds(pc) /\ UNCHANGED broker
 <2>1. /\ memory.phase \in PhaseAt(pc) /\ pc \in BackStages
       /\ mover.pc \notin ExecuteStages /\ pc \notin ExecuteStages
   BY <1>1 DEF LegacyInv, Papers, PhaseAt, ExecuteStages, BackStages
 <2>2. ServiceAt(pc) /\ TaskAt(pc, memory.task, registration) BY DEF ServiceAt, TaskAt
 <2>3. CliAt(pc, cli', pointer') BY DEF CliAt
 <2> QED BY <1>1, <1>4, <2>1, <2>2, <2>3, SameWorld, ProceedKeeps DEF Proceeds
<1> QED BY <1>2, <1>3, <1>4

LEMMA UntouchedKeeps ==
  ASSUME LegacyInv, Untouched
  PROVE  LegacyInv'
<1>1. mover.pc = "untouched" /\ UNCHANGED <<Files, old, target, edited>> BY DEF Untouched
<1>2. CASE Ends BY <1>1, <1>2, SameWorld, EndsKeep
<1>3. CASE ~Ends
 <2>1. PICK pc \in {"abort", "unhold"} :
         /\ Proceeds(pc) /\ UNCHANGED broker /\ TaskMatches
         /\ pc = "abort" <=> memory.phase = "legacy-prepared"
   BY <1>3 DEF Untouched
 <2>2. /\ memory.phase \in PhaseAt(pc) /\ pc \in BackStages
       /\ mover.pc \notin ExecuteStages /\ pc \notin ExecuteStages
   BY <1>1, <2>1 DEF LegacyInv, Papers, PhaseAt, ExecuteStages, BackStages
 <2>3. pc = "abort" => OpenTask(registration)
   BY <2>1 DEF LegacyInv, Papers, TaskMatches, OpenTask, Original
 <2>4. ServiceAt(pc) /\ TaskAt(pc, memory.task, registration) BY <2>3 DEF ServiceAt, TaskAt
 <2>5. CliAt(pc, cli', pointer') BY DEF CliAt
 <2> QED BY <1>1, <2>1, <2>2, <2>4, <2>5, SameWorld, ProceedKeeps DEF Proceeds
<1> QED BY <1>2, <1>3

LEMMA RecoverLegacyKeeps ==
  ASSUME LegacyInv, RecoverLegacy
  PROVE  LegacyInv'
<1>1. /\ mover.pc = "off" /\ MayRecover(written.phase) /\ memory' = written /\ written' = written
      /\ UNCHANGED <<Files, old, broker, target, edited>>
  BY DEF RecoverLegacy, Service
<1>2. PICK pc \in {"rollback", "gone", "untouched"} :
        /\ mover' = [Resting EXCEPT !.run = "recover", !.pc = pc]
        /\ pc = "rollback" => written.phase \in MayRollBack
        /\ pc = "gone" => written.phase = "legacy-stopping"
        /\ pc = "untouched" => written.phase \in {"legacy-prepared", "legacy-held"}
 <2>1. CASE written.phase \in MayRollBack BY <2>1 DEF RecoverLegacy, MayRollBack
 <2>2. CASE written.phase = "legacy-stopping" BY <2>2 DEF RecoverLegacy, MayRollBack
 <2>3. CASE written.phase \in {"legacy-prepared", "legacy-held"}
   BY <2>3 DEF RecoverLegacy, MayRollBack
 <2> QED BY <1>1, <2>1, <2>2, <2>3 DEF MayRecover
<1>3. /\ mover' \in Movers /\ mover'.pc = pc /\ mover'.run # "execute" /\ ~mover'.proof
      /\ mover'.pc \in BackStages /\ mover'.pc \notin ExecuteStages
  BY <1>2 DEF Resting, Movers, BackStages, ExecuteStages
<1>4. LegacyTypeOK /\ Told /\ Papers /\ ServiceFits(memory.phase) BY DEF LegacyInv
<1>5. LegacyTypeOK' BY <1>1, <1>3, <1>4, SameWorld DEF LegacyTypeOK, Brokers
<1>6. Told' BY <1>1, <1>3, <1>4 DEF Told
<1>7. memory'.phase = memory.phase BY <1>1, <1>4 DEF Papers
<1>8. Papers' BY <1>1, <1>2, <1>3, <1>4, <1>7 DEF PhaseAt, Papers
<1>9. /\ ServiceFits(memory.phase)' /\ TaskFits(memory.phase, registration)'
      /\ CliFits(memory.phase, cli, pointer)'
  BY <1>1, <1>4, <1>7, SameWorld DEF ServiceFits, TaskFits, CliFits, CliAsFound, CliAside, CliNew,
    OpenTask
<1>10. ServiceAt(mover.pc)' BY <1>2, <1>3 DEF ServiceAt
<1>11. TaskAt(mover.pc, memory.task, registration)' BY <1>2, <1>3 DEF TaskAt
<1>12. CliAt(mover.pc, cli, pointer)' BY <1>2, <1>3 DEF CliAt
<1> QED BY <1>5, <1>6, <1>8, <1>9, <1>10, <1>11, <1>12 DEF LegacyInv

LEMMA AdoptPlanKeeps ==
  ASSUME LegacyInv, AdoptPlan
  PROVE  LegacyInv'
<1>1. /\ mover.pc = "off" /\ memory.phase = Nothing /\ broker' = "holding"
      /\ cli' = [cli EXCEPT !.staged = TRUE] /\ memory' = Phase("legacy-prepared")
      /\ written' = memory' /\ mover' = [Resting EXCEPT !.pc = "prepared", !.run = "execute"]
      /\ UNCHANGED <<registration, pointer, old, target, edited>>
  BY DEF AdoptPlan
<1>2. "legacy-prepared" \in LegacyPhases BY DEF LegacyPhases, legacyMigrationPhases
<1>3. /\ LegacyTypeOK /\ Told /\ Papers /\ ServiceFits(memory.phase)
      /\ TaskFits(memory.phase, registration) /\ CliFits(memory.phase, cli, pointer)
  BY DEF LegacyInv
<1>4. /\ memory' \in LegacyJournals /\ memory'.phase = "legacy-prepared"
      /\ memory'.task = Original
  BY <1>1, <1>2, <1>3, PhaseIs DEF LegacyTypeOK, Papers
<1>5. /\ mover' \in Movers /\ mover'.pc = "prepared" /\ mover'.run = "execute" /\ ~mover'.proof
      /\ "prepared" \in ExecuteStages
  BY <1>1 DEF Resting, Movers, ExecuteStages
<1>6. CliAsFound(cli') /\ ~pointer'
 <2>1. cli = [path |-> "old", saved |-> FALSE, staged |-> FALSE] /\ ~pointer
   BY <1>1, <1>3 DEF CliFits
 <2> QED BY <1>1, <2>1 DEF CliAsFound
<1>7. LegacyTypeOK' BY <1>6, <1>1, <1>3, <1>4, <1>5 DEF CliAsFound, CliSet, LegacyTypeOK
<1>8. Told' BY <1>1, <1>3, <1>5 DEF Told
<1>9. Papers' BY <1>1, <1>4, <1>5, StagesApart DEF PhaseAt, Papers
<1>10. ServiceFits(memory.phase)' /\ ServiceAt(mover.pc)'
 <2>1. target.at = "none" /\ target.held
   BY <1>1, <1>3, LegacyApart DEF ServiceFits, NotLaunched, Final, LegacyPhases, legacyMigrationPhases
 <2> QED BY <1>1, <1>4, <1>5, <2>1 DEF ServiceFits, ServiceAt, SinceLaunch
<1>11. TaskFits(memory.phase, registration)' /\ TaskAt(mover.pc, memory.task, registration)'
  BY <1>4, <1>5 DEF TaskFits, TaskAt, SinceLaunch, Final, Reopened
<1>12. CliFits(memory.phase, cli, pointer)' /\ CliAt(mover.pc, cli, pointer)'
  BY <1>2, <1>4, <1>5, <1>6, LegacyApart DEF CliFits, CliAt, Final
<1> QED BY <1>7, <1>8, <1>9, <1>10, <1>11, <1>12 DEF LegacyInv

\* The rollback begins when what was launched is gone, or nothing was.
LEMMA LegacyRollsBackKeeps ==
  ASSUME LegacyInv, mover.pc \in {"rollback", "stop-new"}, target.at \in {"none", "gone"},
         Writes(Phase("legacy-rollback-stopping"), "verify"), UNCHANGED <<Files, Service, edited>>
  PROVE  LegacyInv'
<1>1. /\ memory.phase \in MayRollBack /\ mover.pc \notin ExecuteStages
      /\ "verify" \in BackStages /\ "verify" \notin ExecuteStages
      /\ "legacy-rollback-stopping" \in LegacyPhases
      /\ "legacy-rollback-stopping" \in PhaseAt("verify")
  BY DEF LegacyInv, Papers, PhaseAt, ExecuteStages, BackStages, LegacyPhases, legacyMigrationPhases
<1>2. memory.phase \in LegacyPhases BY <1>1 DEF MayRollBack, LegacyPhases, legacyMigrationPhases
<1>3. ServiceFits("legacy-rollback-stopping") /\ ServiceAt("verify") BY <1>1, LegacyApart DEF
  LegacyInv, ServiceFits, ServiceAt, NotLaunched, SinceLaunch, Final, MayRollBack
<1>4. /\ TaskFits("legacy-rollback-stopping", registration)
      /\ TaskAt("verify", memory.task, registration)
  BY DEF TaskFits, TaskAt, SinceLaunch, Final, Reopened
<1>5. CliFits("legacy-rollback-stopping", cli, pointer) /\ CliAt("verify", cli, pointer)
  BY <1>1, <1>2, LegacyApart DEF LegacyInv, CliFits, CliAt, NotLaunched, TakenBack, Final
<1>6. UNCHANGED <<Files, old, target, edited>> /\ UNCHANGED broker BY DEF Service
<1> QED BY <1>1, <1>3, <1>4, <1>5, <1>6, CheckedKeeps

LEMMA NewStoppedKeeps ==
  ASSUME LegacyInv, NewStopped
  PROVE  LegacyInv'
<1>1. mover.pc = "stop-new" /\ UNCHANGED <<Files, old, target, edited>> BY DEF NewStopped
<1>2. CASE Ends BY <1>1, <1>2, SameWorld, EndsKeep
<1>3. CASE ~Ends BY <1>3, <1>1, LegacyRollsBackKeeps DEF NewStopped, Service
<1> QED BY <1>2, <1>3

-----------------------------------------------------------------------------
(* Steps of the upgrader that change the new service, or start the old one. *)

LEMMA TargetProceedKeeps ==
  ASSUME LegacyInv, NEW pc \in ExecuteStages \cup BackStages, Proceeds(pc),
         mover.pc \in ExecuteStages <=> pc \in ExecuteStages, mover.pc # "off",
         memory.phase \in PhaseAt(pc), UNCHANGED <<Files, old, edited>>,
         broker' \in Brokers, target' \in TargetSet,
         target'.held = target.held, target'.served = target.served,
         target'.receipt \/ target'.said \/ mover.proof => target'.at = "gone",
         \/ target'.at = target.at
         \/ memory.phase = "legacy-launching" /\ pc # "launch",
         ServiceAt(pc), TaskAt(pc, memory.task, registration), CliAt(pc, cli, pointer)
  PROVE  LegacyInv'
<1>1. /\ mover' = [mover EXCEPT !.pc = pc] /\ memory' = memory /\ written' = written
      /\ mover' \in Movers /\ mover'.pc = pc /\ mover'.proof = mover.proof
      /\ pc \in ExecuteStages => mover'.run = "execute"
      /\ pc \in BackStages => mover'.run # "execute"
  BY MoverMoves DEF Proceeds
<1>2. /\ LegacyTypeOK /\ Told /\ Papers /\ ServiceFits(memory.phase) BY DEF LegacyInv
<1>3. LegacyTypeOK' BY <1>1, <1>2, SameWorld DEF LegacyTypeOK, Brokers
<1>4. Papers' BY <1>1, <1>2 DEF Papers
<1>5. Told' BY <1>1, <1>2 DEF Told
<1>6. ServiceFits(memory.phase)' /\ ServiceAt(mover.pc)'
 <2>1. ServiceAt(mover.pc)' BY <1>1 DEF ServiceAt
 <2>2. CASE target'.at = target.at BY <1>1, <1>2, <2>1, <2>2 DEF ServiceFits
 <2>3. CASE memory.phase = "legacy-launching"
  <3>1. "legacy-launching" \notin NotLaunched /\ "legacy-launching" \notin Undoing BY LegacyApart
    DEF NotLaunched, Undoing, TakenBack, LegacyPhases, legacyMigrationPhases
  <3>2. target.held /\ old.supervisor = Nothing BY <1>2, <2>3 DEF ServiceFits, Final, SinceLaunch
  <3> QED BY <1>1, <2>1, <2>3, <3>1, <3>2 DEF ServiceFits
 <2> QED BY <2>2, <2>3
<1>7. TaskFits(memory.phase, registration)' /\ TaskAt(mover.pc, memory.task, registration)'
  BY <1>1, SameWorld DEF TaskFits, TaskAt, OpenTask
<1>8. CliFits(memory.phase, cli, pointer)' /\ CliAt(mover.pc, cli, pointer)'
  BY <1>1, SameWorld DEF CliFits, CliAt, CliAsFound, CliAside, CliNew
<1> QED BY <1>3, <1>4, <1>5, <1>6, <1>7, <1>8 DEF LegacyInv

LEMMA LaunchNewKeeps ==
  ASSUME LegacyInv, LaunchNew
  PROVE  LegacyInv'
<1>1. mover.pc = "launch" /\ UNCHANGED <<Files, old, edited>> BY DEF LaunchNew
<1>2. CASE Port BY <1>1, <1>2, SameWorld, MishapKeeps DEF LaunchNew
<1>3. CASE ~Port
 <2>1. target' = [target EXCEPT !.at = "starting"] /\ Proceeds("wait") /\ UNCHANGED broker
   BY <1>3 DEF LaunchNew
 <2>2. target \in TargetSet /\ target.at = "none" /\ Told
   BY <1>1 DEF LegacyInv, LegacyTypeOK, ServiceAt
 <2>3. ~target.receipt /\ ~target.said /\ ~mover.proof BY <2>2 DEF Told
 <2>4. /\ target' \in TargetSet /\ target'.held = target.held /\ target'.served = target.served
       /\ target'.receipt = target.receipt /\ target'.said = target.said
   BY <2>1, <2>2 DEF TargetSet
 <2>5. /\ memory.phase = "legacy-launching" /\ memory.phase \in PhaseAt("wait")
       /\ "wait" \in ExecuteStages /\ mover.pc \in ExecuteStages
   BY <1>1 DEF LegacyInv, Papers, PhaseAt, ExecuteStages
 <2>6. ServiceAt("wait") /\ TaskAt("wait", memory.task, registration) /\ CliAt("wait", cli, pointer)
   BY DEF ServiceAt, TaskAt, CliAt
 <2> QED BY <1>1, <2>1, <2>3, <2>4, <2>5, <2>6, SameWorld, TargetProceedKeeps
<1> QED BY <1>2, <1>3

LEMMA NewTooSlowKeeps ==
  ASSUME LegacyInv, NewTooSlow
  PROVE  LegacyInv'
<1>1. /\ mover.pc = "wait" /\ UNCHANGED <<Files, old, edited>> /\ Proceeds("cleanup")
      /\ target' = [target EXCEPT !.stopping = "quiet"] /\ UNCHANGED broker
  BY DEF NewTooSlow
<1>2. target \in TargetSet /\ Told BY DEF LegacyInv, LegacyTypeOK
<1>3. /\ target' \in TargetSet /\ target'.held = target.held /\ target'.served = target.served
      /\ target'.receipt = target.receipt /\ target'.said = target.said /\ target'.at = target.at
  BY <1>1, <1>2 DEF TargetSet
<1>4. /\ memory.phase \in PhaseAt("cleanup")
      /\ "cleanup" \in ExecuteStages /\ mover.pc \in ExecuteStages
  BY <1>1 DEF LegacyInv, Papers, PhaseAt, ExecuteStages
<1>5. /\ ServiceAt("cleanup") /\ TaskAt("cleanup", memory.task, registration)
      /\ CliAt("cleanup", cli, pointer)
  BY DEF ServiceAt, TaskAt, CliAt
<1>6. target'.receipt \/ target'.said \/ mover.proof => target'.at = "gone" BY <1>2, <1>3 DEF Told
<1> QED BY <1>1, <1>3, <1>4, <1>5, <1>6, SameWorld, TargetProceedKeeps

LEMMA RollBackKeeps ==
  ASSUME LegacyInv, RollBack
  PROVE  LegacyInv'
<1>1. mover.pc = "rollback" /\ UNCHANGED <<Files, old, edited>> BY DEF RollBack
<1>2. memory.phase \in MayRollBack BY <1>1 DEF LegacyInv, Papers, PhaseAt
<1>3. target \in TargetSet /\ Told BY DEF LegacyInv, LegacyTypeOK
<1>4. CASE Ends /\ UNCHANGED target BY <1>1, <1>4, SameWorld, EndsKeep
<1>5. CASE /\ Proven = "yes" /\ Writes(Phase("legacy-rollback-stopping"), "verify")
           /\ UNCHANGED <<target, broker>>
 <2>1. CASE memory.phase = "legacy-stopped"
   BY <2>1, <1>1, <1>5, LegacyRollsBackKeeps DEF LegacyInv, ServiceFits, NotLaunched, Service
 <2>2. CASE memory.phase # "legacy-stopped"
   BY <1>5, <2>2, <1>3, <1>1, LegacyRollsBackKeeps DEF Proven, Told, Service
 <2> QED BY <2>1, <2>2
<1>6. CASE /\ target' = [target EXCEPT !.stopping = "hold"] /\ Proceeds("stop-new")
           /\ UNCHANGED broker
 <2>1. /\ target' \in TargetSet /\ target'.held = target.held /\ target'.served = target.served
       /\ target'.receipt = target.receipt /\ target'.said = target.said /\ target'.at = target.at
   BY <1>3, <1>6 DEF TargetSet
 <2>2. /\ memory.phase \in PhaseAt("stop-new") /\ "stop-new" \in BackStages
       /\ mover.pc \notin ExecuteStages /\ "stop-new" \notin ExecuteStages
   BY <1>1, <1>2 DEF PhaseAt, ExecuteStages, BackStages
 <2>3. /\ ServiceAt("stop-new") /\ TaskAt("stop-new", memory.task, registration)
       /\ CliAt("stop-new", cli, pointer)
   BY DEF ServiceAt, TaskAt, CliAt
 <2>4. target'.receipt \/ target'.said \/ mover.proof => target'.at = "gone" BY <1>3, <2>1 DEF Told
 <2> QED BY <1>1, <1>6, <2>1, <2>2, <2>3, <2>4, SameWorld, TargetProceedKeeps
<1> QED BY <1>4, <1>5, <1>6 DEF RollBack

LEMMA AdmitNewKeeps ==
  ASSUME LegacyInv, AdmitNew
  PROVE  LegacyInv'
<1>1. mover.pc = "admit" /\ UNCHANGED <<Files, old, edited>> BY DEF AdmitNew
<1>2. /\ memory.phase = "legacy-admitting" /\ "legacy-admitting" \in LegacyPhases
      /\ "legacy-admitting" \notin MayRollBack /\ mover.run = "execute"
      /\ "commit" \in ExecuteStages /\ mover.pc \in ExecuteStages
      /\ "legacy-admitting" \in PhaseAt("commit")
  BY <1>1 DEF LegacyInv, Papers, PhaseAt, ExecuteStages, MayRollBack, LegacyPhases,
    legacyMigrationPhases
<1>3. CASE Mishap /\ UNCHANGED target BY <1>1, <1>3, SameWorld, MishapKeeps
<1>4. CASE /\ target.at = "ready" /\ target' = [target EXCEPT !.held = FALSE]
           /\ (Proceeds("commit") /\ UNCHANGED broker) \/ Mishap
 <2>1. /\ LegacyTypeOK /\ Told /\ Papers /\ ServiceFits(memory.phase) BY DEF LegacyInv
 <2>2. /\ target' \in TargetSet /\ ~target'.held /\ target'.served = target.served
       /\ target'.receipt = target.receipt /\ target'.said = target.said /\ target'.at = target.at
   BY <1>4, <2>1 DEF LegacyTypeOK, TargetSet
 <2>3. ServiceFits("legacy-admitting")'
   BY <1>1, <1>2, <2>1, LegacyApart DEF ServiceFits, SinceLaunch, NotLaunched, Undoing, TakenBack, Final
 <2>4. TaskFits(memory.phase, registration)' /\ CliFits(memory.phase, cli, pointer)'
       /\ memory'.phase = "legacy-admitting" /\ memory' = memory
       /\ written'.phase = memory'.phase /\ memory' \in LegacyJournals
       /\ written' \in LegacyJournals /\ broker' \in Brokers
  <3>1. /\ memory' = memory /\ (written' = memory \/ written' = written)
        /\ broker' \in Brokers
   <4>1. broker \in Brokers BY <2>1 DEF LegacyTypeOK, Brokers
   <4>2. CASE Proceeds("commit") /\ UNCHANGED broker BY <4>1, <4>2 DEF Proceeds
   <4>3. CASE Mishap BY <1>2, <4>3, <4>1 DEF Mishap, CaughtWith, LetsGo, Brokers
   <4> QED BY <1>4, <4>2, <4>3
  <3>2. TaskFits(memory.phase, registration)' BY <1>1, <3>1, SameWorld DEF TaskFits, OpenTask
  <3>3. CliFits(memory.phase, cli, pointer)'
    BY <1>1, <3>1, SameWorld DEF CliFits, CliAsFound, CliAside, CliNew
  <3>4. memory \in LegacyJournals /\ written \in LegacyJournals /\ written.phase = memory.phase
    BY <2>1 DEF LegacyTypeOK, Papers
  <3> QED BY <1>2, <3>1, <3>2, <3>3, <3>4
 <2>5. CASE Proceeds("commit")
  <3>1. /\ mover' \in Movers /\ mover'.pc = "commit" /\ mover'.proof = mover.proof
        /\ mover'.run = "execute" /\ "commit" \notin BackStages
    BY <1>2, <2>5, MoverMoves, StagesApart DEF Proceeds
  <3>2. LegacyTypeOK' BY <1>1, <2>1, <2>2, <2>4, <3>1, SameWorld DEF LegacyTypeOK, Brokers
  <3>3. Papers' BY <1>2, <2>4, <3>1, LegacyApart DEF Papers
  <3>4. Told' BY <1>1, <2>1, <2>2, <3>1 DEF Told
  <3>5. ServiceAt(mover.pc)' BY <2>2, <3>1 DEF ServiceAt
  <3>6. TaskAt(mover.pc, memory.task, registration)' /\ CliAt(mover.pc, cli, pointer)'
    BY <3>1 DEF TaskAt, CliAt
  <3> QED BY <2>3, <2>4, <3>2, <3>3, <3>4, <3>5, <3>6 DEF LegacyInv
 <2>6. CASE Mishap
  <3>1. mover' = Resting BY <1>2, <2>6 DEF Mishap, CaughtWith
  <3>2. mover' \in Movers /\ mover'.pc = "off" /\ ~mover'.proof BY <3>1, RestingIs
  <3>3. LegacyTypeOK' BY <1>1, <2>1, <2>2, <2>4, <3>2, SameWorld DEF LegacyTypeOK, Brokers
  <3>4. Told' BY <1>1, <2>1, <2>2, <3>2 DEF Told
  <3> QED BY <1>2, <2>3, <2>4, <3>2, <3>3, <3>4, LegacyApart, LeavesKeep
 <2> QED BY <1>4, <2>5, <2>6
<1> QED BY <1>3, <1>4 DEF AdmitNew

LEMMA RunTaskKeeps ==
  ASSUME LegacyInv, RunTask
  PROVE  LegacyInv'
<1>1. mover.pc = "run" /\ UNCHANGED <<Files, target, edited>> BY DEF RunTask
<1>2. CASE ~TaskMatches BY <1>1, <1>2, SameWorld, EndsKeep DEF RunTask
<1>3. CASE TaskMatches
 <2>1. /\ mover' = [mover EXCEPT !.pc = "observe"] /\ memory' = memory /\ written' = written
       /\ broker' = broker
       /\ OldStarts \/ UNCHANGED old
   BY <1>3 DEF RunTask, Proceeds
 <2>2. /\ LegacyTypeOK /\ Told /\ Papers /\ ServiceFits(memory.phase) BY DEF LegacyInv
 <2>3. /\ memory.phase = "legacy-rollback-launching"
       /\ "legacy-rollback-launching" \in PhaseAt("observe")
       /\ "observe" \in BackStages /\ mover.pc \notin ExecuteStages /\ "observe" \notin ExecuteStages
   BY <1>1, <2>2 DEF Papers, PhaseAt, ExecuteStages, BackStages
 <2>4. /\ mover' \in Movers /\ mover'.pc = "observe" /\ mover'.proof = mover.proof
       /\ mover'.run # "execute"
   BY <1>1, <2>1, <2>3, MoverMoves
 <2>5. old' \in OldSet /\ old'.born >= 2
  <3>1. old \in OldSet /\ old.born >= 2 BY <2>2 DEF LegacyTypeOK, Told
  <3>2. CASE OldStarts
   <4>1. /\ old.born \in Nat /\ old.born + 1 \in Nat
         /\ old' = [old EXCEPT !.supervisor = old.born + 1, !.born = old.born + 1]
     BY <3>1, <3>2 DEF OldStarts, OldSet
   <4>2. old' \in OldSet /\ old'.born = old.born + 1 BY <3>1, <4>1 DEF OldSet
   <4> QED BY <3>1, <4>1, <4>2
  <3>3. CASE UNCHANGED old BY <3>1, <3>3
  <3> QED BY <2>1, <3>2, <3>3
 <2>6. LegacyTypeOK' BY <1>1, <2>1, <2>2, <2>4, <2>5, SameWorld DEF LegacyTypeOK, Brokers
 <2>7. Papers' BY <2>1, <2>2, <2>3, <2>4 DEF Papers
 <2>8. Told' BY <1>1, <2>2, <2>4, <2>5 DEF Told
 <2>9. ServiceFits(memory.phase)' /\ ServiceAt(mover.pc)'
   BY <1>1, <2>1, <2>2, <2>3, <2>4 DEF ServiceFits, ServiceAt, SinceLaunch
 <2>10. TaskFits(memory.phase, registration)' /\ TaskAt(mover.pc, memory.task, registration)'
   BY <2>1, <2>4, <1>1, SameWorld DEF TaskFits, TaskAt, OpenTask
 <2>11. CliFits(memory.phase, cli, pointer)' /\ CliAt(mover.pc, cli, pointer)'
   BY <2>1, <2>4, <1>1, SameWorld DEF CliFits, CliAt, CliAsFound, CliAside, CliNew
 <2> QED BY <2>6, <2>7, <2>8, <2>9, <2>10, <2>11 DEF LegacyInv
<1> QED BY <1>2, <1>3

-----------------------------------------------------------------------------
(* Changes of the task. *)

\* The change may have been made although the call failed.
LEMMA TaskCallKeeps ==
  ASSUME LegacyInv, NEW changed \in TaskSet, NEW allowed \in BOOLEAN,
         NEW pc \in ExecuteStages \cup BackStages, TaskCall(allowed, changed, pc),
         mover.pc \in ExecuteStages <=> pc \in ExecuteStages, mover.pc # "off",
         memory.phase \in PhaseAt(pc),
         memory.phase \in LegacyPhases \ (Final \cup Reopened \cup {"legacy-prepared"}),
         TaskMatches /\ allowed =>
           /\ memory.phase \in SinceLaunch => ~OpenTask(changed)
           /\ TaskAt(pc, changed, changed),
         ServiceAt(pc), CliAt(pc, cli, pointer)
  PROVE  LegacyInv'
<1>1. UNCHANGED <<cli, pointer, old, target, edited>> BY DEF TaskCall
<1>2. LegacyTypeOK /\ Told /\ Papers /\ ServiceFits(memory.phase)
      /\ TaskFits(memory.phase, registration) /\ CliFits(memory.phase, cli, pointer)
  BY DEF LegacyInv
<1>3. registration \in TaskSet BY <1>2 DEF LegacyTypeOK
<1>4. TaskMatches /\ allowed => TaskFits(memory.phase, changed) BY DEF TaskFits
<1>5. CASE /\ TaskMatches /\ allowed
           /\ registration' = changed /\ memory' = [memory EXCEPT !.task = changed]
           /\ mover' = [mover EXCEPT !.pc = pc] /\ UNCHANGED <<written, broker>>
 <2>1. /\ mover' \in Movers /\ mover'.pc = pc /\ mover'.proof = mover.proof
       /\ pc \in ExecuteStages => mover'.run = "execute"
       /\ pc \in BackStages => mover'.run # "execute"
   BY <1>5, MoverMoves
 <2>2. /\ memory' \in LegacyJournals /\ memory'.phase = memory.phase /\ memory'.task = changed
   BY <1>2, <1>5 DEF LegacyTypeOK, LegacyJournals
 <2>3. LegacyTypeOK' BY <1>1, <1>2, <1>5, <2>1, <2>2 DEF LegacyTypeOK
 <2>4. Papers' BY <1>2, <1>5, <2>1, <2>2, LegacyApart DEF Papers
 <2>5. Told' BY <1>1, <1>2, <2>1 DEF Told
 <2>6. ServiceFits(memory.phase)' /\ ServiceAt(mover.pc)'
   BY <1>1, <1>2, <2>1, <2>2 DEF ServiceFits, ServiceAt
 <2>7. TaskFits(memory.phase, registration)' /\ TaskAt(mover.pc, memory.task, registration)'
   BY <1>4, <1>5, <2>1, <2>2 DEF TaskFits, TaskAt, OpenTask
 <2>8. CliFits(memory.phase, cli, pointer)' /\ CliAt(mover.pc, cli, pointer)'
   BY <1>1, <1>2, <2>1, <2>2 DEF CliFits, CliAt, CliAsFound, CliAside, CliNew
 <2> QED BY <2>3, <2>4, <2>5, <2>6, <2>7, <2>8 DEF LegacyInv
<1>6. CASE /\ Mishap
           /\ registration' \in {registration, IF TaskMatches /\ allowed THEN changed ELSE registration}
  BY <1>2, <1>3, <1>4, <1>6, <1>1, MishapKeeps
<1> QED BY <1>5, <1>6 DEF TaskCall

LEMMA HoldTaskKeeps ==
  ASSUME LegacyInv, HoldTask
  PROVE  LegacyInv'
<1>1. /\ mover.pc = "hold" /\ memory.phase = "legacy-holding" /\ "legacy-holding" \in PhaseAt("held")
      /\ "held" \in ExecuteStages \cup BackStages
      /\ mover.pc \in ExecuteStages <=> "held" \in ExecuteStages
  BY DEF HoldTask, LegacyInv, Papers, PhaseAt, ExecuteStages, BackStages
<1>2. "legacy-holding" \in LegacyPhases \ (Final \cup Reopened \cup {"legacy-prepared"})
  BY DEF LegacyPhases, legacyMigrationPhases, Final, Reopened
<1>3. memory \in LegacyJournals /\ memory.task \in TaskSet /\ Original \in TaskSet
  BY DEF LegacyInv, LegacyTypeOK, LegacyJournals, TaskSet, Original
<1>4. PICK changed \in TaskSet : changed = Held BY <1>3 DEF TaskSet, Held
<1>5. PICK allowed \in BOOLEAN : TaskCall(allowed, changed, "held")
  BY <1>1, <1>4 DEF HoldTask, TaskCall
<1>6. TaskAt("held", changed, changed) /\ (memory.phase \in SinceLaunch => ~OpenTask(changed))
  BY <1>1, <1>3, <1>4 DEF TaskAt, SinceLaunch, Held, TaskSet
<1>7. ServiceAt("held") /\ CliAt("held", cli, pointer) BY <1>1 DEF ServiceAt, CliAt, LegacyInv
<1> QED BY <1>1, <1>2, <1>5, <1>6, <1>7, TaskCallKeeps

LEMMA RepointTaskKeeps ==
  ASSUME LegacyInv, RepointTask
  PROVE  LegacyInv'
<1>1. /\ mover.pc = "repoint" /\ memory.phase = "legacy-wiring" /\ "legacy-wiring" \in PhaseAt("repointed")
      /\ "repointed" \in ExecuteStages \cup BackStages
      /\ mover.pc \in ExecuteStages <=> "repointed" \in ExecuteStages
  BY DEF RepointTask, LegacyInv, Papers, PhaseAt, ExecuteStages, BackStages
<1>2. "legacy-wiring" \in LegacyPhases \ (Final \cup Reopened \cup {"legacy-prepared"})
  BY DEF LegacyPhases, legacyMigrationPhases, Final, Reopened
<1>3. memory \in LegacyJournals /\ memory.task \in TaskSet /\ Original \in TaskSet
  BY DEF LegacyInv, LegacyTypeOK, LegacyJournals, TaskSet, Original
<1>4. PICK changed \in TaskSet : changed = Repointed BY <1>3 DEF TaskSet, Repointed
<1>5. PICK allowed \in BOOLEAN : TaskCall(allowed, changed, "repointed")
  BY <1>1, <1>4 DEF RepointTask, TaskCall
<1>6. TaskAt("repointed", changed, changed) /\ (memory.phase \in SinceLaunch => ~OpenTask(changed))
  BY <1>1, <1>3, <1>4 DEF TaskAt, OpenTask, Repointed, TaskSet
<1>7. ServiceAt("repointed") /\ CliAt("repointed", cli, pointer)
  BY <1>1 DEF ServiceAt, CliAt, LegacyInv
<1> QED BY <1>1, <1>2, <1>5, <1>6, <1>7, TaskCallKeeps

LEMMA EnableTaskKeeps ==
  ASSUME LegacyInv, EnableTask
  PROVE  LegacyInv'
<1>1. /\ mover.pc = "enable" /\ memory.phase = "legacy-wiring" /\ "legacy-wiring" \in PhaseAt("enabled")
      /\ "enabled" \in ExecuteStages \cup BackStages
      /\ mover.pc \in ExecuteStages <=> "enabled" \in ExecuteStages
  BY DEF EnableTask, LegacyInv, Papers, PhaseAt, ExecuteStages, BackStages
<1>2. "legacy-wiring" \in LegacyPhases \ (Final \cup Reopened \cup {"legacy-prepared"})
  BY DEF LegacyPhases, legacyMigrationPhases, Final, Reopened
<1>3. memory \in LegacyJournals /\ memory.task \in TaskSet /\ Original \in TaskSet
  BY DEF LegacyInv, LegacyTypeOK, LegacyJournals, TaskSet, Original
<1>4. PICK changed \in TaskSet : changed = Enabled BY <1>3 DEF TaskSet, Enabled
<1>5. PICK allowed \in BOOLEAN : TaskCall(allowed, changed, "enabled")
  BY <1>1, <1>4 DEF EnableTask, TaskCall
<1>6. TaskAt("enabled", changed, changed) /\ (memory.phase \in SinceLaunch => ~OpenTask(changed))
  BY <1>1, <1>3, <1>4 DEF LegacyInv, TaskAt, OpenTask, Enabled, TaskSet
<1>7. ServiceAt("enabled") /\ CliAt("enabled", cli, pointer)
  BY <1>1 DEF ServiceAt, CliAt, LegacyInv
<1> QED BY <1>1, <1>2, <1>5, <1>6, <1>7, TaskCallKeeps

LEMMA HoldAgainKeeps ==
  ASSUME LegacyInv, HoldAgain
  PROVE  LegacyInv'
<1>1. /\ mover.pc = "rehold" /\ memory.phase = "legacy-rollback-stopping" /\ "legacy-rollback-stopping" \in PhaseAt("rewrite")
      /\ "rewrite" \in ExecuteStages \cup BackStages
      /\ mover.pc \in ExecuteStages <=> "rewrite" \in ExecuteStages
  BY DEF HoldAgain, LegacyInv, Papers, PhaseAt, ExecuteStages, BackStages
<1>2. "legacy-rollback-stopping" \in LegacyPhases \ (Final \cup Reopened \cup {"legacy-prepared"})
  BY DEF LegacyPhases, legacyMigrationPhases, Final, Reopened
<1>3. memory \in LegacyJournals /\ memory.task \in TaskSet /\ Original \in TaskSet
  BY DEF LegacyInv, LegacyTypeOK, LegacyJournals, TaskSet, Original
<1>4. PICK changed \in TaskSet : changed = Held BY <1>3 DEF TaskSet, Held
<1>5. PICK allowed \in BOOLEAN : TaskCall(allowed, changed, "rewrite")
  BY <1>1, <1>4 DEF HoldAgain, TaskCall
<1>6. TaskAt("rewrite", changed, changed) /\ (memory.phase \in SinceLaunch => ~OpenTask(changed))
  BY <1>1 DEF TaskAt, SinceLaunch
<1>7. ServiceAt("rewrite") /\ CliAt("rewrite", cli, pointer)
  BY <1>1 DEF ServiceAt, CliAt, LegacyInv
<1> QED BY <1>1, <1>2, <1>5, <1>6, <1>7, TaskCallKeeps

LEMMA RestoreTaskKeeps ==
  ASSUME LegacyInv, RestoreTask
  PROVE  LegacyInv'
<1>1. /\ mover.pc = "restore" /\ memory.phase = "legacy-task-restoring" /\ "legacy-task-restoring" \in PhaseAt("restored")
      /\ "restored" \in ExecuteStages \cup BackStages
      /\ mover.pc \in ExecuteStages <=> "restored" \in ExecuteStages
  BY DEF RestoreTask, LegacyInv, Papers, PhaseAt, ExecuteStages, BackStages
<1>2. "legacy-task-restoring" \in LegacyPhases \ (Final \cup Reopened \cup {"legacy-prepared"})
  BY DEF LegacyPhases, legacyMigrationPhases, Final, Reopened
<1>3. memory \in LegacyJournals /\ memory.task \in TaskSet /\ Original \in TaskSet
  BY DEF LegacyInv, LegacyTypeOK, LegacyJournals, TaskSet, Original
<1>4. PICK changed \in TaskSet : changed = Original BY <1>3 DEF TaskSet
<1>5. PICK allowed \in BOOLEAN : TaskCall(allowed, changed, "restored")
  BY <1>1, <1>4 DEF RestoreTask, TaskCall
<1>6. TaskAt("restored", changed, changed) /\ (memory.phase \in SinceLaunch => ~OpenTask(changed))
  BY <1>1, <1>4 DEF TaskAt, SinceLaunch
<1>7. ServiceAt("restored") /\ CliAt("restored", cli, pointer)
  BY <1>1 DEF ServiceAt, CliAt, LegacyInv
<1> QED BY <1>1, <1>2, <1>5, <1>6, <1>7, TaskCallKeeps

LEMMA UnholdKeeps ==
  ASSUME LegacyInv, Unhold
  PROVE  LegacyInv'
<1>1. /\ mover.pc = "unhold" /\ memory.phase = "legacy-held" /\ "legacy-held" \in PhaseAt("abort")
      /\ "abort" \in ExecuteStages \cup BackStages
      /\ mover.pc \in ExecuteStages <=> "abort" \in ExecuteStages
  BY DEF Unhold, LegacyInv, Papers, PhaseAt, ExecuteStages, BackStages
<1>2. "legacy-held" \in LegacyPhases \ (Final \cup Reopened \cup {"legacy-prepared"})
  BY DEF LegacyPhases, legacyMigrationPhases, Final, Reopened
<1>3. memory \in LegacyJournals /\ memory.task \in TaskSet /\ Original \in TaskSet
  BY DEF LegacyInv, LegacyTypeOK, LegacyJournals, TaskSet, Original
<1>4. PICK changed \in TaskSet : changed = Original BY <1>3 DEF TaskSet
<1>5. PICK allowed \in BOOLEAN : TaskCall(allowed, changed, "abort")
  BY <1>1, <1>4 DEF Unhold, TaskCall
<1>6. TaskAt("abort", changed, changed) /\ (memory.phase \in SinceLaunch => ~OpenTask(changed))
  BY <1>1, <1>4 DEF TaskAt, SinceLaunch, OpenTask, Original
<1>7. ServiceAt("abort") /\ CliAt("abort", cli, pointer) BY <1>1 DEF ServiceAt, CliAt, LegacyInv
<1> QED BY <1>1, <1>2, <1>5, <1>6, <1>7, TaskCallKeeps

-----------------------------------------------------------------------------
(* Changes of the command line files. *)

LEMMA CliStepKeeps ==
  ASSUME LegacyInv, NEW files \in CliSet, NEW pointed \in BOOLEAN,
         NEW next \in ExecuteStages \cup BackStages,
         \/ /\ cli' = files /\ pointer' = pointed /\ Proceeds(next) /\ UNCHANGED broker
         \/ Mishap /\ UNCHANGED <<cli, pointer>>,
         UNCHANGED <<registration, old, target, edited>>,
         mover.pc \in ExecuteStages <=> next \in ExecuteStages, mover.pc # "off",
         memory.phase \in PhaseAt(next),
         CliFits(memory.phase, files, pointed), CliAt(next, files, pointed),
         ServiceAt(next), TaskAt(next, memory.task, registration)
  PROVE  LegacyInv'
<1>1. /\ registration \in TaskSet /\ TaskFits(memory.phase, registration) /\ broker \in Brokers
  BY DEF LegacyInv, LegacyTypeOK, Brokers
<1>2. CASE Mishap /\ UNCHANGED <<cli, pointer>> BY <1>1, <1>2, MishapKeeps
<1>3. CASE cli' = files /\ pointer' = pointed /\ Proceeds(next) /\ UNCHANGED broker
  BY <1>1, <1>3, ProceedKeeps DEF Proceeds
<1> QED BY <1>2, <1>3

\* The forms of the files.
LEMMA CliIs ==
  ASSUME NEW files \in CliSet
  PROVE  /\ files.path = "old" /\ ~files.saved /\ files.staged => CliAsFound(files)
         /\ files.path = Nothing /\ files.saved /\ files.staged => CliAside(files)
         /\ files.path = "new" /\ files.saved /\ ~files.staged => CliNew(files)
BY DEF CliSet, CliAsFound, CliAside, CliNew

LEMMA CliForms ==
  ASSUME LegacyInv
  PROVE  /\ cli \in CliSet /\ pointer \in BOOLEAN
         /\ [cli EXCEPT !.path = Nothing, !.saved = TRUE] \in CliSet
         /\ [cli EXCEPT !.path = "new", !.staged = FALSE] \in CliSet
         /\ [cli EXCEPT !.path = Nothing, !.staged = TRUE] \in CliSet
         /\ [cli EXCEPT !.path = "old", !.saved = FALSE] \in CliSet
         /\ CliAsFound(cli) => CliAside([cli EXCEPT !.path = Nothing, !.saved = TRUE])
         /\ CliAside(cli) => /\ CliNew([cli EXCEPT !.path = "new", !.staged = FALSE])
                             /\ CliAsFound([cli EXCEPT !.path = "old", !.saved = FALSE])
         /\ CliNew(cli) => CliAside([cli EXCEPT !.path = Nothing, !.staged = TRUE])
<1> DEFINE aside == [cli EXCEPT !.path = Nothing, !.saved = TRUE]
           selected == [cli EXCEPT !.path = "new", !.staged = FALSE]
           unselected == [cli EXCEPT !.path = Nothing, !.staged = TRUE]
           returned == [cli EXCEPT !.path = "old", !.saved = FALSE]
<1>1. cli \in CliSet /\ pointer \in BOOLEAN BY DEF LegacyInv, LegacyTypeOK
<1>2. /\ aside \in CliSet /\ aside.path = Nothing /\ aside.saved /\ aside.staged = cli.staged
      /\ selected \in CliSet /\ selected.path = "new" /\ selected.saved = cli.saved
      /\ ~selected.staged
      /\ unselected \in CliSet /\ unselected.path = Nothing /\ unselected.saved = cli.saved
      /\ unselected.staged
      /\ returned \in CliSet /\ returned.path = "old" /\ ~returned.saved
      /\ returned.staged = cli.staged
  BY <1>1 DEF CliSet
<1> HIDE DEF aside, selected, unselected, returned
<1>3. CliAsFound(cli) => CliAside(aside)
 <2>1. CliAsFound(cli) => cli.staged BY DEF CliAsFound
 <2> QED BY <1>2, <2>1, CliIs
<1>4. CliAside(cli) => CliNew(selected) /\ CliAsFound(returned)
 <2>1. CliAside(cli) => cli.saved /\ cli.staged BY DEF CliAside
 <2> QED BY <1>2, <2>1, CliIs
<1>5. CliNew(cli) => CliAside(unselected)
 <2>1. CliNew(cli) => cli.saved BY DEF CliNew
 <2> QED BY <1>2, <2>1, CliIs
<1> QED BY <1>1, <1>2, <1>3, <1>4, <1>5 DEF aside, selected, unselected, returned

LEMMA MovesOldCliKeeps ==
  ASSUME LegacyInv, MovesOldCli
  PROVE  LegacyInv'
<1>1. /\ mover.pc = "cli-move" /\ memory.phase = "legacy-wiring" /\ "legacy-wiring" \in PhaseAt("cli-select")
      /\ "cli-select" \in ExecuteStages \cup BackStages
      /\ mover.pc \in ExecuteStages <=> "cli-select" \in ExecuteStages
      /\ UNCHANGED <<registration, old, target, edited>>
  BY DEF MovesOldCli, CliStep, LegacyInv, Papers, PhaseAt, ExecuteStages, BackStages
<1>2. /\ "legacy-wiring" \in LegacyPhases /\ "legacy-wiring" \notin NotLaunched \ {Nothing}
      /\ "legacy-wiring" \notin {"legacy-launching"} \cup TakenBack \cup Final
  BY DEF LegacyPhases, legacyMigrationPhases, NotLaunched, TakenBack, Final
<1>3. PICK files \in CliSet : files = [cli EXCEPT !.path = Nothing, !.saved = TRUE] BY CliForms
<1>4. PICK pointed \in BOOLEAN : pointed = pointer BY CliForms
<1>5. \/ /\ cli' = files /\ pointer' = pointed /\ Proceeds("cli-select") /\ UNCHANGED broker
      \/ Mishap /\ UNCHANGED <<cli, pointer>>
  BY <1>3, <1>4 DEF MovesOldCli, CliStep
<1>6. CliAside(files) /\ CliAt("cli-select", files, pointed)
  BY <1>1, <1>3, CliForms DEF LegacyInv, CliAt
<1>7. CliFits(memory.phase, files, pointed) BY <1>1, <1>2, <1>6, LegacyApart DEF CliFits
<1>8. ServiceAt("cli-select") /\ TaskAt("cli-select", memory.task, registration)
  BY <1>1 DEF ServiceAt, TaskAt, LegacyInv
<1> QED BY <1>1, <1>5, <1>6, <1>7, <1>8, CliStepKeeps

LEMMA SelectsCliKeeps ==
  ASSUME LegacyInv, SelectsCli
  PROVE  LegacyInv'
<1>1. /\ mover.pc = "cli-select" /\ memory.phase = "legacy-wiring" /\ "legacy-wiring" \in PhaseAt("cli-point")
      /\ "cli-point" \in ExecuteStages \cup BackStages
      /\ mover.pc \in ExecuteStages <=> "cli-point" \in ExecuteStages
      /\ UNCHANGED <<registration, old, target, edited>>
  BY DEF SelectsCli, CliStep, LegacyInv, Papers, PhaseAt, ExecuteStages, BackStages
<1>2. /\ "legacy-wiring" \in LegacyPhases /\ "legacy-wiring" \notin NotLaunched \ {Nothing}
      /\ "legacy-wiring" \notin {"legacy-launching"} \cup TakenBack \cup Final
  BY DEF LegacyPhases, legacyMigrationPhases, NotLaunched, TakenBack, Final
<1>3. PICK files \in CliSet : files = [cli EXCEPT !.path = "new", !.staged = FALSE] BY CliForms
<1>4. PICK pointed \in BOOLEAN : pointed = pointer BY CliForms
<1>5. \/ /\ cli' = files /\ pointer' = pointed /\ Proceeds("cli-point") /\ UNCHANGED broker
      \/ Mishap /\ UNCHANGED <<cli, pointer>>
  BY <1>3, <1>4 DEF SelectsCli, CliStep
<1>6. CliNew(files) /\ CliAt("cli-point", files, pointed)
  BY <1>1, <1>3, CliForms DEF LegacyInv, CliAt
<1>7. CliFits(memory.phase, files, pointed) BY <1>1, <1>2, <1>6, LegacyApart DEF CliFits
<1>8. ServiceAt("cli-point") /\ TaskAt("cli-point", memory.task, registration)
  BY <1>1 DEF ServiceAt, TaskAt, LegacyInv
<1> QED BY <1>1, <1>5, <1>6, <1>7, <1>8, CliStepKeeps

LEMMA PointsCliKeeps ==
  ASSUME LegacyInv, PointsCli
  PROVE  LegacyInv'
<1>1. /\ mover.pc = "cli-point" /\ memory.phase = "legacy-wiring" /\ "legacy-wiring" \in PhaseAt("cli-pointed")
      /\ "cli-pointed" \in ExecuteStages \cup BackStages
      /\ mover.pc \in ExecuteStages <=> "cli-pointed" \in ExecuteStages
      /\ UNCHANGED <<registration, old, target, edited>>
  BY DEF PointsCli, CliStep, LegacyInv, Papers, PhaseAt, ExecuteStages, BackStages
<1>2. /\ "legacy-wiring" \in LegacyPhases /\ "legacy-wiring" \notin NotLaunched \ {Nothing}
      /\ "legacy-wiring" \notin {"legacy-launching"} \cup TakenBack \cup Final
  BY DEF LegacyPhases, legacyMigrationPhases, NotLaunched, TakenBack, Final
<1>3. PICK files \in CliSet : files = cli BY CliForms
<1>4. PICK pointed \in BOOLEAN : pointed = TRUE BY CliForms
<1>5. \/ /\ cli' = files /\ pointer' = pointed /\ Proceeds("cli-pointed") /\ UNCHANGED broker
      \/ Mishap /\ UNCHANGED <<cli, pointer>>
  BY <1>3, <1>4 DEF PointsCli, CliStep
<1>6. CliNew(files) /\ CliAt("cli-pointed", files, pointed)
  BY <1>1, <1>3, <1>4, CliForms DEF LegacyInv, CliAt
<1>7. CliFits(memory.phase, files, pointed) BY <1>1, <1>2, <1>6, LegacyApart DEF CliFits
<1>8. ServiceAt("cli-pointed") /\ TaskAt("cli-pointed", memory.task, registration)
  BY <1>1 DEF ServiceAt, TaskAt, LegacyInv
<1> QED BY <1>1, <1>5, <1>6, <1>7, <1>8, CliStepKeeps

LEMMA UnselectsCliKeeps ==
  ASSUME LegacyInv, UnselectsCli
  PROVE  LegacyInv'
<1>1. /\ mover.pc = "cli-unselect" /\ memory.phase = "legacy-cli-restoring" /\ "legacy-cli-restoring" \in PhaseAt("cli-return")
      /\ "cli-return" \in ExecuteStages \cup BackStages
      /\ mover.pc \in ExecuteStages <=> "cli-return" \in ExecuteStages
      /\ UNCHANGED <<registration, old, target, edited>>
  BY DEF UnselectsCli, CliStep, LegacyInv, Papers, PhaseAt, ExecuteStages, BackStages
<1>2. /\ "legacy-cli-restoring" \in LegacyPhases /\ "legacy-cli-restoring" \notin NotLaunched \ {Nothing}
      /\ "legacy-cli-restoring" \notin {"legacy-launching"} \cup TakenBack \cup Final
  BY DEF LegacyPhases, legacyMigrationPhases, NotLaunched, TakenBack, Final
<1>3. PICK files \in CliSet : files = IF cli.saved /\ cli.path = "new"
                                     THEN [cli EXCEPT !.path = Nothing, !.staged = TRUE] ELSE cli
  BY CliForms
<1>4. PICK pointed \in BOOLEAN : pointed = pointer BY CliForms
<1>5. \/ /\ cli' = files /\ pointer' = pointed /\ Proceeds("cli-return") /\ UNCHANGED broker
      \/ Mishap /\ UNCHANGED <<cli, pointer>>
  BY <1>3, <1>4 DEF UnselectsCli, CliStep
<1>6. (CliAsFound(files) \/ CliAside(files)) /\ CliAt("cli-return", files, pointed)
 <2>1. CliAsFound(cli) \/ CliAside(cli) \/ CliNew(cli)
   BY <1>1, <1>2, LegacyApart DEF LegacyInv, CliFits
 <2>2. CASE CliNew(cli) BY <2>2, <1>3, CliForms DEF CliNew, CliAt
 <2>3. CASE CliAsFound(cli) BY <2>3, <1>3 DEF CliAsFound, CliAt
 <2>4. CASE CliAside(cli) BY <2>4, LegacyApart, <1>3 DEF CliAside, CliAt
 <2> QED BY <2>1, <2>2, <2>3, <2>4
<1>7. CliFits(memory.phase, files, pointed) BY <1>1, <1>2, <1>6, LegacyApart DEF CliFits
<1>8. ServiceAt("cli-return") /\ TaskAt("cli-return", memory.task, registration)
  BY <1>1 DEF ServiceAt, TaskAt, LegacyInv
<1> QED BY <1>1, <1>5, <1>6, <1>7, <1>8, CliStepKeeps

LEMMA ReturnsCliKeeps ==
  ASSUME LegacyInv, ReturnsCli
  PROVE  LegacyInv'
<1>1. /\ mover.pc = "cli-return" /\ memory.phase = "legacy-cli-restoring" /\ "legacy-cli-restoring" \in PhaseAt("cli-unpoint")
      /\ "cli-unpoint" \in ExecuteStages \cup BackStages
      /\ mover.pc \in ExecuteStages <=> "cli-unpoint" \in ExecuteStages
      /\ UNCHANGED <<registration, old, target, edited>>
  BY DEF ReturnsCli, CliStep, LegacyInv, Papers, PhaseAt, ExecuteStages, BackStages
<1>2. /\ "legacy-cli-restoring" \in LegacyPhases /\ "legacy-cli-restoring" \notin NotLaunched \ {Nothing}
      /\ "legacy-cli-restoring" \notin {"legacy-launching"} \cup TakenBack \cup Final
  BY DEF LegacyPhases, legacyMigrationPhases, NotLaunched, TakenBack, Final
<1>3. PICK files \in CliSet : files = IF cli.saved
                                     THEN [cli EXCEPT !.path = "old", !.saved = FALSE] ELSE cli
  BY CliForms
<1>4. PICK pointed \in BOOLEAN : pointed = pointer BY CliForms
<1>5. \/ /\ cli' = files /\ pointer' = pointed /\ Proceeds("cli-unpoint") /\ UNCHANGED broker
      \/ Mishap /\ UNCHANGED <<cli, pointer>>
  BY <1>3, <1>4 DEF ReturnsCli, CliStep
<1>6. CliAsFound(files) /\ CliAt("cli-unpoint", files, pointed)
 <2>1. CliAsFound(cli) \/ CliAside(cli) BY <1>1 DEF LegacyInv, CliAt
 <2>2. CASE CliAside(cli) BY <2>2, <1>3, CliForms DEF CliAside, CliAt
 <2>3. CASE CliAsFound(cli) BY <2>3, <1>3 DEF CliAsFound, CliAt
 <2> QED BY <2>1, <2>2, <2>3
<1>7. CliFits(memory.phase, files, pointed) BY <1>1, <1>2, <1>6, LegacyApart DEF CliFits
<1>8. ServiceAt("cli-unpoint") /\ TaskAt("cli-unpoint", memory.task, registration)
  BY <1>1 DEF ServiceAt, TaskAt, LegacyInv
<1> QED BY <1>1, <1>5, <1>6, <1>7, <1>8, CliStepKeeps

LEMMA UnpointsKeeps ==
  ASSUME LegacyInv, Unpoints
  PROVE  LegacyInv'
<1>1. /\ mover.pc = "cli-unpoint" /\ memory.phase = "legacy-cli-restoring"
      /\ "legacy-cli-restoring" \in PhaseAt("cli-restored")
      /\ "cli-restored" \in BackStages /\ "cli-restored" \notin ExecuteStages
      /\ mover.pc \notin ExecuteStages
      /\ UNCHANGED <<registration, cli, old, target, edited>>
  BY DEF Unpoints, LegacyInv, Papers, PhaseAt, ExecuteStages, BackStages
<1>2. registration \in TaskSet /\ TaskFits(memory.phase, registration)
  BY DEF LegacyInv, LegacyTypeOK
<1>3. CASE Ends /\ UNCHANGED pointer BY <1>1, <1>2, <1>3, EndsKeep
<1>4. CASE pointer' = FALSE /\ Proceeds("cli-restored") /\ UNCHANGED broker
 <2>1. CliAsFound(cli) BY <1>1 DEF LegacyInv, CliAt
 <2>2. CliAt("cli-restored", cli, FALSE) BY <2>1 DEF CliAt
 <2>3. CliFits(memory.phase, cli, FALSE)
   BY <1>1, <2>1, LegacyApart DEF LegacyPhases, legacyMigrationPhases, Final, CliFits
 <2>4. ServiceAt("cli-restored") /\ TaskAt("cli-restored", memory.task, registration)
   BY DEF ServiceAt, TaskAt
 <2>5. PICK files \in CliSet : files = cli BY CliForms
 <2> QED BY <1>1, <1>4, <2>2, <2>3, <2>4, <2>5, CliStepKeeps
<1> QED BY <1>3, <1>4 DEF Unpoints

-----------------------------------------------------------------------------
(* The steps of others. *)

\* The upgrader and its papers are not touched by anybody else.
LEMMA OtherKeeps ==
  ASSUME LegacyInv, UNCHANGED <<mover, memory, written, cli, pointer>>,
         broker' \in Brokers, edited' \in BOOLEAN, target' \in TargetSet, old' \in OldSet,
         registration' \in TaskSet,
         registration'.action = registration.action, registration'.enabled = registration.enabled,
         old'.born >= 2, target'.served => ~target'.held,
         target'.receipt \/ target'.said \/ mover.proof => target'.at = "gone",
         target'.held = target.held,
         target'.at = target.at \/ target.at \in {"starting", "ready"},
         \/ old'.supervisor \in {old.supervisor, Nothing}
         \/ OpenTask(registration)
  PROVE  LegacyInv'
<1>1. /\ LegacyTypeOK /\ Told /\ Papers /\ ServiceFits(memory.phase) /\ ServiceAt(mover.pc)
      /\ TaskFits(memory.phase, registration) /\ TaskAt(mover.pc, memory.task, registration)
      /\ CliFits(memory.phase, cli, pointer) /\ CliAt(mover.pc, cli, pointer)
  BY DEF LegacyInv
<1>2. LegacyTypeOK' BY <1>1 DEF LegacyTypeOK, Brokers
<1>3. Told' BY DEF Told
<1>4. Papers' BY <1>1 DEF Papers
<1>5. OpenTask(registration') <=> OpenTask(registration) BY DEF OpenTask
<1>6. /\ memory.phase \in SinceLaunch => old'.supervisor = Nothing
      /\ mover.pc \in {"stopping", "receipt", "activate"} => old'.supervisor \in {1, Nothing}
  BY <1>1 DEF ServiceFits, ServiceAt, TaskFits, TaskAt, OpenTask
<1>7. ServiceFits(memory.phase)' BY <1>1, <1>6 DEF ServiceFits
<1>8. ServiceAt(mover.pc)' BY <1>1, <1>6 DEF ServiceAt
<1>9. TaskFits(memory.phase, registration)' BY <1>1, <1>5 DEF TaskFits
<1>10. TaskAt(mover.pc, memory.task, registration)' BY <1>1, <1>5 DEF TaskAt
<1>11. CliFits(memory.phase, cli, pointer)' /\ CliAt(mover.pc, cli, pointer)'
  BY <1>1 DEF CliFits, CliAt, CliAsFound, CliAside, CliNew
<1> QED BY <1>2, <1>3, <1>4, <1>7, <1>8, <1>9, <1>10, <1>11 DEF LegacyInv

LEMMA OthersAre ==
  ASSUME LegacyInv
  PROVE  /\ broker \in Brokers /\ edited \in BOOLEAN /\ target \in TargetSet /\ old \in OldSet
         /\ registration \in TaskSet /\ old.born \in Nat /\ old.born >= 2
         /\ target.served => ~target.held
         /\ target.receipt \/ target.said \/ mover.proof => target.at = "gone"
BY DEF LegacyInv, LegacyTypeOK, Told, Brokers, OldSet

LEMMA OldKeeps ==
  ASSUME LegacyInv, OldForks \/ OldDies \/ LogsOn \/ BrokerStops
  PROVE  LegacyInv'
<1>1. /\ UNCHANGED <<mover, memory, written, registration, cli, pointer, target, edited>>
      /\ broker' \in Brokers
  BY OthersAre DEF OldForks, OldDies, LogsOn, BrokerStops, Files, Brokers
<1>2. CASE OldForks
 <2>1. old' = [old EXCEPT !.bridge = old.born + 1, !.born = old.born + 1] /\ old.born + 1 \in Nat
   BY <1>2, OthersAre DEF OldForks
 <2>2. old' \in OldSet /\ old'.born = old.born + 1 /\ old'.supervisor = old.supervisor
   BY <2>1, OthersAre DEF OldSet
 <2>3. old'.born >= 2 BY <2>2, OthersAre
 <2> QED BY <1>1, <2>2, <2>3, OthersAre, OtherKeeps
<1>3. CASE OldDies
 <2>1. PICK part \in {"supervisor", "bridge"} : old' = [old EXCEPT ![part] = Nothing]
   BY <1>3 DEF OldDies
 <2>2. old' \in OldSet /\ old'.born = old.born /\ old'.supervisor \in {old.supervisor, Nothing}
   BY <2>1, OthersAre DEF OldSet
 <2> QED BY <1>1, <2>2, OthersAre, OtherKeeps
<1>4. CASE LogsOn
 <2>1. /\ old' = [old EXCEPT !.supervisor = old.born + 1, !.born = old.born + 1]
       /\ old.born + 1 \in Nat /\ OpenTask(registration)
   BY <1>4, OthersAre DEF LogsOn, OldStarts, OpenTask
 <2>2. old' \in OldSet /\ old'.born = old.born + 1 BY <2>1, OthersAre DEF OldSet
 <2>3. old'.born >= 2 BY <2>2, OthersAre
 <2> QED BY <1>1, <2>1, <2>2, <2>3, OthersAre, OtherKeeps
<1>5. CASE BrokerStops
 <2>1. \/ old' = old
       \/ \E part \in {"supervisor", "bridge"} : \E left \in {old[part], Nothing} :
             old' = [old EXCEPT ![part] = left]
  <3>1. CASE broker = "stopping" BY <1>5, <3>1 DEF BrokerStops
  <3>2. CASE broker = "stopping-bridge" BY <1>5, <3>2 DEF BrokerStops
  <3> QED BY <1>5, <3>1, <3>2 DEF BrokerStops
 <2>2. old' \in OldSet /\ old'.born = old.born /\ old'.supervisor \in {old.supervisor, Nothing}
   BY <2>1, OthersAre DEF OldSet
 <2> QED BY <1>1, <2>2, OthersAre, OtherKeeps
<1> QED BY <1>2, <1>3, <1>4, <1>5

LEMMA DisturbKeeps ==
  ASSUME LegacyInv, Disturb
  PROVE  LegacyInv'
<1>1. /\ UNCHANGED <<mover, memory, written, cli, pointer, old, broker, target>>
      /\ edited' \in BOOLEAN
      /\ \/ registration' = registration
         \/ registration' = [registration EXCEPT !.edited = TRUE]
  BY OthersAre DEF Disturb, Service
<1>2. /\ registration' \in TaskSet /\ registration'.action = registration.action
      /\ registration'.enabled = registration.enabled
  BY <1>1, OthersAre DEF TaskSet
<1> QED BY <1>1, <1>2, OthersAre, OtherKeeps

LEMMA TargetKeeps ==
  ASSUME LegacyInv, TargetReady \/ TargetServes \/ TargetStops \/ TargetDies
  PROVE  LegacyInv'
<1>1. /\ UNCHANGED <<mover, memory, written, registration, cli, pointer, old, broker, edited>>
      /\ target.at \in {"starting", "ready"}
  BY DEF TargetReady, TargetServes, TargetStops, TargetDies, Files
<1>2. /\ ~target.receipt /\ ~target.said /\ ~mover.proof BY <1>1, OthersAre
<1>3. /\ target' \in TargetSet /\ target'.held = target.held
      /\ target'.served => ~target.held
      /\ target'.receipt \/ target'.said => target'.at = "gone"
 <2>1. CASE TargetReady BY <1>2, <2>1, OthersAre DEF TargetReady, TargetSet
 <2>2. CASE TargetServes BY <1>2, <2>2, OthersAre DEF TargetServes, TargetSet
 <2>3. CASE TargetStops BY <1>2, <2>3, OthersAre DEF TargetStops, TargetSet
 <2>4. CASE TargetDies BY <1>2, <2>4, OthersAre DEF TargetDies, TargetSet
 <2> QED BY <2>1, <2>2, <2>3, <2>4
<1> QED BY <1>1, <1>2, <1>3, OthersAre, OtherKeeps

-----------------------------------------------------------------------------
(* The theorems. *)

LEMMA LegacyInitHolds == LegacyInit => LegacyInv
<1> SUFFICES ASSUME LegacyInit PROVE LegacyInv OBVIOUS
<1>1. /\ mover = Resting /\ memory.phase = Nothing /\ memory.task = Original /\ written = memory
      /\ registration = Original
      /\ cli = [path |-> "old", saved |-> FALSE, staged |-> FALSE] /\ pointer = FALSE
      /\ old = [supervisor |-> 1, bridge |-> 2, born |-> 2]
      /\ broker = "none" /\ target = NoTarget /\ edited = FALSE
  BY DEF LegacyInit
<1>2. memory \in LegacyJournals /\ Original \in TaskSet
  BY DEF LegacyInit, LegacyJournals, TaskSet, Original
<1>3. mover \in Movers /\ mover.pc = "off" /\ ~mover.proof BY <1>1, RestingIs
<1>4. target \in TargetSet /\ target.at = "none" /\ target.held /\ ~target.served
      /\ ~target.receipt /\ ~target.said
  BY <1>1 DEF NoTarget, TargetSet
<1>5. old \in OldSet /\ cli \in CliSet /\ old.born >= 2 BY <1>1 DEF OldSet, CliSet
<1>6. LegacyTypeOK BY <1>1, <1>2, <1>3, <1>4, <1>5 DEF LegacyTypeOK
<1>7. Told BY <1>3, <1>4, <1>5 DEF Told
<1>8. Papers BY <1>1, <1>3, PhaseAtOff, StagesApart DEF Papers
<1>9. /\ Nothing \notin SinceLaunch /\ Nothing \notin Final /\ Nothing \notin Undoing
      /\ Nothing \notin Reopened /\ Nothing # "committed" /\ Nothing # "legacy-launching"
      /\ Nothing \notin TakenBack
  BY LegacyApart DEF SinceLaunch, Final, Undoing, TakenBack, Reopened, LegacyPhases, legacyMigrationPhases
<1>10. ServiceFits(memory.phase) /\ ServiceAt(mover.pc)
  BY <1>1, <1>3, <1>4, <1>9 DEF ServiceFits, ServiceAt
<1>11. TaskFits(memory.phase, registration) /\ TaskAt(mover.pc, memory.task, registration)
  BY <1>1, <1>3, <1>9 DEF TaskFits, TaskAt
<1>12. CliFits(memory.phase, cli, pointer) /\ CliAt(mover.pc, cli, pointer)
  BY <1>1, <1>3, <1>9 DEF CliFits, CliAt
<1> QED BY <1>6, <1>7, <1>8, <1>10, <1>11, <1>12 DEF LegacyInv

LEMMA LegacyStep == LegacyInv /\ [LegacyNext]_legacyVars => LegacyInv'
<1> SUFFICES ASSUME LegacyInv, [LegacyNext]_legacyVars PROVE LegacyInv' OBVIOUS
<1>1. CASE UNCHANGED legacyVars
  BY <1>1 DEF legacyVars, LegacyInv, LegacyTypeOK, Papers, Told, ServiceFits, ServiceAt, TaskFits,
    TaskAt, CliFits, CliAt, CliAsFound, CliAside, CliNew, OpenTask
<1>2. CASE ExecuteSteps
  BY <1>2, AdoptPlanKeeps, LegacyPreparedKeeps, HoldTaskKeeps, TaskHeldKeeps, ReadyToStopKeeps,
    StopOldKeeps, OldAnsweredKeeps, OldUnansweredKeeps, StopReceivedKeeps, ActivateNewKeeps,
    LaunchNewKeeps, NewStartedKeeps, NewTooSlowKeeps, NewCleanedUpKeeps, NewInspectedKeeps,
    RepointTaskKeeps, RewrittenKeeps, MovesOldCliKeeps, SelectsCliKeeps, PointsCliKeeps,
    CliSelectedKeeps, EnableTaskKeeps, TaskEnabledKeeps, AdmitNewKeeps, CommitNewKeeps DEF
    ExecuteSteps
<1>3. CASE RollbackSteps
  BY <1>3, RollBackKeeps, NewStoppedKeeps, VerifyOldKeeps, HoldAgainKeeps, RewrittenKeeps,
    CliIntentKeeps, UnselectsCliKeeps, ReturnsCliKeeps, UnpointsKeeps, CliRestoredKeeps,
    RestoreTaskKeeps, TaskRestoredKeeps, RunTaskKeeps, ObservedKeeps, UnobservedKeeps DEF
    RollbackSteps
<1>4. CASE Others BY <1>4, OldKeeps, DisturbKeeps, TargetKeeps DEF Others
<1>5. CASE RecoverLegacy \/ Untouched \/ Unhold \/ AbortLegacy \/ IsGone \/ MoverDies
  BY <1>5, RecoverLegacyKeeps, UntouchedKeeps, UnholdKeeps, AbortLegacyKeeps, IsGoneKeeps,
    MoverDiesKeeps
<1> QED BY <1>1, <1>2, <1>3, <1>4, <1>5 DEF LegacyNext

\* What may be there in each phase of the journal, and before each step of the
\* upgrader, is there: through every failure, death and recovery.
THEOREM LegacyInvariance == LegacySpec => []LegacyInv
BY LegacyInitHolds, LegacyStep, PTL DEF LegacySpec

LEMMA LegacyInvKept == LegacyInv => LegacyKept
<1> SUFFICES ASSUME LegacyInv PROVE LegacyKept OBVIOUS
<1>1. /\ LegacyTypeOK /\ Told /\ Papers /\ ServiceFits(memory.phase)
      /\ TaskFits(memory.phase, registration) /\ CliFits(memory.phase, cli, pointer)
  BY DEF LegacyInv
<1>2. memory.phase \in LegacyPhases \cup {Nothing} /\ written.phase = memory.phase
  BY <1>1 DEF LegacyTypeOK, LegacyJournals, Papers
<1>3. LegacyPhases \cup {Nothing} \subseteq NotLaunched \cup SinceLaunch \cup Undoing
  BY DEF LegacyPhases, legacyMigrationPhases, NotLaunched, SinceLaunch, Undoing, TakenBack
<1>4. OneVersion
 <2>1. ASSUME target.at \in {"starting", "ready"}
       PROVE  old.supervisor = Nothing /\ ~OpenTask(registration)
   BY <1>1, <1>2, <1>3, <2>1 DEF ServiceFits, TaskFits
 <2>2. target.served => memory.phase \in Final BY <1>1 DEF Told, ServiceFits
 <2> QED BY <1>2, <2>1, <2>2 DEF OneVersion, OpenTask, Final
<1>5. ASSUME memory.phase \in {"legacy-rolled-back", "legacy-aborted"} PROVE Undone
 <2>1. OpenTask(registration) /\ registration \in TaskSet
   BY <1>1, <1>5 DEF TaskFits, Reopened, LegacyTypeOK
 <2>2. registration = [Original EXCEPT !.edited = registration.edited]
  <3>1. registration = [action |-> "old", enabled |-> TRUE, edited |-> registration.edited]
    BY <2>1 DEF OpenTask, TaskSet
  <3>2. Original \in TaskSet BY DEF Original, TaskSet
  <3>3. PICK entry \in TaskSet : entry = [Original EXCEPT !.edited = registration.edited]
    BY <2>1, <3>2 DEF TaskSet
  <3>4. entry.action = "old" /\ entry.enabled = TRUE /\ entry.edited = registration.edited
    BY <3>3 DEF Original
  <3>5. entry = [action |-> "old", enabled |-> TRUE, edited |-> registration.edited]
    BY <3>4 DEF TaskSet
  <3> QED BY <3>1, <3>3, <3>5
 <2>3. memory.phase \notin Final /\ memory.phase # Nothing
   BY <1>5, LegacyApart DEF Final, LegacyPhases, legacyMigrationPhases
 <2>4. CliAsFound(cli) /\ ~pointer BY <1>1, <1>5, <2>3 DEF CliFits, NotLaunched, TakenBack
 <2>5. target.at \in {"none", "gone"}
   BY <1>1, <1>5 DEF ServiceFits, NotLaunched, Undoing, TakenBack
 <2>6. ~target.served BY <1>1, <2>3 DEF Told, ServiceFits
 <2> QED BY <2>2, <2>4, <2>5, <2>6 DEF Undone, CliAsFound
<1>6. ASSUME memory.phase = "committed" PROVE Done
 <2>1. registration.action = "new" /\ registration.enabled /\ registration \in TaskSet
   BY <1>1, <1>6 DEF TaskFits, Final, LegacyTypeOK
 <2>2. registration = [action |-> "new", enabled |-> TRUE, edited |-> registration.edited]
   BY <2>1 DEF TaskSet
 <2>3. CliNew(cli) /\ pointer BY <1>1, <1>6 DEF CliFits, Final
 <2>4. ~target.held /\ old.supervisor = Nothing BY <1>1, <1>6 DEF ServiceFits, SinceLaunch
 <2> QED BY <2>2, <2>3, <2>4 DEF Done, CliNew
<1> QED BY <1>2, <1>4, <1>5, <1>6 DEF LegacyKept, SettledAsSaid

\* For any number of births, failures, deaths, recoveries and changes by others
\* one version serves at a time, and at the end the one that the journal names,
\* with the task, the command line file and the routing that belong to it.
THEOREM OneVersionServes == LegacySpec => []LegacyKept
BY LegacyInvariance, LegacyInvKept, PTL

-----------------------------------------------------------------------------
(* The upgrade of another account's service. *)

TaskPhases == {"intent", "bootstrap", "authenticated", "approved", "held", "selected", "released",
               "restored", "uncertain", "completed", "failed-restored", "restored-bootstrap", "cancelled"}
Concluded == {"completed", "failed-restored", "restored-bootstrap", "cancelled"}
TaskActs == {"bootstrap", "hold", "repoint", "release", "restore", "initial"}
Registrations == [action : {"original", "worker", "managed"}, of : Nat, on : BOOLEAN, rev : Nat]
TaskJournals == [phase : TaskPhases, current : Registrations, initial : Registrations,
                 original : Registrations, recover : BOOLEAN]

\* Where the worker asks, and where it does something itself.
Asking == {"hello", "plan", "hold", "beforeStop", "repoint", "enable", "refused", "beforeResume",
           "beforeRollback", "beforeAdmission", "settle", "done", "failed"}
Doing == {"begin", "quiesce", "stop", "start", "abort", "resume", "stopTarget", "restart", "admit"}
Inspecting == {"beforeStop", "beforeRollback", "beforeResume"}
Verbs == {"HELLO", "PLAN", "HOLD", "INSPECT", "REPOINT", "ENABLE", "RESTORE", "DONE", "FAILED"}

CtlTyped ==
    /\ ctl \in [at : {"off", "acting", "launching", "awaiting", "listening", "asking"},
                act : TaskActs \cup {"none"}, phase : TaskPhases \cup {"none"}]
    /\ ctl.at = "acting" => ctl.act \in TaskActs /\ ctl.phase \in TaskPhases
    /\ ctl.at # "off" => Operation # 0
WorkerTyped ==
    /\ worker \in [at : {"gone", "started", "up"}, op : Nat, pc : Asking \cup Doing \cup {"none"},
                   failed : BOOLEAN, logical : Registrations \cup {Nobody}]
    /\ worker.op \in 0 .. Operation
    /\ worker.at # "gone" => worker.op # 0 /\ worker.pc # "none"
CallTyped ==
    /\ call \in [at : {"none", "sent", "answered"}, verb : Verbs \cup {"none"}, ok : BOOLEAN]
TaskTypes ==
    /\ task \in Registrations /\ journals \in Seq(TaskJournals)
    /\ CtlTyped /\ WorkerTyped /\ CallTyped
    /\ chan \in [at : {"up", "down"}, connected : BOOLEAN]
    /\ troubles \in [faults : Nat, changes : Nat]

\* The worker of the last operation, or one that is left from an earlier one.
Ours == worker.at # "gone" /\ worker.op = Operation
Older == worker.at # "gone" /\ worker.op # Operation
Able == worker.at = "up" /\ ~worker.failed
Agreed == call.at = "answered" /\ call.ok

\* A call that is under way is the worker's; a session that has failed makes none.
CallFits ==
    /\ call.at # "none" => Able /\ worker.pc \in Asking /\ call.verb = Verb[worker.pc]
    /\ worker.at = "started" => worker.pc = "hello" /\ ~worker.failed
    /\ worker.at # "gone" /\ worker.failed => worker.pc \in {"failed", "beforeRollback"}

\* hold() has been called.
Begun == worker.at = "up" /\ worker.pc \notin {"hello", "plan", "failed"}
         /\ (worker.pc = "hold" => call.at # "none")
RefFits == rt # "none" \/ Begun => ref \in 1 .. Operation

\* What the controller does is what it was asked to do, and possible.
ActFits(j) ==
    /\ ctl.act = "bootstrap" => ctl.phase = "bootstrap" /\ ~Ours
    /\ ctl.act = "hold" => ctl.phase = "held" /\ j.current.action = "managed"
    /\ ctl.act = "repoint" => ctl.phase = "selected" /\ ~j.current.on
    /\ ctl.act = "release" => ctl.phase = "released" /\ j.current.action = "managed"
    /\ ctl.act = "restore" => ctl.phase = "restored"
    /\ ctl.act = "initial" => ctl.phase \in {"restored-bootstrap", "failed-restored", "cancelled"}
ForCall ==
    /\ call.at = "sent" /\ ctl.act # "bootstrap"
    /\ ctl.act = "hold" => worker.pc = "hold"
    /\ ctl.act = "repoint" => worker.pc = "repoint"
    /\ ctl.act = "release" => worker.pc = "enable"
    /\ ctl.act = "restore" => worker.pc \in {"refused", "beforeAdmission", "settle"}
    /\ ctl.act = "initial" => \/ ctl.phase = "failed-restored" /\ worker.pc = "failed"
                              \/ ctl.phase = "cancelled" /\ worker.pc = "plan"
CtlFits(j) ==
    /\ ctl.at # "off" => j.phase \notin Concluded
    /\ ctl.at \in {"launching", "awaiting"} => j.phase = "bootstrap"
    /\ ctl.at = "asking" => j.phase = "authenticated"
    /\ ctl.at = "acting" => j.phase = "intent" /\ ActFits(j)
    /\ ctl.at = "launching" => ~Ours
OursFits(j) ==
    Ours =>
        /\ ctl.at = "acting" => worker.at = "up" /\ (worker.failed \/ ForCall)
        /\ ctl.at = "asking" => worker.at = "up" /\ (worker.failed \/ (call.at = "sent" /\ worker.pc = "plan"))
        /\ ctl.at = "awaiting" => worker.at = "started"
        /\ worker.at = "started" => ctl.at \in {"awaiting", "off"}
        /\ j.phase = "bootstrap" => worker.failed \/ (worker.pc = "hello" /\ call.at # "answered")
OlderFits == Older /\ ctl.at = "acting" => ctl.act \in {"bootstrap", "initial"}

\* What a journal says of the task.
OnIfOriginal(t) == t.action = "original" => t.on
JournalFits(j) ==
    /\ j.original.on /\ j.original.action = "original"
    /\ OnIfOriginal(j.current) /\ OnIfOriginal(j.initial)
    /\ j.phase \in {"bootstrap", "authenticated", "approved", "held", "selected"} => ~j.current.on
    /\ j.phase \in {"selected", "released"} => j.current.action = "managed"
    /\ j.phase = "released" => j.current.on
    /\ j.phase = "restored" => j.current = j.original
AsRecorded(j) == j.phase \notin Unsettled => task = j.current

\* Where the worker counts on a task that does not start anything.
CountsOnHold ==
    \/ call.at = "none" /\ worker.pc \in {"begin", "quiesce", "stop", "start", "resume", "stopTarget",
                                          "restart", "repoint"} \cup Inspecting
    \/ call.at = "sent" /\ worker.pc \in Inspecting
    \/ Agreed /\ worker.pc \in {"hold"} \cup Inspecting
OffFits(j) == Able /\ CountsOnHold => ~task.on /\ (Older => ~j.initial.on)

\* Where it admits a version, or settles a refusal: the task must be able to start
\* what serves then.
Admits == \/ call.at = "none" /\ worker.pc \in {"admit", "abort"}
          \/ Agreed /\ worker.pc \in {"enable", "beforeAdmission", "refused"}
AdmitFits ==
    Able /\ Admits /\ Ours =>
        /\ rt \in {"launched", "admitting"} => task.on /\ task.action = "managed"
        /\ rt \in {"rollback", "admitting-rollback", "prepared"} =>
             task.on /\ task.action = "original"
PlaceFits ==
    Able =>
        /\ call.at = "none" /\ worker.pc = "admit" =>
             rt \in {"launched", "admitting", "rollback", "admitting-rollback"}
        /\ worker.pc \in {"repoint", "enable"} => rt = "launched"
        /\ worker.pc = "beforeAdmission" => rt = "rollback"
        /\ worker.pc = "settle" => rt \in {"aborted", "rolled-back"}
        /\ worker.pc = "done" => rt \in {"aborted", "rolled-back", "committed"}
        /\ worker.pc \in {"quiesce", "refused", "abort"} => rt = "prepared"

\* How far the first upgrade of an instance has come, by what its controller does.
Passed == Able /\ worker.pc \notin {"hello", "plan", "failed"}
          /\ (worker.pc = "hold" => call.at = "answered")
NotBegun(j) ==
    \/ j.phase \in {"bootstrap", "authenticated", "approved"}
    \/ ctl.at = "acting" /\ ctl.act \in {"bootstrap", "initial"}
GivenBack(j) == j.phase = "restored" \/ (ctl.at = "acting" /\ ctl.act = "restore")
RtFits(j) ==
    ~j.recover =>
        /\ NotBegun(j) => rt \in {"none", "prepared"} /\ ~(Ours /\ Passed)
        /\ GivenBack(j) => rt \notin {"launched", "admitting", "committed"}
        /\ Older => worker.pc \in Asking /\ ~(Agreed /\ worker.pc \in
                       {"hold", "enable", "refused", "beforeAdmission"} \cup Inspecting)
        /\ Ours /\ Able => worker.pc \notin {"beforeResume", "resume"}

LastFits(j) ==
    /\ CtlFits(j) /\ OursFits(j) /\ AsRecorded(j) /\ OffFits(j) /\ RtFits(j)
JournalsFit == \A k \in 1 .. Operation : JournalFits(journals[k])
Undisturbed ==
    /\ OnIfOriginal(task) /\ (Operation = 0 => rt = "none" /\ worker.at = "gone")
    /\ JournalsFit /\ (Operation # 0 => LastFits(J))
    /\ OlderFits /\ AdmitFits
TaskInv ==
    /\ TaskTypes /\ CallFits /\ RefFits /\ PlaceFits
    /\ troubles.changes = 0 => Undisturbed
-----------------------------------------------------------------------------
(* Lemmas. *)

\* The last journal is one of the journals.
LEMMA LastTyped ==
    ASSUME TaskTypes
    PROVE  /\ Operation \in Nat
           /\ Operation # 0 => J \in TaskJournals
           /\ \A k \in 1 .. Operation : journals[k] \in TaskJournals
<1>1. journals \in Seq(TaskJournals) BY DEF TaskTypes
<1>2. Operation \in Nat /\ \A k \in 1 .. Operation : journals[k] \in TaskJournals
  BY <1>1 DEF Operation
<1>3. Operation # 0 => Operation \in 1 .. Operation BY <1>2
<1>4. QED BY <1>2, <1>3 DEF J

\* A step of the worker leaves the journals.
LEMMA SameLast ==
    ASSUME journals' = journals
    PROVE  Operation' = Operation /\ J' = J
BY DEF Operation, J

\* What the worker asks tells where it is.
LEMMA WhatItAsks ==
    ASSUME NEW place \in Asking
    PROVE  /\ Verb[place] \in Verbs
           /\ Verb[place] = "HELLO" => place = "hello"
           /\ Verb[place] = "PLAN" => place = "plan"
           /\ Verb[place] = "HOLD" => place = "hold"
           /\ Verb[place] = "INSPECT" => place \in Inspecting
           /\ Verb[place] = "REPOINT" => place = "repoint"
           /\ Verb[place] = "ENABLE" => place = "enable"
           /\ Verb[place] = "RESTORE" => place \in {"refused", "beforeAdmission", "settle"}
           /\ Verb[place] = "DONE" => place = "done"
           /\ Verb[place] = "FAILED" => place = "failed"
BY SMT DEF Asking, Verb, Verbs, Inspecting

\* Where an answer takes it.
LEMMA WhereItGoes ==
    ASSUME NEW place \in Asking, Then[place] # "end"
    PROVE  \/ place = "hello" /\ Then[place] = "plan"
           \/ place = "plan" /\ Then[place] = "hold"
           \/ place = "hold" /\ Then[place] = "begin"
           \/ place \in Inspecting /\ Then[place] \in {"stop", "stopTarget"}
           \/ place = "beforeResume" /\ Then[place] = "resume"
           \/ place = "repoint" /\ Then[place] = "enable"
           \/ place = "enable" /\ Then[place] = "admit"
           \/ place = "refused" /\ Then[place] = "abort"
           \/ place = "beforeAdmission" /\ Then[place] = "admit"
           \/ place = "settle" /\ Then[place] = "done"
BY SMT DEF Asking, Then, Inspecting

LEMMA AsksWhere == DOMAIN Verb = Asking
BY DEF Verb, Asking

\* The parts of the invariant that speak of the last operation.
LEMMA OfTheLast ==
    ASSUME TaskInv, troubles.changes = 0, worker.at # "gone"
    PROVE  /\ Operation # 0 /\ LastFits(J) /\ JournalFits(J) /\ J \in TaskJournals
           /\ OlderFits /\ AdmitFits /\ OnIfOriginal(task)
<1>1. Undisturbed /\ TaskTypes BY DEF TaskInv
<1>2. Operation # 0 /\ Operation \in Nat /\ J \in TaskJournals BY <1>1, LastTyped DEF Undisturbed
<1>3. JournalFits(J) BY <1>1, <1>2 DEF Undisturbed, JournalsFit, J
<1>4. QED BY <1>1, <1>2, <1>3 DEF Undisturbed

\* A worker whose session is over, in a step that leaves the journals.
LEMMA SessionEnds ==
    ASSUME TaskInv, UNCHANGED <<task, journals, ctl>>, TaskTypes', RefFits',
           troubles'.changes = troubles.changes,
           call'.at = "none", rt' = rt \/ (rt' = "prepared" /\ worker.at # "gone"),
           \/ worker' = NoWorker
           \/ worker.at = "up" /\ worker' = [worker EXCEPT !.failed = TRUE, !.pc = "failed"]
           \/ worker.at = "up" /\ worker' = [worker EXCEPT !.failed = TRUE, !.pc = "beforeRollback"]
    PROVE  TaskInv'
<1> USE DEF NoWorker
<1>1. Operation' = Operation /\ J' = J /\ Operation \in Nat /\ TaskTypes
  BY SameLast, LastTyped DEF TaskInv
<1>a. worker \in [at : {"gone", "started", "up"}, op : Nat, pc : Asking \cup Doing \cup {"none"},
                  failed : BOOLEAN, logical : Registrations \cup {Nobody}]
  BY <1>1 DEF TaskTypes, WorkerTyped
<1>b. /\ ~Able' /\ (Ours' => Ours /\ worker'.failed /\ worker.at = "up" /\ worker'.at = "up")
      /\ (Older' => Older /\ worker'.pc \in Asking /\ worker'.pc \in {"failed", "beforeRollback"})
      /\ ~Agreed' /\ worker'.at # "started" /\ (worker'.at = "gone" \/ (worker'.failed /\ worker'.pc \in {"failed", "beforeRollback"}))
 <2>1. CASE worker' = NoWorker BY <2>1, <1>1, <1>a DEF Able, Ours, Older, Agreed
 <2>2. CASE worker' = [worker EXCEPT !.failed = TRUE, !.pc = "failed"] /\ worker.at = "up"
   BY <2>2, <1>a, <1>1 DEF Able, Ours, Older, Agreed, Asking
 <2>3. CASE worker' = [worker EXCEPT !.failed = TRUE, !.pc = "beforeRollback"] /\ worker.at = "up"
   BY <2>3, <1>a, <1>1 DEF Able, Ours, Older, Agreed, Asking
 <2>4. QED BY <2>1, <2>2, <2>3
<1>2. CallFits' /\ PlaceFits' BY <1>b DEF CallFits, PlaceFits
<1>3. ASSUME troubles'.changes = 0
      PROVE  Undisturbed'
 <2>1. Undisturbed /\ troubles.changes = 0 BY <1>3 DEF TaskInv
 <2>2. OnIfOriginal(task)' /\ (Operation' = 0 => rt' = "none" /\ worker'.at = "gone")
   BY <2>1, <1>1, <1>a DEF Undisturbed, OnIfOriginal
 <2>3. JournalsFit' BY <2>1, <1>1 DEF Undisturbed, JournalsFit, JournalFits, OnIfOriginal
 <2>4. ASSUME Operation # 0
       PROVE  LastFits(J)'
  <3>1. LastFits(J) BY <2>1, <2>4 DEF Undisturbed
  <3>2. CtlFits(J)' BY <3>1, <1>1, <1>b DEF LastFits, CtlFits, ActFits
  <3>3. OursFits(J)' BY <3>1, <1>1, <1>b DEF LastFits, OursFits
  <3>4. AsRecorded(J)' /\ OffFits(J)' BY <3>1, <1>1, <1>b DEF LastFits, AsRecorded, OffFits
  <3>5. RtFits(J)' BY <3>1, <1>1, <1>b DEF LastFits, RtFits, NotBegun, GivenBack, Passed
  <3>6. QED BY <3>2, <3>3, <3>4, <3>5 DEF LastFits
 <2>5. OlderFits' /\ AdmitFits' BY <2>1, <1>b DEF Undisturbed, OlderFits, AdmitFits
 <2>6. QED BY <2>2, <2>3, <2>4, <2>5, <1>1 DEF Undisturbed
<1>4. QED BY <1>2, <1>3 DEF TaskInv

\* A worker at work, in a step that leaves the journals.
LEMMA WorkerMoves ==
    ASSUME TaskInv, UNCHANGED <<task, journals, ctl, call, ref>>, TaskTypes',
           troubles'.changes = troubles.changes,
           Able, call.at = "none", worker.pc \in Doing \cup {"plan", "settle"},
           NEW place, worker' = [worker EXCEPT !.pc = place],
           place \in Asking \cup Doing, worker.pc = "plan" => place = "failed" /\ rt' = rt,
           place \notin {"hello", "plan"},
           PlaceFits', troubles.changes = 0 => OffFits(J)' /\ RtFits(J)' /\ AdmitFits'
    PROVE  TaskInv'
<1>1. Operation' = Operation /\ J' = J /\ Operation \in Nat /\ TaskTypes
  BY SameLast, LastTyped DEF TaskInv
<1>a. worker \in [at : {"gone", "started", "up"}, op : Nat, pc : Asking \cup Doing \cup {"none"},
                  failed : BOOLEAN, logical : Registrations \cup {Nobody}]
  BY <1>1 DEF TaskTypes, WorkerTyped
<1>b. /\ worker.at = "up" /\ ~worker.failed /\ worker'.at = "up" /\ worker'.op = worker.op /\ ~worker'.failed
      /\ worker'.pc = place
  BY <1>a DEF Able
<1>2. CallFits' BY <1>b DEF CallFits
<1>3. RefFits' BY <1>1, <1>b DEF TaskInv, RefFits, Begun, Doing
<1>4. ASSUME troubles'.changes = 0
      PROVE  Undisturbed'
 <2>1. Undisturbed /\ troubles.changes = 0 BY <1>4 DEF TaskInv
 <2>2. OnIfOriginal(task)' /\ Operation # 0 BY <2>1, <1>b DEF Undisturbed, OnIfOriginal
 <2>3. JournalsFit' BY <2>1, <1>1 DEF Undisturbed, JournalsFit, JournalFits, OnIfOriginal
 <2>4. LastFits(J) BY <2>1, <2>2 DEF Undisturbed
 <2>5. CtlFits(J)' BY <2>4, <1>1, <1>b DEF LastFits, CtlFits, ActFits, Ours
 <2>6. OursFits(J)' BY <2>4, <1>1, <1>b DEF LastFits, OursFits, ForCall, Ours, Doing
 <2>7. AsRecorded(J)' BY <2>4, <1>1 DEF LastFits, AsRecorded
 <2>8. OlderFits' BY <2>1, <1>1, <1>b DEF Undisturbed, OlderFits, Older
 <2>9. QED BY <2>1, <2>2, <2>3, <2>5, <2>6, <2>7, <2>8, <1>1 DEF Undisturbed, LastFits
<1>5. QED BY <1>2, <1>3, <1>4 DEF TaskInv

\* What an error makes of the worker, once its session has failed.
LEMMA ThrowsFailed ==
    ASSUME TaskTypes, worker.at = "up", Throws([worker EXCEPT !.failed = TRUE])
    PROVE  /\ \/ worker' = NoWorker
              \/ worker' = [worker EXCEPT !.failed = TRUE, !.pc = "failed"]
              \/ worker' = [worker EXCEPT !.failed = TRUE, !.pc = "beforeRollback"] /\ rt # "none"
           /\ Begun' => rt # "none"
<1>1. \/ worker' = NoWorker
      \/ worker' = [worker EXCEPT !.failed = TRUE, !.pc = "failed"]
      \/ worker' = [worker EXCEPT !.failed = TRUE, !.pc = "beforeRollback"] /\ rt # "none"
  BY DEF Throws, TaskTypes, WorkerTyped
<1>2. ASSUME worker' = NoWorker
      PROVE  ~Begun'
  BY <1>2 DEF NoWorker, Begun
<1>3. ASSUME worker' = [worker EXCEPT !.failed = TRUE, !.pc = "failed"]
      PROVE  ~Begun'
  BY <1>3 DEF TaskTypes, WorkerTyped, Begun
<1>4. QED BY <1>1, <1>2, <1>3

\* What it makes of a worker whose session is in order.
LEMMA ThrowsAble ==
    ASSUME TaskTypes, Able, worker.pc # "failed", Throws(worker)
    PROVE  \/ worker' = [worker EXCEPT !.pc = "failed"]
           \/ /\ worker' = [worker EXCEPT !.pc = "beforeRollback"]
              /\ ~Recovery /\ worker.pc \notin {"beforeRollback", "stopTarget"} /\ rt \in {"stopped", "launched"}
BY DEF Throws, TaskTypes, WorkerTyped, Able

LEMMA TroubleCounted ==
    ASSUME troubles \in [faults : Nat, changes : Nat], Trouble
    PROVE  troubles' \in [faults : Nat, changes : Nat] /\ troubles'.changes = troubles.changes
<1>1. troubles' = [troubles EXCEPT !.faults = troubles.faults + 1] /\ troubles.faults + 1 \in Nat
  BY DEF Trouble
<1>2. QED BY <1>1

\* The types after a step of the worker.
LEMMA WorkerTypes ==
    ASSUME TaskTypes, UNCHANGED <<task, journals, ctl>>, CallTyped',
           chan' = chan \/ chan' = [chan EXCEPT !.at = "down"],
           troubles' = troubles \/ Trouble,
           \/ worker' = worker
           \/ worker' = NoWorker
           \/ worker.at = "up" /\ \E place \in Asking \cup Doing :
                  \/ worker' = [worker EXCEPT !.pc = place]
                  \/ worker' = [worker EXCEPT !.failed = TRUE, !.pc = place]
                  \/ worker' = [worker EXCEPT !.pc = place, !.logical = Heard] /\ Heard \in Registrations \cup {Nobody}
    PROVE  TaskTypes' /\ troubles'.changes = troubles.changes
<1>1. Operation' = Operation /\ J' = J /\ Operation \in Nat BY SameLast, LastTyped
<1>2. troubles' \in [faults : Nat, changes : Nat] /\ troubles'.changes = troubles.changes
  BY TroubleCounted DEF TaskTypes
<1>3. chan' \in [at : {"up", "down"}, connected : BOOLEAN] BY DEF TaskTypes
<1>4. CtlTyped' BY <1>1 DEF TaskTypes, CtlTyped
<1>5. WorkerTyped'
 <2>1. WorkerTyped BY DEF TaskTypes
 <2>2. CASE worker' = worker BY <1>1, <2>1, <2>2 DEF WorkerTyped
 <2>3. CASE worker' = NoWorker BY <1>1, <2>3 DEF WorkerTyped, NoWorker
 <2>4. ASSUME NEW place \in Asking \cup Doing, worker.at = "up", worker' = [worker EXCEPT !.pc = place]
       PROVE  WorkerTyped'
   BY <1>1, <2>1, <2>4 DEF WorkerTyped, Asking, Doing
 <2>5. ASSUME NEW place \in Asking \cup Doing, worker.at = "up",
              worker' = [worker EXCEPT !.failed = TRUE, !.pc = place]
       PROVE  WorkerTyped'
   BY <1>1, <2>1, <2>5 DEF WorkerTyped, Asking, Doing
 <2>6. ASSUME NEW place \in Asking \cup Doing, worker.at = "up",
              worker' = [worker EXCEPT !.pc = place, !.logical = Heard],
              Heard \in Registrations \cup {Nobody}
       PROVE  WorkerTyped'
   BY <1>1, <2>1, <2>6 DEF WorkerTyped, Asking, Doing
 <2>7. QED BY <2>2, <2>3, <2>4, <2>5, <2>6
<1>6. QED BY <1>2, <1>3, <1>4, <1>5 DEF TaskTypes

LEMMA NoAnswer ==
    ASSUME TaskInv, Unanswered
    PROVE  TaskInv'
<1> USE DEF Unanswered
<1>1. TaskTypes /\ worker.at = "up" /\ call.at # "none" /\ UNCHANGED <<task, journals, ctl, ref>>
  BY DEF TaskInv
<1>2. /\ \/ worker' = NoWorker
         \/ worker' = [worker EXCEPT !.failed = TRUE, !.pc = "failed"]
         \/ worker' = [worker EXCEPT !.failed = TRUE, !.pc = "beforeRollback"] /\ rt # "none"
      /\ Begun' => rt # "none"
  BY <1>1, ThrowsFailed
<1>3. CallTyped' /\ call'.at = "none" BY DEF CallTyped, NoCall
<1>4. TaskTypes' /\ troubles'.changes = troubles.changes
  BY <1>1, <1>2, <1>3, WorkerTypes DEF Asking, Doing
<1>5. RefFits' BY <1>1, SameLast, <1>2 DEF Noted, TaskInv, RefFits, Begun
<1>6. QED BY <1>1, <1>2, <1>3, <1>4, <1>5, SessionEnds DEF Noted

LEMMA WorkerGone ==
    ASSUME TaskInv, WorkerDies \/ WorkerGivesUp
    PROVE  TaskInv'
<1>1. TaskTypes /\ UNCHANGED <<task, journals, ctl, ref, rt, chan>> /\ worker' = NoWorker
  BY DEF TaskInv, WorkerDies, WorkerGivesUp
<1>2. CallTyped' /\ call'.at = "none"
 <2>1. CASE WorkerDies BY <2>1 DEF CallTyped, NoCall, WorkerDies
 <2>2. CASE WorkerGivesUp
   BY <1>1, <2>2 DEF WorkerGivesUp, TaskTypes, TaskInv, CallFits, Able, CallTyped
 <2>3. QED BY <2>1, <2>2
<1>3. TaskTypes' /\ troubles'.changes = troubles.changes
  BY <1>1, <1>2, WorkerTypes DEF WorkerDies, WorkerGivesUp
<1>4. RefFits' BY <1>1, SameLast DEF TaskInv, RefFits, Begun, NoWorker
<1>5. QED BY <1>1, <1>2, <1>3, <1>4, SessionEnds

LEMMA ACall ==
    ASSUME TaskInv, Call
    PROVE  TaskInv'
<1> USE DEF Call
<1>1. TaskTypes /\ worker.at = "up" /\ call.at = "none" /\ worker.pc \in Asking /\ worker.pc \in DOMAIN Verb
      /\ UNCHANGED <<task, journals, ctl, chan, troubles>>
  BY AsksWhere DEF TaskInv
<1>2. Operation' = Operation /\ J' = J /\ Operation \in Nat /\ worker.op \in 1 .. Operation
  BY <1>1, SameLast, LastTyped DEF TaskTypes, WorkerTyped
<1>3. ref' \in 1 .. Operation \/ (ref' = ref /\ worker.pc # "hold") BY <1>2 DEF Claims
<1>4. CASE SessionHolds
 <2>1. /\ call' = [at |-> "sent", verb |-> Verb[worker.pc], ok |-> FALSE]
       /\ worker' = worker /\ rt' = rt
   BY <1>4
 <2>2. CallTyped' /\ call'.at = "sent" /\ call'.verb = Verb[worker.pc] /\ ~Agreed'
   BY <1>1, <2>1, WhatItAsks DEF CallTyped, Agreed
 <2>3. TaskTypes' BY <1>1, <2>1, <2>2, WorkerTypes
 <2>4. Able BY <1>1, <1>4 DEF SessionHolds, Able
 <2>5. CallFits' /\ RefFits' /\ PlaceFits'
   BY <1>1, <1>2, <1>3, <2>1, <2>2, <2>4 DEF TaskInv, CallFits, RefFits, PlaceFits, Admits, Begun, Able
 <2>6. ASSUME troubles'.changes = 0
       PROVE  Undisturbed'
  <3>1. Undisturbed /\ troubles.changes = 0 BY <1>1, <2>6 DEF TaskInv
  <3>2. Operation # 0 /\ LastFits(J) /\ JournalFits(J) /\ J \in TaskJournals /\ AdmitFits /\ OlderFits
    BY <3>1, <1>1, OfTheLast
  <3>3. OnIfOriginal(task)' /\ JournalsFit'
    BY <1>1, <1>2, <3>1 DEF Undisturbed, OnIfOriginal, JournalsFit, JournalFits
  <3>4. CtlFits(J)' /\ AsRecorded(J)'
    BY <1>1, <1>2, <2>1, <3>2 DEF LastFits, CtlFits, AsRecorded, ActFits, Ours
  <3>5. OursFits(J)'
    BY <1>1, <1>2, <2>1, <2>2, <2>4, <3>2 DEF LastFits, OursFits, Ours, ForCall, Able
  <3>6. OffFits(J)'
    BY <1>1, <1>2, <2>1, <2>2, <3>2 DEF LastFits, OffFits, CountsOnHold, Able, Older, Inspecting
  <3>7. RtFits(J)'
    BY <1>1, <1>2, <2>1, <2>2, <3>2 DEF LastFits, RtFits, NotBegun, GivenBack, Passed, Ours, Older, Able
  <3>8. OlderFits' /\ AdmitFits'
    BY <1>1, <1>2, <2>1, <2>2, <3>2 DEF OlderFits, AdmitFits, Admits, Older, Able
  <3>9. QED BY <1>2, <3>2, <3>3, <3>4, <3>5, <3>6, <3>7, <3>8 DEF Undisturbed, LastFits
 <2>7. QED BY <2>3, <2>5, <2>6 DEF TaskInv
<1>5. CASE ~SessionHolds
 <2>1. /\ \/ worker' = NoWorker
          \/ worker' = [worker EXCEPT !.failed = TRUE, !.pc = "failed"]
          \/ worker' = [worker EXCEPT !.failed = TRUE, !.pc = "beforeRollback"] /\ rt # "none"
       /\ Begun' => rt # "none"
   BY <1>1, <1>5, ThrowsFailed
 <2>2. CallTyped' /\ call'.at = "none" /\ rt' = Noted BY <1>1, <1>5 DEF TaskTypes, CallTyped
 <2>3. TaskTypes' /\ troubles'.changes = troubles.changes
   BY <1>1, <2>1, <2>2, WorkerTypes DEF Asking, Doing
 <2>4. RefFits' BY <1>2, <1>3, <2>1, <2>2 DEF TaskInv, RefFits, Noted
 <2>5. QED BY <1>1, <2>1, <2>2, <2>3, <2>4, SessionEnds DEF Noted
<1>6. QED BY <1>4, <1>5

LEMMA AnAnswer ==
    ASSUME TaskInv, Answered
    PROVE  TaskInv'
<1>1. TaskTypes /\ worker.at = "up" /\ call.at = "answered" /\ call' = NoCall
      /\ UNCHANGED <<task, journals, ctl, chan, rt, ref, troubles>>
  BY DEF TaskInv, Answered
<1>2. Operation' = Operation /\ J' = J /\ Operation \in Nat /\ worker.op \in 1 .. Operation
      /\ journals[worker.op] \in TaskJournals
  BY <1>1, SameLast, LastTyped DEF TaskTypes, WorkerTyped
<1>3. Able /\ worker.pc \in Asking /\ call.verb = Verb[worker.pc] BY <1>1 DEF TaskInv, CallFits
<1>4. CallTyped' /\ call'.at = "none" /\ ~Agreed' BY <1>1 DEF CallTyped, NoCall, Agreed
<1>5. CASE ~call.ok \/ Then[worker.pc] = "end"
  BY <1>5, <1>1, <1>4, WorkerTypes, <1>2, SessionEnds DEF Answered, NoWorker, TaskInv, RefFits, Begun
<1>6. CASE call.ok /\ Then[worker.pc] # "end"
 <2> DEFINE place == Then[worker.pc]
 <2>1. worker' = [worker EXCEPT !.pc = place, !.logical = Heard] BY <1>6 DEF Answered
 <2>2. \/ worker.pc = "hello" /\ place = "plan"
       \/ worker.pc = "plan" /\ place = "hold"
       \/ worker.pc = "hold" /\ place = "begin"
       \/ worker.pc \in Inspecting /\ place \in {"stop", "stopTarget"}
       \/ worker.pc = "beforeResume" /\ place = "resume"
       \/ worker.pc = "repoint" /\ place = "enable"
       \/ worker.pc = "enable" /\ place = "admit"
       \/ worker.pc = "refused" /\ place = "abort"
       \/ worker.pc = "beforeAdmission" /\ place = "admit"
       \/ worker.pc = "settle" /\ place = "done"
   BY <1>3, <1>6, WhereItGoes
 <2> HIDE DEF place
 <2>3. place \in Asking \cup Doing BY <2>2 DEF Asking, Doing
 <2>4. Heard \in Registrations \cup {Nobody}
   BY <1>1, <1>2 DEF Heard, TaskTypes, WorkerTyped, TaskJournals
 <2>5. TaskTypes' BY <1>1, <1>4, <2>1, <2>3, <2>4, WorkerTypes
 <2>6. /\ worker'.at = "up" /\ worker'.op = worker.op /\ worker'.pc = place
       /\ ~worker'.failed /\ ~worker.failed
   BY <1>1, <1>3, <2>1, <2>3 DEF TaskTypes, WorkerTyped, Able
 <2>7. CallFits' /\ RefFits'
   BY <1>1, <1>2, <1>4, <2>2, <2>6 DEF TaskInv, CallFits, RefFits, Begun, Inspecting
 <2>8. PlaceFits'
   BY <1>1, <1>6, <1>3, <1>4, <2>2, <2>6 DEF Agreed, TaskInv, PlaceFits, Admits, Able, Inspecting
 <2>9. ASSUME troubles'.changes = 0
       PROVE  Undisturbed'
  <3>1. Undisturbed /\ troubles.changes = 0 BY <1>1, <2>9 DEF TaskInv
  <3>2. Operation # 0 /\ LastFits(J) /\ JournalFits(J) /\ J \in TaskJournals /\ AdmitFits /\ OlderFits
    BY <3>1, <1>1, OfTheLast
  <3>3. OnIfOriginal(task)' /\ JournalsFit'
    BY <1>1, <1>2, <3>1 DEF Undisturbed, OnIfOriginal, JournalsFit, JournalFits
  <3>4. CtlFits(J)' /\ AsRecorded(J)'
    BY <1>1, <1>2, <2>6, <3>2 DEF LastFits, CtlFits, AsRecorded, ActFits, Ours
  <3>5. OursFits(J)' BY <1>1, <1>2, <1>4, <2>6, <3>2 DEF LastFits, OursFits, Ours, ForCall
  <3>6. Agreed BY <1>1, <1>6 DEF Agreed
  <3>7. OffFits(J)'
    BY <1>1, <1>2, <1>3, <1>4, <2>2, <2>6, <3>2, <3>6 DEF LastFits, OffFits, CountsOnHold, Able, Older, Inspecting
  <3>8. RtFits(J)'
   <4>1. NotBegun(J)' = NotBegun(J) /\ GivenBack(J)' = GivenBack(J) /\ Ours' = Ours /\ Older' = Older
     BY <1>1, <1>2, <2>6 DEF NotBegun, GivenBack, Ours, Older
   <4>2. Passed' => Passed BY <1>1, <1>3, <1>4, <2>2, <2>6 DEF Passed, Inspecting
   <4>3. Older /\ ~J.recover => place \in Asking
     BY <2>2, <3>2, <3>6 DEF LastFits, RtFits, Inspecting, Asking
   <4>4. ~J.recover /\ Ours => place \notin {"beforeResume", "resume"}
     BY <1>3, <2>2, <3>2 DEF LastFits, RtFits
   <4>5. QED BY <1>1, <1>2, <1>4, <2>6, <3>2, <4>1, <4>2, <4>3, <4>4 DEF LastFits, RtFits
  <3>9. AdmitFits'
    BY <1>1, <1>2, <1>3, <1>4, <2>2, <2>6, <3>2, <3>6 DEF AdmitFits, Admits, Able, Ours, Inspecting
  <3>10. OlderFits' BY <1>1, <1>2, <2>6, <3>2 DEF OlderFits, Older
  <3>11. QED BY <1>2, <3>2, <3>3, <3>4, <3>5, <3>7, <3>8, <3>9, <3>10 DEF Undisturbed, LastFits
 <2>10. QED BY <2>5, <2>7, <2>8, <2>9 DEF TaskInv
<1>7. QED BY <1>5, <1>6

\* A worker that asks nothing at these places counts on the hold of the task.
Off == {"begin", "quiesce", "stop", "start", "resume", "stopTarget", "restart"}
Taken == {"launched", "admitting", "committed"}

\* Where it works, the first upgrade has begun, and its task is not given back
\* while it counts on the hold.
LEMMA AtWork ==
    ASSUME TaskInv, troubles.changes = 0, Able, call.at = "none", worker.pc \in Doing
    PROVE  /\ worker.pc \in Off => ~task.on /\ (Older => ~J.initial.on)
           /\ ~J.recover => Ours /\ ~NotBegun(J) /\ (worker.pc \in Off => ~GivenBack(J))
           /\ ~J.recover /\ GivenBack(J) => rt \notin Taken
<1>1. Operation # 0 /\ LastFits(J) /\ JournalFits(J) /\ J \in TaskJournals /\ worker.at = "up"
  BY OfTheLast DEF Able
<1>2. worker.pc \in Off => ~task.on /\ (Older => ~J.initial.on)
  BY <1>1 DEF LastFits, OffFits, CountsOnHold, Off
<1>3. ~J.recover => Ours /\ ~NotBegun(J)
 <2>1. worker.pc \notin Asking /\ worker.pc \notin {"hello", "plan", "failed", "hold"}
   BY DEF Asking, Doing
 <2>2. Passed BY <2>1 DEF Passed
 <2>3. QED BY <1>1, <2>1, <2>2 DEF LastFits, RtFits, Ours, Older
<1>4. Ours /\ worker.pc \in Off => ~GivenBack(J)
 <2>1. J.phase = "restored" => task.on BY <1>1 DEF LastFits, AsRecorded, JournalFits, Unsettled
 <2>2. Ours /\ ctl.at = "acting" => FALSE BY <1>1 DEF LastFits, OursFits, ForCall, Able
 <2>3. QED BY <1>2, <2>1, <2>2 DEF GivenBack
<1>5. QED BY <1>1, <1>2, <1>3, <1>4 DEF LastFits, RtFits, Taken

\* Its own steps, and what is left to show of one.
LEMMA WorksOn ==
    ASSUME TaskInv, UNCHANGED <<task, journals, ctl, chan, call, ref>>, troubles' = troubles \/ Trouble,
           worker.at = "up", call.at = "none", worker.pc \in Doing,
           NEW place \in (Asking \cup Doing) \ {"hello", "plan", "hold", "enable"},
           worker' = [worker EXCEPT !.pc = place],
           place \in Off \cup Inspecting \cup {"repoint"} => worker.pc \in Off,
           place \in {"beforeResume", "resume"} => Recovery,
           worker.pc \in Off \/ (rt \notin Taken => rt' \notin Taken),
           PlaceFits', troubles.changes = 0 => AdmitFits'
    PROVE  TaskInv'
<1>1. TaskTypes /\ Operation' = Operation /\ J' = J /\ CallTyped BY SameLast DEF TaskInv, TaskTypes
<1>2. Able BY <1>1 DEF TaskInv, CallFits, Able, Doing
<1>3. TaskTypes' /\ troubles'.changes = troubles.changes BY <1>1, WorkerTypes DEF CallTyped
<1>4. /\ worker'.at = "up" /\ worker'.op = worker.op /\ worker'.pc = place /\ ~worker'.failed
  BY <1>1, <1>2 DEF TaskTypes, WorkerTyped, Able
<1>5. ASSUME troubles.changes = 0
      PROVE  OffFits(J)' /\ RtFits(J)'
 <2>1. /\ worker.pc \in Off => ~task.on /\ (Older => ~J.initial.on)
       /\ ~J.recover => Ours /\ ~NotBegun(J) /\ (worker.pc \in Off => ~GivenBack(J))
       /\ ~J.recover /\ GivenBack(J) => rt \notin Taken
   BY <1>2, <1>5, AtWork
 <2>2. Older' = Older /\ Ours' = Ours /\ NotBegun(J)' = NotBegun(J) /\ GivenBack(J)' = GivenBack(J)
   BY <1>1, <1>4 DEF Older, Ours, NotBegun, GivenBack
 <2>3. OffFits(J)' BY <1>1, <1>4, <2>1, <2>2 DEF OffFits, CountsOnHold, Agreed, Off
 <2>4. Ours /\ ~J.recover => place \notin {"beforeResume", "resume"} BY DEF Ours, Recovery, J
 <2>5. RtFits(J)' BY <1>1, <1>4, <2>1, <2>2, <2>4 DEF RtFits, Taken, Older, Ours
 <2>6. QED BY <2>3, <2>5
<1>6. worker.pc \in Doing \cup {"plan", "settle"} /\ worker.pc # "plan"
      /\ place \in Asking \cup Doing /\ place \notin {"hello", "plan"}
  BY DEF Doing
<1>7. troubles.changes = 0 => OffFits(J)' /\ RtFits(J)' /\ AdmitFits' BY <1>2, <1>5
<1>8. QED BY <1>2, <1>3, <1>6, <1>7, WorkerMoves

\* A step of it that fails.
LEMMA StepThrows ==
    ASSUME TaskInv, StepFails, worker.at = "up", call.at = "none", worker.pc \in Doing,
           worker.pc \in Off \/ rt \notin {"stopped", "launched"}
    PROVE  TaskInv'
<1>1. TaskTypes /\ UNCHANGED <<task, journals, ctl, chan, call, rt, ref>> /\ Trouble /\ Throws(worker)
  BY DEF StepFails, TaskInv
<1>2. Able /\ worker.pc # "failed" BY DEF TaskInv, CallFits, Able, Doing
<1>3. PICK place \in {"failed", "beforeRollback"} : /\ worker' = [worker EXCEPT !.pc = place]
                                                    /\ place = "beforeRollback" => worker.pc \in Off
  BY <1>1, <1>2, ThrowsAble
<1>4. worker'.pc = place BY <1>1, <1>3 DEF TaskTypes, WorkerTyped
<1>5. AdmitFits' /\ PlaceFits' BY <1>1, <1>4 DEF Admits, AdmitFits, PlaceFits
<1>6. place \in (Asking \cup Doing) \ {"hello", "plan", "hold", "enable"} BY DEF Asking
<1>7. place \in Off \cup Inspecting \cup {"repoint"} => worker.pc \in Off
  BY <1>3 DEF Off, Inspecting
<1>8. QED BY <1>1, <1>3, <1>5, <1>6, <1>7, WorksOn

-----------------------------------------------------------------------------
(* The steps of the upgrade. *)

\* Where the worker is when it takes such a step.
LEMMA IsAt ==
    ASSUME NEW place, At(place)
    PROVE  worker.at = "up" /\ worker.pc = place /\ call.at = "none"
BY DEF At

LEMMA Worked ==
    ASSUME NEW said, NEW serves, NEW place, place # "end", Works(said, serves, place)
    PROVE  /\ worker' = [worker EXCEPT !.pc = place] /\ rt' = said
           /\ UNCHANGED <<task, journals, ctl, chan, call, ref, troubles>>
BY DEF Works

\* Where such a step leads, if not to the admission.
LEMMA PlacedFirst ==
    ASSUME TaskInv, worker.at = "up", call.at = "none", NEW place, worker' = [worker EXCEPT !.pc = place],
           call' = call, place \in Asking \cup Doing, place \notin {"admit", "enable", "abort"},
           place = "repoint" => rt' = "launched", place = "beforeAdmission" => rt' = "rollback",
           place = "settle" => rt' \in {"aborted", "rolled-back"},
           place = "done" => rt' \in {"aborted", "rolled-back", "committed"},
           place \in {"quiesce", "refused"} => rt' = "prepared"
    PROVE  AdmitFits' /\ PlaceFits'
<1>1. worker'.pc = place BY DEF TaskInv, TaskTypes, WorkerTyped
<1>2. ~Admits' BY <1>1 DEF Admits, Agreed
<1>3. QED BY <1>1, <1>2 DEF AdmitFits, PlaceFits

\* What a step of the upgrade that goes on shows of its phase and its place.
Ahead(said, place) ==
    /\ place \in (Asking \cup Doing) \ {"hello", "plan", "hold", "enable", "admit", "abort"}
    /\ place \in Off \cup Inspecting \cup {"repoint"} => worker.pc \in Off
    /\ place \in {"beforeResume", "resume"} => Recovery
    /\ worker.pc \in Off \/ (rt \notin Taken => said \notin Taken)
    /\ place = "repoint" => said = "launched"
    /\ place = "beforeAdmission" => said = "rollback"
    /\ place = "settle" => said \in {"aborted", "rolled-back"}
    /\ place = "done" => said \in {"aborted", "rolled-back", "committed"}
    /\ place \in {"quiesce", "refused"} => said = "prepared"

LEMMA GoesAhead ==
    ASSUME TaskInv, worker.at = "up", call.at = "none", worker.pc \in Doing,
           NEW said, NEW serves, NEW place, Works(said, serves, place), Ahead(said, place)
    PROVE  TaskInv'
<1>1. place # "end" BY DEF Ahead, Asking, Doing
<1>2. /\ worker' = [worker EXCEPT !.pc = place] /\ rt' = said
      /\ UNCHANGED <<task, journals, ctl, chan, call, ref, troubles>>
  BY <1>1, Worked
<1>3. AdmitFits' /\ PlaceFits' BY <1>2, PlacedFirst DEF Ahead
<1>4. QED BY <1>2, <1>3, WorksOn DEF Ahead

LEMMA UpgradePrepares ==
    ASSUME TaskInv, Prepare
    PROVE  TaskInv'
<1>1. worker.at = "up" /\ worker.pc = "begin" /\ call.at = "none" BY IsAt DEF Prepare
<1>2. PICK said, place : Works(said, backend, place) /\ Ahead(said, place)
  BY <1>1 DEF Prepare, Ahead, Asking, Doing, Off, Inspecting
<1>3. QED BY <1>1, <1>2, GoesAhead DEF Doing

LEMMA UpgradeDrains ==
    ASSUME TaskInv, Drain
    PROVE  TaskInv'
<1>1. worker.at = "up" /\ worker.pc = "quiesce" /\ call.at = "none" /\ worker.pc \in Doing
  BY IsAt DEF Drain, Doing
<1>2. Able BY <1>1 DEF TaskInv, CallFits, Able
<1>3. rt = "prepared" BY <1>1, <1>2 DEF TaskInv, PlaceFits
<1>4. CASE Works(rt, backend, "beforeStop") \/ Works(rt, backend, "refused")
  BY <1>1, <1>3, <1>4, GoesAhead DEF Ahead, Asking, Doing, Off, Inspecting
<1>5. CASE StepFails BY <1>1, <1>5, StepThrows DEF Off
<1>6. QED BY <1>4, <1>5 DEF Drain

LEMMA UpgradeAborts ==
    ASSUME TaskInv, Abort
    PROVE  TaskInv'
<1>1. worker.at = "up" /\ worker.pc = "abort" /\ call.at = "none" /\ worker.pc \in Doing
  BY IsAt DEF Abort, Doing
<1>2. Ahead("aborted", "failed") BY <1>1 DEF Ahead, Asking, Doing, Off, Inspecting, Taken
<1>3. QED BY <1>1, <1>2, GoesAhead DEF Abort

LEMMA UpgradeResumes ==
    ASSUME TaskInv, ResumeService
    PROVE  TaskInv'
<1>1. worker.at = "up" /\ worker.pc = "resume" /\ call.at = "none" /\ worker.pc \in Doing
  BY IsAt DEF ResumeService, Doing
<1>2. Ahead("aborted", "settle") BY <1>1 DEF Ahead, Asking, Doing, Off, Inspecting, Taken
<1>3. CASE StepFails BY <1>1, <1>3, StepThrows DEF Off
<1>4. QED BY <1>1, <1>2, <1>3, GoesAhead DEF ResumeService

LEMMA UpgradeStops ==
    ASSUME TaskInv, StopService
    PROVE  TaskInv'
<1>1. worker.at = "up" /\ worker.pc = "stop" /\ call.at = "none" /\ worker.pc \in Doing
  BY IsAt DEF StopService, Doing
<1>2. Ahead("stopping", "stop") /\ Ahead("stopped", "beforeRollback") /\ Ahead("stopped", "start")
  BY <1>1 DEF Ahead, Asking, Doing, Off, Inspecting, Taken
<1>3. CASE StepFails BY <1>1, <1>3, StepThrows DEF Off
<1>4. CASE Works("stopping", backend, "stop") BY <1>1, <1>2, <1>4, GoesAhead
<1>5. CASE Works("stopped", "none", IF Recovery THEN "beforeRollback" ELSE "start")
 <2>1. PICK place \in {"beforeRollback", "start"} : Works("stopped", "none", place) BY <1>5
 <2>2. QED BY <1>1, <1>2, <2>1, GoesAhead
<1>6. QED BY <1>3, <1>4, <1>5 DEF StopService

LEMMA UpgradeStarts ==
    ASSUME TaskInv, StartTarget
    PROVE  TaskInv'
<1>1. worker.at = "up" /\ worker.pc = "start" /\ call.at = "none" /\ worker.pc \in Doing
  BY IsAt DEF StartTarget, Doing
<1>2. CASE Works("launched", "new-held", "repoint")
  BY <1>1, <1>2, GoesAhead DEF Ahead, Asking, Doing, Off, Inspecting, Taken
<1>3. CASE StepFails BY <1>1, <1>3, StepThrows DEF Off
<1>4. CASE Trouble /\ worker' = [worker EXCEPT !.pc = "failed"]
           /\ UNCHANGED <<task, journals, ctl, chan, call, rt, ref>>
  BY <1>1, <1>4, PlacedFirst, WorksOn DEF Asking, Off, Inspecting
<1>5. QED BY <1>2, <1>3, <1>4 DEF StartTarget

LEMMA UpgradeRollsBack ==
    ASSUME TaskInv, StopTarget \/ RestartOld
    PROVE  TaskInv'
<1>1. /\ worker.at = "up" /\ worker.pc \in {"stopTarget", "restart"} /\ call.at = "none" /\ worker.pc \in Doing
  BY IsAt DEF StopTarget, RestartOld, Doing
<1>2. Ahead("rollback", "restart") /\ Ahead("rollback", "beforeAdmission")
  BY <1>1 DEF Ahead, Asking, Doing, Off, Inspecting, Taken
<1>3. CASE StepFails BY <1>1, <1>3, StepThrows DEF Off
<1>4. QED BY <1>1, <1>2, <1>3, GoesAhead DEF StopTarget, RestartOld

LEMMA UpgradeAdmits ==
    ASSUME TaskInv, AdmitService
    PROVE  TaskInv'
<1>1. worker.at = "up" /\ worker.pc = "admit" /\ call.at = "none" /\ worker.pc \in Doing
  BY IsAt DEF AdmitService, Doing
<1>2. Able BY <1>1 DEF TaskInv, CallFits, Able
<1>3. /\ rt \in {"launched", "admitting", "rollback", "admitting-rollback"}
      /\ troubles.changes = 0 => AdmitFits
  BY <1>1, <1>2, OfTheLast DEF TaskInv, PlaceFits, Admits
<1>4. CASE rt = "launched" \/ rt = "rollback"
 <2>1. PICK said \in {"admitting", "admitting-rollback"} :
           /\ Works(said, backend, "admit")
           /\ said = "admitting" => rt = "launched"
           /\ said = "admitting-rollback" => rt = "rollback"
   BY <1>4 DEF AdmitService
 <2>2. /\ worker' = [worker EXCEPT !.pc = "admit"] /\ rt' = said
       /\ UNCHANGED <<task, journals, ctl, chan, call, ref, troubles>>
   BY <2>1, Worked
 <2>3. Operation' = Operation /\ worker'.pc = "admit" /\ worker'.op = worker.op /\ worker'.at = "up"
   BY <1>1, <2>2, SameLast DEF TaskInv, TaskTypes, WorkerTyped
 <2>4. PlaceFits' /\ (troubles.changes = 0 => AdmitFits')
   BY <1>1, <1>2, <1>3, <2>1, <2>2, <2>3 DEF AdmitFits, PlaceFits, Admits, Ours
 <2>5. QED BY <1>1, <2>1, <2>2, <2>4, WorksOn DEF Asking, Doing, Off, Inspecting, Taken
<1>5. CASE rt = "admitting"
 <2>1. Works("committed", "new", "done") \/ StepFails BY <1>5 DEF AdmitService
 <2>2. Ahead("committed", "done") BY <1>1, <1>5 DEF Ahead, Asking, Doing, Off, Inspecting, Taken
 <2>3. QED BY <1>1, <1>5, <2>1, <2>2, GoesAhead, StepThrows
<1>6. CASE rt = "admitting-rollback"
 <2>1. (\E place \in {"settle", "failed"} : Works("rolled-back", "old", place)) \/ StepFails
   BY <1>6 DEF AdmitService
 <2>2. Ahead("rolled-back", "settle") /\ Ahead("rolled-back", "failed")
   BY <1>1, <1>6 DEF Ahead, Asking, Doing, Off, Inspecting, Taken
 <2>3. QED BY <1>1, <1>6, <2>1, <2>2, GoesAhead, StepThrows
<1>7. QED BY <1>3, <1>4, <1>5, <1>6 DEF AdmitService

LEMMA NothingFound ==
    ASSUME TaskInv, NothingToRecover
    PROVE  TaskInv'
<1>1. /\ worker.at = "up" /\ worker.pc = "plan" /\ call.at = "none" /\ Recovery /\ Throws(worker) /\ TaskTypes
      /\ UNCHANGED <<task, journals, ctl, chan, call, rt, ref, troubles>>
  BY IsAt DEF NothingToRecover, FoundSettled, TaskInv
<1>2. Able BY <1>1 DEF TaskInv, CallFits, Able
<1>3. worker' = [worker EXCEPT !.pc = "failed"] BY <1>1, <1>2, ThrowsAble
<1>4. /\ worker'.pc = "failed" /\ worker'.at = worker.at /\ worker'.op = worker.op /\ ~worker'.failed
      /\ Operation' = Operation /\ J' = J
  BY <1>1, <1>2, <1>3, SameLast DEF TaskTypes, WorkerTyped, Able
<1>5. TaskTypes' BY <1>1, <1>3, WorkerTypes DEF TaskTypes, CallTyped, Asking
<1>6. AdmitFits' /\ PlaceFits' BY <1>1, <1>3, PlacedFirst DEF Asking
<1>7. ASSUME troubles.changes = 0
      PROVE  OffFits(J)' /\ RtFits(J)'
 <2>1. LastFits(J) BY <1>1, <1>7, OfTheLast
 <2>2. OffFits(J)' BY <1>1, <1>4 DEF OffFits, CountsOnHold, Agreed, Inspecting
 <2>3. RtFits(J)'
   BY <1>1, <1>4, <2>1 DEF LastFits, RtFits, NotBegun, GivenBack, Passed, Ours, Older, Agreed, Asking
 <2>4. QED BY <2>2, <2>3
<1>8. QED BY <1>1, <1>2, <1>3, <1>5, <1>6, <1>7, WorkerMoves DEF Asking

LEMMA UpgradeSettles ==
    ASSUME TaskInv, Settle
    PROVE  TaskInv'
<1>1. /\ worker.at = "up" /\ worker.pc = "settle" /\ call.at = "none" /\ Works(rt, backend, "done") /\ TaskTypes
  BY IsAt DEF Settle, TaskInv
<1>2. Able BY <1>1 DEF TaskInv, CallFits, Able
<1>3. /\ worker' = [worker EXCEPT !.pc = "done"] /\ rt' = rt
      /\ UNCHANGED <<task, journals, ctl, chan, call, ref, troubles>>
  BY <1>1, Worked
<1>4. /\ worker'.pc = "done" /\ worker'.at = worker.at /\ worker'.op = worker.op /\ ~worker'.failed
      /\ Operation' = Operation /\ J' = J
  BY <1>1, <1>2, <1>3, SameLast DEF TaskTypes, WorkerTyped, Able
<1>5. TaskTypes' BY <1>1, <1>3, WorkerTypes DEF TaskTypes, CallTyped, Asking
<1>6. rt \in {"aborted", "rolled-back"} BY <1>1, <1>2 DEF TaskInv, PlaceFits
<1>7. AdmitFits' /\ PlaceFits' BY <1>1, <1>3, <1>6, PlacedFirst DEF Asking
<1>8. ASSUME troubles.changes = 0
      PROVE  OffFits(J)' /\ RtFits(J)'
 <2>1. LastFits(J) BY <1>1, <1>8, OfTheLast
 <2>2. OffFits(J)' BY <1>1, <1>3, <1>4 DEF OffFits, CountsOnHold, Agreed, Inspecting
 <2>3. RtFits(J)'
   BY <1>1, <1>2, <1>3, <1>4, <2>1 DEF LastFits, RtFits, NotBegun, GivenBack, Passed, Able, Ours, Older, Agreed, Asking
 <2>4. QED BY <2>2, <2>3
<1>9. QED BY <1>1, <1>2, <1>3, <1>5, <1>7, <1>8, WorkerMoves DEF Asking

\* A step that changes no more than the channel.
LEMMA OnlyTheChannel ==
    ASSUME TaskInv, UNCHANGED <<task, journals, ctl, worker, call, rt, ref>>,
           chan' = chan \/ chan' = [chan EXCEPT !.at = "down"], troubles' = troubles \/ Trouble
    PROVE  TaskInv'
<1>1. UNCHANGED <<task, journals, ctl, worker, call, rt, ref>> OBVIOUS
<1>2. Operation' = Operation /\ J' = J /\ TaskTypes BY <1>1, SameLast DEF TaskInv
<1>3. TaskTypes' /\ troubles'.changes = troubles.changes
  BY <1>1, <1>2, WorkerTypes DEF TaskTypes, CallTyped
<1>4. CallFits' /\ RefFits' /\ PlaceFits'
  BY <1>1, <1>2 DEF TaskInv, CallFits, RefFits, PlaceFits, Able, Begun, Admits, Agreed
<1>5. Undisturbed => Undisturbed'
 <2>1. LastFits(J) => LastFits(J)'
  <3>1. CtlFits(J) => CtlFits(J)' BY <1>1, <1>2 DEF CtlFits, ActFits, Ours
  <3>2. OursFits(J) => OursFits(J)' BY <1>1, <1>2 DEF OursFits, ForCall, Ours
  <3>3. OffFits(J) /\ AsRecorded(J) => OffFits(J)' /\ AsRecorded(J)'
    BY <1>1, <1>2 DEF OffFits, AsRecorded, Able, Older, CountsOnHold, Agreed
  <3>4. RtFits(J) => RtFits(J)'
    BY <1>1, <1>2 DEF RtFits, NotBegun, GivenBack, Passed, Able, Agreed, Ours, Older
  <3>5. QED BY <3>1, <3>2, <3>3, <3>4 DEF LastFits
 <2>2. JournalsFit => JournalsFit' BY <1>1, <1>2 DEF JournalsFit, JournalFits, OnIfOriginal
 <2>3. OlderFits /\ AdmitFits /\ OnIfOriginal(task) => OlderFits' /\ AdmitFits' /\ OnIfOriginal(task)'
   BY <1>1, <1>2 DEF OlderFits, AdmitFits, OnIfOriginal, Able, Older, Ours, Admits, Agreed
 <2>4. QED BY <1>1, <1>2, <2>1, <2>2, <2>3 DEF Undisturbed
<1>6. QED BY <1>3, <1>4, <1>5 DEF TaskInv

LEMMA GuardGone ==
    ASSUME TaskInv, GuardEnds
    PROVE  TaskInv'
BY OnlyTheChannel DEF GuardEnds

\* A change by somebody else: what follows is not held against the upgrade.
LEMMA ChangedByOthers ==
    ASSUME TaskInv, TaskChanged
    PROVE  TaskInv'
<1>1. TaskTypes /\ UNCHANGED <<journals, ctl, chan, worker, call, rt, ref>>
  BY DEF TaskInv, TaskChanged
<1>2. Operation' = Operation /\ J' = J BY <1>1, SameLast
<1>3. task' \in Registrations
 <2>1. PICK on \in BOOLEAN : task' = [task EXCEPT !.on = on, !.rev = task.rev + 1]
   BY DEF TaskChanged
 <2>2. task \in Registrations /\ task.rev + 1 \in Nat BY <1>1 DEF TaskTypes, Registrations
 <2>3. QED BY <2>1, <2>2 DEF Registrations
<1>4. troubles' \in [faults : Nat, changes : Nat] /\ troubles'.changes # 0
  BY <1>1 DEF TaskTypes, TaskChanged
<1>5. TaskTypes' BY <1>1, <1>2, <1>3, <1>4 DEF TaskTypes, CtlTyped, WorkerTyped, CallTyped
<1>6. CallFits' /\ RefFits' /\ PlaceFits'
  BY <1>1, <1>2 DEF TaskInv, CallFits, RefFits, PlaceFits, Able, Begun, Admits, Agreed
<1>7. QED BY <1>4, <1>5, <1>6 DEF TaskInv

-----------------------------------------------------------------------------
(* The steps of the controller. *)

\* The last journal, with another registration and another phase.
Revised(reg, ph) ==
    /\ journals' \in Seq(TaskJournals) /\ Operation' = Operation /\ J' \in TaskJournals
    /\ J'.current = reg /\ J'.phase = ph
    /\ J'.original = J.original /\ J'.initial = J.initial /\ J'.recover = J.recover
    /\ \A k \in 1 .. Operation : k # Operation => journals'[k] = journals[k]

LEMMA Kept ==
    ASSUME TaskTypes, Operation # 0, journals' = journals
    PROVE  Revised(J.current, J.phase)
BY LastTyped, SameLast DEF Revised, TaskTypes

LEMMA Replaced ==
    ASSUME TaskTypes, Operation # 0, NEW reg \in Registrations, NEW ph \in TaskPhases,
           journals' = [journals EXCEPT ![Operation] = [J EXCEPT !.current = reg, !.phase = ph]]
    PROVE  Revised(reg, ph)
<1>1. Operation \in 1 .. Operation /\ J \in TaskJournals /\ journals \in Seq(TaskJournals) /\ Operation \in Nat
  BY LastTyped DEF TaskTypes
<1> DEFINE jn == [J EXCEPT !.current = reg, !.phase = ph]
<1>2. /\ jn \in TaskJournals /\ jn.current = reg /\ jn.phase = ph
      /\ jn.original = J.original /\ jn.initial = J.initial /\ jn.recover = J.recover
  BY <1>1 DEF TaskJournals
<1> HIDE DEF jn
<1>3. journals' = [journals EXCEPT ![Operation] = jn] BY DEF jn
<1>4. journals' \in Seq(TaskJournals) /\ Len(journals') = Len(journals)
  BY <1>1, <1>2, <1>3 DEF Operation
<1>5. journals'[Operation] = jn /\ \A k \in 1 .. Operation : k # Operation => journals'[k] = journals[k]
  BY <1>1, <1>3 DEF Operation
<1>6. Operation' = Operation BY <1>4 DEF Operation
<1>7. J' = jn BY <1>5, <1>6 DEF J
<1>8. QED BY <1>2, <1>4, <1>5, <1>6, <1>7 DEF Revised

LEMMA SavedIs ==
    ASSUME TaskTypes, Operation # 0, NEW ph \in TaskPhases, Saved(ph)
    PROVE  Revised(J.current, ph)
<1>1. Operation \in 1 .. Operation /\ J \in TaskJournals /\ journals \in Seq(TaskJournals)
  BY LastTyped DEF TaskTypes
<1>2. journals' = [journals EXCEPT ![Operation] = [J EXCEPT !.phase = ph]]
  BY <1>1 DEF Saved, J, Operation
<1>3. [J EXCEPT !.phase = ph] = [J EXCEPT !.current = J.current, !.phase = ph] /\ J.current \in Registrations
  BY <1>1 DEF TaskJournals
<1>4. QED BY <1>2, <1>3, Replaced

\* The worker's side of a controller's step: at most its request is answered.
RepliesOnly(ok) ==
    /\ UNCHANGED <<worker, rt, ref>> /\ troubles' \in [faults : Nat, changes : Nat]
    /\ troubles'.changes = troubles.changes
    /\ \/ call' = call
       \/ /\ Linked /\ call.at = "sent" /\ call' \in [at : {"none", "sent", "answered"}, verb : Verbs \cup {"none"}, ok : BOOLEAN]
          /\ call'.at = "answered" /\ call'.verb = call.verb /\ call'.ok = ok

LEMMA ReplyIs ==
    ASSUME TaskTypes, NEW ok \in BOOLEAN, Reply(ok), UNCHANGED <<worker, rt, ref, troubles>>
    PROVE  RepliesOnly(ok)
<1>1. troubles' \in [faults : Nat, changes : Nat] /\ troubles'.changes = troubles.changes
  BY DEF TaskTypes
<1>2. CASE Linked /\ call.at = "sent" BY <1>2, <1>1 DEF Reply, TaskTypes, CallTyped, RepliesOnly
<1>3. CASE ~(Linked /\ call.at = "sent") BY <1>1, <1>3 DEF RepliesOnly, Reply
<1>4. QED BY <1>2, <1>3

LEMMA NotReplied ==
    ASSUME TaskTypes, UNCHANGED <<worker, call, rt, ref>>, troubles' = troubles \/ Trouble, NEW ok
    PROVE  RepliesOnly(ok)
<1>1. troubles' \in [faults : Nat, changes : Nat] /\ troubles'.changes = troubles.changes
  BY TroubleCounted DEF TaskTypes
<1>2. QED BY <1>1 DEF RepliesOnly

\* The types after a step of the controller, and what holds whatever is changed.
LEMMA ControllerTypes ==
    ASSUME TaskInv, NEW reg, NEW ph, Revised(reg, ph), Operation # 0, NEW ok, RepliesOnly(ok),
           task' \in Registrations, CtlTyped', chan' \in [at : {"up", "down"}, connected : BOOLEAN]
    PROVE  TaskTypes' /\ CallFits' /\ RefFits' /\ PlaceFits'
<1>1. TaskTypes /\ Operation' = Operation BY DEF TaskInv, Revised
<1>2. WorkerTyped' BY <1>1 DEF TaskTypes, WorkerTyped, RepliesOnly
<1>3. CallTyped' BY <1>1 DEF TaskTypes, CallTyped, RepliesOnly
<1>4. TaskTypes' BY <1>2, <1>3 DEF TaskTypes, Revised, RepliesOnly
<1>5. /\ worker' = worker /\ rt' = rt /\ ref' = ref
      /\ call' = call \/ (call.at = "sent" /\ call'.at = "answered" /\ call'.verb = call.verb)
  BY DEF RepliesOnly
<1>6. CallFits' BY <1>5 DEF TaskInv, CallFits, Able
<1>7. RefFits' BY <1>1, <1>5 DEF TaskInv, RefFits, Begun
<1>8. PlaceFits' BY <1>5 DEF TaskInv, PlaceFits, Able, Admits, Agreed
<1>9. QED BY <1>4, <1>6, <1>7, <1>8

\* What is left to show of such a step.
LEMMA ControllerKeeps ==
    ASSUME TaskInv, troubles.changes = 0, NEW reg, NEW ph, Revised(reg, ph), Operation # 0,
           OnIfOriginal(task'), JournalFits(J'), LastFits(J)', OlderFits', AdmitFits'
    PROVE  Undisturbed'
<1>1. Undisturbed /\ Operation \in Nat /\ Operation' = Operation BY LastTyped DEF TaskInv, Revised
<1>2. JournalsFit'
 <2>1. SUFFICES ASSUME NEW k \in 1 .. Operation
                PROVE  JournalFits(journals[k])'
   BY <1>1 DEF JournalsFit
 <2>2. CASE k = Operation BY <1>1, <2>2 DEF J, JournalFits, OnIfOriginal
 <2>3. CASE k # Operation
   BY <1>1, <2>1, <2>3 DEF Revised, Undisturbed, JournalsFit, JournalFits, OnIfOriginal
 <2>4. QED BY <2>2, <2>3
<1>3. OnIfOriginal(task)' BY DEF OnIfOriginal
<1>4. QED BY <1>1, <1>2, <1>3 DEF Undisturbed

\* The last operation, for a step of its controller.
LEMMA OfItsLast ==
    ASSUME TaskInv, troubles.changes = 0, Operation # 0
    PROVE  /\ LastFits(J) /\ JournalFits(J) /\ J \in TaskJournals
           /\ OlderFits /\ AdmitFits /\ OnIfOriginal(task)
<1>1. Undisturbed /\ TaskTypes BY DEF TaskInv
<1>2. Operation \in Nat /\ J \in TaskJournals BY <1>1, LastTyped
<1>3. JournalFits(J) BY <1>1, <1>2 DEF Undisturbed, JournalsFit, J
<1>4. QED BY <1>1, <1>2, <1>3 DEF Undisturbed

\* What an action makes of the task.
LEMMA MadeIs ==
    ASSUME TaskTypes, Operation # 0, ctl.act \in TaskActs
    PROVE  Made(ctl.act) \in Registrations
<1>1. J \in TaskJournals /\ Operation \in Nat /\ task \in Registrations BY LastTyped DEF TaskTypes
<1>2. QED BY <1>1 DEF Made, TaskActs, TaskJournals, Registrations

LEMMA MadeFits ==
    ASSUME TaskInv, troubles.changes = 0, ctl.at = "acting", task = J.current
    PROVE  /\ OnIfOriginal(Made(ctl.act))
           /\ Able /\ CountsOnHold => ~Made(ctl.act).on /\ (Older => ~J.initial.on)
           /\ ~(Able /\ Admits /\ Ours)
           /\ Able /\ Ours => ForCall
           /\ ctl.act = "bootstrap" => ~Made(ctl.act).on /\ Made(ctl.act).action = "worker"
           /\ ctl.act = "hold" => ~Made(ctl.act).on /\ Made(ctl.act).action = "managed"
           /\ ctl.act = "repoint" => ~Made(ctl.act).on /\ Made(ctl.act).action = "managed"
           /\ ctl.act = "release" => Made(ctl.act).on /\ Made(ctl.act).action = "managed"
           /\ ctl.act = "restore" => Made(ctl.act) = J.original
           /\ ctl.act = "initial" => Made(ctl.act) = J.initial
<1>1. TaskTypes /\ Operation # 0 /\ ctl.act \in TaskActs BY DEF TaskInv, TaskTypes, CtlTyped
<1>2. LastFits(J) /\ JournalFits(J) /\ J \in TaskJournals /\ OlderFits /\ ActFits(J)
  BY <1>1, OfItsLast DEF LastFits, CtlFits
<1>3. task \in [action : {"original", "worker", "managed"}, of : Nat, on : BOOLEAN, rev : Nat] /\ Operation \in Nat
  BY <1>1, LastTyped DEF TaskTypes, Registrations
<1>4. /\ ctl.act = "bootstrap" => ~Made(ctl.act).on /\ Made(ctl.act).action = "worker"
      /\ ctl.act = "hold" => ~Made(ctl.act).on /\ Made(ctl.act).action = "managed"
      /\ ctl.act = "repoint" => ~Made(ctl.act).on /\ Made(ctl.act).action = "managed"
      /\ ctl.act = "release" => Made(ctl.act).on /\ Made(ctl.act).action = "managed"
      /\ ctl.act = "restore" => Made(ctl.act) = J.original
      /\ ctl.act = "initial" => Made(ctl.act) = J.initial
  BY <1>2, <1>3 DEF Made, ActFits, JournalFits
<1>5. OnIfOriginal(Made(ctl.act)) BY <1>1, <1>2, <1>4 DEF OnIfOriginal, JournalFits, TaskActs
<1>6. Able /\ Ours => ForCall BY <1>2 DEF LastFits, OursFits, Able
<1>7. ~(Able /\ Admits /\ Ours) BY <1>6 DEF ForCall, Admits, Agreed
<1>8. Able /\ CountsOnHold => ~Made(ctl.act).on /\ (Older => ~J.initial.on)
 <2>1. Able /\ CountsOnHold => (Older => ~J.initial.on) BY <1>2 DEF LastFits, OffFits
 <2>2. Able /\ CountsOnHold /\ Ours => FALSE
   BY <1>1, <1>6 DEF ForCall, CountsOnHold, Agreed, Inspecting, TaskActs
 <2>3. Able => Ours \/ Older BY DEF Able, Ours, Older
 <2>4. QED BY <1>2, <1>4, <2>1, <2>2, <2>3 DEF OlderFits
<1>9. QED BY <1>4, <1>5, <1>6, <1>7, <1>8

\* The controller ends, with what its journal says or with an open outcome.
LEMMA ControllerStops ==
    ASSUME TaskInv, Operation # 0, NEW ph \in {J.phase, "uncertain"}, Revised(J.current, ph),
           ctl' = NoController, UNCHANGED <<worker, call, rt, ref>>, troubles' = troubles \/ Trouble,
           chan' = [chan EXCEPT !.at = "down"],
           task' = task \/ (ctl.at = "acting" /\ task = J.current /\ task' = Made(ctl.act))
    PROVE  TaskInv'
<1>1. TaskTypes /\ Operation' = Operation /\ J \in TaskJournals BY LastTyped DEF TaskInv, Revised
<1>2. RepliesOnly(TRUE) BY <1>1, NotReplied
<1>3. /\ ctl'.at = "off" /\ ctl'.act = "none"
      /\ CtlTyped'
  BY <1>1 DEF CtlTyped, NoController
<1>4. task' \in Registrations BY <1>1, MadeIs DEF TaskTypes, CtlTyped
<1>5. chan' \in [at : {"up", "down"}, connected : BOOLEAN] BY <1>1 DEF TaskTypes
<1>6. TaskTypes' /\ CallFits' /\ RefFits' /\ PlaceFits' BY <1>2, <1>3, <1>4, <1>5, ControllerTypes
<1>7. ASSUME troubles'.changes = 0
      PROVE  Undisturbed'
 <2>1. troubles.changes = 0 BY <1>2, <1>7 DEF RepliesOnly
 <2>2. LastFits(J) /\ JournalFits(J) /\ OlderFits /\ AdmitFits /\ OnIfOriginal(task)
   BY <2>1, OfItsLast
 <2>3. J'.phase \in {J.phase, "uncertain"} /\ J'.current = J.current /\ J'.initial = J.initial
       /\ J'.original = J.original /\ J'.recover = J.recover
   BY DEF Revised
 <2>4. ctl.at = "acting" => J.phase = "intent" BY <2>2 DEF LastFits, CtlFits
 <2>5. /\ Able' = Able /\ CountsOnHold' = CountsOnHold /\ Admits' = Admits /\ Ours' = Ours /\ Older' = Older
       /\ Agreed' = Agreed /\ Passed' = Passed
   BY <1>1 DEF Able, CountsOnHold, Admits, Ours, Older, Agreed, Passed
 <2>6. OnIfOriginal(task') BY <2>1, <2>2, MadeFits
 <2>7. JournalFits(J') BY <2>2, <2>3 DEF JournalFits
 <2>8. CtlFits(J)' /\ OursFits(J)' /\ OlderFits'
   BY <1>3, <2>2, <2>3, <2>5 DEF CtlFits, OursFits, LastFits, OlderFits
 <2>9. AsRecorded(J)' BY <2>2, <2>3, <2>4 DEF LastFits, AsRecorded, Unsettled
 <2>10. OffFits(J)' /\ AdmitFits'
  <3>1. CASE task' = task BY <2>2, <2>3, <2>5, <3>1 DEF LastFits, OffFits, AdmitFits
  <3>2. CASE ctl.at = "acting" /\ task = J.current /\ task' = Made(ctl.act)
    BY <2>1, <2>3, <2>5, <3>2, MadeFits DEF OffFits, AdmitFits
  <3>3. QED BY <3>1, <3>2
 <2>11. RtFits(J)' BY <1>3, <2>3, <2>2, <2>5 DEF NotBegun, GivenBack, LastFits, RtFits
 <2>12. LastFits(J)' BY <2>8, <2>9, <2>10, <2>11 DEF LastFits
 <2>13. QED BY <2>1, <2>6, <2>7, <2>8, <2>10, <2>12, ControllerKeeps
<1>8. QED BY <1>6, <1>7 DEF TaskInv

\* It writes down what it will do to the task.
LEMMA ControllerIntends ==
    ASSUME TaskInv, Operation # 0, NEW act \in TaskActs, NEW ph \in TaskPhases, Intends(act, ph),
           UNCHANGED <<worker, call, rt, ref, chan>>, troubles' = troubles \/ Trouble,
           task' \in Registrations,
           troubles.changes = 0 =>
               /\ task' = task /\ ActFits(J)' /\ act # "bootstrap"
               /\ Ours => worker.at = "up" /\ (worker.failed \/ ForCall')
               /\ Older => act = "initial"
               /\ act = "initial" => NotBegun(J)
               /\ act = "restore" => rt \notin Taken
    PROVE  TaskInv'
<1>1. TaskTypes /\ J \in TaskJournals BY LastTyped DEF TaskInv
<1>2. Revised(J.current, "intent") /\ ctl' = [at |-> "acting", act |-> act, phase |-> ph]
  BY <1>1, SavedIs DEF Intends, TaskPhases
<1>3. RepliesOnly(TRUE) BY <1>1, NotReplied
<1>4. /\ ctl'.at = "acting" /\ ctl'.act = act /\ ctl'.phase = ph /\ Operation' = Operation
      /\ CtlTyped'
  BY <1>1, <1>2 DEF CtlTyped, Revised
<1>5. TaskTypes' /\ CallFits' /\ RefFits' /\ PlaceFits'
  BY <1>1, <1>2, <1>3, <1>4, ControllerTypes DEF TaskTypes
<1>6. ASSUME troubles'.changes = 0
      PROVE  Undisturbed'
 <2>1. troubles.changes = 0 /\ task' = task BY <1>3, <1>6 DEF RepliesOnly
 <2>2. LastFits(J) /\ JournalFits(J) /\ OlderFits /\ AdmitFits /\ OnIfOriginal(task)
   BY <2>1, OfItsLast
 <2>3. J'.phase = "intent" /\ J'.current = J.current /\ J'.initial = J.initial
       /\ J'.original = J.original /\ J'.recover = J.recover
   BY <1>2 DEF Revised
 <2>4. /\ Able' = Able /\ CountsOnHold' = CountsOnHold /\ Admits' = Admits /\ Ours' = Ours /\ Older' = Older
       /\ Agreed' = Agreed /\ Passed' = Passed
   BY <1>4 DEF Able, CountsOnHold, Admits, Ours, Older, Agreed, Passed
 <2>5. JournalFits(J') BY <2>2, <2>3 DEF JournalFits
 <2>6. CtlFits(J)' BY <1>4, <2>1, <2>3 DEF CtlFits, Concluded
 <2>7. OursFits(J)' BY <1>4, <2>1, <2>3, <2>4 DEF OursFits
 <2>8. OlderFits' BY <1>4, <2>1, <2>4 DEF OlderFits
 <2>9. AsRecorded(J)' /\ OffFits(J)' /\ AdmitFits'
   BY <2>1, <2>2, <2>3, <2>4 DEF LastFits, AsRecorded, OffFits, AdmitFits, Unsettled
 <2>10. RtFits(J)' BY <1>4, <2>1, <2>3, <2>2, <2>4 DEF NotBegun, GivenBack, LastFits, RtFits, Taken
 <2>11. LastFits(J)' BY <2>6, <2>7, <2>9, <2>10 DEF LastFits
 <2>12. QED BY <1>2, <2>1, <2>2, <2>5, <2>8, <2>9, <2>11, ControllerKeeps
<1>7. QED BY <1>5, <1>6 DEF TaskInv

\* Its catch.
LEMMA ControllerCatches ==
    ASSUME TaskInv, ctl.at # "off", Catches, UNCHANGED <<worker, call, rt, ref>>,
           troubles' = troubles \/ Trouble,
           task' = task \/ (ctl.at = "acting" /\ task = J.current /\ task' = Made(ctl.act)),
           troubles.changes = 0 /\ J.phase = "bootstrap" /\ TaskVerified => ~Ours
    PROVE  TaskInv'
<1>1. TaskTypes /\ J \in TaskJournals /\ Operation # 0
  BY LastTyped DEF TaskInv, TaskTypes, CtlTyped
<1>2. CASE J.phase = "bootstrap" /\ TaskVerified
 <2>1. Intends("initial", "restored-bootstrap") /\ UNCHANGED chan BY <1>2 DEF Catches
 <2>2. task' \in Registrations BY <1>1, MadeIs DEF TaskTypes, CtlTyped
 <2>3. ctl'.act = "initial" /\ ctl'.phase = "restored-bootstrap" BY <2>1 DEF Intends
 <2>4. ASSUME troubles.changes = 0
       PROVE  /\ task' = task /\ ActFits(J)' /\ ~Ours /\ NotBegun(J)
   BY <1>1, <2>4, OfItsLast, <1>2, <2>3 DEF LastFits, CtlFits, ActFits, NotBegun
 <2>5. QED BY <1>1, <2>1, <2>2, <2>4, ControllerIntends DEF TaskActs, TaskPhases
<1>3. CASE ~(J.phase = "bootstrap" /\ TaskVerified)
 <2>1. PICK ph \in {J.phase, "uncertain"} : Saved(ph) /\ Leaves BY <1>3 DEF Catches
 <2>2. Revised(J.current, ph) BY <1>1, <2>1, SavedIs DEF TaskJournals, TaskPhases
 <2>3. QED BY <1>1, <2>1, <2>2, ControllerStops DEF Leaves
<1>4. QED BY <1>2, <1>3

LEMMA ControllerGone ==
    ASSUME TaskInv, ControllerDies
    PROVE  TaskInv'
<1>1. TaskTypes /\ Operation # 0 /\ Leaves /\ task' \in MayBecome /\ UNCHANGED <<journals, worker, call, rt, backend, ref>> /\ Trouble
  BY DEF TaskInv, TaskTypes, CtlTyped, ControllerDies
<1>2. Revised(J.current, J.phase) BY <1>1, Kept
<1>3. task' = task \/ (ctl.at = "acting" /\ task = J.current /\ task' = Made(ctl.act))
  BY <1>1 DEF MayBecome
<1>4. QED BY <1>1, <1>2, <1>3, ControllerStops DEF Leaves

LEMMA ActionFails ==
    ASSUME TaskInv, ActFails
    PROVE  TaskInv'
<1>1. /\ Trouble /\ ctl.at = "acting" /\ Catches /\ UNCHANGED <<worker, call, rt, backend, ref>>
      /\ task' = task \/ (ctl.at = "acting" /\ task = J.current /\ task' = Made(ctl.act))
  BY DEF ActFails, MayBecome
<1>2. troubles.changes = 0 => J.phase # "bootstrap"
  BY <1>1, OfItsLast DEF TaskInv, TaskTypes, CtlTyped, LastFits, CtlFits
<1>3. QED BY <1>1, <1>2, ControllerCatches

LEMMA ChannelGone ==
    ASSUME TaskInv, ChannelFails
    PROVE  TaskInv'
<1>1. ctl.at # "off" /\ Catches /\ ~TaskVerified /\ UNCHANGED <<task, worker, call, rt, backend, ref, troubles>>
  BY DEF ChannelFails, TaskVerified
<1>2. QED BY <1>1, ControllerCatches

LEMMA OnlyAt ==
    ASSUME NEW st \in {"launching", "listening"}
    PROVE  /\ [NoController EXCEPT !.at = st] \in [at : {"launching", "listening", "off"}, act : {"none"}, phase : {"none"}]
           /\ [NoController EXCEPT !.at = st].at = st
           /\ [NoController EXCEPT !.at = st].act = "none"
           /\ [NoController EXCEPT !.at = st].phase = "none"
BY DEF NoController

\* An action that is done.
LEMMA ActionDone ==
    ASSUME TaskInv, Act, task = J.current
    PROVE  TaskInv'
<1>1. /\ TaskTypes /\ ctl.at = "acting" /\ task' = Made(ctl.act) /\ Acted
      /\ UNCHANGED <<worker, rt, backend, ref, troubles>>
  BY DEF TaskInv, Act
<1>2. Operation # 0 /\ J \in TaskJournals /\ ctl.act \in TaskActs /\ ctl.phase \in TaskPhases
      /\ journals \in Seq(TaskJournals) /\ Operation \in 1 .. Operation
  BY <1>1, LastTyped DEF TaskTypes, CtlTyped
<1>3. task' \in Registrations BY <1>1, <1>2, MadeIs
<1>4. Revised(task', ctl.phase)
 <2>1. journals' = [journals EXCEPT ![Operation] = [J EXCEPT !.current = Made(ctl.act), !.phase = ctl.phase]]
   BY <1>1, <1>2 DEF Acted, J, Operation
 <2>2. PICK reg \in Registrations : reg = task' BY <1>3
 <2>3. PICK ph \in TaskPhases : ph = ctl.phase BY <1>2
 <2>4. Revised(reg, ph) BY <1>1, <1>2, <2>1, <2>2, <2>3, Replaced
 <2>5. QED BY <2>2, <2>3, <2>4
<1>a. PICK ok \in BOOLEAN : RepliesOnly(ok) BY <1>1, ReplyIs, NotReplied DEF Acted
<1>5. /\ ctl'.act = "none" /\ ctl'.phase = "none"
      /\ chan' = chan \/ chan' = [chan EXCEPT !.at = "down"]
      /\ ctl' \in [at : {"launching", "listening", "off"}, act : {"none"}, phase : {"none"}]
      /\ ctl'.at = "launching" => ctl.phase = "bootstrap"
      /\ ctl'.at = "listening" => ctl.phase \notin {"bootstrap", "restored-bootstrap", "cancelled", "failed-restored"}
 <2>1. CASE ctl.phase = "bootstrap" BY <1>1, <2>1, OnlyAt DEF Acted
 <2>2. CASE ctl.phase \in {"restored-bootstrap", "cancelled", "failed-restored"}
  <3>1. Leaves BY <1>1, <2>2 DEF Acted
  <3>2. ctl' = [at |-> "off", act |-> "none", phase |-> "none"] /\ chan' = [chan EXCEPT !.at = "down"]
    BY <3>1 DEF Leaves, NoController
  <3>3. QED BY <3>2
 <2>3. CASE ctl.phase \notin {"bootstrap", "restored-bootstrap", "cancelled", "failed-restored"}
   BY <1>1, <2>3 DEF Acted, NoController
 <2>4. QED BY <2>1, <2>2, <2>3
<1>6. Operation' = Operation /\ CtlTyped' BY <1>2, <1>4, <1>5 DEF Revised, CtlTyped
<1>7. chan' \in [at : {"up", "down"}, connected : BOOLEAN] BY <1>1, <1>5 DEF TaskTypes
<1>8. TaskTypes' /\ CallFits' /\ RefFits' /\ PlaceFits'
  BY <1>2, <1>3, <1>4, <1>a, <1>6, <1>7, ControllerTypes
<1>9. ASSUME troubles'.changes = 0
      PROVE  Undisturbed'
 <2>1. troubles.changes = 0 BY <1>1, <1>9
 <2>2. LastFits(J) /\ JournalFits(J) /\ ActFits(J)
   BY <1>1, <1>2, <2>1, OfItsLast DEF LastFits, CtlFits
 <2>3. /\ OnIfOriginal(task')
       /\ Able /\ CountsOnHold => ~task'.on /\ (Older => ~J.initial.on)
       /\ ~(Able /\ Admits /\ Ours)
       /\ Able /\ Ours => ForCall
       /\ ctl.act = "bootstrap" => ~task'.on /\ task'.action = "worker"
       /\ ctl.act = "hold" => ~task'.on /\ task'.action = "managed"
       /\ ctl.act = "repoint" => ~task'.on /\ task'.action = "managed"
       /\ ctl.act = "release" => task'.on /\ task'.action = "managed"
       /\ ctl.act = "restore" => task' = J.original
       /\ ctl.act = "initial" => task' = J.initial
   BY <1>1, <2>1, MadeFits
 <2>4. /\ J'.phase = ctl.phase /\ J'.current = task' /\ J'.initial = J.initial
       /\ J'.original = J.original /\ J'.recover = J.recover
   BY <1>4 DEF Revised
 <2>5. Able' = Able /\ Ours' = Ours /\ Older' = Older /\ worker' = worker /\ rt' = rt
   BY <1>1, <1>6 DEF Able, Ours, Older
 <2>6. call' = call \/ (Ours /\ Able /\ ForCall /\ ~Older /\ call'.at = "answered")
   BY <1>a, <2>3 DEF TaskInv, CallFits, Linked, Ours, Older, RepliesOnly
 <2>7. JournalFits(J') BY <1>2, <2>2, <2>3, <2>4 DEF JournalFits, ActFits, TaskActs, OnIfOriginal
 <2>8. CtlFits(J)' BY <1>2, <1>5, <2>2, <2>4, <2>5 DEF CtlFits, ActFits, TaskActs, Concluded
 <2>9. OursFits(J)' BY <1>1, <1>2, <1>5, <2>2, <2>4, <2>5 DEF LastFits, OursFits, ActFits, TaskActs
 <2>10. OlderFits' /\ AsRecorded(J)' BY <1>5, <2>4 DEF OlderFits, AsRecorded
 <2>11. OffFits(J)'
  <3>1. CASE call' = call BY <2>5, <3>1, <2>3, <2>4 DEF CountsOnHold, Agreed, OffFits
  <3>2. CASE Ours /\ Able /\ ForCall /\ ~Older /\ call'.at = "answered"
    BY <2>5, <3>2, <1>2, <2>3 DEF CountsOnHold, ForCall, TaskActs, Inspecting, OffFits
  <3>3. QED BY <2>6, <3>1, <3>2
 <2>12. AdmitFits'
  <3>1. CASE call' = call BY <2>5, <3>1, <2>3 DEF Admits, Agreed, AdmitFits
  <3>2. CASE Ours /\ Able /\ ForCall /\ ~Older /\ call'.at = "answered"
   <4>1. Admits' => worker.pc \in {"enable", "beforeAdmission", "refused"} BY <2>5, <3>2 DEF Admits
   <4>2. /\ worker.pc = "enable" => ctl.act = "release"
         /\ worker.pc \in {"beforeAdmission", "refused"} => ctl.act = "restore"
     BY <1>2, <3>2 DEF ForCall, TaskActs
   <4>3. /\ worker.pc = "enable" => rt = "launched"
         /\ worker.pc = "beforeAdmission" => rt = "rollback"
         /\ worker.pc = "refused" => rt = "prepared"
     BY <3>2 DEF TaskInv, PlaceFits
   <4>4. QED BY <2>2, <2>3, <2>5, <4>1, <4>2, <4>3 DEF AdmitFits, JournalFits
  <3>3. QED BY <2>6, <3>1, <3>2
 <2>13. RtFits(J)'
  <3>1. NotBegun(J)' => ctl.act = "bootstrap" /\ NotBegun(J) /\ ~Ours
    BY <1>1, <1>2, <1>5, <2>2, <2>4 DEF NotBegun, ActFits, TaskActs
  <3>2. GivenBack(J)' => GivenBack(J)
    BY <1>1, <1>2, <1>5, <2>2, <2>4 DEF GivenBack, ActFits, TaskActs
  <3>3. Older => Agreed' = Agreed BY <2>6 DEF Agreed
  <3>4. QED BY <2>2, <2>4, <2>5, <3>1, <3>2, <3>3 DEF LastFits, RtFits
 <2>14. LastFits(J)' BY <2>8, <2>9, <2>10, <2>11, <2>13 DEF LastFits
 <2>15. QED
  <3>1. PICK reg, ph : reg = task' /\ ph = ctl.phase OBVIOUS
  <3>2. QED BY <1>2, <1>4, <2>1, <2>3, <2>7, <2>10, <2>12, <2>14, <3>1, ControllerKeeps
<1>10. QED BY <1>8, <1>9 DEF TaskInv

LEMMA AnAction ==
    ASSUME TaskInv, Act
    PROVE  TaskInv'
<1>1. CASE task = J.current BY <1>1, ActionDone
<1>2. CASE task # J.current BY <1>2, ControllerCatches DEF Act, TaskVerified
<1>3. QED BY <1>1, <1>2

\* A worker is started by the task.
LEMMA NewWorkerTyped ==
    ASSUME NEW num \in Nat
    PROVE  [at |-> "started", op |-> num, pc |-> "hello", failed |-> FALSE, logical |-> Nobody]
             \in [at : {"gone", "started", "up"}, op : Nat, pc : Asking \cup Doing \cup {"none"},
                  failed : BOOLEAN, logical : Registrations \cup {Nobody}]
BY DEF Asking

LEMMA WorkerStarts ==
    ASSUME TaskInv, ctl.at = "launching", worker.at = "gone",
           worker' = [NoWorker EXCEPT !.at = "started", !.op = Operation, !.pc = "hello"],
           ctl' = [NoController EXCEPT !.at = "awaiting"],
           UNCHANGED <<task, journals, chan, call, rt, ref, troubles>>
    PROVE  TaskInv'
<1>1. TaskTypes /\ Operation # 0 /\ Operation \in Nat /\ J' = J /\ Operation' = Operation
  BY LastTyped, SameLast DEF TaskInv, TaskTypes, CtlTyped
<1>2. /\ worker'.at = "started" /\ worker'.op = Operation /\ worker'.pc = "hello" /\ ~worker'.failed
      /\ ctl'.at = "awaiting" /\ ctl'.act = "none" /\ CtlTyped'
  BY <1>1 DEF NoWorker, NoController, CtlTyped
<1>3. WorkerTyped'
 <2>1. worker' = [at |-> "started", op |-> Operation, pc |-> "hello", failed |-> FALSE, logical |-> Nobody]
   BY DEF NoWorker
 <2>2. worker' \in [at : {"gone", "started", "up"}, op : Nat, pc : Asking \cup Doing \cup {"none"},
                    failed : BOOLEAN, logical : Registrations \cup {Nobody}]
   BY <1>1, <2>1, NewWorkerTyped
 <2>3. worker'.op \in 0 .. Operation' /\ worker'.op # 0 /\ worker'.pc # "none" BY <1>1, <1>2
 <2>4. QED BY <2>2, <2>3 DEF WorkerTyped
<1>4. TaskTypes' BY <1>1, <1>2, <1>3 DEF TaskTypes, CallTyped
<1>5. call.at = "none" /\ call' = call BY <1>1 DEF TaskInv, CallFits, Able, TaskTypes, CallTyped
<1>6. CallFits' /\ RefFits' /\ PlaceFits'
  BY <1>1, <1>2, <1>5 DEF TaskInv, CallFits, RefFits, PlaceFits, Able, Begun
<1>7. ASSUME troubles'.changes = 0
      PROVE  Undisturbed'
 <2>1. troubles.changes = 0 BY <1>7
 <2>2. LastFits(J) /\ OnIfOriginal(task) /\ JournalsFit
   BY <1>1, <2>1, OfItsLast DEF TaskInv, Undisturbed
 <2>3. JournalsFit' /\ OnIfOriginal(task)' BY <1>1, <2>2 DEF JournalsFit, JournalFits, OnIfOriginal
 <2>4. ~Able' /\ ~Agreed' /\ Ours' /\ ~Older' BY <1>1, <1>2, <1>5 DEF Able, Agreed, Ours, Older
 <2>5. CtlFits(J)' BY <1>1, <1>2, <2>2 DEF LastFits, CtlFits
 <2>6. OursFits(J)' BY <1>2, <1>5 DEF OursFits
 <2>7. AsRecorded(J)' /\ OffFits(J)' /\ OlderFits' /\ AdmitFits'
   BY <1>1, <2>2, <2>4 DEF LastFits, AsRecorded, OffFits, OlderFits, AdmitFits
 <2>8. RtFits(J)' BY <1>1, <1>2, <2>2, <2>4 DEF LastFits, RtFits, NotBegun, GivenBack, Passed
 <2>9. QED BY <1>1, <2>3, <2>5, <2>6, <2>7, <2>8 DEF Undisturbed, LastFits
<1>8. QED BY <1>4, <1>6, <1>7 DEF TaskInv

\* The state of the controller alone changes: it waits for the worker, listens
\* to it or asks the operator.
LEMMA ControllerTurns ==
    ASSUME TaskInv, NEW st \in {"awaiting", "asking"}, ctl.at \in {"launching", "listening"},
           ctl' = [NoController EXCEPT !.at = st],
           UNCHANGED <<task, journals, chan, worker, call, rt, ref, troubles>>,
           st = "awaiting" => ctl.at = "launching",
           st = "asking" => J.phase = "authenticated" /\ (Ours => Able /\ call.at = "sent" /\ worker.pc = "plan")
    PROVE  TaskInv'
<1>1. TaskTypes /\ Operation # 0 /\ J' = J /\ Operation' = Operation /\ Revised(J.current, J.phase)
  BY LastTyped, SameLast, Kept DEF TaskInv, TaskTypes, CtlTyped
<1>2. ctl'.at = st /\ ctl'.act = "none" /\ CtlTyped' BY <1>1 DEF NoController, CtlTyped
<1>3. RepliesOnly(TRUE) BY <1>1, NotReplied
<1>4. TaskTypes' /\ CallFits' /\ RefFits' /\ PlaceFits'
  BY <1>1, <1>2, <1>3, ControllerTypes DEF TaskTypes
<1>5. ASSUME troubles'.changes = 0
      PROVE  Undisturbed'
 <2>1. troubles.changes = 0 BY <1>5
 <2>2. LastFits(J) /\ JournalFits(J) /\ OlderFits /\ AdmitFits /\ OnIfOriginal(task)
   BY <1>1, <2>1, OfItsLast
 <2>3. /\ Able' = Able /\ CountsOnHold' = CountsOnHold /\ Admits' = Admits /\ Ours' = Ours /\ Older' = Older
       /\ Agreed' = Agreed /\ Passed' = Passed
   BY <1>1 DEF Able, CountsOnHold, Admits, Ours, Older, Agreed, Passed
 <2>4. CtlFits(J)' BY <1>1, <1>2, <2>2, <2>3 DEF LastFits, CtlFits, Concluded
 <2>5. OursFits(J)' BY <1>1, <1>2, <2>2, <2>3 DEF LastFits, CtlFits, OursFits, Able
 <2>6. OlderFits' /\ AdmitFits' /\ OffFits(J)' /\ AsRecorded(J)'
   BY <1>1, <1>2, <2>2, <2>3 DEF LastFits, OlderFits, AdmitFits, OffFits, AsRecorded
 <2>7. RtFits(J)' BY <1>1, <1>2, <2>2, <2>3 DEF LastFits, RtFits, NotBegun, GivenBack
 <2>8. QED
   BY <1>1, <2>1, <2>2, <2>4, <2>5, <2>6, <2>7, ControllerKeeps DEF LastFits, JournalFits, OnIfOriginal
<1>6. QED BY <1>4, <1>5 DEF TaskInv

LEMMA ALaunch ==
    ASSUME TaskInv, Launched
    PROVE  TaskInv'
<1>1. ctl.at = "launching" /\ Operation # 0 BY DEF Launched, TaskInv, TaskTypes, CtlTyped
<1>2. CASE Catches /\ UNCHANGED worker /\ (troubles' = troubles \/ Trouble)
  BY <1>1, OfItsLast, <1>2, ControllerCatches DEF LastFits, CtlFits, Launched
<1>3. CASE /\ ctl' = [NoController EXCEPT !.at = "awaiting"]
           /\ worker' = IF worker.at # "gone" THEN worker
                        ELSE [NoWorker EXCEPT !.at = "started", !.op = Operation, !.pc = "hello"]
           /\ UNCHANGED <<journals, chan, troubles>>
 <2>1. UNCHANGED <<task, call, rt, ref>> BY DEF Launched
 <2>2. CASE worker.at = "gone" BY <1>1, <1>3, <2>1, <2>2, WorkerStarts
 <2>3. CASE worker.at # "gone" BY <1>3, <2>3, <1>1, <2>1, ControllerTurns
 <2>4. QED BY <2>2, <2>3
<1>4. QED BY <1>2, <1>3 DEF Launched

\* The guard accepts the worker.
LEMMA WorkerAccepted ==
    ASSUME TaskInv, AwaitWorker
    PROVE  TaskInv'
<1>1. /\ ctl.at = "awaiting" /\ worker.at = "started" /\ worker.op = Operation /\ chan.at = "up"
      /\ worker' = [worker EXCEPT !.at = "up"] /\ ctl' = [NoController EXCEPT !.at = "listening"]
      /\ chan' = [chan EXCEPT !.connected = TRUE]
      /\ UNCHANGED <<task, journals, call, rt, ref, troubles>>
  BY DEF AwaitWorker
<1>2. TaskTypes /\ Operation # 0 /\ Operation \in Nat /\ J' = J /\ Operation' = Operation
  BY <1>1, LastTyped, SameLast DEF TaskInv, TaskTypes, CtlTyped
<1>3. ctl'.at = "listening" /\ ctl'.act = "none" /\ CtlTyped'
  BY <1>1, <1>2 DEF NoController, CtlTyped
<1>4. worker.pc = "hello" /\ ~worker.failed /\ call.at = "none"
  BY <1>1, <1>2 DEF TaskInv, CallFits, Able, TaskTypes, CallTyped
<1>5. /\ worker'.at = "up" /\ worker'.op = Operation /\ worker'.pc = "hello" /\ ~worker'.failed
      /\ WorkerTyped'
  BY <1>1, <1>2, <1>4 DEF TaskTypes, WorkerTyped
<1>6. TaskTypes' BY <1>1, <1>2, <1>3, <1>5 DEF TaskTypes, CallTyped
<1>7. CallFits' /\ RefFits' /\ PlaceFits'
  BY <1>1, <1>2, <1>4, <1>5 DEF TaskInv, CallFits, RefFits, PlaceFits, Able, Begun, Admits, Agreed
<1>8. ASSUME troubles'.changes = 0
      PROVE  Undisturbed'
 <2>1. troubles.changes = 0 BY <1>1, <1>8
 <2>2. LastFits(J) /\ OnIfOriginal(task) /\ JournalsFit
   BY <1>2, <2>1, OfItsLast DEF TaskInv, Undisturbed
 <2>3. JournalsFit' /\ OnIfOriginal(task)'
   BY <1>1, <1>2, <2>2 DEF JournalsFit, JournalFits, OnIfOriginal
 <2>4. ~Agreed' /\ ~CountsOnHold' /\ ~Admits' /\ Ours' /\ ~Older' /\ ~Passed'
   BY <1>1, <1>2, <1>4, <1>5 DEF Agreed, CountsOnHold, Admits, Ours, Older, Passed, Inspecting
 <2>5. CtlFits(J)' BY <1>1, <1>2, <1>3, <2>2 DEF LastFits, CtlFits
 <2>6. OursFits(J)' BY <1>1, <1>3, <1>4, <1>5 DEF OursFits
 <2>7. AsRecorded(J)' /\ OffFits(J)' /\ OlderFits' /\ AdmitFits'
   BY <1>1, <1>2, <2>2, <2>4 DEF LastFits, AsRecorded, OffFits, OlderFits, AdmitFits
 <2>8. RtFits(J)' BY <1>1, <1>2, <1>3, <1>5, <2>2, <2>4 DEF LastFits, RtFits, NotBegun, GivenBack
 <2>9. QED BY <1>2, <2>3, <2>5, <2>6, <2>7, <2>8 DEF Undisturbed, LastFits
<1>9. QED BY <1>6, <1>7, <1>8 DEF TaskInv

\* An answer that changes the journal only.
LEMMA ControllerAnswers ==
    ASSUME TaskInv, ctl.at \in {"listening", "asking"}, NEW ph \in TaskPhases, NEW ok \in BOOLEAN,
           Saved(ph), Reply(ok), UNCHANGED <<task, worker, rt, ref, troubles>>,
           \/ ctl' = [NoController EXCEPT !.at = "listening"] /\ chan' = chan
           \/ ctl' = NoController /\ chan' = [chan EXCEPT !.at = "down"],
           troubles.changes = 0 =>
               /\ task = J.current \/ ph = "uncertain"
               /\ JournalFits(J')
               /\ ctl'.at = "listening" => ph \notin Concluded
               /\ ph # "bootstrap" /\ (ph = "restored" => J.phase = "restored")
               /\ ph \in {"authenticated", "approved"} => NotBegun(J) /\ (Able /\ Ours => worker.pc # "hold")
               /\ Able /\ Ours => /\ worker.pc = "hold" => ~task.on
                                  /\ worker.pc \notin {"enable", "beforeAdmission", "refused"}
    PROVE  TaskInv'
<1>1. TaskTypes /\ Operation # 0 /\ J \in TaskJournals
  BY LastTyped DEF TaskInv, TaskTypes, CtlTyped
<1>2. Revised(J.current, ph) BY <1>1, SavedIs
<1>3. RepliesOnly(ok) BY <1>1, ReplyIs
<1>4. ctl'.at \in {"listening", "off"} /\ ctl'.act = "none" /\ CtlTyped'
  BY <1>1, <1>2 DEF NoController, CtlTyped, Revised
<1>5. chan' \in [at : {"up", "down"}, connected : BOOLEAN] BY <1>1 DEF TaskTypes
<1>6. TaskTypes' /\ CallFits' /\ RefFits' /\ PlaceFits'
  BY <1>1, <1>2, <1>3, <1>4, <1>5, ControllerTypes DEF TaskTypes
<1>7. ASSUME troubles'.changes = 0
      PROVE  Undisturbed'
 <2>1. troubles.changes = 0 BY <1>7
 <2>2. LastFits(J) /\ OlderFits /\ AdmitFits /\ OnIfOriginal(task) BY <1>1, <2>1, OfItsLast
 <2>3. J'.phase = ph /\ J'.current = J.current /\ J'.initial = J.initial /\ J'.recover = J.recover
       /\ Operation' = Operation
   BY <1>2 DEF Revised
 <2>4. Able' = Able /\ Ours' = Ours /\ Older' = Older BY <2>3 DEF Able, Ours, Older
 <2>5. call' = call \/ (Ours /\ Able /\ ~Older /\ call.at = "sent" /\ call'.at = "answered")
   BY <1>3 DEF TaskInv, CallFits, Linked, Ours, Older, RepliesOnly
 <2>6. CtlFits(J)' BY <1>4, <2>1, <2>3 DEF CtlFits
 <2>7. OursFits(J)' BY <1>4, <2>1, <2>2, <2>3, <2>4 DEF LastFits, OursFits
 <2>8. OlderFits' /\ AsRecorded(J)' BY <1>4, <2>1, <2>3 DEF OlderFits, AsRecorded, Unsettled
 <2>9. OffFits(J)'
  <3>1. CASE call' = call BY <3>1, <2>2, <2>3, <2>4 DEF CountsOnHold, Agreed, LastFits, OffFits
  <3>2. CASE Ours /\ Able /\ ~Older /\ call.at = "sent" /\ call'.at = "answered"
    BY <3>2, <2>1, <2>2, <2>4 DEF CountsOnHold, LastFits, OffFits
  <3>3. QED BY <2>5, <3>1, <3>2
 <2>10. AdmitFits'
  <3>1. CASE call' = call BY <2>2, <2>4, <3>1 DEF AdmitFits, Admits, Agreed
  <3>2. CASE Ours /\ Able /\ ~Older /\ call.at = "sent" /\ call'.at = "answered"
    BY <2>1, <3>2 DEF AdmitFits, Admits
  <3>3. QED BY <2>5, <3>1, <3>2
 <2>11. RtFits(J)'
   BY <1>4, <2>1, <2>3, <2>5, <2>4, <2>2 DEF NotBegun, GivenBack, Agreed, Passed, LastFits, RtFits
 <2>12. LastFits(J)' BY <2>6, <2>7, <2>8, <2>9, <2>11 DEF LastFits
 <2>13. QED BY <1>1, <1>2, <2>1, <2>2, <2>8, <2>10, <2>12, ControllerKeeps
<1>8. QED BY <1>6, <1>7 DEF TaskInv

\* What is known when a request is heard.
LEMMA WhenListening ==
    ASSUME TaskInv, Listening
    PROVE  /\ TaskTypes /\ Operation # 0 /\ J \in TaskJournals
           /\ Able /\ Ours /\ ~Older /\ worker.pc \in Asking /\ call.verb = Verb[worker.pc] /\ call.at = "sent"
           /\ ctl.at = "listening"
           /\ troubles.changes = 0 => LastFits(J) /\ JournalFits(J)
<1>1. /\ ctl.at = "listening" /\ call.at = "sent" /\ TaskTypes /\ Operation # 0
  BY DEF Listening, TaskInv, TaskTypes, CtlTyped
<1>2. J \in TaskJournals BY <1>1, LastTyped
<1>3. Able /\ Ours /\ ~Older /\ worker.pc \in Asking /\ call.verb = Verb[worker.pc]
  BY <1>1 DEF TaskInv, CallFits, Listening, Linked, Ours, Older
<1>4. QED BY <1>1, <1>2, <1>3, OfItsLast

\* What a journal says after another phase is saved.
LEMMA SavedFits ==
    ASSUME JournalFits(J), NEW ph, Revised(J.current, ph),
           ph \in {"bootstrap", "authenticated", "approved", "held", "selected"} => ~J.current.on,
           ph \in {"selected", "released", "restored"} => ph = J.phase
    PROVE  JournalFits(J')
<1>1. J'.phase = ph /\ J'.current = J.current /\ J'.initial = J.initial /\ J'.original = J.original
  BY DEF Revised
<1>2. QED BY <1>1 DEF JournalFits

LEMMA IntendsIs ==
    ASSUME TaskTypes, Operation # 0, NEW act, NEW ph, Intends(act, ph)
    PROVE  ctl'.at = "acting" /\ ctl'.act = act /\ ctl'.phase = ph /\ J'.current = J.current
BY SavedIs DEF Intends, Revised, TaskPhases

\* The requests, and what is done about them.
LEMMA WhatIsDone ==
    ASSUME Accept
    PROVE  \/ call.verb = "PLAN" /\ J.phase = "authenticated"
              /\ ctl' = [NoController EXCEPT !.at = "asking"] /\ UNCHANGED <<journals, call, chan>>
           \/ Catches /\ UNCHANGED call
              /\ ~(call.verb = "HELLO" /\ J.phase = "bootstrap" /\ TaskVerified)
           \/ Concludes("failed-restored") /\ call.verb = "FAILED" /\ J.phase = "restored"
           \/ Concludes("uncertain") /\ call.verb = "FAILED"
           \/ Concludes("completed") /\ call.verb = "DONE" /\ TaskVerified
           \/ Accepts("authenticated", TRUE) /\ call.verb = "HELLO" /\ J.phase = "bootstrap" /\ TaskVerified
           \/ Accepts(J.phase, TRUE) /\ call.verb = "INSPECT" /\ TaskVerified
           \/ Accepts("held", TRUE) /\ call.verb = "HOLD" /\ J.phase \in {"approved", "held"} /\ TaskVerified
           \/ /\ Intends("initial", "failed-restored") /\ call.verb = "FAILED"
              /\ J.phase \in {"authenticated", "approved"} /\ TaskVerified /\ UNCHANGED <<call, chan>>
           \/ /\ Intends("hold", "held") /\ call.verb = "HOLD"
              /\ J.phase \in {"selected", "released"} /\ TaskVerified /\ UNCHANGED <<call, chan>>
           \/ /\ Intends("repoint", "selected") /\ call.verb = "REPOINT"
              /\ J.phase = "held" /\ TaskVerified /\ UNCHANGED <<call, chan>>
           \/ /\ Intends("release", "released") /\ call.verb = "ENABLE"
              /\ J.phase = "selected" /\ TaskVerified /\ UNCHANGED <<call, chan>>
           \/ /\ Intends("restore", "restored") /\ call.verb = "RESTORE" /\ TaskVerified /\ UNCHANGED <<call, chan>>
<1>1. CASE call.verb = "PLAN" BY <1>1 DEF Accept
<1>2. CASE call.verb = "FAILED"
 <2>1. CASE J.phase = "restored" BY <1>2, <2>1 DEF Accept
 <2>2. CASE J.phase \notin {"restored", "authenticated", "approved"} BY <1>2, <2>2 DEF Accept
 <2>3. CASE J.phase \in {"authenticated", "approved"} BY <1>2, <2>3 DEF Accept
 <2>4. QED BY <2>1, <2>2, <2>3
<1>3. CASE call.verb = "HELLO" BY <1>3 DEF Accept
<1>4. CASE call.verb = "INSPECT" BY <1>4 DEF Accept
<1>5. CASE call.verb = "HOLD" BY <1>5 DEF Accept
<1>6. CASE call.verb = "REPOINT" BY <1>6 DEF Accept
<1>7. CASE call.verb = "ENABLE" BY <1>7 DEF Accept
<1>8. CASE call.verb = "RESTORE" BY <1>8 DEF Accept
<1>9. CASE call.verb = "DONE" BY <1>9 DEF Accept
<1>10. CASE call.verb \notin {"PLAN", "FAILED", "HELLO", "INSPECT", "HOLD", "REPOINT", "ENABLE", "RESTORE", "DONE"}
  BY <1>10 DEF Accept
<1>11. QED BY <1>1, <1>2, <1>3, <1>4, <1>5, <1>6, <1>7, <1>8, <1>9, <1>10

LEMMA ARequest ==
    ASSUME TaskInv, Accept
    PROVE  TaskInv'
<1>1. /\ TaskTypes /\ Operation # 0 /\ J \in TaskJournals
      /\ Able /\ Ours /\ ~Older /\ worker.pc \in Asking /\ call.verb = Verb[worker.pc] /\ call.at = "sent"
      /\ ctl.at = "listening"
      /\ troubles.changes = 0 => LastFits(J) /\ JournalFits(J)
  BY WhenListening DEF Accept
<1>2. UNCHANGED <<task, worker, rt, backend, ref, troubles>> BY DEF Accept
<1>3. PICK place \in Asking : place = worker.pc BY <1>1
<1>4. /\ call.verb = "PLAN" => worker.pc = "plan"
      /\ call.verb = "HELLO" => worker.pc = "hello"
      /\ call.verb = "HOLD" => worker.pc = "hold"
      /\ call.verb = "INSPECT" => worker.pc \in Inspecting
      /\ call.verb = "REPOINT" => worker.pc = "repoint"
      /\ call.verb = "ENABLE" => worker.pc = "enable"
      /\ call.verb = "RESTORE" => worker.pc \in {"refused", "beforeAdmission", "settle"}
      /\ call.verb = "DONE" => worker.pc = "done"
      /\ call.verb = "FAILED" => worker.pc = "failed"
      /\ worker.pc = "hello" => call.verb = "HELLO"
  BY <1>1, <1>3, WhatItAsks DEF Verb
<1>5. CASE call.verb = "PLAN" /\ J.phase = "authenticated"
           /\ ctl' = [NoController EXCEPT !.at = "asking"] /\ UNCHANGED <<journals, call, chan>>
  BY <1>1, <1>2, <1>4, <1>5, ControllerTurns
<1>6. ASSUME NEW ph \in TaskPhases, Concludes(ph),
             ph \in {"uncertain", "failed-restored", "completed"},
             call.verb \in {"FAILED", "DONE"},
             \/ ph = "uncertain"
             \/ ph = "failed-restored" /\ J.phase = "restored"
             \/ TaskVerified
      PROVE  TaskInv'
 <2>1. Saved(ph) /\ Reply(TRUE) /\ ctl' = NoController /\ chan' = [chan EXCEPT !.at = "down"]
   BY <1>6 DEF Concludes, Leaves
 <2>2. Revised(J.current, ph) BY <1>1, <2>1, SavedIs
 <2>3. ASSUME troubles.changes = 0
       PROVE  /\ task = J.current \/ ph = "uncertain"
              /\ JournalFits(J')
   BY <1>1, <1>6, <2>2, <2>3, SavedFits DEF TaskVerified, LastFits, AsRecorded, Unsettled
 <2>4. ctl'.at # "listening" /\ worker.pc \in {"failed", "done"}
   BY <1>4, <1>6, <2>1 DEF NoController
 <2>5. QED BY <1>1, <1>2, <1>6, <2>1, <2>3, <2>4, ControllerAnswers
<1>7. ASSUME NEW ph \in TaskPhases, Accepts(ph, TRUE), TaskVerified,
             \/ ph = "authenticated" /\ J.phase = "bootstrap" /\ call.verb = "HELLO"
             \/ ph = J.phase /\ call.verb = "INSPECT"
             \/ ph = "held" /\ J.phase \in {"approved", "held"} /\ call.verb = "HOLD"
      PROVE  TaskInv'
 <2>1. Saved(ph) /\ Reply(TRUE) /\ ctl' = [NoController EXCEPT !.at = "listening"] /\ chan' = chan
   BY <1>7 DEF Accepts
 <2>2. Revised(J.current, ph) BY <1>1, <2>1, SavedIs
 <2>3. ASSUME troubles.changes = 0
       PROVE  /\ task = J.current /\ JournalFits(J') /\ ph \notin Concluded /\ ph # "bootstrap"
              /\ ph = "restored" => J.phase = "restored"
              /\ ph \in {"authenticated", "approved"} => NotBegun(J) /\ worker.pc # "hold"
              /\ worker.pc = "hold" => ~task.on
              /\ worker.pc \notin {"enable", "beforeAdmission", "refused"}
  <3>1. LastFits(J) /\ JournalFits(J) /\ task = J.current BY <1>1, <1>7, <2>3 DEF TaskVerified
  <3>2. JournalFits(J') BY <1>7, <3>1, <2>2, SavedFits DEF JournalFits
  <3>3. J.phase \notin Concluded BY <1>1, <3>1 DEF LastFits, CtlFits
  <3>4. ph # "bootstrap" BY <1>1, <1>4, <1>7, <3>1 DEF LastFits, OursFits, Able, Inspecting
  <3>5. worker.pc \notin {"enable", "beforeAdmission", "refused"} /\ (worker.pc = "hold" => call.verb = "HOLD")
    BY <1>4, <1>7 DEF Inspecting
  <3>6. QED
    BY <1>4, <1>7, <3>1, <3>2, <3>3, <3>4, <3>5 DEF NotBegun, Concluded, JournalFits, Inspecting
 <2>4. QED BY <1>1, <1>2, <2>1, <2>3, ControllerAnswers
<1>8. ASSUME NEW act \in TaskActs, NEW ph \in TaskPhases, Intends(act, ph), UNCHANGED <<call, chan>>, TaskVerified,
             \/ /\ act = "initial" /\ ph = "failed-restored" /\ call.verb = "FAILED"
                /\ J.phase \in {"authenticated", "approved"}
             \/ act = "hold" /\ ph = "held" /\ call.verb = "HOLD" /\ J.phase \in {"selected", "released"}
             \/ act = "repoint" /\ ph = "selected" /\ call.verb = "REPOINT" /\ J.phase = "held"
             \/ act = "release" /\ ph = "released" /\ call.verb = "ENABLE" /\ J.phase = "selected"
             \/ act = "restore" /\ ph = "restored" /\ call.verb = "RESTORE"
      PROVE  TaskInv'
 <2>1. ctl'.at = "acting" /\ ctl'.act = act /\ ctl'.phase = ph /\ J'.current = J.current
   BY <1>1, <1>8, IntendsIs
 <2>2. task' \in Registrations BY <1>1, <1>2 DEF TaskTypes
 <2>3. ForCall' BY <1>1, <1>2, <1>4, <1>8, <2>1 DEF ForCall
 <2>4. ASSUME troubles.changes = 0
       PROVE  ActFits(J)'
   BY <1>1, <2>4, <1>8, <2>1 DEF JournalFits, ActFits
 <2>5. act = "restore" => rt \notin Taken BY <1>1, <1>4, <1>8 DEF TaskInv, PlaceFits, Taken
 <2>6. act # "bootstrap" /\ (act = "initial" => NotBegun(J)) /\ worker.at = "up"
   BY <1>1, <1>8 DEF NotBegun, Able
 <2>7. QED BY <1>1, <1>2, <1>8, <2>2, <2>3, <2>4, <2>5, <2>6, ControllerIntends
<1>9. CASE /\ Catches /\ UNCHANGED call
           /\ ~(call.verb = "HELLO" /\ J.phase = "bootstrap" /\ TaskVerified)
  BY <1>1, <1>4, <1>9, <1>2, ControllerCatches DEF LastFits, OursFits, Able
<1>10. QED
 <2>1. \/ call.verb = "PLAN" /\ J.phase = "authenticated"
          /\ ctl' = [NoController EXCEPT !.at = "asking"] /\ UNCHANGED <<journals, call, chan>>
       \/ Catches /\ UNCHANGED call
          /\ ~(call.verb = "HELLO" /\ J.phase = "bootstrap" /\ TaskVerified)
       \/ Concludes("failed-restored") /\ call.verb = "FAILED" /\ J.phase = "restored"
       \/ Concludes("uncertain") /\ call.verb = "FAILED"
       \/ Concludes("completed") /\ call.verb = "DONE" /\ TaskVerified
       \/ Accepts("authenticated", TRUE) /\ call.verb = "HELLO" /\ J.phase = "bootstrap" /\ TaskVerified
       \/ Accepts(J.phase, TRUE) /\ call.verb = "INSPECT" /\ TaskVerified
       \/ Accepts("held", TRUE) /\ call.verb = "HOLD" /\ J.phase \in {"approved", "held"} /\ TaskVerified
       \/ /\ Intends("initial", "failed-restored") /\ call.verb = "FAILED"
          /\ J.phase \in {"authenticated", "approved"} /\ TaskVerified /\ UNCHANGED <<call, chan>>
       \/ /\ Intends("hold", "held") /\ call.verb = "HOLD"
          /\ J.phase \in {"selected", "released"} /\ TaskVerified /\ UNCHANGED <<call, chan>>
       \/ /\ Intends("repoint", "selected") /\ call.verb = "REPOINT"
          /\ J.phase = "held" /\ TaskVerified /\ UNCHANGED <<call, chan>>
       \/ /\ Intends("release", "released") /\ call.verb = "ENABLE"
          /\ J.phase = "selected" /\ TaskVerified /\ UNCHANGED <<call, chan>>
       \/ /\ Intends("restore", "restored") /\ call.verb = "RESTORE" /\ TaskVerified /\ UNCHANGED <<call, chan>>
   BY WhatIsDone
 <2>2. /\ {"failed-restored", "uncertain", "completed", "authenticated", "held", "selected", "released",
           "restored"} \subseteq TaskPhases
       /\ {"initial", "hold", "repoint", "release", "restore"} \subseteq TaskActs
       /\ J.phase \in TaskPhases
   BY <1>1 DEF TaskPhases, TaskActs, TaskJournals
 <2>3. CASE Accepts(J.phase, TRUE) /\ call.verb = "INSPECT" /\ TaskVerified BY <1>7, <2>2, <2>3
 <2>4. CASE Concludes("failed-restored") /\ call.verb = "FAILED" /\ J.phase = "restored"
   BY <1>6, <2>2, <2>4
 <2>a. CASE Concludes("uncertain") /\ call.verb = "FAILED" BY <1>6, <2>2, <2>a
 <2>b. CASE Concludes("completed") /\ call.verb = "DONE" /\ TaskVerified BY <1>6, <2>2, <2>b
 <2>5. CASE Accepts("authenticated", TRUE) /\ call.verb = "HELLO" /\ J.phase = "bootstrap" /\ TaskVerified
   BY <1>7, <2>2, <2>5
 <2>c. CASE Accepts("held", TRUE) /\ call.verb = "HOLD" /\ J.phase \in {"approved", "held"} /\ TaskVerified
   BY <1>7, <2>2, <2>c
 <2>6. CASE /\ Intends("initial", "failed-restored") /\ call.verb = "FAILED"
            /\ J.phase \in {"authenticated", "approved"} /\ TaskVerified /\ UNCHANGED <<call, chan>>
   BY <1>8, <2>2, <2>6
 <2>7. CASE /\ Intends("hold", "held") /\ call.verb = "HOLD"
            /\ J.phase \in {"selected", "released"} /\ TaskVerified /\ UNCHANGED <<call, chan>>
   BY <1>8, <2>2, <2>7
 <2>8. CASE /\ Intends("repoint", "selected") /\ call.verb = "REPOINT"
            /\ J.phase = "held" /\ TaskVerified /\ UNCHANGED <<call, chan>>
   BY <1>8, <2>2, <2>8
 <2>9. CASE /\ Intends("release", "released") /\ call.verb = "ENABLE"
            /\ J.phase = "selected" /\ TaskVerified /\ UNCHANGED <<call, chan>>
   BY <1>8, <2>2, <2>9
 <2>10. CASE Intends("restore", "restored") /\ call.verb = "RESTORE" /\ TaskVerified /\ UNCHANGED <<call, chan>>
   BY <1>8, <2>2, <2>10
 <2>11. QED BY <1>5, <1>9, <2>1, <2>3, <2>4, <2>a, <2>b, <2>5, <2>c, <2>6, <2>7, <2>8, <2>9, <2>10

LEMMA TheOperator ==
    ASSUME TaskInv, NEW approved \in BOOLEAN, Confirm(approved)
    PROVE  TaskInv'
<1>1. /\ ctl.at = "asking" /\ UNCHANGED <<task, worker, rt, backend, ref, troubles>>
      /\ TaskTypes /\ Operation # 0 /\ J \in TaskJournals
  BY LastTyped DEF Confirm, TaskInv, TaskTypes, CtlTyped
<1>2. troubles.changes = 0 => /\ LastFits(J) /\ JournalFits(J) /\ OlderFits /\ J.phase = "authenticated"
                              /\ Ours => worker.at = "up" /\ (worker.failed \/ (call.at = "sent" /\ worker.pc = "plan"))
  BY <1>1, OfItsLast DEF LastFits, CtlFits, OursFits
<1>3. CASE ~TaskVerified BY <1>3, <1>1, <1>2, ControllerCatches DEF Confirm
<1>4. CASE TaskVerified /\ approved
 <2>1. /\ Saved("approved") /\ Reply(TRUE) /\ ctl' = [NoController EXCEPT !.at = "listening"] /\ chan' = chan
       /\ task = J.current
   BY <1>4 DEF Confirm, Accepts, TaskVerified
 <2>2. Revised(J.current, "approved") BY <1>1, <2>1, SavedIs DEF TaskPhases
 <2>3. troubles.changes = 0 => JournalFits(J') /\ NotBegun(J)
   BY <1>2, <2>2, SavedFits DEF JournalFits, NotBegun
 <2>4. "approved" \in TaskPhases /\ "approved" \notin Concluded BY DEF TaskPhases, Concluded
 <2>5. troubles.changes = 0 => (Able /\ Ours => worker.pc = "plan") BY <1>2 DEF Able
 <2>6. QED BY <1>1, <2>1, <2>3, <2>4, <2>5, ControllerAnswers
<1>5. CASE TaskVerified /\ ~approved
 <2>1. Intends("initial", "cancelled") /\ UNCHANGED <<call, chan>> BY <1>5 DEF Confirm
 <2>2. ctl'.at = "acting" /\ ctl'.act = "initial" /\ ctl'.phase = "cancelled"
   BY <1>1, <2>1, IntendsIs
 <2>3. troubles.changes = 0 =>
           /\ ActFits(J)' /\ NotBegun(J)
           /\ Ours => worker.at = "up" /\ (worker.failed \/ ForCall')
   BY <1>1, <1>2, <2>1, <2>2 DEF ActFits, ForCall, NotBegun
 <2>4. "initial" \in TaskActs /\ "cancelled" \in TaskPhases /\ task' \in Registrations
   BY <1>1 DEF TaskActs, TaskPhases, TaskTypes
 <2>5. QED BY <1>1, <2>1, <2>3, <2>4, ControllerIntends
<1>6. QED BY <1>3, <1>4, <1>5

\* An operation begins: a journal is added.
LEMMA AddedIs ==
    ASSUME TaskTypes, NEW jn \in TaskJournals, journals' = Append(journals, jn)
    PROVE  /\ journals' \in Seq(TaskJournals) /\ Operation' = Operation + 1 /\ J' = jn
           /\ \A k \in 1 .. Operation : journals'[k] = journals[k]
<1>1. journals \in Seq(TaskJournals) /\ Len(journals) \in Nat BY DEF TaskTypes
<1>2. journals' \in Seq(TaskJournals) /\ Len(journals') = Len(journals) + 1 BY <1>1
<1>3. journals'[Len(journals) + 1] = jn /\ \A k \in 1 .. Len(journals) : journals'[k] = journals[k]
  BY <1>1
<1>4. QED BY <1>2, <1>3 DEF Operation, J

LEMMA ABeginning ==
    ASSUME TaskInv, BeginOperation
    PROVE  TaskInv'
<1>1. /\ ctl.at = "off" /\ TaskTypes /\ Operation \in Nat /\ task \in Registrations
      /\ UNCHANGED <<task, worker, call, rt, backend, ref, troubles>>
      /\ IF rt = "none" THEN task.action = "original" ELSE ref \in 1 .. Operation
  BY LastTyped DEF BeginOperation, TaskInv, TaskTypes, RefFits
<1> DEFINE orig == IF rt = "none" THEN task ELSE journals[ref].original
<1> DEFINE jn == [phase |-> "intent", current |-> task, initial |-> task, original |-> orig, recover |-> rt # "none"]
<1>2. orig \in Registrations BY <1>1, LastTyped DEF TaskJournals
<1>3. PICK og \in Registrations : og = orig BY <1>2
<1> HIDE DEF orig
<1>4. jn \in TaskJournals /\ jn.phase = "intent" /\ jn.current = task /\ jn.initial = task
      /\ jn.original = orig /\ jn.recover = (rt # "none")
  BY <1>1, <1>2 DEF TaskJournals, TaskPhases
<1>5. journals' = Append(journals, jn) BY DEF BeginOperation, orig
<1> HIDE DEF jn
<1>6. /\ journals' \in Seq(TaskJournals) /\ Operation' = Operation + 1 /\ J' = jn
      /\ \A k \in 1 .. Operation : journals'[k] = journals[k]
  BY <1>1, <1>4, <1>5, AddedIs
<1>7. /\ ctl'.at = "acting" /\ ctl'.act = "bootstrap" /\ ctl'.phase = "bootstrap" /\ CtlTyped'
      /\ chan' \in [at : {"up", "down"}, connected : BOOLEAN]
  BY <1>1, <1>6 DEF BeginOperation, CtlTyped, TaskActs, TaskPhases
<1>8. WorkerTyped' BY <1>1, <1>6 DEF TaskTypes, WorkerTyped
<1>9. TaskTypes' BY <1>1, <1>6, <1>7, <1>8 DEF TaskTypes, CallTyped
<1>10. CallFits' /\ RefFits' /\ PlaceFits'
  BY <1>1, <1>6 DEF TaskInv, CallFits, RefFits, PlaceFits, Able, Begun, Admits, Agreed
<1>11. ASSUME troubles'.changes = 0
       PROVE  Undisturbed'
 <2>1. troubles.changes = 0 /\ Undisturbed BY <1>1, <1>11 DEF TaskInv
 <2>2. OnIfOriginal(task) /\ JournalsFit /\ (worker.at # "gone" => Operation # 0 /\ LastFits(J))
   BY <2>1 DEF Undisturbed
 <2>3. orig.on /\ orig.action = "original"
  <3>1. CASE rt = "none" BY <1>1, <2>2, <3>1 DEF orig, OnIfOriginal
  <3>2. CASE rt # "none" BY <1>1, <2>2, <3>2 DEF orig, JournalsFit, JournalFits
  <3>3. QED BY <3>1, <3>2
 <2>4. JournalsFit'
  <3>1. SUFFICES ASSUME NEW k \in 1 .. Operation + 1
                 PROVE  JournalFits(journals[k])'
    BY <1>6 DEF JournalsFit
  <3>2. CASE k = Operation + 1 BY <1>6, <3>2, <1>4, <2>2, <2>3 DEF J, JournalFits, OnIfOriginal
  <3>3. CASE k \in 1 .. Operation BY <1>6, <2>2, <3>3 DEF JournalsFit, JournalFits, OnIfOriginal
  <3>4. QED BY <1>1, <3>1, <3>2, <3>3
 <2>5. ~Ours' /\ (Older' => worker.at # "gone")
   BY <1>1, <1>6 DEF Ours, Older, TaskTypes, WorkerTyped
 <2>6. CtlFits(J)' BY <1>4, <1>6, <1>7, <2>5 DEF CtlFits, ActFits, Concluded
 <2>7. OursFits(J)' /\ OlderFits' /\ AdmitFits' /\ AsRecorded(J)'
   BY <1>4, <1>6, <1>7, <2>5 DEF OursFits, OlderFits, AdmitFits, AsRecorded, Unsettled
 <2>8. Able /\ CountsOnHold => ~task.on BY <2>2 DEF LastFits, OffFits, Able
 <2>9. OffFits(J)' BY <1>1, <1>4, <1>6, <2>8 DEF Able, CountsOnHold, Agreed, OffFits
 <2>10. rt = "none" /\ worker.at # "gone" =>
            worker.pc \in Asking /\ ~(Agreed /\ worker.pc \in {"hold", "enable", "refused", "beforeAdmission"} \cup Inspecting)
  <3>1. SUFFICES ASSUME rt = "none", worker.at # "gone"
                 PROVE  worker.pc \in Asking /\ ~(Agreed /\ worker.pc \in {"hold", "enable", "refused", "beforeAdmission"} \cup Inspecting)
    OBVIOUS
  <3>2. ~(Able /\ CountsOnHold) BY <1>1, <2>2, <2>8, <3>1 DEF OnIfOriginal
  <3>3. CASE ~Able
    BY <1>1, <3>1, <3>3 DEF TaskInv, CallFits, Able, Agreed, Asking, TaskTypes, WorkerTyped
  <3>4. CASE Able
   <4>1. worker.pc \notin {"repoint", "enable", "beforeAdmission", "settle", "done", "quiesce", "refused", "abort"}
         /\ (call.at = "none" => worker.pc # "admit")
     BY <3>1, <3>4 DEF TaskInv, PlaceFits
   <4>2. worker.pc \in Asking \cup Doing BY <1>1, <3>1 DEF TaskTypes, WorkerTyped
   <4>3. worker.pc \in Doing => call.at = "none" BY DEF TaskInv, CallFits, Asking, Doing
   <4>4. worker.pc \notin Doing BY <3>2, <3>4, <4>1, <4>3 DEF CountsOnHold, Doing
   <4>5. QED BY <3>2, <3>4, <4>1, <4>2, <4>4 DEF CountsOnHold
  <3>5. QED BY <3>3, <3>4
 <2>11. RtFits(J)' BY <1>1, <1>4, <1>6, <1>7, <2>5, <2>10 DEF Agreed, GivenBack, RtFits
 <2>12. OnIfOriginal(task)' /\ Operation' # 0 BY <1>1, <1>6, <2>2 DEF OnIfOriginal
 <2>13. QED BY <2>4, <2>6, <2>7, <2>9, <2>11, <2>12 DEF Undisturbed, LastFits
<1>12. QED BY <1>9, <1>10, <1>11 DEF TaskInv

-----------------------------------------------------------------------------
(* The theorems. *)

LEMMA TaskBegins == TaskInit => TaskInv
<1> SUFFICES ASSUME TaskInit
             PROVE  TaskInv
  OBVIOUS
<1>1. Operation = 0 /\ journals \in Seq(TaskJournals) BY DEF TaskInit, Operation
<1>2. CtlTyped /\ CallTyped /\ ctl.at = "off" /\ call.at = "none"
  BY <1>1 DEF TaskInit, CtlTyped, CallTyped, NoController, NoCall
<1>3. worker.at = "gone" /\ WorkerTyped BY <1>1 DEF TaskInit, NoWorker, WorkerTyped
<1>4. /\ task \in Registrations /\ OnIfOriginal(task)
      /\ chan \in [at : {"up", "down"}, connected : BOOLEAN] /\ troubles \in [faults : Nat, changes : Nat]
  BY DEF TaskInit, Registrations, OnIfOriginal
<1>5. TaskTypes BY <1>1, <1>2, <1>3, <1>4 DEF TaskTypes
<1>6. CallFits /\ RefFits /\ PlaceFits
  BY <1>2, <1>3 DEF CallFits, RefFits, PlaceFits, Able, Begun, TaskInit
<1>7. Undisturbed
  BY <1>1, <1>2, <1>3, <1>4 DEF Undisturbed, JournalsFit, OlderFits, AdmitFits, Able, TaskInit
<1>8. QED BY <1>5, <1>6, <1>7 DEF TaskInv

LEMMA TaskStep == TaskInv /\ [TaskNext]_taskVars => TaskInv'
<1> SUFFICES ASSUME TaskInv, [TaskNext]_taskVars
             PROVE  TaskInv'
  OBVIOUS
<1>1. CASE UNCHANGED taskVars BY <1>1, OnlyTheChannel DEF taskVars
<1>2. CASE TaskChanged BY <1>2, ChangedByOthers
<1>3. CASE Controls
  BY <1>3, ABeginning, AnAction, ActionFails, ALaunch, WorkerAccepted, ChannelGone, ARequest, TheOperator DEF Controls
<1>4. CASE Session BY <1>4, ACall, NothingFound, AnAnswer, NoAnswer DEF Session
<1>5. CASE Upgrade
  BY <1>5, UpgradePrepares, UpgradeDrains, UpgradeAborts, UpgradeResumes, UpgradeStops, UpgradeStarts,
    UpgradeRollsBack, UpgradeAdmits, UpgradeSettles DEF Upgrade
<1>6. CASE Endings BY <1>6, GuardGone, ControllerGone, WorkerGone DEF Endings
<1>7. QED BY <1>1, <1>2, <1>3, <1>4, <1>5, <1>6 DEF TaskNext

\* What a controller, its guard and the worker do fits together, whoever dies
\* and whatever is lost, for any number of operations, faults and changes.
THEOREM TaskInvariance == TaskSpec => []TaskInv
BY TaskBegins, TaskStep, PTL DEF TaskSpec

\* What a catch writes ends no operation as anything but uncertain.
LEMMA CatchSaysNothing ==
    ASSUME TaskInv, troubles.changes = 0, ctl.at # "off", Catches
    PROVE  J'.phase \notin Concluded
<1>1. TaskTypes /\ Operation # 0 /\ J \in TaskJournals
  BY LastTyped DEF TaskInv, TaskTypes, CtlTyped
<1>2. J.phase \notin Concluded BY <1>1, OfItsLast DEF LastFits, CtlFits
<1>3. PICK ph \in {"intent", J.phase, "uncertain"} : Saved(ph) BY DEF Catches, Intends
<1>4. ph \in TaskPhases /\ ph \notin Concluded
  BY <1>1, <1>2 DEF TaskJournals, TaskPhases, Concluded
<1>5. J'.phase = ph BY <1>1, <1>3, <1>4, SavedIs DEF Revised
<1>6. QED BY <1>4, <1>5

\* How an operation ends.
Ending ==
    \/ journals' = journals
    \/ J'.phase \notin Concluded
    \/ /\ J'.phase \in {"restored-bootstrap", "failed-restored", "cancelled"}
       /\ task' = J.initial /\ J'.initial = J.initial /\ NotBegun(J) /\ LastFits(J) /\ Operation # 0
    \/ /\ J'.phase = "failed-restored" /\ J.phase = "restored" /\ LastFits(J)
       /\ task' = J.original /\ J'.original = J.original
    \/ J'.phase = "completed" /\ rt \in Settled /\ task.on

LEMMA ActionEnds ==
    ASSUME TaskInv, troubles.changes = 0, Act
    PROVE  Ending
<1>1. TaskTypes /\ ctl.at = "acting" /\ Operation # 0 /\ ctl.act \in TaskActs /\ ctl.phase \in TaskPhases
      /\ J \in TaskJournals /\ Operation \in 1 .. Operation /\ journals \in Seq(TaskJournals)
  BY LastTyped DEF TaskInv, TaskTypes, CtlTyped, Act
<1>2. LastFits(J) /\ ActFits(J) BY <1>1, OfItsLast DEF LastFits, CtlFits
<1>3. CASE task = J.current
 <2>1. task' = Made(ctl.act) /\ Acted /\ Made(ctl.act) \in Registrations
   BY <1>1, <1>3, MadeIs DEF Act
 <2>2. journals' = [journals EXCEPT ![Operation] = [J EXCEPT !.current = Made(ctl.act), !.phase = ctl.phase]]
   BY <1>1, <2>1 DEF Acted, J, Operation
 <2>3. PICK reg \in Registrations : reg = Made(ctl.act) BY <2>1
 <2>4. PICK ph \in TaskPhases : ph = ctl.phase BY <1>1
 <2>5. Revised(reg, ph) BY <1>1, <2>2, <2>3, <2>4, Replaced
 <2>6. J'.phase = ctl.phase /\ J'.initial = J.initial BY <2>4, <2>5 DEF Revised
 <2>7. ctl.phase \in Concluded => ctl.act = "initial"
   BY <1>1, <1>2 DEF ActFits, TaskActs, Concluded
 <2>8. ctl.act = "initial" => task' = J.initial /\ NotBegun(J)
                              /\ ctl.phase \in {"restored-bootstrap", "failed-restored", "cancelled"}
   BY <1>1, <1>2, <2>1 DEF Made, NotBegun, ActFits
 <2>9. QED BY <1>1, <1>2, <2>6, <2>7, <2>8 DEF Ending
<1>4. CASE task # J.current BY <1>1, <1>4, CatchSaysNothing DEF Act, Ending
<1>5. QED BY <1>3, <1>4

LEMMA RequestEnds ==
    ASSUME TaskInv, troubles.changes = 0, Accept
    PROVE  Ending
<1>1. /\ TaskTypes /\ Operation # 0 /\ J \in TaskJournals
      /\ Able /\ worker.pc \in Asking /\ call.verb = Verb[worker.pc]
      /\ ctl.at = "listening" /\ LastFits(J) /\ JournalFits(J) /\ task' = task
  BY WhenListening DEF Accept
<1>2. J.phase \notin Concluded /\ J.phase \in TaskPhases
  BY <1>1 DEF LastFits, CtlFits, TaskJournals
<1>3. ASSUME NEW ph \in TaskPhases, Saved(ph)
      PROVE  J'.phase = ph /\ J'.initial = J.initial /\ J'.original = J.original
  BY <1>1, <1>3, SavedIs DEF Revised
<1>4. CASE \/ journals' = journals
           \/ Saved("intent") \/ Saved("authenticated") \/ Saved(J.phase) \/ Saved("held") \/ Saved("uncertain")
  BY <1>2, <1>3, <1>4 DEF Ending, TaskPhases, Concluded
<1>5. CASE Catches BY <1>1, <1>5, CatchSaysNothing DEF Ending
<1>6. CASE Saved("failed-restored") /\ J.phase = "restored"
  BY <1>1, <1>6, <1>3 DEF LastFits, AsRecorded, JournalFits, Unsettled, Ending, TaskPhases
<1>7. CASE Saved("completed") /\ call.verb = "DONE" /\ TaskVerified /\ J.phase \in {"released", "restored"}
 <2>1. PICK place \in Asking : place = worker.pc BY <1>1
 <2>2. worker.pc = "done" BY <1>1, <1>7, <2>1, WhatItAsks
 <2>3. rt \in Settled BY <1>1, <2>2 DEF TaskInv, PlaceFits, Settled
 <2>4. task.on BY <1>1, <1>7 DEF TaskVerified, JournalFits
 <2>5. QED BY <1>3, <1>7, <2>3, <2>4 DEF Ending, TaskPhases
<1>8. call.verb = "DONE" => Catches \/ (Saved("completed") /\ TaskVerified /\ J.phase \in {"released", "restored"})
  BY DEF Accept, Concludes
<1>9. QED BY <1>4, <1>5, <1>6, <1>7, <1>8, WhatIsDone DEF Concludes, Accepts, Intends

LEMMA OperationEnds ==
    ASSUME TaskInv, troubles.changes = 0, TaskNext
    PROVE  Ending
<1>1. CASE BeginOperation
 <2>1. TaskTypes /\ Operation \in Nat /\ task \in Registrations
       /\ (rt # "none" => journals[ref].original \in Registrations)
   BY <1>1, LastTyped DEF TaskInv, TaskTypes, RefFits, TaskJournals
 <2>2. PICK og \in Registrations : og = IF rt = "none" THEN task ELSE journals[ref].original
   BY <2>1
 <2>3. PICK jn : jn = [phase |-> "intent", current |-> task, initial |-> task, original |-> og, recover |-> rt # "none"]
   OBVIOUS
 <2>4. jn \in TaskJournals /\ jn.phase = "intent" /\ journals' = Append(journals, jn)
   BY <1>1, <2>1, <2>2, <2>3 DEF BeginOperation, TaskJournals, TaskPhases
 <2>5. J'.phase = "intent" BY <2>1, <2>4, AddedIs
 <2>6. QED BY <2>5 DEF Ending, Concluded
<1>2. CASE Act BY <1>2, ActionEnds
<1>3. CASE ActFails \/ ChannelFails BY <1>3, CatchSaysNothing DEF ActFails, ChannelFails, Ending
<1>4. CASE Launched BY <1>4, CatchSaysNothing DEF Launched, Ending
<1>5. CASE Accept BY <1>5, RequestEnds
<1>6. ASSUME NEW approved \in BOOLEAN, Confirm(approved)
      PROVE  Ending
 <2>1. ctl.at = "asking" /\ TaskTypes /\ Operation # 0
   BY <1>6 DEF Confirm, TaskInv, TaskTypes, CtlTyped
 <2>2. Catches \/ Saved("approved") \/ Saved("intent") BY <1>6 DEF Confirm, Accepts, Intends
 <2>3. CASE Saved("approved") \/ Saved("intent")
   BY <2>1, <2>3, SavedIs DEF Ending, Revised, TaskPhases, Concluded
 <2>4. QED BY <2>1, <2>2, <2>3, CatchSaysNothing DEF Ending
<1>7. CASE TaskChanged \/ AwaitWorker \/ Session \/ Endings
  BY <1>7 DEF TaskChanged, AwaitWorker, Session, Call, NothingToRecover, Answered, Unanswered,
    Endings, GuardEnds, ControllerDies, WorkerDies, WorkerGivesUp, Ending
<1>8. CASE Upgrade
 <2>1. (Prepare \/ Drain \/ Abort \/ ResumeService \/ Settle) => journals' = journals
   BY DEF Prepare, Drain, Abort, ResumeService, Settle, Works, StepFails
 <2>2. (StopService \/ StartTarget \/ StopTarget \/ RestartOld) => journals' = journals
   BY DEF StopService, StartTarget, StopTarget, RestartOld, Works, StepFails
 <2>3. CASE AdmitService
  <3>1. rt \in {"launched", "admitting", "rollback", "admitting-rollback"}
    BY <2>3 DEF AdmitService, At, TaskInv, CallFits, PlaceFits, Able
  <3>2. journals' = journals BY <2>3, <3>1 DEF AdmitService, Works, StepFails
  <3>3. QED BY <3>2 DEF Ending
 <2>4. QED BY <1>8, <2>1, <2>2, <2>3 DEF Upgrade, Ending
<1>9. QED BY <1>1, <1>2, <1>3, <1>4, <1>5, <1>6, <1>7, <1>8 DEF TaskNext, Controls

\* The steps that leave no backend come where the worker counts on the hold.
LEMMA StopsWhere ==
    ASSUME TaskInv, TaskNext, backend # "none", backend' = "none"
    PROVE  Able /\ call.at = "none" /\ worker.pc \in {"stop", "start", "stopTarget"}
<1>1. ASSUME NEW place \in Doing, At(place)
      PROVE  Able /\ call.at = "none" /\ worker.pc = place
  BY <1>1 DEF At, TaskInv, CallFits, Able, Doing
<1>2. CASE StopService BY <1>1, <1>2 DEF StopService, Doing
<1>3. CASE StartTarget BY <1>1, <1>3 DEF StartTarget, Doing
<1>4. CASE StopTarget BY <1>1, <1>4 DEF StopTarget, Doing
<1>5. CASE Prepare \/ Drain \/ Abort \/ ResumeService \/ Settle \/ RestartOld
  BY <1>5 DEF Prepare, Drain, Abort, ResumeService, Settle, RestartOld, Works
<1>6. CASE AdmitService BY <1>1, <1>6 DEF AdmitService, TaskInv, PlaceFits, Doing, Works
<1>7. CASE TaskChanged \/ Controls \/ Session \/ Endings
  BY <1>7 DEF TaskChanged, Controls, BeginOperation, Act, ActFails, Launched, AwaitWorker, ChannelFails, Accept,
    Confirm, Session, Call, NothingToRecover, Answered, Unanswered, Endings, GuardEnds,
    ControllerDies, WorkerDies, WorkerGivesUp
<1>8. QED BY <1>2, <1>3, <1>4, <1>5, <1>6, <1>7 DEF TaskNext, Upgrade

\* No backend is stopped while the task could start one by itself.
LEMMA NothingStartsMeanwhile ==
    ASSUME TaskInv, TaskNext
    PROVE  StopsHeld
<1> SUFFICES ASSUME backend # "none", backend' = "none"
             PROVE  ~task.on \/ troubles.changes > 0
  BY DEF StopsHeld
<1>1. Able /\ call.at = "none" /\ worker.pc \in Off /\ worker.pc \in Doing
  BY StopsWhere DEF Off, Doing
<1>2. troubles.changes \in Nat BY DEF TaskInv, TaskTypes
<1>3. QED BY <1>1, <1>2, AtWork

\* An upgrade settles at its admission, by what it was about to admit.
LEMMA SettlesWhere ==
    ASSUME TaskInv, TaskNext, rt' # rt, rt' \in {"committed", "rolled-back", "aborted"}
    PROVE  /\ Able
           /\ Admits \/ (rt' = "aborted" /\ worker.pc = "resume")
           /\ rt' = "committed" => rt = "admitting"
           /\ rt' = "rolled-back" => rt = "admitting-rollback"
           /\ rt' = "aborted" => rt = "prepared" \/ worker.pc = "resume"
<1>1. CASE AdmitService
 <2>1. Able /\ Admits /\ call.at = "none" /\ worker.pc = "admit"
   BY <1>1 DEF AdmitService, At, TaskInv, CallFits, Able, Admits
 <2>2. rt \in {"launched", "admitting", "rollback", "admitting-rollback"}
   BY <2>1 DEF TaskInv, PlaceFits
 <2>3. QED BY <1>1, <2>1, <2>2 DEF AdmitService, Works, StepFails
<1>2. CASE Session BY <1>2 DEF Session, Call, NothingToRecover, Answered, Unanswered, Noted
<1>3. CASE Prepare \/ Drain \/ Settle BY <1>3 DEF Prepare, Drain, Settle, Works, StepFails
<1>7. CASE Abort BY <1>7 DEF Abort, At, Works, TaskInv, CallFits, PlaceFits, Able, Admits
<1>8. CASE ResumeService BY <1>8 DEF ResumeService, At, Works, StepFails, TaskInv, CallFits, Able
<1>4. CASE StopService \/ StartTarget \/ StopTarget \/ RestartOld
  BY <1>4 DEF StopService, StartTarget, StopTarget, RestartOld, Works, StepFails
<1>5. CASE TaskChanged \/ Controls \/ Endings
  BY <1>5 DEF TaskChanged, Controls, BeginOperation, Act, ActFails, Launched, AwaitWorker, ChannelFails, Accept,
    Confirm, Endings, GuardEnds, ControllerDies, WorkerDies, WorkerGivesUp
<1>6. QED BY <1>1, <1>2, <1>3, <1>4, <1>5, <1>7, <1>8 DEF TaskNext, Upgrade

\* An upgrade settles with its task, and an operation ends as its journal says.
LEMMA SaidAtItsEnd ==
    ASSUME TaskInv, TaskNext
    PROVE  EndsAsSaid
<1> SUFFICES ASSUME troubles.changes = 0
             PROVE  EndsAsSaid
  BY DEF EndsAsSaid
<1>1. ASSUME rt' # rt, worker.op = Operation
      PROVE  /\ rt' = "committed" => task.on /\ task.action = "managed"
             /\ rt' = "rolled-back" \/ (rt' = "aborted" /\ ~J.recover)
                  => task.on /\ task.action = "original"
 <2>1. CASE rt' \in {"committed", "rolled-back", "aborted"}
  <3>1. /\ Able /\ (Admits \/ (rt' = "aborted" /\ worker.pc = "resume"))
        /\ rt' = "committed" => rt = "admitting"
        /\ rt' = "rolled-back" => rt = "admitting-rollback"
        /\ rt' = "aborted" => rt = "prepared" \/ worker.pc = "resume"
    BY <1>1, <2>1, SettlesWhere
  <3>2. Ours BY <1>1, <3>1 DEF Able, Ours
  <3>3. LastFits(J) /\ AdmitFits BY <3>2, OfTheLast DEF Ours
  <3>4. worker.pc = "resume" => J.recover BY <3>1, <3>2, <3>3 DEF LastFits, RtFits
  <3>5. worker.pc = "resume" => ~Admits BY DEF Admits
  <3>6. /\ rt' = "committed" => task.on /\ task.action = "managed"
        /\ rt' = "rolled-back" => task.on /\ task.action = "original"
    BY <3>1, <3>2, <3>3 DEF AdmitFits
  <3>7. ASSUME rt' = "aborted", ~J.recover
        PROVE  task.on /\ task.action = "original"
   <4>1. Admits /\ rt = "prepared" BY <3>1, <3>4, <3>7
   <4>2. QED BY <3>1, <3>2, <3>3, <4>1 DEF AdmitFits
  <3>8. QED BY <3>6, <3>7
 <2>2. QED BY <2>1
<1>2. ASSUME journals' # journals
      PROVE  /\ J'.phase = "completed" => rt \in Settled /\ task.on
             /\ J'.phase \in {"cancelled", "restored-bootstrap"} => task' = J'.initial
             /\ J'.phase = "failed-restored" =>
                    (rt = "committed" => J.recover) /\ task' \in {J'.initial, J'.original}
 <2>1. Ending BY OperationEnds
 <2>2. CASE J'.phase \notin Concluded BY <2>2 DEF Concluded
 <2>3. CASE /\ J'.phase \in {"restored-bootstrap", "failed-restored", "cancelled"}
            /\ task' = J.initial /\ J'.initial = J.initial /\ NotBegun(J) /\ LastFits(J)
   BY <2>3 DEF LastFits, RtFits
 <2>4. CASE /\ J'.phase = "failed-restored" /\ J.phase = "restored" /\ LastFits(J)
            /\ task' = J.original /\ J'.original = J.original
   BY <2>4 DEF LastFits, RtFits, GivenBack
 <2>5. CASE J'.phase = "completed" /\ rt \in Settled /\ task.on BY <2>5
 <2>6. QED BY <1>2, <2>1, <2>2, <2>3, <2>4, <2>5 DEF Ending
<1>3. QED BY <1>1, <1>2 DEF EndsAsSaid

\* The task through an upgrade and its recoveries, for any number of them, of
\* faults and of changes: it is as the journals say, no backend is stopped while
\* the task could start one, and an upgrade that settles, unless a recovery resumes
\* its service, and an operation that ends have the task that their journal names.
THEOREM TaskIsKept == TaskSpec => TaskKept
<1>1. TaskInv' => TaskAsRecorded' BY DEF TaskInv, Undisturbed, LastFits, AsRecorded, TaskAsRecorded
<1>2. TaskInv /\ TaskInv' /\ [TaskNext]_taskVars => [TaskAsRecorded' /\ StopsHeld /\ EndsAsSaid]_taskVars
  BY <1>1, NothingStartsMeanwhile, SaidAtItsEnd
<1>3. QED BY <1>2, TaskInvariance, PTL DEF TaskSpec, TaskKept
=============================================================================

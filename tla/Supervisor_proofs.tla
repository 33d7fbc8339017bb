-------------------------- MODULE Supervisor_proofs --------------------------
(***************************************************************************)
(* Proofs about Supervisor, for any number of supervisors, bridges,        *)
(* requests and faults, on either platform: what a stop has promised, and  *)
(* what a client was told about admission, is true and stays so.           *)
(***************************************************************************)
EXTENDS Supervisor, SequenceTheorems, TLAPS

-----------------------------------------------------------------------------
(* Types. *)

BridgeIds == 1 .. MaxBridges
Maybe(S) == S \cup {None}

Sups ==
    [at : {"unborn", "born", "up", "gone"}, pending : BOOLEAN, initial : BOOLEAN,
     child : Maybe(Nat), ready : Maybe(Nat), readyHeld : BOOLEAN, retry : BOOLEAN,
     quiesced : Maybe(Nat), auth : Maybe(BridgeIds), asked : BOOLEAN, holds : BOOLEAN,
     stopping : BOOLEAN]

Orders == [kind : {"quiesce", "activate", "resume", "stop"}, r : Nat]
Words == [kind : {"ready"}, held : BOOLEAN] \cup [kind : {"result"}, r : Nat, ok : BOOLEAN]

Bridges ==
    [sup : SupIds, at : {"forked", "up", "gone"}, held : BOOLEAN, code : {0, 1, 3},
     noticed : BOOLEAN, proof : {"owed", "armed", "done", "failed"}, control : Maybe(Nat),
     change : Maybe({"body", "work"}), inbox : Seq(Orders), outbox : Seq(Words)]

Reqs ==
    [action : {"quiesce", "activate", "resume", "stop"}, auth : Maybe(BridgeIds), sup : SupIds,
     at : {"sent", "forwarded", "stopping", "answered"}, gone : BOOLEAN, bridge : Maybe(Nat),
     result : Maybe({"ok", "refused", "error", "stopped", "unverified", "uncertain"})]

SupervisorTypeOK ==
    /\ sup \in [SupIds -> Sups]
    /\ bridge \in Seq(Bridges) /\ Len(bridge) <= MaxBridges
    /\ req \in Seq(Reqs)
    /\ hold \in Maybe(Holds)
    /\ admission \in BOOLEAN
    /\ socket \in Maybe(SupIds)
    /\ ghost \in [stopped : Maybe(SupIds), told : {None, "open", "quiet"}]

-----------------------------------------------------------------------------
(* The invariant. *)

\* Only a supervisor that is up, or was, has bridges and requests.
Began(s) == sup[s].at \in {"up", "gone"}

\* A bridge of a supervisor that is up is its child, or its end was noticed.
Known(b) ==
    /\ Began(bridge[b].sup)
    /\ sup[bridge[b].sup].at = "up" =>
         b = sup[bridge[b].sup].child \/ (bridge[b].at = "gone" /\ bridge[b].noticed)

\* Another launch is due only when there is no child.
RetriesFree(s) == sup[s].retry => sup[s].child = None

\* Who waits for a stop has made the supervisor write the hold.
StopHeld(r) ==
    /\ Began(req[r].sup)
    /\ req[r].at = "stopping" /\ sup[req[r].sup].at = "up" => sup[req[r].sup].holds

Ended(s) == sup[s].at = "gone" /\ \A b \in Mine(s) : bridge[b].at = "gone"

ReceiptTrue ==
    hold # None /\ hold.stopped =>
      Ended(hold.sup) /\ \A b \in Mine(hold.sup) : bridge[b].proof = "done"

AnswerTrue == ghost.stopped # None => hold # None /\ Ended(ghost.stopped)

StopInv ==
    /\ SupervisorTypeOK
    /\ \A s \in SupIds : RetriesFree(s)
    /\ \A b \in DOMAIN bridge : Known(b)
    /\ \A r \in DOMAIN req : StopHeld(r)
    /\ ReceiptTrue /\ AnswerTrue

-----------------------------------------------------------------------------
(* Helpers. *)

LEMMA Entries ==
  ASSUME SupervisorTypeOK
  PROVE  /\ \A s \in SupIds : sup[s] \in Sups
         /\ DOMAIN bridge = 1 .. Len(bridge) /\ Len(bridge) \in Nat
         /\ \A b \in DOMAIN bridge : bridge[b] \in Bridges /\ b \in BridgeIds /\ b \in Nat
         /\ DOMAIN req = 1 .. Len(req) /\ Len(req) \in Nat
         /\ \A r \in DOMAIN req : req[r] \in Reqs /\ r \in Nat
         /\ MaxBridges \in Nat /\ MaxSups \in Nat
BY SupervisorAssumption DEF SupervisorTypeOK, BridgeIds

\* One entry of a list changes.
LEMMA EntryChanged ==
  ASSUME NEW S, NEW q \in Seq(S), NEW i \in DOMAIN q, NEW e \in S
  PROVE  /\ [q EXCEPT ![i] = e] \in Seq(S)
         /\ Len([q EXCEPT ![i] = e]) = Len(q)
         /\ DOMAIN [q EXCEPT ![i] = e] = DOMAIN q
         /\ \A j \in DOMAIN q : [q EXCEPT ![i] = e][j] = IF j = i THEN e ELSE q[j]
OBVIOUS

\* All entries of a list change.
LEMMA EntriesChanged ==
  ASSUME NEW S, NEW q \in Seq(S), NEW f, DOMAIN f = DOMAIN q, f = [i \in DOMAIN q |-> f[i]],
         \A i \in DOMAIN q : f[i] \in S
  PROVE  f \in Seq(S) /\ Len(f) = Len(q)
<1>1. DOMAIN q = 1 .. Len(q) /\ Len(q) \in Nat OBVIOUS
<1>2. f \in [1 .. Len(q) -> S] BY <1>1
<1> QED BY <1>1, <1>2

\* Answers are given to those that are meant, and to nobody else.
LEMMA AnswersGiven ==
  ASSUME SupervisorTypeOK, NEW rs,
         NEW what \in {"ok", "refused", "error", "stopped", "unverified", "uncertain"}
  PROVE  /\ Answers(rs, what) \in Seq(Reqs)
         /\ DOMAIN Answers(rs, what) = DOMAIN req
         /\ \A r \in DOMAIN req :
              /\ Answers(rs, what)[r].sup = req[r].sup
              /\ Answers(rs, what)[r].at = IF r \in rs THEN "answered" ELSE req[r].at
<1> DEFINE new(r) == [req[r] EXCEPT !.at = "answered", !.result = what]
<1>1. ASSUME NEW r \in DOMAIN req
      PROVE  new(r) \in Reqs /\ new(r).sup = req[r].sup /\ new(r).at = "answered"
  BY Entries DEF Reqs, Maybe
<1>2. \A r \in DOMAIN req : Answers(rs, what)[r] = IF r \in rs THEN new(r) ELSE req[r]
  BY DEF Answers
<1>3. DOMAIN Answers(rs, what) = DOMAIN req
      /\ Answers(rs, what) = [r \in DOMAIN req |-> Answers(rs, what)[r]]
  BY DEF Answers
<1> HIDE DEF new
<1>4. \A r \in DOMAIN req : Answers(rs, what)[r] \in Reqs BY <1>1, <1>2, Entries
<1>5. req \in Seq(Reqs) BY DEF SupervisorTypeOK
<1>6. Answers(rs, what) \in Seq(Reqs) BY <1>3, <1>4, <1>5, EntriesChanged
<1> QED BY <1>1, <1>2, <1>3, <1>6

\* A step that starts no supervisor and no bridge, and in which neither a
\* bridge nor a hold comes back, keeps the invariant.
BridgeKept(b) ==
    /\ bridge'[b].sup = bridge[b].sup
    /\ bridge[b].at = "gone" => bridge'[b].at = "gone"
    /\ bridge[b].noticed => bridge'[b].noticed
    /\ bridge[b].proof = "done" => bridge'[b].proof = "done"

SupKept(s) ==
    /\ Began(s) => Began(s)'
    /\ sup[s].at = "gone" => sup'[s].at = "gone"
    /\ sup'[s].at = "up" =>
         /\ sup[s].at = "up"
         /\ \/ sup'[s].child = sup[s].child
            \/ \A b \in DOMAIN bridge :
                 b = sup[s].child => bridge'[b].at = "gone" /\ bridge'[b].noticed
    /\ RetriesFree(s)'

LEMMA NothingComesBack ==
  ASSUME StopInv, SupervisorTypeOK', \A s \in SupIds : SupKept(s),
         DOMAIN bridge' = DOMAIN bridge, \A b \in DOMAIN bridge : BridgeKept(b),
         \A r \in DOMAIN req' : StopHeld(r)',
         hold' = hold \/ hold' = None \/ ~hold'.stopped,
         ghost'.stopped = ghost.stopped \/ ghost'.stopped = None,
         ghost'.stopped # None /\ hold # None => hold' # None
  PROVE  StopInv'
<1>1. \A s \in SupIds : RetriesFree(s)' BY DEF SupKept
<1>2. \A b \in DOMAIN bridge' : Known(b)'
 <2> SUFFICES ASSUME NEW b \in DOMAIN bridge PROVE Known(b)' OBVIOUS
 <2>1. Known(b) /\ BridgeKept(b) BY DEF StopInv
 <2>2. bridge[b].sup \in SupIds BY Entries DEF StopInv, Bridges
 <2>3. SupKept(bridge[b].sup) BY <2>2
 <2> QED BY <2>1, <2>3 DEF Known, SupKept, BridgeKept
<1>3. ReceiptTrue'
 <2> SUFFICES ASSUME (hold # None /\ hold.stopped)'
              PROVE  (Ended(hold.sup) /\ \A b \in Mine(hold.sup) : bridge[b].proof = "done")'
   BY DEF ReceiptTrue
 <2>1. hold' = hold OBVIOUS
 <2>2. Ended(hold.sup) /\ \A b \in Mine(hold.sup) : bridge[b].proof = "done"
   BY <2>1 DEF StopInv, ReceiptTrue
 <2>3. hold.sup \in SupIds BY <2>1 DEF StopInv, SupervisorTypeOK, Maybe, Holds
 <2>4. /\ sup'[hold.sup].at = "gone"
       /\ \A b \in DOMAIN bridge : bridge[b].sup = hold.sup =>
            bridge'[b].at = "gone" /\ bridge'[b].proof = "done"
   BY <2>2, <2>3 DEF Ended, Mine, SupKept, BridgeKept
 <2> QED BY <2>1, <2>4 DEF Ended, Mine, BridgeKept
<1>4. AnswerTrue'
 <2> SUFFICES ASSUME ghost'.stopped # None PROVE hold' # None /\ Ended(ghost.stopped)'
   BY DEF AnswerTrue
 <2>1. ghost'.stopped = ghost.stopped OBVIOUS
 <2>2. hold # None /\ Ended(ghost.stopped) BY <2>1 DEF StopInv, AnswerTrue
 <2>3. ghost.stopped \in SupIds BY <2>1 DEF StopInv, SupervisorTypeOK, Maybe
 <2>4. /\ sup'[ghost.stopped].at = "gone"
       /\ \A b \in DOMAIN bridge : bridge[b].sup = ghost.stopped => bridge'[b].at = "gone"
   BY <2>2, <2>3 DEF Ended, Mine, SupKept, BridgeKept
 <2> QED BY <2>1, <2>2, <2>4 DEF Ended, Mine, BridgeKept
<1> QED BY <1>1, <1>2, <1>3, <1>4 DEF StopInv

-----------------------------------------------------------------------------
(* The bridge alone. *)

\* What a bridge may become by itself.
Onward(b, m) ==
    /\ m \in Bridges
    /\ m.sup = bridge[b].sup /\ m.noticed = bridge[b].noticed
    /\ bridge[b].at = "gone" => m.at = "gone"
    /\ bridge[b].proof = "done" => m.proof = "done"

LEMMA BridgeStep ==
  ASSUME StopInv, NEW b \in DOMAIN bridge, NEW m, Onward(b, m), bridge' = [bridge EXCEPT ![b] = m],
         UNCHANGED <<sup, req, hold, admission, socket, ghost>>
  PROVE  StopInv'
<1>1. bridge \in Seq(Bridges) BY DEF StopInv, SupervisorTypeOK
<1>2. /\ bridge' \in Seq(Bridges) /\ Len(bridge') = Len(bridge)
      /\ DOMAIN bridge' = DOMAIN bridge
      /\ \A c \in DOMAIN bridge : bridge'[c] = IF c = b THEN m ELSE bridge[c]
  BY <1>1, EntryChanged DEF Onward
<1>3. SupervisorTypeOK' BY <1>2 DEF StopInv, SupervisorTypeOK
<1>4. \A c \in DOMAIN bridge : BridgeKept(c) BY <1>2 DEF BridgeKept, Onward
<1>5. \A s \in SupIds : SupKept(s) BY DEF StopInv, SupKept, Began, RetriesFree
<1>6. \A r \in DOMAIN req' : StopHeld(r)' BY DEF StopInv, StopHeld, Began
<1> QED BY <1>2, <1>3, <1>4, <1>5, <1>6, NothingComesBack

LEMMA BecameKeeps ==
  ASSUME StopInv, NEW b \in DOMAIN bridge, NEW m, Onward(b, m), Turns(b, m)
  PROVE  StopInv'
BY BridgeStep DEF Turns

\* A bridge says something.
LEMMA ReplyOnward ==
  ASSUME NEW b, NEW m, Onward(b, m), NEW r \in Nat, NEW ok \in BOOLEAN
  PROVE  Onward(b, Reply(m, r, ok))
<1> DEFINE word == [kind |-> "result", r |-> r, ok |-> ok]
           new == [m EXCEPT !.outbox = Append(@, word)]
<1>1. word \in Words BY DEF Words
<1>2. m \in Bridges /\ m.outbox \in Seq(Words) BY DEF Onward, Bridges
<1>3. Append(m.outbox, word) \in Seq(Words) BY <1>1, <1>2, AppendProperties
<1> HIDE DEF word
<1>4. /\ new \in Bridges /\ new.sup = m.sup /\ new.noticed = m.noticed
      /\ new.at = m.at /\ new.proof = m.proof
  BY <1>2, <1>3 DEF Bridges
<1> QED BY <1>4 DEF Onward, Reply, word

LEMMA ArmedKeeps ==
  ASSUME StopInv, NEW b \in DOMAIN bridge, Armed(b)
  PROVE  StopInv'
<1> DEFINE m == [bridge[b] EXCEPT !.proof = "armed"]
<1>1. bridge[b] \in Bridges BY Entries DEF StopInv
<1>2. bridge[b].proof = "owed" BY DEF Armed
<1>3. m \in Bridges /\ m.sup = bridge[b].sup /\ m.noticed = bridge[b].noticed
      /\ m.at = bridge[b].at
  BY <1>1 DEF Bridges
<1>4. Onward(b, m) BY <1>2, <1>3 DEF Onward
<1>5. bridge' = [bridge EXCEPT ![b] = m] BY DEF Armed
<1> QED BY <1>4, <1>5, BridgeStep DEF Armed

LEMMA BeginsKeeps ==
  ASSUME StopInv, NEW b \in DOMAIN bridge, Begins(b)
  PROVE  StopInv'
<1> DEFINE old == bridge[b]
           word == [kind |-> "ready", held |-> old.held]
           taken == [old EXCEPT !.at = "gone", !.code = 3]
           up == [old EXCEPT !.at = "up", !.outbox = Append(@, word)]
<1>1. old \in Bridges /\ old.at = "forked" BY Entries DEF StopInv, Begins
<1>2. Append(old.outbox, word) \in Seq(Words) BY <1>1, AppendProperties DEF Words, Bridges
<1> HIDE DEF word
<1>3. taken \in Bridges /\ taken.sup = old.sup /\ taken.noticed = old.noticed
      /\ taken.proof = old.proof
  BY <1>1 DEF Bridges
<1>4. up \in Bridges /\ up.sup = old.sup /\ up.noticed = old.noticed /\ up.proof = old.proof
  BY <1>1, <1>2 DEF Bridges
<1>5. Onward(b, taken) /\ Onward(b, up) BY <1>1, <1>3, <1>4 DEF Onward
<1>6. bridge' = [bridge EXCEPT ![b] = IF Listening THEN taken ELSE up] BY DEF Begins, word
<1> QED BY <1>5, <1>6, BridgeStep DEF Begins

LEMMA ChangeKeeps ==
  ASSUME StopInv, NEW b \in DOMAIN bridge, Admit(b) \/ BodyEnds(b) \/ WorkEnds(b)
  PROVE  StopInv'
<1>1. bridge[b] \in Bridges BY Entries DEF StopInv
<1>2. ASSUME NEW c \in Maybe({"body", "work"})
      PROVE  Onward(b, [bridge[b] EXCEPT !.change = c])
  BY <1>1 DEF Onward, Bridges
<1>3. \E c \in {"body", "work", None} : Turns(b, [bridge[b] EXCEPT !.change = c])
 <2>1. CASE Admit(b) BY <2>1 DEF Admit, Became
 <2>2. CASE BodyEnds(b) BY <2>2 DEF BodyEnds, Became
 <2>3. CASE WorkEnds(b) BY <2>3 DEF WorkEnds, Became
 <2> QED BY <2>1, <2>2, <2>3
<1> QED BY <1>2, <1>3, BecameKeeps DEF Maybe

LEMMA TakesKeeps ==
  ASSUME StopInv, NEW b \in DOMAIN bridge, Takes(b)
  PROVE  StopInv'
<1> DEFINE old == bridge[b]
           m == Head(old.inbox)
           taken == [old EXCEPT !.inbox = Tail(@)]
<1>1. old \in Bridges /\ old.inbox # <<>> BY Entries DEF StopInv, Takes
<1>2. Tail(old.inbox) \in Seq(Orders) /\ m.r \in Nat
 <2>1. old.inbox \in Seq(Orders) BY <1>1 DEF Bridges
 <2>2. m \in Orders /\ Tail(old.inbox) \in Seq(Orders) BY <1>1, <2>1, HeadTailProperties
 <2> QED BY <2>2 DEF Orders
<1>3. /\ taken \in Bridges /\ taken.sup = old.sup /\ taken.noticed = old.noticed
      /\ taken.at = old.at /\ taken.proof = old.proof
  BY <1>1, <1>2 DEF Bridges
<1> HIDE DEF taken
<1>4. ASSUME NEW held \in BOOLEAN, NEW c \in Maybe(Nat)
      PROVE  /\ Onward(b, [taken EXCEPT !.held = held])
             /\ Onward(b, [taken EXCEPT !.control = c])
             /\ Onward(b, [taken EXCEPT !.held = held, !.control = c])
  BY <1>3 DEF Onward, Bridges
<1>5. Onward(b, taken) BY <1>3 DEF Onward
<1>6. m.r \in Maybe(Nat) BY <1>2 DEF Maybe
<1>7. Onward(b, Reply(taken, m.r, FALSE)) /\ Onward(b, Reply([taken EXCEPT !.held = FALSE], m.r, TRUE))
  BY <1>2, <1>4, <1>5, <1>6, ReplyOnward
<1>8. PICK n \in {Reply(taken, m.r, FALSE), Reply([taken EXCEPT !.held = FALSE], m.r, TRUE),
                  [taken EXCEPT !.held = TRUE, !.control = m.r], [taken EXCEPT !.control = m.r]} :
        Turns(b, n)
 <2>1. CASE old.control # None BY <2>1 DEF Takes, Became, taken
 <2>2. CASE old.control = None
  <3>1. m \in Orders BY <1>1, HeadTailProperties DEF Bridges
  <3>2. m.kind \in {"quiesce", "activate", "resume"} BY <3>1 DEF Takes, Orders
  <3> QED BY <2>2, <3>2 DEF Takes, Became, taken
 <2> QED BY <2>1, <2>2
<1> QED BY <1>4, <1>6, <1>7, <1>8, BecameKeeps

LEMMA ControlledKeeps ==
  ASSUME StopInv, NEW b \in DOMAIN bridge, Controlled(b)
  PROVE  StopInv'
<1> DEFINE old == bridge[b]
           r == old.control
           done == [old EXCEPT !.control = None]
           open == [done EXCEPT !.held = FALSE]
<1>1. old \in Bridges /\ r \in Nat BY Entries DEF StopInv, Controlled, Bridges, Maybe
<1>2. /\ done \in Bridges /\ done.sup = old.sup /\ done.noticed = old.noticed
      /\ done.at = old.at /\ done.proof = old.proof
  BY <1>1 DEF Bridges, Maybe
<1> HIDE DEF done
<1>3. /\ open \in Bridges /\ open.sup = old.sup /\ open.noticed = old.noticed
      /\ open.at = old.at /\ open.proof = old.proof
  BY <1>2 DEF Bridges
<1> HIDE DEF open
<1>4. \A ok \in BOOLEAN : Onward(b, Reply(done, r, ok)) /\ Onward(b, Reply(open, r, ok))
  BY <1>1, <1>2, <1>3, ReplyOnward DEF Onward
<1>5. Drained(b) \in BOOLEAN BY DEF Drained, Works
<1>6. \/ Turns(b, Reply(done, r, FALSE)) \/ Turns(b, Reply(open, r, TRUE))
      \/ Turns(b, Reply(done, r, Drained(b)))
  BY DEF Controlled, Became, done, open
<1> QED BY <1>4, <1>5, <1>6, BecameKeeps

LEMMA DeathKeeps ==
  ASSUME StopInv, NEW b \in DOMAIN bridge, Stopping(b) \/ Crash(b)
  PROVE  StopInv'
<1>1. bridge[b] \in Bridges BY Entries DEF StopInv
<1>2. <<>> \in Seq(Orders) OBVIOUS
<1>3. ASSUME NEW code \in {0, 1} PROVE Onward(b, Dead(b, code))
  BY <1>1, <1>2 DEF Onward, Dead, Bridges, Maybe
<1>4. Turns(b, Dead(b, 0)) \/ Turns(b, Dead(b, 1)) BY DEF Stopping, Crash, Became
<1> QED BY <1>3, <1>4, BecameKeeps

LEMMA ProofKeeps ==
  ASSUME StopInv, NEW b \in DOMAIN bridge, Proved(b) \/ Unproved(b)
  PROVE  StopInv'
<1>1. bridge[b] \in Bridges BY Entries DEF StopInv
<1>2. PICK proof \in {"done", "failed"} : Proof(b, proof) BY DEF Proved, Unproved
<1>3. bridge[b].proof = "armed" BY <1>2 DEF Proof
<1>4. Onward(b, [bridge[b] EXCEPT !.proof = proof]) BY <1>1, <1>3 DEF Onward, Bridges
<1> QED BY <1>2, <1>4, BecameKeeps DEF Proof

-----------------------------------------------------------------------------
(* The supervisor, but for launches and ends. *)

LEMMA SupChanged ==
  ASSUME SupervisorTypeOK, NEW s \in SupIds, NEW m \in Sups, sup' = [sup EXCEPT ![s] = m]
  PROVE  /\ sup' \in [SupIds -> Sups]
         /\ \A t \in SupIds : sup'[t] = IF t = s THEN m ELSE sup[t]
BY DEF SupervisorTypeOK

\* What the supervisor may become while no bridge comes or goes.
Steady(s, m) ==
    /\ m \in Sups
    /\ m.at = sup[s].at /\ m.child = sup[s].child
    /\ m.retry => sup[s].retry
    /\ sup[s].holds => m.holds

LEMMA SteadyKeeps ==
  ASSUME StopInv, NEW s \in SupIds, NEW m, Steady(s, m), sup' = [sup EXCEPT ![s] = m],
         bridge' \in Seq(Bridges), Len(bridge') = Len(bridge), DOMAIN bridge' = DOMAIN bridge,
         \A b \in DOMAIN bridge : BridgeKept(b), req' \in Seq(Reqs), DOMAIN req' = DOMAIN req,
         \A r \in DOMAIN req :
            /\ req'[r].sup = req[r].sup
            /\ req'[r].at = "stopping" => req[r].at = "stopping" \/ (req[r].sup = s /\ m.holds),
         hold' = hold \/ (hold' \in Holds /\ ~hold'.stopped),
         admission' \in BOOLEAN, UNCHANGED socket,
         ghost' \in [stopped : Maybe(SupIds), told : {None, "open", "quiet"}],
         ghost'.stopped = ghost.stopped
  PROVE  StopInv'
<1>1. /\ sup' \in [SupIds -> Sups]
      /\ \A t \in SupIds : sup'[t] = IF t = s THEN m ELSE sup[t]
  BY SupChanged DEF StopInv, Steady
<1>2. SupervisorTypeOK' BY <1>1 DEF StopInv, SupervisorTypeOK, Maybe
<1>3. \A t \in SupIds : SupKept(t) BY <1>1 DEF StopInv, Steady, SupKept, Began, RetriesFree
<1>4. \A r \in DOMAIN req' : StopHeld(r)'
 <2> SUFFICES ASSUME NEW r \in DOMAIN req PROVE StopHeld(r)' OBVIOUS
 <2>1. StopHeld(r) /\ req[r].sup \in SupIds BY Entries DEF StopInv, Reqs
 <2> QED BY <1>1, <2>1 DEF StopHeld, Began, Steady
<1>5. hold # None => hold' # None BY SupervisorAssumption
<1> QED BY <1>2, <1>3, <1>4, <1>5, NothingComesBack

\* A message to the bridge changes nothing else.
LEMMA TellKeeps ==
  ASSUME SupervisorTypeOK, NEW b, NEW order \in Orders,
         bridge' = bridge \/ bridge' = Tell(b, order)
  PROVE  /\ bridge' \in Seq(Bridges) /\ Len(bridge') = Len(bridge)
         /\ DOMAIN bridge' = DOMAIN bridge
         /\ \A c \in DOMAIN bridge : BridgeKept(c)
<1>1. bridge \in Seq(Bridges) BY DEF SupervisorTypeOK
<1>2. CASE bridge' = bridge BY <1>1, <1>2 DEF BridgeKept
<1>3. CASE bridge' = Tell(b, order) /\ b \in DOMAIN bridge
 <2> DEFINE m == [bridge[b] EXCEPT !.inbox = Append(@, order)]
 <2>1. bridge[b] \in Bridges BY <1>3, Entries
 <2>2. Append(bridge[b].inbox, order) \in Seq(Orders) BY <2>1, AppendProperties DEF Bridges
 <2>3. /\ m \in Bridges /\ m.sup = bridge[b].sup /\ m.at = bridge[b].at
       /\ m.noticed = bridge[b].noticed /\ m.proof = bridge[b].proof
   BY <2>1, <2>2 DEF Bridges
 <2>4. bridge' = [bridge EXCEPT ![b] = m] BY <1>3 DEF Tell
 <2> HIDE DEF m
 <2>5. /\ bridge' \in Seq(Bridges) /\ Len(bridge') = Len(bridge)
       /\ DOMAIN bridge' = DOMAIN bridge
       /\ \A c \in DOMAIN bridge : bridge'[c] = IF c = b THEN m ELSE bridge[c]
   BY <1>1, <1>3, <2>3, <2>4, EntryChanged
 <2> QED BY <2>3, <2>5 DEF BridgeKept
<1>4. CASE bridge' = Tell(b, order) /\ b \notin DOMAIN bridge
 <2>1. DOMAIN bridge' = DOMAIN bridge /\ \A c \in DOMAIN bridge : bridge'[c] = bridge[c]
   BY <1>4 DEF Tell
 <2>2. bridge' = [c \in DOMAIN bridge |-> bridge'[c]] BY <1>4 DEF Tell
 <2>3. bridge' \in Seq(Bridges) /\ Len(bridge') = Len(bridge)
   BY <1>1, <2>1, <2>2, Entries, EntriesChanged
 <2> QED BY <2>1, <2>3 DEF BridgeKept
<1> QED BY <1>2, <1>3, <1>4

\* Nor does hearing what a bridge says.
LEMMA HeardKeeps ==
  ASSUME SupervisorTypeOK, NEW b \in DOMAIN bridge, NEW kind, Speaks(b, kind), bridge' = Heard(b)
  PROVE  /\ bridge' \in Seq(Bridges) /\ Len(bridge') = Len(bridge)
         /\ DOMAIN bridge' = DOMAIN bridge
         /\ \A c \in DOMAIN bridge : BridgeKept(c)
         /\ Head(bridge[b].outbox) \in Words
<1> DEFINE m == [bridge[b] EXCEPT !.outbox = Tail(@)]
<1>1. bridge[b] \in Bridges /\ bridge[b].outbox # <<>> BY Entries DEF Speaks
<1>2. Tail(bridge[b].outbox) \in Seq(Words) /\ Head(bridge[b].outbox) \in Words
  BY <1>1, HeadTailProperties DEF Bridges
<1>3. /\ m \in Bridges /\ m.sup = bridge[b].sup /\ m.at = bridge[b].at
      /\ m.noticed = bridge[b].noticed /\ m.proof = bridge[b].proof
  BY <1>1, <1>2 DEF Bridges
<1>4. bridge' = [bridge EXCEPT ![b] = m] BY DEF Heard
<1> HIDE DEF m
<1>5. /\ bridge' \in Seq(Bridges) /\ Len(bridge') = Len(bridge)
      /\ DOMAIN bridge' = DOMAIN bridge
      /\ \A c \in DOMAIN bridge : bridge'[c] = IF c = b THEN m ELSE bridge[c]
  BY <1>3, <1>4, EntryChanged DEF SupervisorTypeOK
<1> QED BY <1>2, <1>3, <1>5 DEF BridgeKept

LEMMA BornKeeps ==
  ASSUME StopInv, NEW s \in SupIds, NEW explicit \in BOOLEAN, NEW pending \in BOOLEAN,
         Born(s, explicit, pending)
  PROVE  StopInv'
<1> DEFINE m == [sup[s] EXCEPT !.at = "born", !.initial = pending]
<1>1. sup[s] \in Sups /\ sup[s].at = "unborn" BY Entries DEF StopInv, Born
<1>2. m \in Sups /\ m.at = "born" /\ m.child = sup[s].child /\ m.retry = sup[s].retry
  BY <1>1 DEF Sups
<1>3. sup' = [sup EXCEPT ![s] = m] BY DEF Born
<1> HIDE DEF m
<1>4. /\ sup' \in [SupIds -> Sups]
      /\ \A t \in SupIds : sup'[t] = IF t = s THEN m ELSE sup[t]
  BY <1>2, <1>3, SupChanged DEF StopInv
<1>5. UNCHANGED <<bridge, req, admission, socket>> /\ hold' = None BY DEF Born
<1>6. ghost' \in [stopped : Maybe(SupIds), told : {None, "open", "quiet"}]
      /\ (ghost' = ghost \/ ghost'.stopped = None)
  BY DEF Born, StopInv, SupervisorTypeOK, Maybe
<1>7. ghost'.stopped # None /\ hold # None => hold' # None
 <2>1. CASE explicit BY <2>1 DEF StopInv, SupervisorTypeOK, Born
 <2>2. CASE ~explicit BY <2>2 DEF Born
 <2> QED BY <2>1, <2>2
<1>8. SupervisorTypeOK' BY <1>4, <1>5, <1>6 DEF StopInv, SupervisorTypeOK, Maybe
<1>9. \A t \in SupIds : SupKept(t) BY <1>1, <1>2, <1>4 DEF StopInv, SupKept, Began, RetriesFree
<1>10. \A b \in DOMAIN bridge : BridgeKept(b) BY <1>5 DEF BridgeKept
<1>11. \A r \in DOMAIN req' : StopHeld(r)'
 <2> SUFFICES ASSUME NEW r \in DOMAIN req PROVE StopHeld(r)' BY <1>5
 <2>1. StopHeld(r) /\ req[r].sup \in SupIds BY Entries DEF StopInv, Reqs
 <2> QED BY <1>1, <1>4, <1>5, <2>1 DEF StopHeld, Began
<1> QED BY <1>5, <1>6, <1>7, <1>8, <1>9, <1>10, <1>11, NothingComesBack

\* What stop() does at once.
LEMMA StopsKeeps ==
  ASSUME StopInv, NEW s \in SupIds, NEW m, NEW holds \in BOOLEAN, Steady(s, m), Stops(s, holds, m)
  PROVE  /\ sup' = [sup EXCEPT ![s] = m]
         /\ bridge' \in Seq(Bridges) /\ Len(bridge') = Len(bridge)
         /\ DOMAIN bridge' = DOMAIN bridge
         /\ \A b \in DOMAIN bridge : BridgeKept(b)
         /\ hold' = hold \/ (hold' \in Holds /\ ~hold'.stopped)
<1> DEFINE order == [kind |-> "stop", r |-> 0]
<1>1. order \in Orders BY DEF Orders
<1>2. bridge' = bridge \/ bridge' = Tell(sup[s].child, order) BY DEF Stops
<1>3. [sup |-> s, stopped |-> FALSE, auth |-> None] \in Holds BY DEF Holds
<1>4. hold' = hold \/ (hold' \in Holds /\ ~hold'.stopped) BY <1>3 DEF Stops, Held
<1> HIDE DEF order
<1>5. SupervisorTypeOK BY DEF StopInv
<1> QED BY <1>1, <1>2, <1>4, <1>5, TellKeeps DEF Stops

LEMMA AskedSteady ==
  ASSUME StopInv, NEW s \in SupIds, NEW holds \in BOOLEAN
  PROVE  /\ Steady(s, Asked(s, holds))
         /\ holds => Asked(s, holds).holds
<1>1. sup[s] \in Sups BY Entries DEF StopInv
<1>2. sup[s].holds \/ holds \in BOOLEAN BY <1>1 DEF Sups
<1> DEFINE h == sup[s].holds \/ holds
           m == [sup[s] EXCEPT !.asked = TRUE, !.retry = FALSE, !.stopping = TRUE, !.holds = h]
<1>3. h \in BOOLEAN BY <1>1 DEF Sups
<1> HIDE DEF h
<1>4. /\ m \in Sups /\ m.at = sup[s].at /\ m.child = sup[s].child /\ ~m.retry
      /\ m.holds = h
  BY <1>1, <1>3 DEF Sups
<1>5. Asked(s, holds) = m BY DEF Asked, h
<1> HIDE DEF m
<1> QED BY <1>4, <1>5 DEF Steady, h

LEMMA SignalKeeps ==
  ASSUME StopInv, NEW s \in SupIds, Signal(s)
  PROVE  StopInv'
<1> DEFINE m == Asked(s, FALSE)
<1>1. Steady(s, m) BY AskedSteady
<1>2. Stops(s, FALSE, m) /\ UNCHANGED <<req, admission, socket, ghost>> BY DEF Signal
<1> HIDE DEF m
<1>3. /\ sup' = [sup EXCEPT ![s] = m]
      /\ bridge' \in Seq(Bridges) /\ Len(bridge') = Len(bridge)
      /\ DOMAIN bridge' = DOMAIN bridge
      /\ \A b \in DOMAIN bridge : BridgeKept(b)
      /\ hold' = hold \/ (hold' \in Holds /\ ~hold'.stopped)
  BY <1>1, <1>2, StopsKeeps
<1> QED BY <1>1, <1>2, <1>3, SteadyKeeps DEF StopInv, SupervisorTypeOK

LEMMA StopFailsKeeps ==
  ASSUME StopInv, NEW s \in SupIds, StopFails(s)
  PROVE  StopInv'
<1> DEFINE m == [sup[s] EXCEPT !.stopping = FALSE]
<1>1. sup[s] \in Sups BY Entries DEF StopInv
<1>2. Steady(s, m) BY <1>1 DEF Steady, Sups
<1>3. /\ sup' = [sup EXCEPT ![s] = m] /\ req' = Answers(Waiting(s), "unverified")
      /\ UNCHANGED <<bridge, hold, admission, socket, ghost>>
  BY DEF StopFails
<1> HIDE DEF m
<1>4. /\ req' \in Seq(Reqs) /\ DOMAIN req' = DOMAIN req
      /\ \A r \in DOMAIN req :
           /\ req'[r].sup = req[r].sup
           /\ req'[r].at = "stopping" => req[r].at = "stopping"
  BY <1>3, AnswersGiven DEF StopInv
<1>5. \A b \in DOMAIN bridge : BridgeKept(b) BY <1>3 DEF BridgeKept
<1> QED BY <1>2, <1>3, <1>4, <1>5, SteadyKeeps DEF StopInv, SupervisorTypeOK

LEMMA StopKeeps ==
  ASSUME StopInv, NEW r \in DOMAIN req, Stop(r)
  PROVE  StopInv'
<1> DEFINE s == req[r].sup
           auth == req[r].auth
           asked == Asked(s, TRUE)
           m == [asked EXCEPT !.auth = IF auth # None THEN auth ELSE @]
           waits == [req[r] EXCEPT !.at = "stopping"]
<1>1. req[r] \in Reqs /\ s \in SupIds /\ auth \in Maybe(BridgeIds) BY Entries DEF StopInv, Reqs
<1>2. UNCHANGED <<admission, socket, ghost>> BY DEF Stop
<1>3. CASE req' = Answers({r}, "refused") /\ UNCHANGED <<sup, bridge, hold>>
 <2>1. /\ req' \in Seq(Reqs) /\ DOMAIN req' = DOMAIN req
       /\ \A q \in DOMAIN req :
            /\ req'[q].sup = req[q].sup
            /\ req'[q].at = "stopping" => req[q].at = "stopping"
  <3>1. SupervisorTypeOK BY DEF StopInv
  <3>2. /\ Answers({r}, "refused") \in Seq(Reqs)
        /\ DOMAIN Answers({r}, "refused") = DOMAIN req
        /\ \A q \in DOMAIN req :
             /\ Answers({r}, "refused")[q].sup = req[q].sup
             /\ Answers({r}, "refused")[q].at = IF q \in {r} THEN "answered" ELSE req[q].at
    BY <3>1, AnswersGiven
  <3> QED BY <1>3, <3>2
 <2>2. \A b \in DOMAIN bridge : BridgeKept(b) BY <1>3 DEF BridgeKept
 <2>3. sup' = [sup EXCEPT ![s] = sup[s]] /\ Steady(s, sup[s])
   BY <1>1, <1>3, Entries DEF StopInv, SupervisorTypeOK, Steady
 <2> QED BY <1>1, <1>2, <1>3, <2>1, <2>2, <2>3, SteadyKeeps DEF StopInv, SupervisorTypeOK
<1>4. CASE Stops(s, TRUE, m) /\ req' = [req EXCEPT ![r].at = "stopping"]
 <2>1. Steady(s, asked) /\ asked.holds BY <1>1, AskedSteady
 <2> HIDE DEF asked, s, auth
 <2>2. Steady(s, m) /\ m.holds BY <2>1, <1>1 DEF Steady, Sups
 <2> HIDE DEF m
 <2>3. /\ sup' = [sup EXCEPT ![s] = m]
       /\ bridge' \in Seq(Bridges) /\ Len(bridge') = Len(bridge)
       /\ DOMAIN bridge' = DOMAIN bridge
       /\ \A b \in DOMAIN bridge : BridgeKept(b)
       /\ hold' = hold \/ (hold' \in Holds /\ ~hold'.stopped)
   BY <1>1, <1>4, <2>2, StopsKeeps
 <2>4. waits \in Reqs /\ waits.sup = req[r].sup /\ waits.at = "stopping" BY <1>1 DEF Reqs
 <2>5. req' = [req EXCEPT ![r] = waits] BY <1>4
 <2> HIDE DEF waits
 <2>6. /\ req' \in Seq(Reqs) /\ DOMAIN req' = DOMAIN req
       /\ \A q \in DOMAIN req : req'[q] = IF q = r THEN waits ELSE req[q]
   BY <2>4, <2>5, EntryChanged DEF StopInv, SupervisorTypeOK
 <2>7. \A q \in DOMAIN req :
         /\ req'[q].sup = req[q].sup
         /\ req'[q].at = "stopping" => req[q].at = "stopping" \/ (req[q].sup = s /\ m.holds)
   BY <2>2, <2>4, <2>6 DEF s
 <2> QED BY <1>1, <1>2, <2>2, <2>3, <2>6, <2>7, SteadyKeeps DEF StopInv, SupervisorTypeOK
<1>5. \/ req' = Answers({r}, "refused") /\ UNCHANGED <<sup, bridge, hold>>
      \/ Stops(s, TRUE, m) /\ req' = [req EXCEPT ![r].at = "stopping"]
  BY Zenon DEF Stop
<1> QED BY <1>3, <1>4, <1>5

\* Answers keep what is known of the requests.
LEMMA AnswersKeep ==
  ASSUME StopInv, NEW rs, NEW what \in {"ok", "refused", "error", "unverified", "uncertain"},
         req' = Answers(rs, what)
  PROVE  /\ req' \in Seq(Reqs) /\ DOMAIN req' = DOMAIN req
         /\ \A r \in DOMAIN req :
              /\ req'[r].sup = req[r].sup
              /\ req'[r].at = "stopping" => req[r].at = "stopping"
<1>1. SupervisorTypeOK BY DEF StopInv
<1>2. /\ Answers(rs, what) \in Seq(Reqs) /\ DOMAIN Answers(rs, what) = DOMAIN req
      /\ \A r \in DOMAIN req :
           /\ Answers(rs, what)[r].sup = req[r].sup
           /\ Answers(rs, what)[r].at = IF r \in rs THEN "answered" ELSE req[r].at
  BY <1>1, AnswersGiven
<1> QED BY <1>2

LEMMA ControlKeeps ==
  ASSUME StopInv, NEW r \in DOMAIN req, Control(r)
  PROVE  StopInv'
<1> DEFINE s == req[r].sup
           closes == sup[s].pending \/ Closes(r)
           m == [sup[s] EXCEPT !.pending = closes]
           order == [kind |-> req[r].action, r |-> r]
           sent == [req[r] EXCEPT !.at = "forwarded", !.bridge = sup[s].child]
<1>1. req[r] \in Reqs /\ s \in SupIds /\ sup[s] \in Sups /\ r \in Nat BY Entries DEF StopInv, Reqs
<1>2. UNCHANGED <<hold, socket, ghost>> /\ sup' = [sup EXCEPT ![s].pending = closes] BY DEF Control
<1>3. closes \in BOOLEAN /\ admission' \in BOOLEAN
  BY <1>1 DEF Control, Sups, Closes, StopInv, SupervisorTypeOK
<1>4. sup' = [sup EXCEPT ![s] = m] BY <1>1, <1>2
<1> HIDE DEF closes
<1>5. Steady(s, m) BY <1>1, <1>3 DEF Steady, Sups
<1>6. order \in Orders BY <1>1 DEF Orders, Reqs
<1>7. bridge' = bridge \/ bridge' = Tell(sup[s].child, order) BY DEF Control
<1>8. req' = Answers({r}, "error")
      \/ req' = [req EXCEPT ![r].at = "forwarded", ![r].bridge = sup[s].child]
  BY DEF Control
<1> HIDE DEF m, order
<1>9. SupervisorTypeOK BY DEF StopInv
<1>10. /\ bridge' \in Seq(Bridges) /\ Len(bridge') = Len(bridge)
       /\ DOMAIN bridge' = DOMAIN bridge
       /\ \A b \in DOMAIN bridge : BridgeKept(b)
  BY <1>6, <1>7, <1>9, TellKeeps
<1>11. /\ req' \in Seq(Reqs) /\ DOMAIN req' = DOMAIN req
       /\ \A q \in DOMAIN req :
            /\ req'[q].sup = req[q].sup
            /\ req'[q].at = "stopping" => req[q].at = "stopping"
 <2>1. CASE req' = Answers({r}, "error") BY <2>1, AnswersKeep
 <2>2. CASE req' = [req EXCEPT ![r].at = "forwarded", ![r].bridge = sup[s].child]
  <3>1. sent \in Reqs /\ sent.sup = req[r].sup /\ sent.at = "forwarded" BY <1>1 DEF Reqs, Sups
  <3>2. req' = [req EXCEPT ![r] = sent] BY <2>2
  <3> HIDE DEF sent
  <3>3. /\ req' \in Seq(Reqs) /\ DOMAIN req' = DOMAIN req
        /\ \A q \in DOMAIN req : req'[q] = IF q = r THEN sent ELSE req[q]
    BY <1>9, <3>1, <3>2, EntryChanged DEF SupervisorTypeOK
  <3> QED BY <3>1, <3>3
 <2> QED BY <1>8, <2>1, <2>2
<1> QED BY <1>1, <1>2, <1>3, <1>4, <1>5, <1>9, <1>10, <1>11, SteadyKeeps DEF SupervisorTypeOK

\* A step of the clients changes requests only.
LEMMA ClientsKeep ==
  ASSUME StopInv, UNCHANGED <<sup, bridge, hold, admission, socket>>, req' \in Seq(Reqs),
         \A r \in DOMAIN req' : StopHeld(r)',
         ghost' \in [stopped : Maybe(SupIds), told : {None, "open", "quiet"}],
         ghost'.stopped = ghost.stopped
  PROVE  StopInv'
<1>1. SupervisorTypeOK' BY DEF StopInv, SupervisorTypeOK
<1>2. \A s \in SupIds : SupKept(s) BY DEF StopInv, SupKept, Began, RetriesFree
<1>3. \A b \in DOMAIN bridge : BridgeKept(b) BY DEF BridgeKept
<1> QED BY <1>1, <1>2, <1>3, NothingComesBack

LEMMA UncertainKeeps ==
  ASSUME StopInv, NEW r \in DOMAIN req, Uncertain(r)
  PROVE  StopInv'
<1>1. UNCHANGED <<sup, bridge, hold, admission, socket, ghost>>
      /\ req' = Answers({r}, "uncertain")
  BY DEF Uncertain
<1>2. /\ req' \in Seq(Reqs) /\ DOMAIN req' = DOMAIN req
      /\ \A q \in DOMAIN req :
           /\ req'[q].sup = req[q].sup
           /\ req'[q].at = "stopping" => req[q].at = "stopping"
  BY <1>1, AnswersKeep
<1>3. \A q \in DOMAIN req' : StopHeld(q)' BY <1>1, <1>2, SMTT(30), ZenonT(30) DEF StopInv, StopHeld, Began
<1> QED BY <1>1, <1>2, <1>3, ClientsKeep DEF StopInv, SupervisorTypeOK

LEMMA GivesUpKeeps ==
  ASSUME StopInv, NEW r \in DOMAIN req, GivesUp(r)
  PROVE  StopInv'
<1> DEFINE m == [req[r] EXCEPT !.gone = TRUE]
<1>1. UNCHANGED <<sup, bridge, hold, admission, socket, ghost>>
      /\ req' = [req EXCEPT ![r] = m]
  BY DEF GivesUp
<1>2. m \in Reqs /\ m.sup = req[r].sup /\ m.at = req[r].at BY Entries DEF StopInv, Reqs
<1> HIDE DEF m
<1>3. /\ req' \in Seq(Reqs) /\ DOMAIN req' = DOMAIN req
      /\ \A q \in DOMAIN req : req'[q] = IF q = r THEN m ELSE req[q]
  BY <1>1, <1>2, EntryChanged DEF StopInv, SupervisorTypeOK
<1>4. \A q \in DOMAIN req' : StopHeld(q)' BY <1>1, <1>2, <1>3 DEF StopInv, StopHeld, Began
<1> QED BY <1>1, <1>3, <1>4, ClientsKeep DEF StopInv, SupervisorTypeOK

LEMMA AsksKeeps ==
  ASSUME StopInv, Request
  PROVE  StopInv'
<1>1. PICK action \in {"quiesce", "activate", "resume", "stop"},
           auth \in DOMAIN bridge \cup {None} : Asks(action, auth)
  BY DEF Request
<1> DEFINE r == [action |-> action, auth |-> auth, sup |-> socket, at |-> "sent",
                 gone |-> FALSE, bridge |-> None, result |-> None]
<1>2. UNCHANGED <<sup, bridge, hold, admission, socket>> /\ req' = Append(req, r) BY <1>1 DEF Asks
<1>3. socket \in SupIds /\ sup[socket].at = "up" BY <1>1 DEF Asks, StopInv, SupervisorTypeOK, Maybe
<1>4. auth \in Maybe(BridgeIds) BY Entries DEF StopInv, Maybe
<1>5. r \in Reqs /\ r.at = "sent" /\ r.sup = socket BY <1>3, <1>4 DEF Reqs, Maybe
<1> HIDE DEF r
<1>6. req \in Seq(Reqs) BY DEF StopInv, SupervisorTypeOK
<1>7. /\ req' \in Seq(Reqs)
      /\ \A q \in DOMAIN req' : (q \in DOMAIN req /\ req'[q] = req[q]) \/ req'[q] = r
  BY <1>2, <1>5, <1>6
<1>8. \A q \in DOMAIN req' : StopHeld(q)'
 <2> SUFFICES ASSUME NEW q \in DOMAIN req' PROVE StopHeld(q)' OBVIOUS
 <2>1. CASE q \in DOMAIN req /\ req'[q] = req[q] BY <1>2, <2>1 DEF StopInv, StopHeld, Began
 <2>2. CASE req'[q] = r BY <1>2, <1>3, <1>5, <2>2 DEF StopHeld, Began
 <2> QED BY <1>7, <2>1, <2>2
<1>9. ghost' \in [stopped : Maybe(SupIds), told : {None, "open", "quiet"}]
      /\ ghost'.stopped = ghost.stopped
 <2>1. PICK told \in {ghost.told, None} : ghost' = [ghost EXCEPT !.told = told] BY <1>1 DEF Asks
 <2> QED BY <2>1 DEF StopInv, SupervisorTypeOK
<1> QED BY <1>2, <1>7, <1>8, <1>9, ClientsKeep

LEMMA ReadyKeeps ==
  ASSUME StopInv, NEW b \in DOMAIN bridge, Ready(b)
  PROVE  StopInv'
<1> DEFINE s == bridge[b].sup
           word == Head(bridge[b].outbox)
           m == [sup[s] EXCEPT !.ready = b, !.readyHeld = word.held]
<1>1. SupervisorTypeOK /\ s \in SupIds /\ sup[s] \in Sups /\ b \in Nat
  BY Entries DEF StopInv, Bridges
<1>2. Speaks(b, "ready") /\ bridge' = Heard(b) /\ UNCHANGED <<req, hold, admission, socket, ghost>>
  BY DEF Ready
<1>3. /\ bridge' \in Seq(Bridges) /\ Len(bridge') = Len(bridge)
      /\ DOMAIN bridge' = DOMAIN bridge
      /\ \A c \in DOMAIN bridge : BridgeKept(c)
      /\ word \in Words
  BY <1>1, <1>2, HeardKeeps
<1>4. word.held \in BOOLEAN BY <1>2, <1>3 DEF Speaks, Words
<1>5. sup' = sup \/ sup' = [sup EXCEPT ![s] = m] BY DEF Ready
<1> HIDE DEF word
<1>6. Steady(s, m) /\ Steady(s, sup[s]) BY <1>1, <1>4 DEF Steady, Sups, Maybe
<1> HIDE DEF m
<1>7. sup' = [sup EXCEPT ![s] = m] \/ sup' = [sup EXCEPT ![s] = sup[s]]
  BY <1>1, <1>5 DEF SupervisorTypeOK
<1>8. /\ req' \in Seq(Reqs) /\ DOMAIN req' = DOMAIN req
      /\ \A r \in DOMAIN req : req'[r] = req[r]
  BY <1>1, <1>2 DEF SupervisorTypeOK
<1> QED BY <1>1, <1>2, <1>3, <1>6, <1>7, <1>8, SteadyKeeps DEF SupervisorTypeOK

LEMMA ResultKeeps ==
  ASSUME StopInv, NEW b \in DOMAIN bridge, Result(b)
  PROVE  StopInv'
<1> DEFINE s == bridge[b].sup
           word == Head(bridge[b].outbox)
           opened == [sup[s] EXCEPT !.pending = FALSE, !.initial = FALSE, !.quiesced = None]
           closed == [sup[s] EXCEPT !.quiesced = b]
<1>1. SupervisorTypeOK /\ s \in SupIds /\ sup[s] \in Sups /\ b \in Nat
  BY Entries DEF StopInv, Bridges
<1>2. Speaks(b, "result") /\ bridge' = Heard(b) /\ UNCHANGED <<hold, socket>> BY DEF Result
<1>3. /\ bridge' \in Seq(Bridges) /\ Len(bridge') = Len(bridge)
      /\ DOMAIN bridge' = DOMAIN bridge
      /\ \A c \in DOMAIN bridge : BridgeKept(c)
  BY <1>1, <1>2, HeardKeeps
<1>4. Steady(s, opened) /\ Steady(s, closed) /\ Steady(s, sup[s]) BY <1>1 DEF Steady, Sups, Maybe
<1>5. /\ sup' = sup \/ sup' = [sup EXCEPT ![s] = opened] \/ sup' = [sup EXCEPT ![s] = closed]
      /\ \E what \in {"error", "ok", "refused"} : req' = req \/ req' = Answers({word.r}, what)
      /\ admission' = admission \/ admission' \in BOOLEAN
      /\ \E told \in {ghost.told, "open", "quiet"} :
           ghost' = ghost \/ ghost' = [ghost EXCEPT !.told = told]
 <2>1. CASE req[word.r].at = "forwarded" BY <2>1 DEF Result
 <2>2. CASE req[word.r].at # "forwarded" BY <2>2 DEF Result
 <2> QED BY <2>1, <2>2
<1> HIDE DEF opened, closed, word
<1>6. sup' = [sup EXCEPT ![s] = opened] \/ sup' = [sup EXCEPT ![s] = closed]
      \/ sup' = [sup EXCEPT ![s] = sup[s]]
  BY <1>1, <1>5 DEF SupervisorTypeOK
<1>7. /\ req' \in Seq(Reqs) /\ DOMAIN req' = DOMAIN req
      /\ \A r \in DOMAIN req :
           /\ req'[r].sup = req[r].sup
           /\ req'[r].at = "stopping" => req[r].at = "stopping"
 <2>1. CASE req' = req BY <1>1, <2>1 DEF SupervisorTypeOK
 <2>2. CASE req' # req BY <1>5, <2>2, AnswersKeep
 <2> QED BY <2>1, <2>2
<1>8. admission' \in BOOLEAN BY <1>1, <1>5 DEF SupervisorTypeOK
<1>9. ghost' \in [stopped : Maybe(SupIds), told : {None, "open", "quiet"}]
      /\ ghost'.stopped = ghost.stopped
  BY <1>1, <1>5 DEF SupervisorTypeOK
<1> QED BY <1>1, <1>2, <1>3, <1>4, <1>6, <1>7, <1>8, <1>9, SteadyKeeps

-----------------------------------------------------------------------------
(* Ends and launches. *)

LEMMA GoneIsASup == Gone \in Sups /\ Gone.at = "gone" /\ ~Gone.retry
BY DEF Gone, Unborn, Sups, Maybe

\* A supervisor ends, and its requests are answered.
LEMMA LeavesKeeps ==
  ASSUME StopInv, NEW s \in SupIds, sup[s].at = "up", sup' = [sup EXCEPT ![s] = Gone],
         bridge' \in Seq(Bridges), Len(bridge') = Len(bridge), DOMAIN bridge' = DOMAIN bridge,
         \A b \in DOMAIN bridge : BridgeKept(b), req' \in Seq(Reqs), DOMAIN req' = DOMAIN req,
         \A r \in DOMAIN req :
            /\ req'[r].sup = req[r].sup
            /\ req'[r].at = "stopping" => req[r].at = "stopping",
         socket' \in Maybe(SupIds), UNCHANGED <<hold, admission, ghost>>
  PROVE  StopInv'
<1>1. /\ sup' \in [SupIds -> Sups]
      /\ \A t \in SupIds : sup'[t] = IF t = s THEN Gone ELSE sup[t]
  BY SupChanged, GoneIsASup DEF StopInv
<1>2. SupervisorTypeOK' BY <1>1 DEF StopInv, SupervisorTypeOK
<1>3. \A t \in SupIds : SupKept(t) BY <1>1, GoneIsASup DEF StopInv, SupKept, Began, RetriesFree
<1>4. \A r \in DOMAIN req' : StopHeld(r)'
 <2> SUFFICES ASSUME NEW r \in DOMAIN req PROVE StopHeld(r)' OBVIOUS
 <2>1. StopHeld(r) /\ req[r].sup \in SupIds BY Entries DEF StopInv, Reqs
 <2> QED BY <1>1, <2>1, GoneIsASup DEF StopHeld, Began
<1> QED BY <1>2, <1>3, <1>4, NothingComesBack

LEMMA SupervisorCrashKeeps ==
  ASSUME StopInv, NEW s \in SupIds, SupervisorCrash(s)
  PROVE  StopInv'
<1>1. /\ sup[s].at = "up" /\ sup' = [sup EXCEPT ![s] = Gone]
      /\ req' = Answers(Open(s), "error") /\ UNCHANGED <<bridge, hold, admission, ghost>>
      /\ socket' \in {socket, None}
  BY DEF SupervisorCrash
<1>2. \A b \in DOMAIN bridge : BridgeKept(b) BY <1>1 DEF BridgeKept
<1>3. /\ req' \in Seq(Reqs) /\ DOMAIN req' = DOMAIN req
      /\ \A r \in DOMAIN req :
           /\ req'[r].sup = req[r].sup
           /\ req'[r].at = "stopping" => req[r].at = "stopping"
  BY <1>1, AnswersKeep
<1>4. socket' \in Maybe(SupIds) BY <1>1 DEF StopInv, SupervisorTypeOK, Maybe
<1> QED BY <1>1, <1>2, <1>3, <1>4, LeavesKeeps DEF StopInv, SupervisorTypeOK

\* The end of a bridge that is noticed is the end of the child.
LEMMA ExitedKeeps ==
  ASSUME StopInv, NEW b \in DOMAIN bridge, Exited(b)
  PROVE  StopInv'
<1> DEFINE s == bridge[b].sup
           unproved == bridge[b].proof = "owed"
           seen == [bridge[b] EXCEPT !.noticed = TRUE,
                                     !.proof = IF unproved THEN "failed" ELSE @]
           m == [sup[s] EXCEPT !.child = None]
           ends == [m EXCEPT !.asked = TRUE, !.stopping = TRUE]
           again == [m EXCEPT !.retry = TRUE]
<1>1. /\ SupervisorTypeOK /\ bridge[b] \in Bridges /\ s \in SupIds /\ sup[s] \in Sups
      /\ sup[s].at = "up" /\ bridge[b].at = "gone"
  BY Entries DEF StopInv, Bridges, Exited
<1>2. UNCHANGED <<hold, admission, ghost>> BY DEF Exited
<1>3. bridge' = [bridge EXCEPT ![b] = seen] BY <1>1 DEF Exited, Bridges
<1>4. /\ seen \in Bridges /\ seen.sup = s /\ seen.at = "gone" /\ seen.noticed
      /\ bridge[b].proof = "done" => seen.proof = "done"
  BY <1>1 DEF Bridges
<1>5. \/ Leaves(s, Answers(Open(s), "error"))
      \/ /\ sup' = [sup EXCEPT ![s] = m] \/ sup' = [sup EXCEPT ![s] = ends]
            \/ sup' = [sup EXCEPT ![s] = again]
         /\ UNCHANGED <<socket, req>>
  BY DEF Exited
<1> HIDE DEF seen
<1>6. /\ bridge' \in Seq(Bridges) /\ Len(bridge') = Len(bridge)
      /\ DOMAIN bridge' = DOMAIN bridge
      /\ \A c \in DOMAIN bridge : bridge'[c] = IF c = b THEN seen ELSE bridge[c]
  BY <1>1, <1>3, <1>4, EntryChanged DEF SupervisorTypeOK
<1>7. \A c \in DOMAIN bridge : BridgeKept(c) BY <1>1, <1>4, <1>6 DEF BridgeKept
<1>8. CASE Leaves(s, Answers(Open(s), "error"))
  BY <1>8, AnswersKeep, <1>1, <1>2, <1>6, <1>7, LeavesKeeps DEF Leaves, Maybe
<1>9. ASSUME NEW n \in {m, ends, again}, sup' = [sup EXCEPT ![s] = n], UNCHANGED <<socket, req>>
      PROVE  StopInv'
 <2>1. /\ m \in Sups /\ m.at = "up" /\ m.child = None /\ m.holds = sup[s].holds
   BY <1>1 DEF Sups, Maybe
 <2> HIDE DEF m
 <2>2. n \in Sups /\ n.at = "up" /\ n.child = None /\ n.holds = sup[s].holds BY <2>1, <1>9 DEF Sups
 <2>3. /\ sup' \in [SupIds -> Sups]
       /\ \A t \in SupIds : sup'[t] = IF t = s THEN n ELSE sup[t]
   BY <1>1, <1>9, <2>2, SupChanged
 <2>4. SupervisorTypeOK' BY <1>1, <1>2, <1>6, <1>9, <2>3 DEF SupervisorTypeOK
 <2>5. \A c \in DOMAIN bridge : c = sup[s].child => bridge'[c].at = "gone" /\ bridge'[c].noticed
   BY <1>1, <1>4, <1>6 DEF StopInv, Exited, Known
 <2>6. \A t \in SupIds : SupKept(t)
   BY <1>1, <2>2, <2>3, <2>5 DEF StopInv, SupKept, Began, RetriesFree
 <2>7. \A r \in DOMAIN req' : StopHeld(r)'
  <3> SUFFICES ASSUME NEW r \in DOMAIN req PROVE StopHeld(r)' BY <1>9
  <3>1. StopHeld(r) /\ req[r].sup \in SupIds BY Entries DEF StopInv, Reqs
  <3> QED BY <1>1, <1>9, <2>2, <2>3, <3>1 DEF StopHeld, Began
 <2> QED BY <1>2, <1>6, <1>7, <2>4, <2>6, <2>7, NothingComesBack
<1> QED BY <1>5, <1>8, <1>9

\* A new bridge, of a supervisor that has no other.
LEMMA LaunchKeeps ==
  ASSUME StopInv, NEW s \in SupIds, NEW m \in Sups, Launch(s, m),
         sup[s].at \in {"born", "up"}, sup[s].holds => m.holds,
         \A b \in Mine(s) : bridge[b].at = "gone" /\ bridge[b].noticed,
         UNCHANGED <<req, hold, admission>>, socket' \in Maybe(SupIds),
         ghost' \in [stopped : Maybe(SupIds), told : {None, "open", "quiet"}],
         ghost'.stopped = ghost.stopped
  PROVE  StopInv'
<1>0. PICK last \in Nat : last = Len(bridge) + 1 BY Entries DEF StopInv
<1> DEFINE new == Forked(s, m.pending)
           n == [m EXCEPT !.at = "up", !.ready = None, !.retry = FALSE, !.child = last]
<1>1. SupervisorTypeOK /\ bridge \in Seq(Bridges) /\ Len(bridge) \in Nat /\ MaxBridges \in Nat
  BY Entries DEF StopInv, SupervisorTypeOK
<1>2. new \in Bridges /\ new.sup = s BY DEF Sups, Forked, Bridges, Maybe
<1>3. n \in Sups /\ n.at = "up" /\ n.child = last /\ ~n.retry /\ n.holds = m.holds
  BY DEF Sups, Maybe
<1>4. bridge' = Append(bridge, new) /\ sup' = [sup EXCEPT ![s] = n] /\ Len(bridge) < MaxBridges
  BY <1>0 DEF Launch, Launched
<1> HIDE DEF new, n
<1>5. /\ bridge' \in Seq(Bridges) /\ Len(bridge') = last /\ bridge'[last] = new
      /\ \A b \in DOMAIN bridge : bridge'[b] = bridge[b]
      /\ DOMAIN bridge' = DOMAIN bridge \cup {last} /\ last \notin DOMAIN bridge
  BY <1>1, <1>2, <1>4, <1>0
<1>6. last <= MaxBridges BY <1>1, <1>4, <1>0
<1>7. /\ sup' \in [SupIds -> Sups]
      /\ \A t \in SupIds : sup'[t] = IF t = s THEN n ELSE sup[t]
  BY <1>1, <1>3, <1>4, SupChanged
<1>8. SupervisorTypeOK' BY <1>1, <1>5, <1>6, <1>7 DEF SupervisorTypeOK
<1>9. \A t \in SupIds : RetriesFree(t)' BY <1>3, <1>7 DEF StopInv, RetriesFree
<1>10. \A b \in DOMAIN bridge' : Known(b)'
 <2>1. Known(last)' BY <1>2, <1>3, <1>5, <1>7 DEF Known, Began
 <2>2. ASSUME NEW b \in DOMAIN bridge PROVE Known(b)'
  <3>1. Known(b) /\ bridge[b].sup \in SupIds BY Entries DEF StopInv, Bridges
  <3>2. CASE bridge[b].sup = s BY <3>2, <1>3, <1>5, <1>7 DEF Mine, Known, Began
  <3>3. CASE bridge[b].sup # s BY <1>5, <1>7, <3>1, <3>3 DEF Known, Began
  <3> QED BY <3>2, <3>3
 <2> QED BY <1>5, <2>1, <2>2
<1>11. \A r \in DOMAIN req' : StopHeld(r)'
 <2> SUFFICES ASSUME NEW r \in DOMAIN req PROVE StopHeld(r)' OBVIOUS
 <2>1. StopHeld(r) /\ req[r].sup \in SupIds BY Entries DEF StopInv, Reqs
 <2> QED BY <1>3, <1>7, <2>1 DEF StopHeld, Began
<1>12. ASSUME NEW t \in SupIds, Ended(t)
       PROVE  /\ sup'[t].at = "gone"
              /\ \A b \in DOMAIN bridge' :
                   bridge'[b].sup = t => b \in Mine(t) /\ bridge'[b] = bridge[b]
  BY <1>12, <1>2, <1>5, <1>7 DEF Ended, Mine
<1>13. ReceiptTrue'
 <2> SUFFICES ASSUME (hold # None /\ hold.stopped)'
              PROVE  (Ended(hold.sup) /\ \A b \in Mine(hold.sup) : bridge[b].proof = "done")'
   BY DEF ReceiptTrue
 <2>1. Ended(hold.sup) /\ \A b \in Mine(hold.sup) : bridge[b].proof = "done"
   BY DEF StopInv, ReceiptTrue
 <2>2. hold.sup \in SupIds BY DEF StopInv, SupervisorTypeOK, Maybe, Holds
 <2> QED BY <1>12, <2>1, <2>2 DEF Ended, Mine
<1>14. AnswerTrue'
 <2> SUFFICES ASSUME ghost'.stopped # None PROVE hold' # None /\ Ended(ghost.stopped)'
   BY DEF AnswerTrue
 <2>1. hold # None /\ Ended(ghost.stopped) BY DEF StopInv, AnswerTrue
 <2>2. ghost.stopped \in SupIds BY DEF StopInv, SupervisorTypeOK, Maybe
 <2> QED BY <1>12, <2>1, <2>2 DEF Ended, Mine
<1> QED BY <1>8, <1>9, <1>10, <1>11, <1>13, <1>14 DEF StopInv

LEMMA ListenKeeps ==
  ASSUME StopInv, NEW s \in SupIds, Listen(s)
  PROVE  StopInv'
<1> DEFINE pends == sup[s].initial \/ admission
           m == [sup[s] EXCEPT !.pending = pends]
<1>1. /\ SupervisorTypeOK /\ sup[s] \in Sups /\ sup[s].at = "born"
      /\ UNCHANGED <<req, hold, admission>>
  BY Entries DEF StopInv, Listen
<1>2. Mine(s) = {} BY <1>1 DEF StopInv, Known, Began, Mine
<1>3. ASSUME sup' = [sup EXCEPT ![s] = Unborn], UNCHANGED <<socket, bridge, ghost>>
      PROVE  StopInv'
 <2>1. Unborn \in Sups /\ Unborn.at = "unborn" /\ ~Unborn.retry BY DEF Unborn, Sups, Maybe
 <2>2. /\ sup' \in [SupIds -> Sups]
       /\ \A t \in SupIds : sup'[t] = IF t = s THEN Unborn ELSE sup[t]
   BY <1>1, <1>3, <2>1, SupChanged
 <2>3. SupervisorTypeOK' BY <1>1, <1>3, <2>2 DEF SupervisorTypeOK
 <2>4. \A t \in SupIds : SupKept(t) BY <1>1, <2>1, <2>2 DEF StopInv, SupKept, Began, RetriesFree
 <2>5. \A r \in DOMAIN req' : StopHeld(r)'
  <3> SUFFICES ASSUME NEW r \in DOMAIN req PROVE StopHeld(r)' BY <1>1
  <3>1. StopHeld(r) /\ req[r].sup \in SupIds BY Entries DEF StopInv, Reqs
  <3> QED BY <1>1, <2>1, <2>2, <3>1 DEF StopHeld, Began
 <2>6. \A b \in DOMAIN bridge : BridgeKept(b) BY <1>3 DEF BridgeKept
 <2> QED BY <1>1, <1>3, <2>3, <2>4, <2>5, <2>6, NothingComesBack
<1>4. ASSUME socket' = s, Launch(s, m),
             ghost' = IF sup[s].initial THEN [ghost EXCEPT !.told = None] ELSE ghost
      PROVE  StopInv'
 <2>1. pends \in BOOLEAN BY <1>1 DEF Sups, SupervisorTypeOK
 <2> HIDE DEF pends
 <2>2. m \in Sups /\ m.holds = sup[s].holds BY <1>1, <2>1 DEF Sups
 <2> HIDE DEF m
 <2>3. ghost' \in [stopped : Maybe(SupIds), told : {None, "open", "quiet"}]
       /\ ghost'.stopped = ghost.stopped
   BY <1>1, <1>4 DEF SupervisorTypeOK
 <2>4. socket' \in Maybe(SupIds) BY <1>4 DEF Maybe
 <2> QED BY <1>1, <1>2, <1>4, <2>2, <2>3, <2>4, LaunchKeeps
<1>5. CASE socket # None \/ hold # None BY <1>3, <1>5 DEF Listen
<1>6. CASE ~(socket # None \/ hold # None) BY <1>4, <1>6 DEF Listen
<1> QED BY <1>5, <1>6

LEMMA RelaunchKeeps ==
  ASSUME StopInv, NEW s \in SupIds, Relaunch(s)
  PROVE  StopInv'
<1>1. /\ SupervisorTypeOK /\ sup[s] \in Sups /\ sup[s].at = "up" /\ sup[s].retry
      /\ UNCHANGED <<hold, admission, ghost>>
  BY Entries DEF StopInv, Relaunch
<1>2. CASE Leaves(s, req) /\ UNCHANGED bridge
  BY <1>2, <1>1, LeavesKeeps DEF Leaves, Maybe, BridgeKept, SupervisorTypeOK
<1>3. CASE Launch(s, sup[s]) /\ UNCHANGED <<req, socket>>
  BY <1>1, SupervisorAssumption, Entries, <1>3, LaunchKeeps DEF StopInv, RetriesFree, Known, Mine,
    SupervisorTypeOK
<1> QED BY <1>2, <1>3 DEF Relaunch

\* The receipt: written when the child is gone and every end is proved.
LEMMA StopDoneKeeps ==
  ASSUME StopInv, NEW s \in SupIds, StopDone(s)
  PROVE  StopInv'
<1> DEFINE receipt == [sup |-> s, stopped |-> TRUE, auth |-> sup[s].auth]
<1>1. /\ SupervisorTypeOK /\ sup[s] \in Sups /\ sup[s].at = "up" /\ sup[s].child = None
      /\ \A b \in Mine(s) : bridge[b].proof = "done"
      /\ sup' = [sup EXCEPT ![s] = Gone] /\ socket' = None /\ UNCHANGED <<bridge, admission>>
      /\ hold' = IF sup[s].holds THEN receipt ELSE hold
      /\ ghost' = IF Waiting(s) # {} THEN [ghost EXCEPT !.stopped = s] ELSE ghost
      /\ req' = [r \in DOMAIN req |-> IF r \in Waiting(s) THEN Answers(Open(s), "stopped")[r]
                                                          ELSE Answers(Open(s), "error")[r]]
  BY Entries DEF StopInv, StopDone, ToProve, Leaves
<1>2. receipt \in Holds /\ receipt.sup = s BY <1>1 DEF Holds, Sups, Maybe, BridgeIds
<1> HIDE DEF receipt
<1>3. \A b \in Mine(s) : bridge[b].at = "gone"
  BY <1>1, SupervisorAssumption, Entries DEF StopInv, Known, Mine
<1>4. Waiting(s) # {} => sup[s].holds BY <1>1 DEF StopInv, StopHeld, Waiting
<1>5. /\ sup' \in [SupIds -> Sups]
      /\ \A t \in SupIds : sup'[t] = IF t = s THEN Gone ELSE sup[t]
  BY <1>1, SupChanged, GoneIsASup
<1>6. /\ req' \in Seq(Reqs) /\ DOMAIN req' = DOMAIN req
      /\ \A r \in DOMAIN req :
           /\ req'[r].sup = req[r].sup
           /\ req'[r].at = "stopping" => req[r].at = "stopping"
 <2>1. ASSUME NEW what \in {"stopped", "error"}
       PROVE  /\ Answers(Open(s), what) \in Seq(Reqs)
              /\ DOMAIN Answers(Open(s), what) = DOMAIN req
              /\ \A r \in DOMAIN req :
                   /\ Answers(Open(s), what)[r].sup = req[r].sup
                   /\ Answers(Open(s), what)[r].at = IF r \in Open(s) THEN "answered"
                                                                      ELSE req[r].at
   BY <1>1, AnswersGiven
 <2>2. \A r \in DOMAIN req :
          \E what \in {"stopped", "error"} : req'[r] = Answers(Open(s), what)[r]
   BY <1>1
 <2>3. DOMAIN req' = DOMAIN req /\ req' = [r \in DOMAIN req |-> req'[r]] BY <1>1
 <2>4. ASSUME NEW r \in DOMAIN req
       PROVE  /\ req'[r] \in Reqs /\ req'[r].sup = req[r].sup
              /\ req'[r].at = "stopping" => req[r].at = "stopping"
  <3>1. PICK what \in {"stopped", "error"} : req'[r] = Answers(Open(s), what)[r] BY <2>2
  <3>2. Answers(Open(s), what) \in Seq(Reqs) /\ DOMAIN Answers(Open(s), what) = DOMAIN req BY <2>1
  <3>3. Answers(Open(s), what)[r] \in Reqs BY <3>2
  <3> QED BY <2>1, <3>1, <3>3
 <2>5. req \in Seq(Reqs) BY <1>1 DEF SupervisorTypeOK
 <2>6. req' \in Seq(Reqs) BY <2>3, <2>4, <2>5, EntriesChanged
 <2> QED BY <2>3, <2>4, <2>6
<1>7. ghost' \in [stopped : Maybe(SupIds), told : {None, "open", "quiet"}]
      /\ ghost'.stopped = IF Waiting(s) # {} THEN s ELSE ghost.stopped
  BY <1>1 DEF SupervisorTypeOK, Maybe
<1>8. SupervisorTypeOK' BY <1>1, <1>2, <1>5, <1>6, <1>7 DEF SupervisorTypeOK, Maybe
<1>9. \A t \in SupIds : RetriesFree(t)' BY <1>5, GoneIsASup DEF StopInv, RetriesFree
<1>10. \A b \in DOMAIN bridge' : Known(b)'
 <2> SUFFICES ASSUME NEW b \in DOMAIN bridge PROVE Known(b)' BY <1>1
 <2>1. Known(b) /\ bridge[b].sup \in SupIds BY Entries DEF StopInv, Bridges
 <2> QED BY <1>1, <1>5, <2>1, GoneIsASup DEF Known, Began
<1>11. \A r \in DOMAIN req' : StopHeld(r)'
 <2> SUFFICES ASSUME NEW r \in DOMAIN req PROVE StopHeld(r)' BY <1>6
 <2>1. StopHeld(r) /\ req[r].sup \in SupIds BY Entries DEF StopInv, Reqs
 <2> QED BY <1>5, <1>6, <2>1, GoneIsASup DEF StopHeld, Began
\* Who has ended before, and who ends now.
<1>12. ASSUME NEW t \in SupIds, t = s \/ Ended(t)
       PROVE  /\ sup'[t].at = "gone"
              /\ \A b \in DOMAIN bridge : bridge[b].sup = t => bridge[b].at = "gone"
  BY <1>3, <1>5, <1>12, GoneIsASup DEF Ended, Mine
<1>13. ReceiptTrue'
 <2> SUFFICES ASSUME (hold # None /\ hold.stopped)'
              PROVE  (Ended(hold.sup) /\ \A b \in Mine(hold.sup) : bridge[b].proof = "done")'
   BY DEF ReceiptTrue
 <2>1. CASE sup[s].holds BY <1>1, <1>2, <2>1, <1>12 DEF Ended, Mine
 <2>2. CASE ~sup[s].holds
  <3>1. hold' = hold BY <1>1, <2>2
  <3>2. Ended(hold.sup) /\ \A b \in Mine(hold.sup) : bridge[b].proof = "done"
    BY <3>1 DEF StopInv, ReceiptTrue
  <3>3. hold.sup \in SupIds BY <3>1 DEF StopInv, SupervisorTypeOK, Maybe, Holds
  <3> QED BY <1>1, <1>12, <3>1, <3>2, <3>3 DEF Ended, Mine
 <2> QED BY <2>1, <2>2
<1>14. AnswerTrue'
 <2> SUFFICES ASSUME ghost'.stopped # None PROVE hold' # None /\ Ended(ghost.stopped)'
   BY DEF AnswerTrue
 <2>1. CASE Waiting(s) # {}
   BY <1>1, <1>2, <1>4, <2>1, SupervisorAssumption, <1>7, <1>12 DEF Ended, Mine
 <2>2. CASE Waiting(s) = {}
   BY <1>7, <2>2, <1>1, <1>2, SupervisorAssumption, <1>12 DEF StopInv, AnswerTrue, SupervisorTypeOK, Maybe,
     Ended, Mine
 <2> QED BY <2>1, <2>2
<1> QED BY <1>8, <1>9, <1>10, <1>11, <1>13, <1>14 DEF StopInv

-----------------------------------------------------------------------------
(* The invariant holds, and says what was promised. *)

LEMMA StopStart == Init => StopInv
<1> SUFFICES ASSUME Init PROVE StopInv OBVIOUS
<1>1. Unborn \in Sups /\ ~Unborn.retry BY DEF Unborn, Sups, Maybe
<1>2. sup = [s \in SupIds |-> Unborn] BY DEF Init, SupIds
<1>3. sup \in [SupIds -> Sups] BY <1>1, <1>2
<1>4. bridge = <<>> /\ req = <<>> BY DEF Init
<1>5. DOMAIN bridge = {} /\ DOMAIN req = {} /\ Len(bridge) = 0 BY <1>4
<1>6. hold = None /\ ghost = [stopped |-> None, told |-> None] BY DEF Init
<1>7. SupervisorTypeOK
 <2>1. bridge \in Seq(Bridges) /\ req \in Seq(Reqs) BY <1>4
 <2>2. Len(bridge) <= MaxBridges BY <1>5, SupervisorAssumption
 <2>3. admission \in BOOLEAN /\ socket = None BY DEF Init
 <2> QED BY <1>3, <1>6, <2>1, <2>2, <2>3 DEF SupervisorTypeOK, Maybe
<1>8. \A s \in SupIds : RetriesFree(s) BY <1>1, <1>2 DEF RetriesFree
<1>9. \A b \in DOMAIN bridge : Known(b) BY <1>5
<1>10. \A r \in DOMAIN req : StopHeld(r) BY <1>5
<1>11. ReceiptTrue /\ AnswerTrue BY <1>6 DEF ReceiptTrue, AnswerTrue
<1> QED BY <1>7, <1>8, <1>9, <1>10, <1>11 DEF StopInv

LEMMA StopStep == StopInv /\ [Next]_vars => StopInv'
<1> SUFFICES ASSUME StopInv, [Next]_vars PROVE StopInv' OBVIOUS
<1>1. CASE Request BY <1>1, AsksKeeps
<1>2. ASSUME NEW s \in SupIds, Starting(s) PROVE StopInv'
  BY <1>2, BornKeeps, ListenKeeps, RelaunchKeeps DEF Starting
<1>3. ASSUME NEW s \in SupIds, Running(s) PROVE StopInv'
  BY <1>3, StopDoneKeeps, StopFailsKeeps, SignalKeeps, SupervisorCrashKeeps DEF Running
<1>4. ASSUME NEW r \in DOMAIN req, Asking(r) PROVE StopInv'
  BY <1>4, GivesUpKeeps, ControlKeeps, StopKeeps, UncertainKeeps DEF Asking
<1>5. ASSUME NEW b \in DOMAIN bridge, Events(b) PROVE StopInv'
  BY <1>5, ReadyKeeps, ResultKeeps, ExitedKeeps, ArmedKeeps DEF Events
<1>6. ASSUME NEW b \in DOMAIN bridge, Bridge(b) PROVE StopInv'
  BY <1>6, BeginsKeeps, ChangeKeeps, TakesKeeps, ControlledKeeps, DeathKeeps, ProofKeeps DEF Bridge
<1>7. CASE UNCHANGED vars
  BY <1>7 DEF vars, StopInv, SupervisorTypeOK, RetriesFree, Known, StopHeld, ReceiptTrue,
    AnswerTrue, Ended, Began, Mine
<1> QED BY <1>1, <1>2, <1>3, <1>4, <1>5, <1>6, <1>7 DEF Next, SupIds

\* Every bridge belongs to a supervisor that has begun and knows it, and the
\* hold and its receipt agree with what still runs (launch, stop).
THEOREM StopInvariance == Spec => []StopInv
BY StopStart, StopStep, PTL DEF Spec

LEMMA StopSafe == StopInv => StoppedMeansStopped
BY DEF StopInv, ReceiptTrue, AnswerTrue, Ended, StoppedMeansStopped, Alive

\* The receipt of a stop, and the answer to it, are true and stay so until
\* somebody starts the service, on POSIX and on Windows, through crashes,
\* signals, retried launches and late events in any order.
THEOREM StopIsTrue == Spec => []StoppedMeansStopped
BY StopInvariance, StopSafe, PTL

-----------------------------------------------------------------------------
(* What a client was told about admission: the invariant.  Who agrees to a   *)
(* request has heard of all that came before, and what is left of the others *)
(* cannot undo it.                                                           *)

\* The child of a supervisor that is up, dead or alive: only its words count.
Kid(b) == sup[bridge[b].sup].at = "up" /\ sup[bridge[b].sup].child = b

\* Bridge m is to hear of request r, has answered it, or works on it.
IsTold(m, i, r) == i \in DOMAIN m.inbox /\ m.inbox[i].kind # "stop" /\ m.inbox[i].r = r
Says(m, i, r) == i \in DOMAIN m.outbox /\ m.outbox[i].kind = "result" /\ m.outbox[i].r = r
Agrees(m, i, r) == Says(m, i, r) /\ m.outbox[i].ok
Mentions(m, r) == m.control = r \/ \E i \in Nat : IsTold(m, i, r) \/ Says(m, i, r)

\* Bridge m hears of requests in their order, and what it agrees to comes after
\* all that was asked before.
Ordered(m) ==
    /\ \A i, j, q, r \in Nat : IsTold(m, i, q) /\ IsTold(m, j, r) /\ i < j => q < r
    /\ \A j, q, r \in Nat : m.control = q /\ IsTold(m, j, r) => q < r
    /\ \A i, j, q, r \in Nat : Agrees(m, i, q) /\ Says(m, j, r) /\ i < j => q < r
    /\ \A i, j, q, r \in Nat : Agrees(m, i, q) /\ IsTold(m, j, r) => q < r
    /\ \A i, q, r \in Nat : Agrees(m, i, q) /\ m.control = r => q < r

\* Request r went to bridge b, and nothing before it is still on its way.
Forwarded(b, r) ==
    /\ r \in Controls /\ req[r].bridge = b /\ req[r].sup = bridge[b].sup
    /\ Kid(b) => sup[bridge[b].sup].ready = b
    /\ \A q \in 1 .. r : req[q].at # "sent"

BridgeKnows(b) ==
    /\ Ordered(bridge[b])
    /\ \A r \in Nat : Mentions(bridge[b], r) => Forwarded(b, r)
    /\ \A i, r \in Nat : IsTold(bridge[b], i, r) => req[r].action = bridge[b].inbox[i].kind

Quiesces(r) == req[r].action = "quiesce"
NoOpenerAfter(r) == \A q \in Controls : q > r => ~Opens(q)
NoQuiesceAfter(r) == \A q \in Controls : q > r => ~Quiesces(q)

\* Nothing is left of request r that could still do something.
Over(r) == req[r].at # "sent" /\ \A b \in DOMAIN bridge : Kid(b) => ~Mentions(bridge[b], r)

OneUp == \A s \in SupIds : sup[s].at = "up" => socket = s
ChildIsOwn ==
    \A s \in SupIds : sup[s].at = "up" /\ sup[s].child # None
                        => sup[s].child \in DOMAIN bridge /\ bridge[sup[s].child].sup = s
ReadyIsChild ==
    \A s \in SupIds : sup[s].at = "up" /\ sup[s].child # None /\ sup[s].ready # None
                        => sup[s].ready = sup[s].child
\* There is a last request about admission, and nobody waits for another.
LastWaits ==
    /\ Controls # {} => \E r \in Controls : \A q \in Controls : q <= r
    /\ \A r \in Controls : req[r].at = "answered" \/ req[r].gone \/ \A q \in Controls : q <= r

\* Admission is closed only when it is known to be open; and an answer that it
\* is open leaves nothing behind.
QuiescesLate == \A q, r \in Controls : r < q /\ Quiesces(q) /\ Opens(r) => Over(r)
OpenedIsOver == \A q, r \in Controls : r <= q /\ Opens(q) /\ req[q].result = "ok" => Over(r)

\* The hold is durable from the moment at which the request has arrived.
ClosedBefore ==
    \A q \in Controls :
        Quiesces(q) /\ NoOpenerAfter(q) /\ req[q].at # "sent" /\ sup[req[q].sup].at = "up"
          => admission /\ sup[req[q].sup].pending

\* A bridge that drains is held; what it has agreed to is so until it hears of
\* another request.
Quiet(b) == bridge[b].held /\ ~Works(b)
DrainsHeld(b) ==
    Kid(b) /\ bridge[b].control # None /\ Quiesces(bridge[b].control) => bridge[b].held
AgreedIsSo(b) ==
    \A i, r \in Nat : Kid(b) /\ Alive(b) /\ Agrees(bridge[b], i, r) =>
        /\ Quiesces(r) /\ NoOpenerAfter(r) => Quiet(b)
        /\ Opens(r) /\ NoQuiesceAfter(r) => ~bridge[b].held

ToldQuiet ==
    ghost.told = "quiet" =>
      /\ admission
      /\ \A s \in SupIds : sup[s].at = "up" => sup[s].pending
      /\ \A b \in DOMAIN bridge : Kid(b) /\ Alive(b) => Quiet(b)
      /\ \A r \in Controls : Opens(r) => Over(r)
ToldOpen ==
    ghost.told = "open" =>
      /\ ~admission
      /\ \A s \in SupIds : sup[s].at = "up" => ~sup[s].pending
      /\ \A b \in DOMAIN bridge : Kid(b) /\ Alive(b) => ~bridge[b].held
      /\ \A r \in Controls : Quiesces(r) => Over(r)

AsToldInv ==
    /\ \A b \in DOMAIN bridge : BridgeKnows(b) /\ DrainsHeld(b) /\ AgreedIsSo(b)
    /\ OneUp /\ ChildIsOwn /\ ReadyIsChild /\ LastWaits
    /\ QuiescesLate /\ OpenedIsOver /\ ClosedBefore
    /\ ToldQuiet /\ ToldOpen

-----------------------------------------------------------------------------
(* The words of one bridge. *)

LEMMA Boxes ==
  ASSUME NEW m \in Bridges
  PROVE  /\ m.inbox \in Seq(Orders) /\ DOMAIN m.inbox = 1 .. Len(m.inbox) /\ Len(m.inbox) \in Nat
         /\ m.outbox \in Seq(Words) /\ DOMAIN m.outbox = 1 .. Len(m.outbox) /\ Len(m.outbox) \in Nat
BY DEF Bridges

\* It takes the first message.
LEMMA ToldLess ==
  ASSUME NEW m \in Bridges, m.inbox # <<>>, NEW n, n.inbox = Tail(m.inbox),
         NEW i \in Nat, NEW r \in Nat, IsTold(n, i, r)
  PROVE  IsTold(m, i + 1, r) /\ i >= 1 /\ n.inbox[i] = m.inbox[i + 1]
<1>1. m.inbox \in Seq(Orders) /\ DOMAIN m.inbox = 1 .. Len(m.inbox) /\ Len(m.inbox) \in Nat
  BY Boxes
<1>2. /\ DOMAIN n.inbox = 1 .. Len(m.inbox) - 1
      /\ \A j \in 1 .. Len(m.inbox) - 1 : n.inbox[j] = m.inbox[j + 1]
  BY <1>1
<1> QED BY <1>1, <1>2 DEF IsTold

\* It says one more thing.
LEMMA SaysMore ==
  ASSUME NEW m \in Bridges, NEW word \in Words, NEW n, n.outbox = Append(m.outbox, word),
         NEW i \in Nat, NEW r \in Nat
  PROVE  /\ Says(n, i, r) <=>
              Says(m, i, r) \/ (i = Len(m.outbox) + 1 /\ word.kind = "result" /\ word.r = r)
         /\ Agrees(n, i, r) <=>
              \/ Agrees(m, i, r)
              \/ i = Len(m.outbox) + 1 /\ word.kind = "result" /\ word.r = r /\ word.ok
         /\ Says(m, i, r) => i <= Len(m.outbox)
<1>1. m.outbox \in Seq(Words) /\ DOMAIN m.outbox = 1 .. Len(m.outbox) /\ Len(m.outbox) \in Nat
  BY Boxes
<1>2. /\ DOMAIN n.outbox = 1 .. Len(m.outbox) + 1
      /\ \A j \in DOMAIN m.outbox : n.outbox[j] = m.outbox[j]
      /\ n.outbox[Len(m.outbox) + 1] = word
  BY <1>1
<1> QED BY <1>1, <1>2 DEF Says, Agrees

\* Its first word has been heard.
LEMMA SaysLess ==
  ASSUME NEW m \in Bridges, m.outbox # <<>>, NEW n, n.outbox = Tail(m.outbox),
         NEW i \in Nat, NEW r \in Nat
  PROVE  /\ Says(n, i, r) => Says(m, i + 1, r) /\ i >= 1
         /\ Agrees(n, i, r) => Agrees(m, i + 1, r)
<1>1. m.outbox \in Seq(Words) /\ DOMAIN m.outbox = 1 .. Len(m.outbox) /\ Len(m.outbox) \in Nat
  BY Boxes
<1>2. /\ DOMAIN n.outbox = 1 .. Len(m.outbox) - 1
      /\ \A j \in 1 .. Len(m.outbox) - 1 : n.outbox[j] = m.outbox[j + 1]
  BY <1>1
<1> QED BY <1>1, <1>2 DEF Says, Agrees

\* Bridge n has nothing to do and to say that m had not, in the same order.
Within(m, n) ==
    /\ n.control = None \/ n.control = m.control
    /\ \E a, c \in Nat : \A i, r \in Nat :
         /\ IsTold(n, i, r) => IsTold(m, i + a, r) /\ n.inbox[i].kind = m.inbox[i + a].kind
         /\ Says(n, i, r) => Says(m, i + c, r)
         /\ Agrees(n, i, r) => Agrees(m, i + c, r)

LEMMA WithinKeeps ==
  ASSUME NEW m, NEW n, Within(m, n)
  PROVE  /\ \A r \in Nat : Mentions(n, r) => Mentions(m, r)
         /\ \A i, r \in Nat : Agrees(n, i, r) => \E j \in Nat : Agrees(m, j, r)
         /\ \A i, r \in Nat : IsTold(n, i, r) =>
              \E j \in Nat : IsTold(m, j, r) /\ n.inbox[i].kind = m.inbox[j].kind
         /\ Ordered(m) => Ordered(n)
<1>1. PICK a, c \in Nat : \A i, r \in Nat :
         /\ IsTold(n, i, r) => IsTold(m, i + a, r) /\ n.inbox[i].kind = m.inbox[i + a].kind
         /\ Says(n, i, r) => Says(m, i + c, r)
         /\ Agrees(n, i, r) => Agrees(m, i + c, r)
  BY DEF Within
<1>2. \A i \in Nat : i + a \in Nat /\ i + c \in Nat OBVIOUS
<1>3. n.control = None \/ n.control = m.control BY DEF Within
<1>4. ASSUME NEW r \in Nat, Mentions(n, r) PROVE Mentions(m, r)
 <2>1. CASE n.control = r BY <1>3, <2>1, SupervisorAssumption DEF Mentions
 <2>2. ASSUME NEW i \in Nat, IsTold(n, i, r) PROVE Mentions(m, r) BY <1>1, <1>2, <2>2 DEF Mentions
 <2>3. ASSUME NEW i \in Nat, Says(n, i, r) PROVE Mentions(m, r) BY <1>1, <1>2, <2>3 DEF Mentions
 <2> QED BY <1>4, <2>1, <2>2, <2>3 DEF Mentions
<1>5. Ordered(m) => Ordered(n)
 <2> SUFFICES ASSUME Ordered(m) PROVE Ordered(n) OBVIOUS
 <2>1. ASSUME NEW i \in Nat, NEW j \in Nat, NEW q \in Nat, NEW r \in Nat,
              IsTold(n, i, q), IsTold(n, j, r), i < j
       PROVE  q < r
  <3>1. IsTold(m, i + a, q) /\ IsTold(m, j + a, r) BY <1>1, <2>1
  <3>2. i + a \in Nat /\ j + a \in Nat /\ i + a < j + a BY <2>1
  <3>3. QED BY <3>1, <3>2 DEF Ordered
 <2>2. ASSUME NEW j \in Nat, NEW q \in Nat, NEW r \in Nat, n.control = q, IsTold(n, j, r)
       PROVE  q < r
   BY <1>1, <1>2, <2>2, <1>3, SupervisorAssumption DEF Ordered
 <2>3. ASSUME NEW i \in Nat, NEW j \in Nat, NEW q \in Nat, NEW r \in Nat,
              Agrees(n, i, q), Says(n, j, r), i < j
       PROVE  q < r
  <3>1. Agrees(m, i + c, q) /\ Says(m, j + c, r) BY <1>1, <2>3
  <3>2. i + c \in Nat /\ j + c \in Nat /\ i + c < j + c BY <2>3
  <3>3. QED BY <3>1, <3>2 DEF Ordered
 <2>4. ASSUME NEW i \in Nat, NEW j \in Nat, NEW q \in Nat, NEW r \in Nat,
              Agrees(n, i, q), IsTold(n, j, r)
       PROVE  q < r
  <3>1. Agrees(m, i + c, q) /\ IsTold(m, j + a, r) BY <1>1, <2>4
  <3>2. i + c \in Nat /\ j + a \in Nat OBVIOUS
  <3>3. QED BY <3>1, <3>2 DEF Ordered
 <2>5. ASSUME NEW i \in Nat, NEW q \in Nat, NEW r \in Nat, Agrees(n, i, q), n.control = r
       PROVE  q < r
   BY <1>1, <1>2, <2>5, <1>3, SupervisorAssumption DEF Ordered
 <2> QED BY <2>1, <2>2, <2>3, <2>4, <2>5 DEF Ordered
<1> QED BY <1>1, <1>2, <1>4, <1>5

\* The same words; or none for it.
LEMMA SameWords ==
  ASSUME NEW m \in Bridges, NEW n, n.control = None \/ n.control = m.control,
         n.inbox = m.inbox \/ n.inbox = <<>>, n.outbox = m.outbox
  PROVE  Within(m, n)
<1>1. ASSUME NEW i \in Nat, NEW r \in Nat
      PROVE  /\ IsTold(n, i, r) => IsTold(m, i + 0, r) /\ n.inbox[i].kind = m.inbox[i + 0].kind
             /\ Says(n, i, r) => Says(m, i + 0, r)
             /\ Agrees(n, i, r) => Agrees(m, i + 0, r)
  BY DEF IsTold, Says, Agrees
<1> SUFFICES \E a, c \in Nat : \A i, r \in Nat :
         /\ IsTold(n, i, r) => IsTold(m, i + a, r) /\ n.inbox[i].kind = m.inbox[i + a].kind
         /\ Says(n, i, r) => Says(m, i + c, r)
         /\ Agrees(n, i, r) => Agrees(m, i + c, r)
  BY DEF Within
<1> WITNESS 0 \in Nat, 0 \in Nat
<1> QED BY <1>1

\* An order to stop, a word that it is ready, and a word that was heard.
LEMMA StopWithin ==
  ASSUME NEW m \in Bridges, NEW order \in Orders, order.kind = "stop", NEW n,
         n.control = m.control, n.outbox = m.outbox, n.inbox = Append(m.inbox, order)
  PROVE  Within(m, n)
<1>1. ASSUME NEW i \in Nat, NEW r \in Nat
      PROVE  /\ IsTold(n, i, r) => IsTold(m, i + 0, r) /\ n.inbox[i].kind = m.inbox[i + 0].kind
             /\ Says(n, i, r) => Says(m, i + 0, r)
             /\ Agrees(n, i, r) => Agrees(m, i + 0, r)
  BY Boxes DEF IsTold, Says, Agrees
<1> SUFFICES \E a, c \in Nat : \A i, r \in Nat :
         /\ IsTold(n, i, r) => IsTold(m, i + a, r) /\ n.inbox[i].kind = m.inbox[i + a].kind
         /\ Says(n, i, r) => Says(m, i + c, r)
         /\ Agrees(n, i, r) => Agrees(m, i + c, r)
  BY DEF Within
<1> WITNESS 0 \in Nat, 0 \in Nat
<1> QED BY <1>1

LEMMA ReadyWithin ==
  ASSUME NEW m \in Bridges, NEW word \in Words, word.kind = "ready", NEW n,
         n.control = m.control, n.inbox = m.inbox, n.outbox = Append(m.outbox, word)
  PROVE  Within(m, n)
<1>1. ASSUME NEW i \in Nat, NEW r \in Nat
      PROVE  /\ IsTold(n, i, r) => IsTold(m, i + 0, r) /\ n.inbox[i].kind = m.inbox[i + 0].kind
             /\ Says(n, i, r) => Says(m, i + 0, r)
             /\ Agrees(n, i, r) => Agrees(m, i + 0, r)
  BY SaysMore DEF IsTold
<1> SUFFICES \E a, c \in Nat : \A i, r \in Nat :
         /\ IsTold(n, i, r) => IsTold(m, i + a, r) /\ n.inbox[i].kind = m.inbox[i + a].kind
         /\ Says(n, i, r) => Says(m, i + c, r)
         /\ Agrees(n, i, r) => Agrees(m, i + c, r)
  BY DEF Within
<1> WITNESS 0 \in Nat, 0 \in Nat
<1> QED BY <1>1

LEMMA HeardWithin ==
  ASSUME NEW m \in Bridges, m.outbox # <<>>, NEW n, n.control = m.control,
         n.inbox = m.inbox, n.outbox = Tail(m.outbox)
  PROVE  Within(m, n)
<1>1. ASSUME NEW i \in Nat, NEW r \in Nat
      PROVE  /\ IsTold(n, i, r) => IsTold(m, i + 0, r) /\ n.inbox[i].kind = m.inbox[i + 0].kind
             /\ Says(n, i, r) => Says(m, i + 1, r)
             /\ Agrees(n, i, r) => Agrees(m, i + 1, r)
  BY SaysLess DEF IsTold
<1> SUFFICES \E a, c \in Nat : \A i, r \in Nat :
         /\ IsTold(n, i, r) => IsTold(m, i + a, r) /\ n.inbox[i].kind = m.inbox[i + a].kind
         /\ Says(n, i, r) => Says(m, i + c, r)
         /\ Agrees(n, i, r) => Agrees(m, i + c, r)
  BY DEF Within
<1> WITNESS 0 \in Nat, 1 \in Nat
<1> QED BY <1>1

\* An answer to the request that was its turn.
LEMMA ReplyOrdered ==
  ASSUME NEW m \in Bridges, NEW r \in Nat, NEW ok \in BOOLEAN, Ordered(m),
         \A i, q \in Nat : Agrees(m, i, q) => q < r,
         ok => m.control = None /\ \A j, q \in Nat : IsTold(m, j, q) => r < q
  PROVE  /\ Ordered(Reply(m, r, ok))
         /\ \A q \in Nat : Mentions(Reply(m, r, ok), q) => Mentions(m, q) \/ q = r
         /\ \A i, q \in Nat :
              Agrees(Reply(m, r, ok), i, q) => Agrees(m, i, q) \/ (ok /\ q = r)
         /\ \A i, q \in Nat : IsTold(Reply(m, r, ok), i, q) <=> IsTold(m, i, q)
         /\ Reply(m, r, ok).inbox = m.inbox /\ Reply(m, r, ok).control = m.control
         /\ Reply(m, r, ok).held = m.held /\ Reply(m, r, ok).change = m.change
         /\ Reply(m, r, ok).at = m.at /\ Reply(m, r, ok).sup = m.sup
<1> DEFINE word == [kind |-> "result", r |-> r, ok |-> ok]
           n == [m EXCEPT !.outbox = Append(m.outbox, word)]
           last == Len(m.outbox) + 1
<1>0. Reply(m, r, ok) = n BY DEF Reply
<1>1. word \in Words /\ word.kind = "result" /\ word.r = r /\ word.ok = ok BY DEF Words
<1>2. last \in Nat BY Boxes
<1> HIDE DEF word
<1>3. /\ n.outbox = Append(m.outbox, word) /\ n.inbox = m.inbox /\ n.control = m.control
      /\ n.held = m.held /\ n.change = m.change /\ n.at = m.at /\ n.sup = m.sup
  BY DEF Bridges
<1> HIDE DEF n
<1>4. \A i, q \in Nat :
        /\ Says(n, i, q) <=> Says(m, i, q) \/ (i = last /\ r = q)
        /\ Agrees(n, i, q) <=> Agrees(m, i, q) \/ (i = last /\ r = q /\ ok)
        /\ Says(m, i, q) => i < last
        /\ IsTold(n, i, q) <=> IsTold(m, i, q)
 <2> SUFFICES ASSUME NEW i \in Nat, NEW q \in Nat
              PROVE  /\ Says(n, i, q) <=> Says(m, i, q) \/ (i = last /\ r = q)
                     /\ Agrees(n, i, q) <=> Agrees(m, i, q) \/ (i = last /\ r = q /\ ok)
                     /\ Says(m, i, q) => i < last
                     /\ IsTold(n, i, q) <=> IsTold(m, i, q)
   OBVIOUS
 <2>1. /\ Says(n, i, q) <=>
             Says(m, i, q) \/ (i = Len(m.outbox) + 1 /\ word.kind = "result" /\ word.r = q)
       /\ Agrees(n, i, q) <=>
             \/ Agrees(m, i, q)
             \/ i = Len(m.outbox) + 1 /\ word.kind = "result" /\ word.r = q /\ word.ok
       /\ Says(m, i, q) => i <= Len(m.outbox)
   BY <1>1, <1>3, SaysMore
 <2>2. IsTold(n, i, q) <=> IsTold(m, i, q) BY <1>3 DEF IsTold
 <2> QED BY <1>1, <1>2, <2>1, <2>2, Boxes
<1> HIDE DEF last
<1>5. \A i, q \in Nat : Agrees(m, i, q) => Says(m, i, q) BY DEF Agrees
<1>6. Ordered(n)
 <2>1. \A i, j, q, p \in Nat : IsTold(n, i, q) /\ IsTold(n, j, p) /\ i < j => q < p
   BY <1>4 DEF Ordered
 <2>2. \A j, q, p \in Nat : n.control = q /\ IsTold(n, j, p) => q < p BY <1>3, <1>4 DEF Ordered
 <2>3. \A i, j, q, p \in Nat : Agrees(n, i, q) /\ Says(n, j, p) /\ i < j => q < p
   BY <1>2, <1>4, <1>5 DEF Ordered
 <2>4. \A i, j, q, p \in Nat : Agrees(n, i, q) /\ IsTold(n, j, p) => q < p BY <1>4 DEF Ordered
 <2>5. \A i, q, p \in Nat : Agrees(n, i, q) /\ n.control = p => q < p
   BY <1>3, <1>4, SupervisorAssumption DEF Ordered
 <2> QED BY <2>1, <2>2, <2>3, <2>4, <2>5 DEF Ordered
<1>7. \A q \in Nat : Mentions(n, q) => Mentions(m, q) \/ q = r BY <1>3, <1>4 DEF Mentions
<1> QED BY <1>0, <1>3, <1>4, <1>6, <1>7

-----------------------------------------------------------------------------
(* Steps that give the bridges nothing new to do or to say.                  *)

\* A supervisor that is up was so before, and knows its child as before, or no
\* longer, or hears that it is ready.
SupAsBefore(s) ==
    sup'[s].at = "up" =>
      /\ sup[s].at = "up" /\ socket' = socket
      /\ sup'[s].child = sup[s].child \/ sup'[s].child = None
      /\ sup'[s].ready = sup[s].ready \/ sup'[s].ready = sup[s].child

\* A bridge is held as before, and begins no work if it is held.
BridgeAsBefore(b) ==
    /\ Within(bridge[b], bridge'[b])
    /\ bridge'[b].sup = bridge[b].sup
    /\ bridge'[b].control = None \/ bridge'[b].held = bridge[b].held
    /\ Alive(b)' => /\ Alive(b) /\ bridge'[b].held = bridge[b].held
                    /\ Works(b)' /\ bridge[b].held => Works(b)

\* Only the answer to a request may change, and that nobody waits for it.
ReqAsBefore(r) ==
    /\ req'[r].action = req[r].action /\ req'[r].sup = req[r].sup
    /\ req'[r].bridge = req[r].bridge
    /\ req'[r].at = "sent" => req[r].at = "sent"
    /\ req[r].at = "answered" => req'[r].at = "answered"
    /\ req[r].gone => req'[r].gone

QueuesAsBefore ==
    /\ \A s \in SupIds : SupAsBefore(s)
    /\ DOMAIN bridge' = DOMAIN bridge /\ \A b \in DOMAIN bridge : BridgeAsBefore(b)
    /\ DOMAIN req' = DOMAIN req /\ \A r \in DOMAIN req : ReqAsBefore(r)

LEMMA ControlsAreNat ==
  ASSUME SupervisorTypeOK
  PROVE  /\ Controls \subseteq DOMAIN req /\ Controls \subseteq Nat /\ DOMAIN req \subseteq Nat
         /\ \A r \in DOMAIN req : req[r].sup \in SupIds
         /\ \A b \in DOMAIN bridge : bridge[b].sup \in SupIds /\ bridge[b] \in Bridges /\ b # None
BY Entries, SupervisorAssumption DEF Controls, Reqs, Bridges

\* What does not depend on what a client was told.
LEMMA QueuesKept ==
  ASSUME AsToldInv, StopInv, QueuesAsBefore
  PROVE  /\ \A b \in DOMAIN bridge' : BridgeKnows(b)' /\ DrainsHeld(b)' /\ AgreedIsSo(b)'
         /\ OneUp' /\ ChildIsOwn' /\ ReadyIsChild' /\ LastWaits' /\ QuiescesLate'
         /\ Controls' = Controls
         /\ \A r \in Controls : (Over(r) => Over(r)') /\ (Opens(r)' <=> Opens(r))
                                /\ (Quiesces(r)' <=> Quiesces(r))
         /\ \A b \in DOMAIN bridge : Kid(b)' => Kid(b)
<1>1. /\ Controls \subseteq DOMAIN req /\ Controls \subseteq Nat /\ DOMAIN req \subseteq Nat
      /\ \A r \in DOMAIN req : req[r].sup \in SupIds
      /\ \A b \in DOMAIN bridge : bridge[b].sup \in SupIds /\ bridge[b] \in Bridges /\ b # None
  BY ControlsAreNat DEF StopInv
<1>2. Controls' = Controls BY DEF Controls, QueuesAsBefore, ReqAsBefore
<1>3. ASSUME NEW r \in Controls
      PROVE  (Opens(r)' <=> Opens(r)) /\ (Quiesces(r)' <=> Quiesces(r))
  BY <1>1 DEF Opens, Quiesces, QueuesAsBefore, ReqAsBefore
<1>4. ASSUME NEW b \in DOMAIN bridge PROVE Kid(b)' => Kid(b)
  BY <1>1 DEF Kid, QueuesAsBefore, BridgeAsBefore, SupAsBefore
<1>5. ASSUME NEW b \in DOMAIN bridge
      PROVE  /\ \A r \in Nat : Mentions(bridge'[b], r) => Mentions(bridge[b], r)
             /\ \A i, r \in Nat :
                  Agrees(bridge'[b], i, r) => \E j \in Nat : Agrees(bridge[b], j, r)
             /\ \A i, r \in Nat : IsTold(bridge'[b], i, r) =>
                  \E j \in Nat : /\ IsTold(bridge[b], j, r)
                                 /\ bridge'[b].inbox[i].kind = bridge[b].inbox[j].kind
             /\ Ordered(bridge'[b])
  BY WithinKeeps DEF QueuesAsBefore, BridgeAsBefore, AsToldInv, BridgeKnows
<1>6. ASSUME NEW r \in Controls, Over(r) PROVE Over(r)'
  BY <1>1, <1>6, <1>4, <1>5 DEF Over, QueuesAsBefore, ReqAsBefore
<1>7. ASSUME NEW b \in DOMAIN bridge PROVE BridgeKnows(b)'
 <2>1. ASSUME NEW r \in Nat, Mentions(bridge'[b], r) PROVE Forwarded(b, r)'
  <3>1. Forwarded(b, r) BY <1>5, <2>1 DEF AsToldInv, BridgeKnows
  <3>2. r \in DOMAIN req /\ ReqAsBefore(r) BY <1>1, <3>1 DEF Forwarded, QueuesAsBefore
  <3>3. r \in Controls' /\ req'[r].bridge = b /\ req'[r].sup = bridge'[b].sup
    BY <1>2, <3>1, <3>2 DEF Forwarded, ReqAsBefore, QueuesAsBefore, BridgeAsBefore
  <3>4. Kid(b)' => sup'[bridge'[b].sup].ready = b
    BY <1>1, <1>4, <3>1 DEF Forwarded, Kid, QueuesAsBefore, BridgeAsBefore, SupAsBefore
  <3>5. \A q \in 1 .. r : req'[q].at # "sent"
   <4> SUFFICES ASSUME NEW q \in 1 .. r PROVE req'[q].at # "sent" OBVIOUS
   <4>1. q \in DOMAIN req BY <3>2, Entries DEF StopInv
   <4> QED BY <3>1, <4>1 DEF Forwarded, QueuesAsBefore, ReqAsBefore
  <3> QED BY <3>3, <3>4, <3>5 DEF Forwarded
 <2>2. ASSUME NEW i \in Nat, NEW r \in Nat, IsTold(bridge'[b], i, r)
       PROVE  req'[r].action = bridge'[b].inbox[i].kind
  <3>1. PICK j \in Nat : /\ IsTold(bridge[b], j, r)
                         /\ bridge'[b].inbox[i].kind = bridge[b].inbox[j].kind
    BY <1>5, <2>2
  <3>2. Mentions(bridge[b], r) BY <3>1 DEF Mentions
  <3>3. r \in Controls BY <3>2 DEF AsToldInv, BridgeKnows, Forwarded
  <3>4. req[r].action = bridge[b].inbox[j].kind BY <3>1 DEF AsToldInv, BridgeKnows
  <3> QED BY <1>1, <3>1, <3>3, <3>4 DEF QueuesAsBefore, ReqAsBefore
 <2> QED BY <1>5, <2>1, <2>2 DEF BridgeKnows
<1>8. ASSUME NEW b \in DOMAIN bridge PROVE DrainsHeld(b)'
 <2> SUFFICES ASSUME Kid(b)', bridge'[b].control # None, Quiesces(bridge[b].control)'
              PROVE  bridge'[b].held
   BY DEF DrainsHeld
 <2>1. BridgeAsBefore(b) /\ DrainsHeld(b) /\ BridgeKnows(b) BY DEF QueuesAsBefore, AsToldInv
 <2>2. bridge'[b].control = bridge[b].control /\ bridge'[b].held = bridge[b].held
   BY <2>1 DEF BridgeAsBefore, Within
 <2>3. bridge[b].control \in Nat BY <1>1, <2>2 DEF Bridges, Maybe
 <2>4. bridge[b].control \in Controls BY <2>1, <2>3 DEF BridgeKnows, Mentions, Forwarded
 <2>5. Quiesces(bridge[b].control) BY <1>3, <2>2, <2>4 DEF Quiesces
 <2> QED BY <1>4, <2>1, <2>2, <2>5 DEF DrainsHeld
<1>9. ASSUME NEW b \in DOMAIN bridge PROVE AgreedIsSo(b)'
 <2> SUFFICES ASSUME NEW i \in Nat, NEW r \in Nat, Kid(b)', Alive(b)', Agrees(bridge'[b], i, r)
              PROVE  /\ Quiesces(r)' /\ NoOpenerAfter(r)' => Quiet(b)'
                     /\ Opens(r)' /\ NoQuiesceAfter(r)' => ~bridge'[b].held
   BY DEF AgreedIsSo
 <2>1. PICK j \in Nat : Agrees(bridge[b], j, r) BY <1>5
 <2>2. Mentions(bridge[b], r) BY <2>1 DEF Mentions, Agrees
 <2>3. r \in Controls BY <2>2 DEF AsToldInv, BridgeKnows, Forwarded
 <2>4. BridgeAsBefore(b) /\ Kid(b) BY <1>4 DEF QueuesAsBefore
 <2>5. Alive(b) /\ bridge'[b].held = bridge[b].held /\ (Works(b)' /\ bridge[b].held => Works(b))
   BY <2>4 DEF BridgeAsBefore
 <2>6. /\ Quiesces(r) /\ NoOpenerAfter(r) => Quiet(b)
       /\ Opens(r) /\ NoQuiesceAfter(r) => ~bridge[b].held
   BY <2>1, <2>4, <2>5 DEF AsToldInv, AgreedIsSo
 <2>7. (NoOpenerAfter(r)' => NoOpenerAfter(r)) /\ (NoQuiesceAfter(r)' => NoQuiesceAfter(r))
   BY <1>2, <1>3 DEF NoOpenerAfter, NoQuiesceAfter
 <2>8. Quiet(b) => Quiet(b)' BY <2>5 DEF Quiet
 <2> QED BY <1>3, <2>3, <2>5, <2>6, <2>7, <2>8
<1>10. OneUp' BY DEF OneUp, AsToldInv, QueuesAsBefore, SupAsBefore
<1>11. ReadyIsChild' BY DEF ReadyIsChild, AsToldInv, QueuesAsBefore, SupAsBefore
<1>12. LastWaits' BY <1>1, <1>2 DEF LastWaits, AsToldInv, QueuesAsBefore, ReqAsBefore
<1>13. QuiescesLate' BY <1>2, <1>3, <1>6 DEF QuiescesLate, AsToldInv
<1>14. DOMAIN bridge' = DOMAIN bridge BY DEF QueuesAsBefore
<1>15. ChildIsOwn' BY <1>14 DEF ChildIsOwn, AsToldInv, QueuesAsBefore, SupAsBefore, BridgeAsBefore
<1> QED BY <1>2, <1>3, <1>4, <1>6, <1>7, <1>8, <1>9, <1>10, <1>11, <1>12, <1>13, <1>14, <1>15

\* A step that tells nobody anything and opens or closes nothing.
LEMMA NothingTold ==
  ASSUME AsToldInv, StopInv, QueuesAsBefore, admission' = admission, ghost'.told = ghost.told,
         \A s \in SupIds : sup'[s].at = "up" => sup'[s].pending = sup[s].pending,
         \A r \in Controls : /\ req'[r].result = "ok" => req[r].result = "ok"
                             /\ sup'[req[r].sup].at = "up" /\ req'[r].at # "sent"
                                  => req[r].at # "sent"
  PROVE  AsToldInv'
<1>1. /\ \A b \in DOMAIN bridge' : BridgeKnows(b)' /\ DrainsHeld(b)' /\ AgreedIsSo(b)'
      /\ OneUp' /\ ChildIsOwn' /\ ReadyIsChild' /\ LastWaits' /\ QuiescesLate'
      /\ Controls' = Controls
      /\ \A r \in Controls : (Over(r) => Over(r)') /\ (Opens(r)' <=> Opens(r))
                             /\ (Quiesces(r)' <=> Quiesces(r))
      /\ \A b \in DOMAIN bridge : Kid(b)' => Kid(b)
  BY QueuesKept
<1>2. \A r \in Controls : r \in DOMAIN req /\ req[r].sup \in SupIds BY ControlsAreNat DEF StopInv
<1>3. OpenedIsOver' BY <1>1 DEF OpenedIsOver, AsToldInv
<1>4. ClosedBefore'
 <2> SUFFICES ASSUME NEW q \in Controls, Quiesces(q)', NoOpenerAfter(q)', req'[q].at # "sent",
                     sup'[req'[q].sup].at = "up"
              PROVE  admission' /\ sup'[req'[q].sup].pending
   BY <1>1 DEF ClosedBefore
 <2>1. req'[q].sup = req[q].sup /\ req[q].sup \in SupIds BY <1>2 DEF QueuesAsBefore, ReqAsBefore
 <2>2. sup[req[q].sup].at = "up" BY <2>1 DEF QueuesAsBefore, SupAsBefore
 <2>3. NoOpenerAfter(q) BY <1>1 DEF NoOpenerAfter
 <2>4. req[q].at # "sent" BY <2>1
 <2>5. admission /\ sup[req[q].sup].pending BY <1>1, <2>2, <2>3, <2>4 DEF ClosedBefore, AsToldInv
 <2> QED BY <2>1, <2>5
<1>5. ASSUME NEW b \in DOMAIN bridge, Kid(b)', Alive(b)'
      PROVE  /\ Kid(b) /\ Alive(b) /\ bridge'[b].held = bridge[b].held
             /\ Quiet(b) => Quiet(b)'
  BY <1>1, <1>5 DEF QueuesAsBefore, BridgeAsBefore, Quiet
<1>6. DOMAIN bridge' = DOMAIN bridge /\ \A s \in SupIds : sup'[s].at = "up" => sup[s].at = "up"
  BY DEF QueuesAsBefore, SupAsBefore
<1>7. ToldQuiet' BY <1>1, <1>5, <1>6 DEF ToldQuiet, AsToldInv
<1>8. ToldOpen' BY <1>1, <1>5, <1>6 DEF ToldOpen, AsToldInv
<1> QED BY <1>1, <1>3, <1>4, <1>7, <1>8 DEF AsToldInv

-----------------------------------------------------------------------------
(* A bridge alone. *)

LEMMA TurnKeeps ==
  ASSUME AsToldInv, StopInv, NEW b \in DOMAIN bridge, NEW n \in Bridges,
         bridge' = [bridge EXCEPT ![b] = n], UNCHANGED <<sup, req, admission, socket, ghost>>,
         n.sup = bridge[b].sup, n.at = "gone" \/ n.at = bridge[b].at,
         \A r \in Nat : Mentions(n, r) => Mentions(bridge[b], r), Ordered(n),
         \A i, r \in Nat : IsTold(n, i, r) => req[r].action = n.inbox[i].kind,
         DrainsHeld(b)', AgreedIsSo(b)',
         Kid(b) /\ Alive(b)' => /\ ghost.told = "quiet" => Quiet(b)'
                                /\ ghost.told = "open" => ~n.held
  PROVE  AsToldInv'
<1>1. /\ DOMAIN bridge' = DOMAIN bridge /\ bridge'[b] = n
      /\ \A c \in DOMAIN bridge : c # b => bridge'[c] = bridge[c]
  BY DEF StopInv, SupervisorTypeOK
<1>2. \A c \in DOMAIN bridge : bridge'[c].sup = bridge[c].sup /\ (Kid(c)' <=> Kid(c))
  BY <1>1 DEF Kid
<1>3. \A c \in DOMAIN bridge, r \in Nat : Mentions(bridge'[c], r) => Mentions(bridge[c], r) BY <1>1
<1>4. Controls' = Controls /\ Controls \subseteq Nat BY ControlsAreNat DEF Controls, StopInv
<1>5. \A r \in Controls : (Opens(r)' <=> Opens(r)) /\ (Quiesces(r)' <=> Quiesces(r))
                          /\ (Over(r) => Over(r)')
  BY <1>1, <1>2, <1>3, <1>4 DEF Opens, Quiesces, Over
<1>6. \A r \in Nat : /\ NoOpenerAfter(r)' <=> NoOpenerAfter(r)
                     /\ NoQuiesceAfter(r)' <=> NoQuiesceAfter(r)
  BY <1>4, <1>5 DEF NoOpenerAfter, NoQuiesceAfter
<1>7. ASSUME NEW c \in DOMAIN bridge
      PROVE  BridgeKnows(c)' /\ DrainsHeld(c)' /\ AgreedIsSo(c)'
 <2>1. BridgeKnows(c) /\ DrainsHeld(c) /\ AgreedIsSo(c) BY DEF AsToldInv
 <2>2. \A r \in Nat : Forwarded(c, r) => Forwarded(c, r)' BY <1>2, <1>4 DEF Forwarded
 <2>3. Ordered(bridge'[c]) BY <1>1, <2>1 DEF BridgeKnows
 <2>4. \A i, r \in Nat : IsTold(bridge'[c], i, r) => req'[r].action = bridge'[c].inbox[i].kind
   BY <1>1, <2>1 DEF BridgeKnows
 <2>5. BridgeKnows(c)' BY <1>3, <2>1, <2>2, <2>3, <2>4 DEF BridgeKnows
 <2>6. CASE c = b BY <2>5, <2>6
 <2>7. CASE c # b
  <3>1. bridge'[c] = bridge[c] BY <1>1, <2>7
  <3>2. DrainsHeld(c)' BY <1>2, <2>1, <3>1 DEF DrainsHeld, Quiesces
  <3>3. (Alive(c)' <=> Alive(c)) /\ (Quiet(c)' <=> Quiet(c)) BY <3>1 DEF Alive, Quiet, Works
  <3>4. AgreedIsSo(c)'
   <4> SUFFICES ASSUME NEW i \in Nat, NEW r \in Nat, Kid(c)', Alive(c)', Agrees(bridge'[c], i, r)
                PROVE  /\ Quiesces(r)' /\ NoOpenerAfter(r)' => Quiet(c)'
                       /\ Opens(r)' /\ NoQuiesceAfter(r)' => ~bridge'[c].held
     BY DEF AgreedIsSo
   <4>1. (Quiesces(r)' <=> Quiesces(r)) /\ (Opens(r)' <=> Opens(r)) BY DEF Quiesces, Opens
   <4>2. Kid(c) /\ Alive(c) /\ Agrees(bridge[c], i, r) BY <1>2, <3>1, <3>3
   <4> QED BY <1>6, <2>1, <3>1, <3>3, <4>1, <4>2 DEF AgreedIsSo
  <3> QED BY <2>5, <3>2, <3>4
 <2> QED BY <2>6, <2>7
<1>8. OneUp' /\ ChildIsOwn' /\ ReadyIsChild' /\ LastWaits'
  BY <1>1, <1>2, <1>4 DEF AsToldInv, OneUp, ChildIsOwn, ReadyIsChild, LastWaits
<1>9. QuiescesLate' /\ OpenedIsOver' BY <1>4, <1>5 DEF AsToldInv, QuiescesLate, OpenedIsOver
<1>10. ClosedBefore' BY <1>4, <1>5, <1>6 DEF AsToldInv, ClosedBefore
<1>11. ASSUME NEW c \in DOMAIN bridge, Kid(c)', Alive(c)'
       PROVE  /\ ghost.told = "quiet" => Quiet(c)'
              /\ ghost.told = "open" => ~bridge'[c].held
 <2>1. CASE c = b BY <1>1, <1>2, <1>11, <2>1
 <2>2. CASE c # b
   BY <1>1, <2>2, <1>2, <1>11 DEF Alive, Quiet, Works, AsToldInv, ToldQuiet, ToldOpen
 <2> QED BY <2>1, <2>2
<1>12. ToldQuiet' /\ ToldOpen' BY <1>1, <1>4, <1>5, <1>11 DEF AsToldInv, ToldQuiet, ToldOpen
<1> QED BY <1>1, <1>7, <1>8, <1>9, <1>10, <1>12 DEF AsToldInv

\* The same, said of what the bridge becomes.
LEMMA TurnsInto ==
  ASSUME AsToldInv, StopInv, NEW b \in DOMAIN bridge, NEW n \in Bridges,
         bridge' = [bridge EXCEPT ![b] = n], UNCHANGED <<sup, req, admission, socket, ghost>>,
         n.sup = bridge[b].sup, n.at = bridge[b].at,
         \A r \in Nat : Mentions(n, r) => Mentions(bridge[b], r), Ordered(n),
         \A i, r \in Nat : IsTold(n, i, r) => req[r].action = n.inbox[i].kind,
         Kid(b) /\ n.control # None /\ Quiesces(n.control) => n.held,
         \A i, r \in Nat : Kid(b) /\ Alive(b) /\ Agrees(n, i, r) =>
             /\ Quiesces(r) /\ NoOpenerAfter(r) => n.held /\ n.change # "work"
             /\ Opens(r) /\ NoQuiesceAfter(r) => ~n.held,
         Kid(b) /\ Alive(b) => /\ ghost.told = "quiet" => n.held /\ n.change # "work"
                               /\ ghost.told = "open" => ~n.held
  PROVE  AsToldInv'
<1>1. bridge'[b] = n BY DEF StopInv, SupervisorTypeOK
<1>2. (Kid(b)' <=> Kid(b)) /\ (Alive(b)' <=> Alive(b)) BY <1>1 DEF Kid, Alive
<1>3. Quiet(b)' <=> n.held /\ n.change # "work" BY <1>1 DEF Quiet, Works
<1>4. DrainsHeld(b)' BY <1>1, <1>2 DEF DrainsHeld, Quiesces
<1>5. AgreedIsSo(b)'
 <2> SUFFICES ASSUME NEW i \in Nat, NEW r \in Nat, Kid(b), Alive(b), Agrees(n, i, r)
              PROVE  /\ Quiesces(r)' /\ NoOpenerAfter(r)' => Quiet(b)'
                     /\ Opens(r)' /\ NoQuiesceAfter(r)' => ~n.held
   BY <1>1, <1>2 DEF AgreedIsSo
 <2>1. Controls' = Controls BY DEF Controls
 <2>2. /\ Quiesces(r)' <=> Quiesces(r)
       /\ Opens(r)' <=> Opens(r)
       /\ \A q \in Controls : (Quiesces(q)' <=> Quiesces(q)) /\ (Opens(q)' <=> Opens(q))
   BY DEF Quiesces, Opens
 <2>3. (NoOpenerAfter(r)' <=> NoOpenerAfter(r)) /\ (NoQuiesceAfter(r)' <=> NoQuiesceAfter(r))
   BY <2>1, <2>2 DEF NoOpenerAfter, NoQuiesceAfter
 <2> QED BY <1>3, <2>2, <2>3
<1>6. Kid(b) /\ Alive(b)' => /\ ghost.told = "quiet" => Quiet(b)'
                             /\ ghost.told = "open" => ~n.held
  BY <1>2, <1>3
<1> HIDE DEF Mentions, IsTold
<1> QED BY <1>4, <1>5, <1>6, TurnKeeps

\* A bridge that has nothing new to do or to say, and is held as before.
LEMMA CalmTurn ==
  ASSUME AsToldInv, StopInv, NEW b \in DOMAIN bridge, NEW n \in Bridges,
         bridge' = [bridge EXCEPT ![b] = n], UNCHANGED <<sup, req, admission, socket, ghost>>,
         n.sup = bridge[b].sup, Within(bridge[b], n),
         n.control = None \/ n.held = bridge[b].held,
         n.at # "gone" => /\ bridge[b].at # "gone" /\ n.held = bridge[b].held
                          /\ n.change = "work" /\ bridge[b].held => bridge[b].change = "work"
  PROVE  AsToldInv'
<1>1. /\ DOMAIN bridge' = DOMAIN bridge /\ bridge'[b] = n
      /\ \A c \in DOMAIN bridge : c # b => bridge'[c] = bridge[c]
      /\ \A c \in DOMAIN bridge : bridge[c] \in Bridges
  BY Entries DEF StopInv, SupervisorTypeOK
<1>2. BridgeAsBefore(b) BY <1>1 DEF Alive, Bridges, BridgeAsBefore, Works
<1>3. ASSUME NEW c \in DOMAIN bridge, c # b PROVE BridgeAsBefore(c)
  BY <1>1, <1>3, SameWords DEF BridgeAsBefore, Alive, Works
<1>4. \A s \in SupIds : SupAsBefore(s) BY DEF SupAsBefore
<1>5. \A r \in DOMAIN req : ReqAsBefore(r) BY DEF ReqAsBefore
<1>6. QueuesAsBefore BY <1>1, <1>2, <1>3, <1>4, <1>5 DEF QueuesAsBefore
<1> QED BY <1>6, NothingTold

LEMMA BeginsTold ==
  ASSUME AsToldInv, StopInv, NEW b \in DOMAIN bridge, Begins(b)
  PROVE  AsToldInv'
<1> DEFINE old == bridge[b]
           word == [kind |-> "ready", held |-> old.held]
           taken == [old EXCEPT !.at = "gone", !.code = 3]
           up == [old EXCEPT !.at = "up", !.outbox = Append(@, word)]
<1>1. old \in Bridges /\ old.at = "forked" BY Entries DEF StopInv, Begins
<1>2. word \in Words /\ word.kind = "ready" BY <1>1 DEF Words, Bridges
<1>3. Append(old.outbox, word) \in Seq(Words) BY <1>1, <1>2, AppendProperties DEF Bridges
<1> HIDE DEF word
<1>4. /\ taken \in Bridges /\ taken.sup = old.sup /\ taken.control = old.control
      /\ taken.inbox = old.inbox /\ taken.outbox = old.outbox /\ taken.held = old.held
      /\ taken.at = "gone"
  BY <1>1 DEF Bridges
<1>5. /\ up \in Bridges /\ up.sup = old.sup /\ up.control = old.control
      /\ up.inbox = old.inbox /\ up.outbox = Append(old.outbox, word) /\ up.held = old.held
      /\ up.change = old.change
  BY <1>1, <1>3 DEF Bridges
<1>6. /\ bridge' = [bridge EXCEPT ![b] = IF Listening THEN taken ELSE up]
      /\ UNCHANGED <<sup, req, hold, admission, socket, ghost>>
  BY DEF Begins, word
<1> HIDE DEF taken, up
<1>7. Within(old, taken) BY <1>1, <1>4, SameWords
<1>8. Within(old, up) BY <1>1, <1>2, <1>5, ReadyWithin
<1>9. CASE Listening BY <1>6, <1>9, <1>4, <1>7, CalmTurn
<1>10. CASE ~Listening BY <1>6, <1>10, <1>1, <1>5, <1>8, CalmTurn
<1> QED BY <1>9, <1>10

\* Changes, and the proofs of an end.
LEMMA WorkTold ==
  ASSUME AsToldInv, StopInv, NEW b \in DOMAIN bridge,
         \/ Admit(b) \/ BodyEnds(b) \/ WorkEnds(b) \/ Proved(b) \/ Unproved(b) \/ Armed(b)
  PROVE  AsToldInv'
<1> DEFINE old == bridge[b]
<1>1. old \in Bridges BY Entries DEF StopInv
<1>2. ASSUME NEW n \in Bridges, n.sup = old.sup, n.control = old.control, n.inbox = old.inbox,
             n.outbox = old.outbox, n.held = old.held, n.at = old.at,
             n.change = "work" /\ old.held => old.change = "work",
             bridge' = [bridge EXCEPT ![b] = n], UNCHANGED <<sup, req, admission, socket, ghost>>
      PROVE  AsToldInv'
  BY <1>1, <1>2, SameWords, CalmTurn
<1>3. ASSUME NEW c \in {"body", "work", None}, Turns(b, [old EXCEPT !.change = c]),
             c = "work" => ~old.held
      PROVE  AsToldInv'
 <2> DEFINE n == [old EXCEPT !.change = c]
 <2>1. /\ n \in Bridges /\ n.sup = old.sup /\ n.control = old.control /\ n.inbox = old.inbox
       /\ n.outbox = old.outbox /\ n.held = old.held /\ n.at = old.at /\ n.change = c
   BY <1>1 DEF Bridges, Maybe
 <2>2. bridge' = [bridge EXCEPT ![b] = n] /\ UNCHANGED <<sup, req, admission, socket, ghost>>
   BY <1>3 DEF Turns
 <2> HIDE DEF n
 <2> QED BY <1>2, <1>3, <2>1, <2>2
<1>4. ASSUME NEW p \in {"armed", "done", "failed"}, bridge' = [bridge EXCEPT ![b] = [old EXCEPT !.proof = p]],
             UNCHANGED <<sup, req, admission, socket, ghost>>
      PROVE  AsToldInv'
 <2> DEFINE n == [old EXCEPT !.proof = p]
 <2>1. /\ n \in Bridges /\ n.sup = old.sup /\ n.control = old.control /\ n.inbox = old.inbox
       /\ n.outbox = old.outbox /\ n.held = old.held /\ n.at = old.at
       /\ n.change = old.change
   BY <1>1 DEF Bridges
 <2>2. bridge' = [bridge EXCEPT ![b] = n] BY <1>4
 <2> HIDE DEF n
 <2> QED BY <1>2, <1>4, <2>1, <2>2
<1>5. CASE Admit(b) BY <1>3, <1>5 DEF Admit, Became
<1>6. CASE BodyEnds(b)
 <2>1. CASE ~old.held BY <1>6, <2>1, <1>3 DEF BodyEnds, Became, Submitted
 <2>2. CASE old.held BY <1>6, <2>2, <1>3, SupervisorAssumption DEF BodyEnds, Became, Submitted
 <2> QED BY <2>1, <2>2
<1>7. CASE WorkEnds(b) BY <1>7, <1>3, SupervisorAssumption DEF WorkEnds, Became
<1>8. CASE Proved(b) BY <1>4, <1>8 DEF Proved, Proof, Turns
<1>9. CASE Unproved(b) BY <1>4, <1>9 DEF Unproved, Proof, Turns
<1>10. CASE Armed(b) BY <1>4, <1>10 DEF Armed
<1> QED BY <1>5, <1>6, <1>7, <1>8, <1>9, <1>10

LEMMA DeathTold ==
  ASSUME AsToldInv, StopInv, NEW b \in DOMAIN bridge, Stopping(b) \/ Crash(b)
  PROVE  AsToldInv'
<1>1. bridge[b] \in Bridges BY Entries DEF StopInv
<1>2. PICK code \in {0, 1} : Turns(b, Dead(b, code)) BY DEF Stopping, Became, Crash
<1> DEFINE n == Dead(b, code)
<1>3. /\ n \in Bridges /\ n.sup = bridge[b].sup /\ n.control = None /\ n.inbox = <<>>
      /\ n.outbox = bridge[b].outbox /\ n.at = "gone"
 <2>1. <<>> \in Seq(Orders) OBVIOUS
 <2> QED BY <1>1, <2>1 DEF Dead, Bridges, Maybe
<1>4. bridge' = [bridge EXCEPT ![b] = n] /\ UNCHANGED <<sup, req, admission, socket, ghost>>
  BY <1>2 DEF Turns
<1> HIDE DEF n
<1>5. Within(bridge[b], n) BY <1>1, <1>3, SameWords
<1> QED BY <1>3, <1>4, <1>5, CalmTurn

\* The next order of a bridge: it is its turn.
LEMMA TakesTold ==
  ASSUME AsToldInv, StopInv, NEW b \in DOMAIN bridge, Takes(b)
  PROVE  AsToldInv'
<1> DEFINE old == bridge[b]
           m == Head(old.inbox)
           r == m.r
           taken == [old EXCEPT !.inbox = Tail(@)]
           open == [taken EXCEPT !.held = FALSE]
           drains == [taken EXCEPT !.held = TRUE, !.control = r]
           resumes == [taken EXCEPT !.control = r]
<1>1. /\ old \in Bridges /\ old.inbox # <<>> /\ old.at = "up" /\ m.kind # "stop"
      /\ BridgeKnows(b) /\ DrainsHeld(b) /\ AgreedIsSo(b) /\ b # None
  BY Entries, ControlsAreNat DEF StopInv, Takes, AsToldInv
<1>2. m = old.inbox[1] /\ m \in Orders /\ Tail(old.inbox) \in Seq(Orders)
  BY <1>1, Boxes, HeadTailProperties
<1>3. r \in Nat /\ IsTold(old, 1, r) /\ m.kind \in {"quiesce", "activate", "resume"}
  BY <1>1, <1>2, Boxes DEF Orders, IsTold
<1>4. Mentions(old, r) /\ r \in Controls /\ req[r].action = m.kind
  BY <1>3, <1>1, <1>2 DEF Mentions, BridgeKnows, Forwarded
<1>5. Kid(b) => ~Over(r) BY <1>1, <1>4 DEF Over
<1>6. /\ taken \in Bridges /\ taken.inbox = Tail(old.inbox) /\ taken.outbox = old.outbox
      /\ taken.control = old.control /\ taken.held = old.held /\ taken.change = old.change
      /\ taken.at = old.at /\ taken.sup = old.sup
  BY <1>1, <1>2 DEF Bridges
<1> HIDE DEF m, taken
<1> HIDE DEF r
<1>7. /\ open \in Bridges /\ open.inbox = taken.inbox /\ open.outbox = taken.outbox
      /\ open.control = taken.control /\ open.held = FALSE /\ open.change = taken.change
      /\ open.at = taken.at /\ open.sup = taken.sup
  BY <1>6 DEF Bridges
<1>8. /\ drains \in Bridges /\ drains.inbox = taken.inbox /\ drains.outbox = taken.outbox
      /\ drains.control = r /\ drains.held = TRUE /\ drains.change = taken.change
      /\ drains.at = taken.at /\ drains.sup = taken.sup
  BY <1>3, <1>6 DEF Bridges, Maybe
<1>9. /\ resumes \in Bridges /\ resumes.inbox = taken.inbox /\ resumes.outbox = taken.outbox
      /\ resumes.control = r /\ resumes.held = taken.held /\ resumes.change = taken.change
      /\ resumes.at = taken.at /\ resumes.sup = taken.sup
  BY <1>3, <1>6 DEF Bridges, Maybe
<1> HIDE DEF open, drains, resumes
\* What is left in the inbox comes after r; what was agreed to, before.
<1>10. ASSUME NEW n, n.inbox = taken.inbox, n.outbox = taken.outbox
       PROVE  \A i, q \in Nat :
                /\ IsTold(n, i, q) =>
                     IsTold(old, i + 1, q) /\ r < q /\ n.inbox[i].kind = old.inbox[i + 1].kind
                /\ Says(n, i, q) <=> Says(old, i, q)
                /\ Agrees(n, i, q) <=> Agrees(old, i, q)
                /\ Agrees(old, i, q) => q < r
 <2> SUFFICES ASSUME NEW i \in Nat, NEW q \in Nat
              PROVE  /\ IsTold(n, i, q) =>
                          IsTold(old, i + 1, q) /\ r < q /\ n.inbox[i].kind = old.inbox[i + 1].kind
                     /\ Says(n, i, q) <=> Says(old, i, q)
                     /\ Agrees(n, i, q) <=> Agrees(old, i, q)
                     /\ Agrees(old, i, q) => q < r
   OBVIOUS
 <2>1. IsTold(n, i, q) => IsTold(old, i + 1, q) /\ i >= 1 /\ n.inbox[i] = old.inbox[i + 1]
   BY <1>1, <1>6, <1>10, ToldLess, SMTT(30), ZenonT(30)
 <2>2. i + 1 \in Nat /\ 1 \in Nat /\ (i >= 1 => 1 < i + 1) OBVIOUS
 <2>3. Ordered(old) BY <1>1 DEF BridgeKnows
 <2>4. IsTold(old, i + 1, q) /\ i >= 1 => r < q BY <1>3, <2>2, <2>3 DEF Ordered
 <2>5. Agrees(old, i, q) => q < r BY <1>3, <2>2, <2>3 DEF Ordered
 <2>6. Says(n, i, q) <=> Says(old, i, q) BY <1>6, <1>10 DEF Says
 <2>7. Agrees(n, i, q) <=> Agrees(old, i, q) BY <1>6, <1>10, <2>6 DEF Agrees
 <2> QED BY <2>1, <2>4, <2>5, <2>6, <2>7
<1>11. ASSUME NEW n, n.inbox = taken.inbox, n.outbox = taken.outbox,
              n.control = taken.control \/ (n.control = r /\ old.control = None)
       PROVE  /\ Ordered(n)
              /\ \A q \in Nat : Mentions(n, q) => Mentions(old, q)
              /\ \A i, q \in Nat : IsTold(n, i, q) => req[q].action = n.inbox[i].kind
 <2>1. \A i, q \in Nat :
               /\ IsTold(n, i, q) =>
                    IsTold(old, i + 1, q) /\ r < q /\ n.inbox[i].kind = old.inbox[i + 1].kind
               /\ Says(n, i, q) <=> Says(old, i, q)
               /\ Agrees(n, i, q) <=> Agrees(old, i, q)
               /\ Agrees(old, i, q) => q < r
   BY <1>10, <1>11
 <2>2. \A i \in Nat : i + 1 \in Nat OBVIOUS
 <2>3. Ordered(old) BY <1>1 DEF BridgeKnows
 <2>4. \A i, j, q, p \in Nat : IsTold(n, i, q) /\ IsTold(n, j, p) /\ i < j => q < p
   BY <2>1, <2>2, <2>3 DEF Ordered
 <2>5. \A j, q, p \in Nat : n.control = q /\ IsTold(n, j, p) => q < p
   BY <1>6, <1>11, <2>1, <2>2, <2>3 DEF Ordered
 <2>6. \A i, j, q, p \in Nat : Agrees(n, i, q) /\ Says(n, j, p) /\ i < j => q < p
   BY <2>1, <2>3 DEF Ordered
 <2>7. \A i, j, q, p \in Nat : Agrees(n, i, q) /\ IsTold(n, j, p) => q < p
   BY <2>1, <2>2, <2>3 DEF Ordered
 <2>8. \A i, q, p \in Nat : Agrees(n, i, q) /\ n.control = p => q < p
   BY <1>6, <1>11, <2>1, <2>3 DEF Ordered
 <2>9. Ordered(n) BY <2>4, <2>5, <2>6, <2>7, <2>8 DEF Ordered
 <2>10. ASSUME NEW q \in Nat, Mentions(n, q) PROVE Mentions(old, q)
  <3>1. CASE n.control = q BY <1>4, <1>6, <1>11, <3>1 DEF Mentions
  <3>2. ASSUME NEW i \in Nat, IsTold(n, i, q) PROVE Mentions(old, q)
    BY <2>1, <2>2, <3>2 DEF Mentions
  <3>3. ASSUME NEW i \in Nat, Says(n, i, q) PROVE Mentions(old, q) BY <2>1, <3>3 DEF Mentions
  <3> QED BY <2>10, <3>1, <3>2, <3>3 DEF Mentions
 <2>11. \A i, q \in Nat : IsTold(n, i, q) => req[q].action = n.inbox[i].kind
   BY <1>1, <2>1, <2>2 DEF BridgeKnows
 <2> QED BY <2>9, <2>10, <2>11
\* What b becomes.
<1> DEFINE refused == Reply(taken, r, FALSE)
           agreed == Reply(open, r, TRUE)
<1>12. /\ UNCHANGED <<sup, req, admission, socket, ghost>>
       /\ \/ bridge' = [bridge EXCEPT ![b] = refused] /\ (old.control # None \/ m.kind # "quiesce")
          \/ bridge' = [bridge EXCEPT ![b] = agreed] /\ old.control = None /\ m.kind = "activate"
               /\ ~Works(b)
          \/ bridge' = [bridge EXCEPT ![b] = drains] /\ old.control = None /\ m.kind = "quiesce"
          \/ bridge' = [bridge EXCEPT ![b] = resumes] /\ old.control = None /\ m.kind = "resume"
 <2>1. CASE old.control # None BY <2>1 DEF Takes, Became, Turns, taken, m, r
 <2>2. CASE old.control = None /\ m.kind = "quiesce"
   BY <2>2 DEF Takes, Became, Turns, taken, m, r, drains
 <2>3. CASE old.control = None /\ m.kind = "activate"
   BY <2>3 DEF Takes, Became, Turns, taken, m, r, open
 <2>4. CASE old.control = None /\ m.kind = "resume"
   BY <2>4 DEF Takes, Became, Turns, taken, m, r, resumes
 <2> QED BY <1>3, <2>1, <2>2, <2>3, <2>4
<1>13. ASSUME NEW n \in {taken, open}
       PROVE  /\ n \in Bridges /\ Ordered(n)
              /\ \A q \in Nat : Mentions(n, q) => Mentions(old, q)
              /\ \A i, q \in Nat : /\ IsTold(n, i, q) => r < q
                                   /\ IsTold(n, i, q) => req[q].action = n.inbox[i].kind
                                   /\ Agrees(n, i, q) => q < r
                                   /\ Agrees(n, i, q) => Agrees(old, i, q)
  BY <1>6, <1>7, <1>13, <1>11, <1>10
<1>14. Alive(b) BY <1>1 DEF Alive
<1>15. \A i, q \in Nat : Kid(b) /\ Agrees(old, i, q) =>
         /\ q < r
         /\ Quiesces(q) /\ NoOpenerAfter(q) => old.held /\ old.change # "work"
         /\ Opens(q) /\ NoQuiesceAfter(q) => ~old.held
  BY <1>1, <1>6, <1>10, <1>14 DEF AgreedIsSo, Quiet, Works
<1>16. Kid(b) => /\ ghost.told = "quiet" => old.held /\ old.change # "work" /\ ~Opens(r)
                 /\ ghost.told = "open" => ~old.held /\ ~Quiesces(r)
  BY <1>4, <1>5, <1>14 DEF AsToldInv, ToldQuiet, ToldOpen, Quiet, Works
<1>17. CASE bridge' = [bridge EXCEPT ![b] = refused]
 <2> DEFINE n == Reply(taken, r, FALSE)
 <2>0. /\ taken \in Bridges /\ Ordered(taken)
       /\ \A q \in Nat : Mentions(taken, q) => Mentions(old, q)
       /\ \A i, q \in Nat : /\ IsTold(taken, i, q) => r < q
                            /\ IsTold(taken, i, q) => req[q].action = taken.inbox[i].kind
                            /\ Agrees(taken, i, q) => q < r
                            /\ Agrees(taken, i, q) => Agrees(old, i, q)
   BY <1>13
 <2>1. /\ Ordered(n)
       /\ \A q \in Nat : Mentions(n, q) => Mentions(taken, q) \/ q = r
       /\ \A i, q \in Nat : Agrees(n, i, q) => Agrees(taken, i, q) \/ (FALSE /\ q = r)
       /\ \A i, q \in Nat : IsTold(n, i, q) <=> IsTold(taken, i, q)
       /\ n.inbox = taken.inbox /\ n.control = taken.control
       /\ n.held = taken.held /\ n.change = taken.change /\ n.at = taken.at /\ n.sup = taken.sup
   BY <1>3, <2>0, ReplyOrdered
 <2>2. n \in Bridges BY <1>3, <1>6, AppendProperties DEF Words, Bridges, Reply
 <2> HIDE DEF n
 <2>3. \A q \in Nat : Mentions(n, q) => Mentions(old, q) BY <1>4, <2>0, <2>1
 <2>4. \A i, q \in Nat : IsTold(n, i, q) => req[q].action = n.inbox[i].kind BY <2>0, <2>1
 <2>5. \A i, q \in Nat : Agrees(n, i, q) => Agrees(old, i, q) BY <2>0, <2>1
 <2>6. bridge' = [bridge EXCEPT ![b] = n] BY <1>17 DEF n
 <2>7. Kid(b) /\ n.control # None /\ Quiesces(n.control) => n.held
   BY <1>1, <1>6, <2>1 DEF DrainsHeld
 <2>8. \A i, q \in Nat : Kid(b) /\ Alive(b) /\ Agrees(n, i, q) =>
            /\ Quiesces(q) /\ NoOpenerAfter(q) => n.held /\ n.change # "work"
            /\ Opens(q) /\ NoQuiesceAfter(q) => ~n.held
   BY <1>6, <1>15, <2>1, <2>5
 <2>9. Kid(b) /\ Alive(b) => /\ ghost.told = "quiet" => n.held /\ n.change # "work"
                             /\ ghost.told = "open" => ~n.held
   BY <1>6, <1>16, <2>1
 <2> QED BY <1>6, <1>12, <2>1, <2>2, <2>3, <2>4, <2>6, <2>7, <2>8, <2>9, TurnsInto
<1>18. CASE bridge' = [bridge EXCEPT ![b] = agreed] /\ old.control = None /\ m.kind = "activate"
            /\ ~Works(b)
 <2> DEFINE n == Reply(open, r, TRUE)
 <2>0. /\ open \in Bridges /\ Ordered(open)
       /\ \A q \in Nat : Mentions(open, q) => Mentions(old, q)
       /\ \A i, q \in Nat : /\ IsTold(open, i, q) => r < q
                            /\ IsTold(open, i, q) => req[q].action = open.inbox[i].kind
                            /\ Agrees(open, i, q) => q < r
                            /\ Agrees(open, i, q) => Agrees(old, i, q)
   BY <1>13
 <2>11. open.control = None BY <1>6, <1>7, <1>18
 <2>1. /\ Ordered(n)
       /\ \A q \in Nat : Mentions(n, q) => Mentions(open, q) \/ q = r
       /\ \A i, q \in Nat : Agrees(n, i, q) => Agrees(open, i, q) \/ (TRUE /\ q = r)
       /\ \A i, q \in Nat : IsTold(n, i, q) <=> IsTold(open, i, q)
       /\ n.inbox = open.inbox /\ n.control = open.control
       /\ n.held = open.held /\ n.change = open.change /\ n.at = open.at /\ n.sup = open.sup
   BY <1>3, <2>0, <2>11, ReplyOrdered
 <2>2. n \in Bridges BY <1>3, <1>7, AppendProperties DEF Words, Bridges, Reply
 <2> HIDE DEF n
 <2>3. \A q \in Nat : Mentions(n, q) => Mentions(old, q) BY <1>4, <2>0, <2>1
 <2>4. \A i, q \in Nat : IsTold(n, i, q) => req[q].action = n.inbox[i].kind BY <2>0, <2>1
 <2>5. \A i, q \in Nat : Agrees(n, i, q) => Agrees(old, i, q) \/ q = r BY <2>0, <2>1
 <2>6. bridge' = [bridge EXCEPT ![b] = n] BY <1>18 DEF n
 <2>7. n.control = None /\ ~n.held BY <1>6, <1>7, <1>18, <2>1
 <2>8. Opens(r) /\ ~Quiesces(r) BY <1>4, <1>18 DEF Opens, Quiesces
 <2>9. ASSUME NEW i \in Nat, NEW q \in Nat, Kid(b), Agrees(n, i, q)
       PROVE  ~(Quiesces(q) /\ NoOpenerAfter(q))
  <3>1. CASE q = r BY <2>8, <3>1
  <3>2. CASE q # r BY <1>15, <2>5, <2>9, <3>2, <1>3, <1>4, <2>8 DEF NoOpenerAfter
  <3> QED BY <3>1, <3>2
 <2>10. Kid(b) => ghost.told # "quiet" BY <1>16, <2>8
 <2> QED BY <1>6, <1>7, <1>12, <2>1, <2>2, <2>3, <2>4, <2>6, <2>7, <2>9, <2>10, TurnsInto
<1>19. CASE bridge' = [bridge EXCEPT ![b] = drains] /\ old.control = None /\ m.kind = "quiesce"
 <2>1. /\ Ordered(drains)
       /\ \A q \in Nat : Mentions(drains, q) => Mentions(old, q)
       /\ \A i, q \in Nat : IsTold(drains, i, q) => req[q].action = drains.inbox[i].kind
   BY <1>8, <1>11, <1>19
 <2>2. \A i, q \in Nat : Agrees(drains, i, q) => Agrees(old, i, q) BY <1>8, <1>10
 <2>3. Quiesces(r) /\ ~Opens(r) BY <1>4, <1>19 DEF Opens, Quiesces
 <2>4. ASSUME NEW i \in Nat, NEW q \in Nat, Kid(b), Agrees(drains, i, q)
       PROVE  /\ Quiesces(q) /\ NoOpenerAfter(q) => drains.change # "work"
              /\ ~(Opens(q) /\ NoQuiesceAfter(q))
   BY <1>15, <2>2, <2>4, <1>3, <1>4, <1>6, <1>8, <2>3 DEF NoQuiesceAfter
 <2>5. Kid(b) => /\ ghost.told = "quiet" => drains.change # "work"
                 /\ ghost.told # "open"
   BY <1>6, <1>8, <1>16, <2>3
 <2> QED BY <1>6, <1>8, <1>12, <1>19, <2>1, <2>4, <2>5, TurnsInto
<1>20. CASE bridge' = [bridge EXCEPT ![b] = resumes] /\ old.control = None /\ m.kind = "resume"
 <2>1. /\ Ordered(resumes)
       /\ \A q \in Nat : Mentions(resumes, q) => Mentions(old, q)
       /\ \A i, q \in Nat : IsTold(resumes, i, q) => req[q].action = resumes.inbox[i].kind
   BY <1>9, <1>11, <1>20
 <2>2. \A i, q \in Nat : Agrees(resumes, i, q) => Agrees(old, i, q) BY <1>9, <1>10
 <2>3. ~Quiesces(r) BY <1>4, <1>20 DEF Quiesces
 <2>4. \A i, q \in Nat : Kid(b) /\ Alive(b) /\ Agrees(resumes, i, q) =>
            /\ Quiesces(q) /\ NoOpenerAfter(q) => resumes.held /\ resumes.change # "work"
            /\ Opens(q) /\ NoQuiesceAfter(q) => ~resumes.held
   BY <1>6, <1>9, <1>15, <2>2
 <2>5. Kid(b) /\ Alive(b) => /\ ghost.told = "quiet" => resumes.held /\ resumes.change # "work"
                             /\ ghost.told = "open" => ~resumes.held
   BY <1>6, <1>9, <1>16
 <2> QED BY <1>6, <1>9, <1>12, <1>20, <2>1, <2>3, <2>4, <2>5, TurnsInto
<1> QED BY <1>12, <1>17, <1>18, <1>19, <1>20

\* The answer to quiesce or resume.
LEMMA ControlledTold ==
  ASSUME AsToldInv, StopInv, NEW b \in DOMAIN bridge, Controlled(b)
  PROVE  AsToldInv'
<1> DEFINE old == bridge[b]
           r == old.control
           done == [old EXCEPT !.control = None]
           open == [done EXCEPT !.held = FALSE]
<1>1. /\ old \in Bridges /\ old.at = "up" /\ r # None
      /\ BridgeKnows(b) /\ DrainsHeld(b) /\ AgreedIsSo(b) /\ b # None
  BY Entries, ControlsAreNat DEF StopInv, Controlled, AsToldInv
<1>2. r \in Nat /\ Mentions(old, r) BY <1>1 DEF Bridges, Maybe, Mentions
<1>3. r \in Controls BY <1>1, <1>2 DEF BridgeKnows, Forwarded
<1>4. /\ done \in Bridges /\ done.inbox = old.inbox /\ done.outbox = old.outbox
      /\ done.control = None /\ done.held = old.held /\ done.change = old.change
      /\ done.at = old.at /\ done.sup = old.sup
  BY <1>1 DEF Bridges, Maybe
<1> HIDE DEF done
<1>5. /\ open \in Bridges /\ open.inbox = old.inbox /\ open.outbox = old.outbox
      /\ open.control = None /\ open.held = FALSE /\ open.change = old.change
      /\ open.at = old.at /\ open.sup = old.sup
  BY <1>4 DEF Bridges
<1> HIDE DEF open
<1>6. /\ UNCHANGED <<sup, req, admission, socket, ghost>>
      /\ \/ bridge' = [bridge EXCEPT ![b] = Reply(done, r, FALSE)]
         \/ bridge' = [bridge EXCEPT ![b] = Reply(open, r, TRUE)] /\ Opens(r)
         \/ bridge' = [bridge EXCEPT ![b] = Reply(done, r, TRUE)] /\ ~Opens(r) /\ ~Works(b)
 <2>1. CASE Opens(r) BY <2>1 DEF Controlled, Became, Turns, done, open
 <2>2. CASE ~Opens(r)
  <3>1. Turns(b, Reply(done, r, ~Works(b))) BY <2>2 DEF Controlled, Became, Drained, done
  <3>2. CASE Works(b) BY <3>1, <3>2 DEF Turns
  <3>3. CASE ~Works(b) BY <3>1, <3>3, <2>2 DEF Turns
  <3> QED BY <3>2, <3>3
 <2> QED BY <2>1, <2>2
<1>7. Ordered(old) BY <1>1 DEF BridgeKnows
<1>8. \A i, q \in Nat : (Agrees(old, i, q) => q < r) /\ (IsTold(old, i, q) => r < q)
  BY <1>2, <1>7 DEF Ordered
<1>9. ASSUME NEW m \in {done, open}
      PROVE  /\ m \in Bridges /\ Ordered(m) /\ m.control = None /\ m.inbox = old.inbox
             /\ m.change = old.change /\ m.at = old.at /\ m.sup = old.sup
             /\ \A q \in Nat : Mentions(m, q) => Mentions(old, q)
             /\ \A i, q \in Nat : /\ Agrees(m, i, q) <=> Agrees(old, i, q)
                                  /\ IsTold(m, i, q) <=> IsTold(old, i, q)
  BY <1>4, <1>5, <1>9, <1>1, SameWords, <1>7, WithinKeeps DEF Agrees, Says, IsTold
<1>10. Alive(b) BY <1>1 DEF Alive
<1>11. Kid(b) => ~Over(r) BY <1>1, <1>2 DEF Over
<1>12. \A i, q \in Nat : Kid(b) /\ Agrees(old, i, q) =>
         /\ Quiesces(q) /\ NoOpenerAfter(q) => old.held /\ old.change # "work"
         /\ Opens(q) /\ NoQuiesceAfter(q) => ~old.held
  BY <1>1, <1>10 DEF AgreedIsSo, Quiet, Works
<1>13. Kid(b) => /\ ghost.told = "quiet" => old.held /\ old.change # "work" /\ ~Opens(r)
                 /\ ghost.told = "open" => ~old.held /\ ~Quiesces(r)
  BY <1>3, <1>10, <1>11 DEF AsToldInv, ToldQuiet, ToldOpen, Quiet, Works
\* What the answer makes of the bridge.
<1>14. ASSUME NEW m \in {done, open}, NEW ok \in BOOLEAN,
              bridge' = [bridge EXCEPT ![b] = Reply(m, r, ok)],
              \A i, q \in Nat : Kid(b) /\ Agrees(old, i, q) =>
                /\ Quiesces(q) /\ NoOpenerAfter(q) => m.held /\ m.change # "work"
                /\ Opens(q) /\ NoQuiesceAfter(q) => ~m.held,
              Kid(b) /\ ok => /\ Quiesces(r) => m.held /\ m.change # "work"
                              /\ Opens(r) => ~m.held,
              Kid(b) => /\ ghost.told = "quiet" => m.held /\ m.change # "work"
                        /\ ghost.told = "open" => ~m.held
       PROVE  AsToldInv'
 <2> DEFINE n == Reply(m, r, ok)
 <2>1. m \in Bridges /\ Ordered(m) /\ m.control = None /\ m.inbox = old.inbox
       /\ m.at = old.at /\ m.sup = old.sup
       /\ (\A q \in Nat : Mentions(m, q) => Mentions(old, q))
       /\ (\A i, q \in Nat : /\ Agrees(m, i, q) <=> Agrees(old, i, q)
                             /\ IsTold(m, i, q) <=> IsTold(old, i, q))
   BY <1>9
 <2>2. \A i, q \in Nat : (Agrees(m, i, q) => q < r) /\ (IsTold(m, i, q) => r < q) BY <1>8, <2>1
 <2>3. /\ Ordered(n)
       /\ \A q \in Nat : Mentions(n, q) => Mentions(m, q) \/ q = r
       /\ \A i, q \in Nat : Agrees(n, i, q) => Agrees(m, i, q) \/ (ok /\ q = r)
       /\ n.inbox = m.inbox /\ n.control = m.control
       /\ n.held = m.held /\ n.change = m.change /\ n.at = m.at /\ n.sup = m.sup
       /\ \A i, q \in Nat : IsTold(n, i, q) <=> IsTold(m, i, q)
   BY <1>2, <2>1, <2>2, ReplyOrdered
 <2>4. n \in Bridges BY <1>2, <2>1, AppendProperties DEF Words, Bridges, Reply
 <2>5. bridge' = [bridge EXCEPT ![b] = n] BY <1>14
 <2> HIDE DEF n
 <2>6. \A q \in Nat : Mentions(n, q) => Mentions(old, q) BY <1>2, <2>1, <2>3
 <2>7. \A i, q \in Nat : IsTold(n, i, q) => req[q].action = n.inbox[i].kind
   BY <1>1, <2>1, <2>3 DEF BridgeKnows
 <2>8. \A i, q \in Nat : Kid(b) /\ Alive(b) /\ Agrees(n, i, q) =>
            /\ Quiesces(q) /\ NoOpenerAfter(q) => n.held /\ n.change # "work"
            /\ Opens(q) /\ NoQuiesceAfter(q) => ~n.held
   BY <1>14, <2>1, <2>3
 <2>9. Kid(b) /\ Alive(b) => /\ ghost.told = "quiet" => n.held /\ n.change # "work"
                             /\ ghost.told = "open" => ~n.held
   BY <1>14, <2>3
 <2> QED BY <1>6, <2>1, <2>3, <2>4, <2>5, <2>6, <2>7, <2>8, <2>9, TurnsInto
<1>15. CASE bridge' = [bridge EXCEPT ![b] = Reply(done, r, FALSE)]
  BY <1>4, <1>12, <1>13, <1>14, <1>15
<1>16. CASE bridge' = [bridge EXCEPT ![b] = Reply(open, r, TRUE)] /\ Opens(r)
  BY <1>16, <1>2, <1>8, <1>3, <1>5, <1>13, <1>14 DEF Opens, Quiesces, NoOpenerAfter
<1>17. CASE bridge' = [bridge EXCEPT ![b] = Reply(done, r, TRUE)] /\ ~Opens(r) /\ ~Works(b)
  BY <1>1, <1>4, <1>17, <1>12, <1>13, <1>14 DEF DrainsHeld, Works
<1> QED BY <1>6, <1>15, <1>16, <1>17

-----------------------------------------------------------------------------
(* The supervisor and the clients, where nobody is told anything. *)

LEMMA SupsAsBefore ==
  ASSUME StopInv, OneUp, NEW s \in SupIds, NEW m, sup' = [sup EXCEPT ![s] = m],
         socket' = socket \/ (sup[s].at = "up" /\ m.at # "up"),
         m.at = "up" => /\ sup[s].at = "up" /\ m.pending = sup[s].pending
                        /\ m.child = sup[s].child \/ m.child = None
                        /\ m.ready = sup[s].ready \/ m.ready = sup[s].child
  PROVE  \A t \in SupIds :
           SupAsBefore(t) /\ (sup'[t].at = "up" => sup'[t].pending = sup[t].pending)
<1>1. \A t \in SupIds : sup'[t] = IF t = s THEN m ELSE sup[t] BY DEF StopInv, SupervisorTypeOK
<1>2. ASSUME NEW t \in SupIds
      PROVE  SupAsBefore(t) /\ (sup'[t].at = "up" => sup'[t].pending = sup[t].pending)
 <2>1. CASE t = s BY <1>1, <2>1 DEF SupAsBefore
 <2>2. CASE t # s BY <2>2, <1>1 DEF OneUp, SupAsBefore
 <2> QED BY <2>1, <2>2
<1> QED BY <1>2

LEMMA BridgesAsBefore ==
  ASSUME StopInv, UNCHANGED bridge
  PROVE  DOMAIN bridge' = DOMAIN bridge /\ \A b \in DOMAIN bridge : BridgeAsBefore(b)
<1>1. \A b \in DOMAIN bridge : bridge[b] \in Bridges BY Entries DEF StopInv
<1>2. \A b \in DOMAIN bridge : Within(bridge[b], bridge[b]) BY <1>1, SameWords
<1> QED BY <1>2 DEF BridgeAsBefore, Alive, Works

LEMMA OthersAsBefore ==
  ASSUME StopInv, NEW b \in DOMAIN bridge, NEW n, bridge' = [bridge EXCEPT ![b] = n],
         Within(bridge[b], n), n.sup = bridge[b].sup, n.at = bridge[b].at,
         n.held = bridge[b].held, n.change = bridge[b].change
  PROVE  DOMAIN bridge' = DOMAIN bridge /\ \A c \in DOMAIN bridge : BridgeAsBefore(c)
<1>1. /\ DOMAIN bridge' = DOMAIN bridge /\ bridge'[b] = n
      /\ \A c \in DOMAIN bridge : c # b => bridge'[c] = bridge[c]
      /\ \A c \in DOMAIN bridge : bridge[c] \in Bridges
  BY Entries DEF StopInv, SupervisorTypeOK
<1>2. BridgeAsBefore(b) BY <1>1 DEF BridgeAsBefore, Alive, Works
<1>3. ASSUME NEW c \in DOMAIN bridge, c # b PROVE BridgeAsBefore(c)
  BY <1>1, <1>3, SameWords DEF BridgeAsBefore, Alive, Works
<1> QED BY <1>1, <1>2, <1>3

\* What an answer is.
LEMMA AnswersSame ==
  ASSUME SupervisorTypeOK, NEW rs, NEW what
  PROVE  /\ DOMAIN Answers(rs, what) = DOMAIN req
         /\ \A r \in DOMAIN req :
              /\ Answers(rs, what)[r].action = req[r].action
              /\ Answers(rs, what)[r].sup = req[r].sup
              /\ Answers(rs, what)[r].bridge = req[r].bridge
              /\ Answers(rs, what)[r].gone = req[r].gone
              /\ Answers(rs, what)[r].at = IF r \in rs THEN "answered" ELSE req[r].at
              /\ Answers(rs, what)[r].result = IF r \in rs THEN what ELSE req[r].result
<1>1. \A r \in DOMAIN req : req[r] \in Reqs BY Entries
<1> QED BY <1>1 DEF Answers, Reqs

\* Request r stays, or is answered, and not with "ok".
Refused(r) ==
    /\ req'[r].action = req[r].action /\ req'[r].sup = req[r].sup
    /\ req'[r].bridge = req[r].bridge /\ req'[r].gone = req[r].gone
    /\ \/ req'[r].at = req[r].at /\ req'[r].result = req[r].result
       \/ /\ req'[r].at = "answered" /\ req'[r].result # "ok"
          /\ req[r].at # "sent" \/ sup'[req[r].sup].at # "up"

LEMMA RefusedTold ==
  ASSUME AsToldInv, StopInv, admission' = admission, ghost'.told = ghost.told, \A s \in SupIds :
            SupAsBefore(s) /\ (sup'[s].at = "up" => sup'[s].pending = sup[s].pending),
         DOMAIN bridge' = DOMAIN bridge, \A b \in DOMAIN bridge : BridgeAsBefore(b),
         DOMAIN req' = DOMAIN req, \A r \in DOMAIN req : Refused(r)
  PROVE  AsToldInv'
<1>1. \A r \in DOMAIN req : ReqAsBefore(r) BY DEF Refused, ReqAsBefore
<1>2. QueuesAsBefore BY <1>1 DEF QueuesAsBefore
<1>3. Controls \subseteq DOMAIN req BY DEF Controls
<1>4. \A r \in Controls : /\ req'[r].result = "ok" => req[r].result = "ok"
                          /\ sup'[req[r].sup].at = "up" /\ req'[r].at # "sent"
                               => req[r].at # "sent"
  BY <1>3 DEF Refused
<1> QED BY <1>2, <1>4, NothingTold

LEMMA AnswersRefuse ==
  ASSUME StopInv, NEW rs, NEW what, what # "ok", req' = Answers(rs, what),
         \A r \in rs \cap DOMAIN req : req[r].at # "sent" \/ sup'[req[r].sup].at # "up"
  PROVE  DOMAIN req' = DOMAIN req /\ \A r \in DOMAIN req : Refused(r)
<1>1. SupervisorTypeOK BY DEF StopInv
<1> QED BY <1>1, AnswersSame DEF Refused

LEMMA ReqsStay ==
  ASSUME UNCHANGED req
  PROVE  DOMAIN req' = DOMAIN req /\ \A r \in DOMAIN req : Refused(r)
BY DEF Refused

LEMMA BornTold ==
  ASSUME AsToldInv, StopInv, NEW s \in SupIds, \E explicit, pending \in BOOLEAN : Born(s, explicit, pending)
  PROVE  AsToldInv'
<1>1. PICK explicit \in BOOLEAN, pending \in BOOLEAN : Born(s, explicit, pending) OBVIOUS
<1> DEFINE m == [sup[s] EXCEPT !.at = "born", !.initial = pending]
<1>2. sup[s] \in Sups BY Entries DEF StopInv
<1>3. m.at # "up" BY <1>2 DEF Sups
<1>4. sup' = [sup EXCEPT ![s] = m] /\ UNCHANGED <<bridge, req, admission, socket>> BY <1>1 DEF Born
<1>5. ghost'.told = ghost.told BY <1>1 DEF Born, StopInv, SupervisorTypeOK
<1> HIDE DEF m
<1> QED BY <1>3, <1>4, <1>5, SupsAsBefore, BridgesAsBefore, ReqsStay, RefusedTold DEF AsToldInv

\* It does not listen.
LEMMA UnbornTold ==
  ASSUME AsToldInv, StopInv, NEW s \in SupIds, sup' = [sup EXCEPT ![s] = Unborn],
         UNCHANGED <<bridge, req, admission, socket, ghost>>
  PROVE  AsToldInv'
<1>1. Unborn.at # "up" BY DEF Unborn
<1> QED BY <1>1, SupsAsBefore, BridgesAsBefore, ReqsStay, RefusedTold DEF AsToldInv

\* A supervisor leaves.
LEMMA GoneTold ==
  ASSUME AsToldInv, StopInv, NEW s \in SupIds, sup[s].at = "up", sup' = [sup EXCEPT ![s] = Gone],
         DOMAIN bridge' = DOMAIN bridge, \A b \in DOMAIN bridge : BridgeAsBefore(b),
         DOMAIN req' = DOMAIN req,
         \A r \in DOMAIN req : \E what \in {"stopped", "error"}, rs \in {{}, Open(s)} :
            req'[r] = Answers(rs, what)[r], admission' = admission, ghost'.told = ghost.told
  PROVE  AsToldInv'
<1>1. Gone.at # "up" BY GoneIsASup
<1>2. \A t \in SupIds : SupAsBefore(t) /\ (sup'[t].at = "up" => sup'[t].pending = sup[t].pending)
  BY <1>1, SupsAsBefore DEF AsToldInv
<1>3. sup'[s].at # "up" BY <1>1, SupChanged, GoneIsASup DEF StopInv, SupervisorTypeOK
<1>4. ASSUME NEW r \in DOMAIN req PROVE Refused(r)
 <2>1. PICK what \in {"stopped", "error"}, rs \in {{}, Open(s)} : req'[r] = Answers(rs, what)[r]
   OBVIOUS
 <2>2. SupervisorTypeOK /\ what # "ok" /\ (r \in rs => req[r].sup = s) BY DEF StopInv, Open
 <2>3. /\ Answers(rs, what)[r].action = req[r].action
       /\ Answers(rs, what)[r].sup = req[r].sup
       /\ Answers(rs, what)[r].bridge = req[r].bridge
       /\ Answers(rs, what)[r].gone = req[r].gone
       /\ Answers(rs, what)[r].at = IF r \in rs THEN "answered" ELSE req[r].at
       /\ Answers(rs, what)[r].result = IF r \in rs THEN what ELSE req[r].result
   BY <2>2, AnswersSame
 <2> QED BY <1>3, <2>1, <2>2, <2>3 DEF Refused
<1> QED BY <1>2, <1>4, RefusedTold

LEMMA EndsTold ==
  ASSUME AsToldInv, StopInv, NEW s \in SupIds, StopDone(s) \/ SupervisorCrash(s)
  PROVE  AsToldInv'
<1>1. SupervisorTypeOK BY DEF StopInv
<1>2. /\ sup[s].at = "up" /\ sup' = [sup EXCEPT ![s] = Gone] /\ UNCHANGED <<bridge, admission>>
      /\ ghost'.told = ghost.told
      /\ DOMAIN req' = DOMAIN req
      /\ \A r \in DOMAIN req : \E what \in {"stopped", "error"}, rs \in {{}, Open(s)} :
            req'[r] = Answers(rs, what)[r]
 <2>1. CASE StopDone(s) BY <2>1, <1>1 DEF StopDone, Leaves, SupervisorTypeOK
 <2>2. CASE SupervisorCrash(s) BY <1>1, AnswersSame, <2>2 DEF SupervisorCrash
 <2> QED BY <2>1, <2>2
<1> QED BY <1>2, BridgesAsBefore, GoneTold

LEMMA StopFailsTold ==
  ASSUME AsToldInv, StopInv, NEW s \in SupIds, StopFails(s)
  PROVE  AsToldInv'
<1> DEFINE m == [sup[s] EXCEPT !.stopping = FALSE]
<1>1. sup[s] \in Sups BY Entries DEF StopInv
<1>2. /\ m.at = sup[s].at /\ m.pending = sup[s].pending /\ m.child = sup[s].child
      /\ m.ready = sup[s].ready
  BY <1>1 DEF Sups
<1>3. /\ sup' = [sup EXCEPT ![s] = m] /\ req' = Answers(Waiting(s), "unverified")
      /\ UNCHANGED <<bridge, admission, socket, ghost>>
  BY DEF StopFails
<1> HIDE DEF m
<1>4. DOMAIN req' = DOMAIN req /\ \A r \in DOMAIN req : Refused(r)
  BY <1>3, AnswersRefuse DEF Waiting
<1> QED BY <1>2, <1>3, <1>4, SupsAsBefore, BridgesAsBefore, RefusedTold DEF AsToldInv

LEMMA UncertainTold ==
  ASSUME AsToldInv, StopInv, NEW r \in DOMAIN req, Uncertain(r)
  PROVE  AsToldInv'
<1>1. UNCHANGED <<sup, bridge, admission, socket, ghost>> /\ req' = Answers({r}, "uncertain")
      /\ req[r].at = "forwarded"
  BY DEF Uncertain
<1>2. DOMAIN req' = DOMAIN req /\ \A q \in DOMAIN req : Refused(q) BY <1>1, AnswersRefuse
<1>3. \A t \in SupIds : SupAsBefore(t) /\ (sup'[t].at = "up" => sup'[t].pending = sup[t].pending)
  BY <1>1 DEF SupAsBefore
<1> QED BY <1>1, <1>2, <1>3, BridgesAsBefore, RefusedTold

LEMMA GivesUpTold ==
  ASSUME AsToldInv, StopInv, NEW r \in DOMAIN req, GivesUp(r)
  PROVE  AsToldInv'
<1> DEFINE m == [req[r] EXCEPT !.gone = TRUE]
<1>1. UNCHANGED <<sup, bridge, admission, socket, ghost>> /\ req' = [req EXCEPT ![r] = m]
  BY DEF GivesUp
<1>2. /\ m.sup = req[r].sup /\ m.at = req[r].at /\ m.gone /\ m.bridge = req[r].bridge
      /\ m.result = req[r].result /\ m.action = req[r].action
  BY Entries DEF StopInv, Reqs
<1> HIDE DEF m
<1>3. DOMAIN req' = DOMAIN req /\ \A q \in DOMAIN req : req'[q] = IF q = r THEN m ELSE req[q]
  BY <1>1
<1>4. \A q \in DOMAIN req : ReqAsBefore(q) /\ req'[q].result = req[q].result
                            /\ req'[q].at = req[q].at
  BY <1>2, <1>3 DEF ReqAsBefore
<1>5. \A t \in SupIds : SupAsBefore(t) /\ (sup'[t].at = "up" => sup'[t].pending = sup[t].pending)
  BY <1>1 DEF SupAsBefore
<1>6. QueuesAsBefore BY <1>1, <1>3, <1>4, <1>5, BridgesAsBefore DEF QueuesAsBefore
<1>7. Controls \subseteq DOMAIN req BY DEF Controls
<1> QED BY <1>1, <1>4, <1>5, <1>6, <1>7, NothingTold

\* An order to stop says nothing about admission.
LEMMA StopsTold ==
  ASSUME AsToldInv, StopInv, NEW s \in SupIds, NEW holds \in BOOLEAN, NEW m,
         Stops(s, holds, m), m.at = sup[s].at, m.pending = sup[s].pending,
         m.child = sup[s].child, m.ready = sup[s].ready, UNCHANGED socket
  PROVE  /\ \A t \in SupIds :
              SupAsBefore(t) /\ (sup'[t].at = "up" => sup'[t].pending = sup[t].pending)
         /\ DOMAIN bridge' = DOMAIN bridge /\ \A b \in DOMAIN bridge : BridgeAsBefore(b)
<1> DEFINE order == [kind |-> "stop", r |-> 0]
           b == sup[s].child
           n == [bridge[b] EXCEPT !.inbox = Append(@, order)]
<1>1. order \in Orders /\ order.kind = "stop" BY DEF Orders
<1>2. bridge' = bridge \/ (bridge' = [bridge EXCEPT ![b] = n]) BY DEF Stops, Tell
<1> HIDE DEF order
<1>3. CASE bridge' = bridge BY <1>3, SupsAsBefore, BridgesAsBefore DEF Stops, AsToldInv
<1>4. CASE bridge' # bridge
 <2>1. bridge' = [bridge EXCEPT ![b] = n] BY <1>2, <1>4
 <2>2. CASE b \in DOMAIN bridge
  <3>1. bridge[b] \in Bridges BY <2>2, Entries DEF StopInv
  <3>2. /\ n.control = bridge[b].control /\ n.outbox = bridge[b].outbox
        /\ n.inbox = Append(bridge[b].inbox, order) /\ n.sup = bridge[b].sup
        /\ n.at = bridge[b].at /\ n.held = bridge[b].held /\ n.change = bridge[b].change
    BY <3>1 DEF Bridges
  <3> HIDE DEF n
  <3>3. Within(bridge[b], n) BY <1>1, <3>1, <3>2, StopWithin
  <3>4. DOMAIN bridge' = DOMAIN bridge /\ \A c \in DOMAIN bridge : BridgeAsBefore(c)
    BY <2>1, <2>2, <3>2, <3>3, OthersAsBefore
  <3> QED BY <3>4, SupsAsBefore DEF Stops, AsToldInv
 <2>3. CASE b \notin DOMAIN bridge BY <2>1, <2>3, <1>4 DEF StopInv, SupervisorTypeOK
 <2> QED BY <2>2, <2>3
<1> QED BY <1>3, <1>4

LEMMA AskedSame ==
  ASSUME StopInv, NEW s \in SupIds, NEW holds \in BOOLEAN
  PROVE  /\ Asked(s, holds) \in Sups
         /\ Asked(s, holds).at = sup[s].at /\ Asked(s, holds).pending = sup[s].pending
         /\ Asked(s, holds).child = sup[s].child /\ Asked(s, holds).ready = sup[s].ready
<1>1. sup[s] \in Sups BY Entries DEF StopInv
<1>2. Asked(s, holds) \in Sups BY AskedSteady DEF Steady
<1> QED BY <1>1, <1>2 DEF Asked, Sups

LEMMA SignalTold ==
  ASSUME AsToldInv, StopInv, NEW s \in SupIds, Signal(s)
  PROVE  AsToldInv'
<1>1. Stops(s, FALSE, Asked(s, FALSE)) /\ UNCHANGED <<req, admission, socket, ghost>> BY DEF Signal
<1>2. /\ \A t \in SupIds :
           SupAsBefore(t) /\ (sup'[t].at = "up" => sup'[t].pending = sup[t].pending)
      /\ DOMAIN bridge' = DOMAIN bridge /\ \A b \in DOMAIN bridge : BridgeAsBefore(b)
  BY <1>1, AskedSame, StopsTold
<1> QED BY <1>1, <1>2, ReqsStay, RefusedTold

LEMMA StopTold ==
  ASSUME AsToldInv, StopInv, NEW r \in DOMAIN req, Stop(r)
  PROVE  AsToldInv'
<1> DEFINE s == req[r].sup
           auth == req[r].auth
           asked == Asked(s, TRUE)
           m == [asked EXCEPT !.auth = IF auth # None THEN auth ELSE @]
           waits == [req[r] EXCEPT !.at = "stopping"]
<1>1. req[r] \in Reqs /\ s \in SupIds /\ req[r].action = "stop" /\ req[r].at = "sent"
  BY Entries DEF StopInv, Reqs, Stop, Arrives
<1>2. UNCHANGED <<admission, socket, ghost>> BY DEF Stop
<1>3. \/ req' = Answers({r}, "refused") /\ UNCHANGED <<sup, bridge, hold>>
      \/ Stops(s, TRUE, m) /\ req' = [req EXCEPT ![r].at = "stopping"]
  BY Zenon DEF Stop
<1>4. r \notin Controls BY <1>1 DEF Controls
\* In both cases only a request to stop changes.
<1>5. ASSUME NEW n \in Reqs, n.action = "stop", n.sup = s, n.bridge = req[r].bridge,
             n.gone = req[r].gone, n.at # "sent",
             DOMAIN req' = DOMAIN req, req'[r] = n, \A q \in DOMAIN req : q # r => req'[q] = req[q],
             \A t \in SupIds :
               SupAsBefore(t) /\ (sup'[t].at = "up" => sup'[t].pending = sup[t].pending),
             DOMAIN bridge' = DOMAIN bridge, \A b \in DOMAIN bridge : BridgeAsBefore(b)
      PROVE  AsToldInv'
  BY <1>1, <1>5, <1>4, <1>2, NothingTold DEF ReqAsBefore, QueuesAsBefore, Controls
<1>6. CASE req' = Answers({r}, "refused") /\ UNCHANGED <<sup, bridge, hold>>
 <2> DEFINE n == [req[r] EXCEPT !.at = "answered", !.result = "refused"]
 <2>1. /\ n \in Reqs /\ n.action = "stop" /\ n.sup = s /\ n.bridge = req[r].bridge
       /\ n.gone = req[r].gone /\ n.at = "answered"
   BY <1>1 DEF Reqs, Maybe
 <2>2. DOMAIN req' = DOMAIN req /\ req'[r] = n /\ \A q \in DOMAIN req : q # r => req'[q] = req[q]
   BY <1>6 DEF Answers
 <2> HIDE DEF n
 <2>3. \A t \in SupIds : SupAsBefore(t) /\ (sup'[t].at = "up" => sup'[t].pending = sup[t].pending)
   BY <1>2, <1>6 DEF SupAsBefore
 <2> QED BY <1>5, <1>6, <2>1, <2>2, <2>3, BridgesAsBefore
<1>7. CASE Stops(s, TRUE, m) /\ req' = [req EXCEPT ![r].at = "stopping"]
 <2>1. /\ asked \in Sups
       /\ asked.at = sup[s].at /\ asked.pending = sup[s].pending
       /\ asked.child = sup[s].child /\ asked.ready = sup[s].ready
   BY <1>1, AskedSame
 <2> HIDE DEF asked
 <2>2. /\ m.at = sup[s].at /\ m.pending = sup[s].pending
       /\ m.child = sup[s].child /\ m.ready = sup[s].ready
   BY <2>1 DEF Sups
 <2> HIDE DEF m
 <2>3. /\ \A t \in SupIds :
            SupAsBefore(t) /\ (sup'[t].at = "up" => sup'[t].pending = sup[t].pending)
       /\ DOMAIN bridge' = DOMAIN bridge /\ \A b \in DOMAIN bridge : BridgeAsBefore(b)
   BY <1>1, <1>2, <1>7, <2>2, StopsTold
 <2>4. /\ waits \in Reqs /\ waits.action = "stop" /\ waits.sup = s
       /\ waits.bridge = req[r].bridge /\ waits.gone = req[r].gone /\ waits.at = "stopping"
   BY <1>1 DEF Reqs
 <2>5. req' = [req EXCEPT ![r] = waits] BY <1>7
 <2> HIDE DEF waits
 <2>6. DOMAIN req' = DOMAIN req /\ req'[r] = waits /\ \A q \in DOMAIN req : q # r => req'[q] = req[q]
   BY <2>5
 <2> QED BY <1>5, <2>3, <2>4, <2>6
<1> QED BY <1>3, <1>6, <1>7

LEMMA HeardAsBefore ==
  ASSUME StopInv, NEW b \in DOMAIN bridge, bridge[b].outbox # <<>>, bridge' = Heard(b)
  PROVE  /\ DOMAIN bridge' = DOMAIN bridge /\ \A c \in DOMAIN bridge : BridgeAsBefore(c)
         /\ bridge'[b].outbox = Tail(bridge[b].outbox) /\ bridge'[b].inbox = bridge[b].inbox
         /\ bridge'[b].control = bridge[b].control
<1> DEFINE n == [bridge[b] EXCEPT !.outbox = Tail(@)]
<1>1. bridge[b] \in Bridges BY Entries DEF StopInv
<1>2. /\ n.outbox = Tail(bridge[b].outbox) /\ n.inbox = bridge[b].inbox
      /\ n.control = bridge[b].control /\ n.sup = bridge[b].sup /\ n.at = bridge[b].at
      /\ n.held = bridge[b].held /\ n.change = bridge[b].change
  BY <1>1 DEF Bridges
<1>3. bridge' = [bridge EXCEPT ![b] = n] BY DEF Heard
<1> HIDE DEF n
<1>4. Within(bridge[b], n) BY <1>1, <1>2, HeardWithin
<1>5. bridge'[b] = n BY <1>3
<1> QED BY <1>2, <1>3, <1>4, <1>5, OthersAsBefore

LEMMA ReadyTold ==
  ASSUME AsToldInv, StopInv, NEW b \in DOMAIN bridge, Ready(b)
  PROVE  AsToldInv'
<1> DEFINE s == bridge[b].sup
           held == Head(bridge[b].outbox).held
           m == [sup[s] EXCEPT !.ready = b, !.readyHeld = held]
<1>1. s \in SupIds /\ sup[s] \in Sups BY Entries DEF StopInv, Bridges
<1>2. /\ bridge[b].outbox # <<>> /\ bridge' = Heard(b)
      /\ UNCHANGED <<req, admission, socket, ghost>>
  BY DEF Ready, Speaks
<1>3. DOMAIN bridge' = DOMAIN bridge /\ \A c \in DOMAIN bridge : BridgeAsBefore(c)
  BY <1>2, HeardAsBefore
<1>4. sup' = sup \/ (sup' = [sup EXCEPT ![s] = m] /\ sup[s].child = b) BY DEF Ready
<1> HIDE DEF held
<1>5. /\ m.at = sup[s].at /\ m.pending = sup[s].pending /\ m.child = sup[s].child /\ m.ready = b
  BY <1>1 DEF Sups
<1> HIDE DEF m
<1>6. \A t \in SupIds : SupAsBefore(t) /\ (sup'[t].at = "up" => sup'[t].pending = sup[t].pending)
 <2>1. CASE sup' = sup BY <1>2, <2>1 DEF SupAsBefore
 <2>2. CASE sup' = [sup EXCEPT ![s] = m] /\ sup[s].child = b
   BY <1>1, <1>2, <1>5, <2>2, SupsAsBefore DEF AsToldInv
 <2> QED BY <1>4, <2>1, <2>2
<1> QED BY <1>2, <1>3, <1>6, ReqsStay, RefusedTold

LEMMA ExitedTold ==
  ASSUME AsToldInv, StopInv, NEW b \in DOMAIN bridge, Exited(b)
  PROVE  AsToldInv'
<1> DEFINE s == bridge[b].sup
           unproved == bridge[b].proof = "owed"
           seen == [bridge[b] EXCEPT !.noticed = TRUE,
                                     !.proof = IF unproved THEN "failed" ELSE @]
           m == [sup[s] EXCEPT !.child = None]
           ends == [m EXCEPT !.asked = TRUE, !.stopping = TRUE]
           again == [m EXCEPT !.retry = TRUE]
<1>1. /\ bridge[b] \in Bridges /\ s \in SupIds /\ sup[s] \in Sups /\ sup[s].at = "up"
      /\ SupervisorTypeOK
  BY Entries DEF StopInv, Bridges, Exited
<1>2. UNCHANGED <<admission, ghost>> BY DEF Exited
<1>3. bridge' = [bridge EXCEPT ![b] = seen] BY <1>1 DEF Exited, Bridges
<1>4. /\ seen.sup = s /\ seen.at = bridge[b].at /\ seen.held = bridge[b].held
      /\ seen.change = bridge[b].change /\ seen.control = bridge[b].control
      /\ seen.inbox = bridge[b].inbox /\ seen.outbox = bridge[b].outbox
  BY <1>1 DEF Bridges
<1>5. \/ Leaves(s, Answers(Open(s), "error"))
      \/ /\ sup' = [sup EXCEPT ![s] = m] \/ sup' = [sup EXCEPT ![s] = ends]
            \/ sup' = [sup EXCEPT ![s] = again]
         /\ UNCHANGED <<socket, req>>
  BY DEF Exited
<1> HIDE DEF seen
<1>6. Within(bridge[b], seen) BY <1>1, <1>4, SameWords
<1>7. DOMAIN bridge' = DOMAIN bridge /\ \A c \in DOMAIN bridge : BridgeAsBefore(c)
  BY <1>3, <1>4, <1>6, OthersAsBefore
<1>8. CASE Leaves(s, Answers(Open(s), "error"))
 <2>1. sup' = [sup EXCEPT ![s] = Gone] /\ req' = Answers(Open(s), "error") BY <1>8 DEF Leaves
 <2>2. DOMAIN req' = DOMAIN req BY <1>1, <2>1, AnswersSame
 <2> QED BY <1>1, <1>2, <1>7, <2>1, <2>2, GoneTold
<1>9. ASSUME NEW n \in {m, ends, again}, sup' = [sup EXCEPT ![s] = n], UNCHANGED <<socket, req>>
      PROVE  AsToldInv'
 <2>1. /\ m \in Sups /\ m.at = "up" /\ m.child = None /\ m.pending = sup[s].pending
       /\ m.ready = sup[s].ready
   BY <1>1 DEF Sups, Maybe
 <2> HIDE DEF m
 <2>2. /\ n.at = "up" /\ n.child = None /\ n.pending = sup[s].pending /\ n.ready = sup[s].ready
   BY <2>1, <1>9 DEF Sups
 <2>3. \A t \in SupIds : SupAsBefore(t) /\ (sup'[t].at = "up" => sup'[t].pending = sup[t].pending)
   BY <1>1, <1>9, <2>2, SupsAsBefore DEF AsToldInv
 <2> QED BY <1>2, <1>7, <1>9, <2>3, ReqsStay, RefusedTold
<1> QED BY <1>5, <1>8, <1>9

-----------------------------------------------------------------------------
(* A new bridge. *)

LEMMA LaunchTold ==
  ASSUME AsToldInv, StopInv, NEW s \in SupIds, NEW m \in Sups, Launch(s, m),
         UNCHANGED <<req, admission>>, socket' = s, \A t \in SupIds : sup[t].at = "up" => t = s,
         \A r \in DOMAIN req : req[r].sup = s => sup[s].at = "up" /\ m.pending = sup[s].pending,
         ghost'.told # None => /\ ghost'.told = ghost.told
                               /\ ghost.told = "quiet" => m.pending
                               /\ ghost.told = "open" => ~m.pending
  PROVE  AsToldInv'
<1>0. PICK last \in Nat : last = Len(bridge) + 1 BY Entries DEF StopInv
<1> DEFINE new == Forked(s, m.pending)
           n == [m EXCEPT !.at = "up", !.ready = None, !.retry = FALSE, !.child = last]
<1>1. SupervisorTypeOK /\ bridge \in Seq(Bridges) BY DEF StopInv, SupervisorTypeOK
<1>2. /\ new.sup = s /\ new.held = m.pending /\ new.change = None /\ new.control = None
      /\ new.inbox = <<>> /\ new.outbox = <<>> /\ new \in Bridges
  BY DEF Sups, Forked, Bridges, Maybe
<1>3. n \in Sups /\ n.at = "up" /\ n.child = last /\ n.ready = None /\ n.pending = m.pending
  BY DEF Sups, Maybe
<1>4. bridge' = Append(bridge, new) /\ sup' = [sup EXCEPT ![s] = n] BY <1>0 DEF Launch, Launched
<1> HIDE DEF new, n
<1>5. /\ bridge'[last] = new /\ \A b \in DOMAIN bridge : bridge'[b] = bridge[b]
      /\ DOMAIN bridge' = DOMAIN bridge \cup {last} /\ last \notin DOMAIN bridge
  BY <1>0, <1>1, <1>2, <1>4
<1>6. \A t \in SupIds : sup'[t] = IF t = s THEN n ELSE sup[t] BY <1>1, <1>3, <1>4, SupChanged
<1>7. \A b \in DOMAIN bridge : bridge[b].sup \in SupIds /\ b # None BY <1>1, ControlsAreNat
<1>8. \A t \in SupIds : sup'[t].at = "up" => t = s BY <1>6
\* Nobody listens to the other bridges any more.
<1>9. \A b \in DOMAIN bridge' : Kid(b)' => b = last BY <1>3, <1>5, <1>6, <1>7, <1>8 DEF Kid
<1>10. \A i, r \in Nat : ~IsTold(new, i, r) /\ ~Says(new, i, r) /\ ~Agrees(new, i, r)
  BY <1>2 DEF IsTold, Says, Agrees
<1>11. \A r \in Nat : ~Mentions(new, r) BY <1>2, <1>10, SupervisorAssumption DEF Mentions
<1>12. Controls' = Controls /\ Controls \subseteq Nat /\ Controls \subseteq DOMAIN req
  BY <1>1, ControlsAreNat DEF Controls
<1>13. \A r \in Controls : (Opens(r)' <=> Opens(r)) /\ (Quiesces(r)' <=> Quiesces(r))
                           /\ (Over(r) => Over(r)')
  BY <1>5, <1>9, <1>11, <1>12 DEF Opens, Quiesces, Over
<1>14. ASSUME NEW b \in DOMAIN bridge' PROVE BridgeKnows(b)' /\ DrainsHeld(b)' /\ AgreedIsSo(b)'
 <2>1. CASE b = last
  <3>1. Ordered(new) BY <1>2, <1>10, SupervisorAssumption DEF Ordered
  <3>2. bridge'[b] = new BY <1>5, <2>1
  <3>3. BridgeKnows(b)' BY <1>10, <1>11, <3>1, <3>2 DEF BridgeKnows
  <3>4. DrainsHeld(b)' BY <1>2, <3>2 DEF DrainsHeld
  <3>5. AgreedIsSo(b)' BY <1>10, <3>2 DEF AgreedIsSo
  <3> QED BY <3>3, <3>4, <3>5
 <2>2. CASE b # last
   BY <1>5, <1>9, <2>2, <1>12 DEF AsToldInv, Forwarded, BridgeKnows, DrainsHeld, AgreedIsSo
 <2> QED BY <2>1, <2>2
<1>15. OneUp' BY <1>8 DEF OneUp
<1>16. ChildIsOwn' /\ ReadyIsChild' BY <1>2, <1>3, <1>5, <1>6, <1>8 DEF ChildIsOwn, ReadyIsChild
<1>17. LastWaits' BY <1>12 DEF AsToldInv, LastWaits
<1>18. QuiescesLate' /\ OpenedIsOver' BY <1>12, <1>13 DEF AsToldInv, QuiescesLate, OpenedIsOver
<1>19. ClosedBefore'
 <2> SUFFICES ASSUME NEW q \in Controls, Quiesces(q)', NoOpenerAfter(q)', req'[q].at # "sent",
                     sup'[req'[q].sup].at = "up"
              PROVE  admission' /\ sup'[req'[q].sup].pending
   BY <1>12 DEF ClosedBefore
 <2>1. req[q].sup \in SupIds BY <1>1, <1>12, ControlsAreNat
 <2>2. req[q].sup = s BY <1>8, <2>1
 <2>3. sup[s].at = "up" /\ m.pending = sup[s].pending BY <1>12, <2>2
 <2>4. Quiesces(q) /\ NoOpenerAfter(q) BY <1>12, <1>13 DEF NoOpenerAfter
 <2>5. admission /\ sup[s].pending BY <2>2, <2>3, <2>4 DEF AsToldInv, ClosedBefore
 <2> QED BY <1>3, <1>6, <2>2, <2>3, <2>5
<1>20. Quiet(last)' <=> m.pending BY <1>2, <1>5, SupervisorAssumption DEF Quiet, Works
<1>21. ToldQuiet'
 <2> SUFFICES ASSUME ghost'.told = "quiet"
              PROVE  /\ admission
                     /\ \A t \in SupIds : sup'[t].at = "up" => sup'[t].pending
                     /\ \A b \in DOMAIN bridge' : Kid(b)' /\ Alive(b)' => Quiet(b)'
                     /\ \A r \in Controls : Opens(r)' => Over(r)'
   BY <1>12 DEF ToldQuiet
 <2>1. ghost.told = "quiet" /\ m.pending BY SupervisorAssumption
 <2> QED BY <1>3, <1>6, <1>8, <1>9, <1>13, <1>20, <2>1 DEF AsToldInv, ToldQuiet
<1>22. ToldOpen'
 <2> SUFFICES ASSUME ghost'.told = "open"
              PROVE  /\ ~admission
                     /\ \A t \in SupIds : sup'[t].at = "up" => ~sup'[t].pending
                     /\ \A b \in DOMAIN bridge' : Kid(b)' /\ Alive(b)' => ~bridge'[b].held
                     /\ \A r \in Controls : Quiesces(r)' => Over(r)'
   BY <1>12 DEF ToldOpen
 <2>1. ghost.told = "open" /\ ~m.pending BY SupervisorAssumption
 <2> QED BY <1>2, <1>3, <1>5, <1>6, <1>8, <1>9, <1>13, <2>1 DEF AsToldInv, ToldOpen
<1> QED BY <1>14, <1>15, <1>16, <1>17, <1>18, <1>19, <1>21, <1>22 DEF AsToldInv

LEMMA ListenTold ==
  ASSUME AsToldInv, StopInv, NEW s \in SupIds, Listen(s)
  PROVE  AsToldInv'
<1> DEFINE pends == sup[s].initial \/ admission
           m == [sup[s] EXCEPT !.pending = pends]
<1>1. /\ SupervisorTypeOK /\ sup[s] \in Sups /\ sup[s].at = "born"
      /\ UNCHANGED <<req, admission>>
  BY Entries DEF StopInv, Listen
<1>2. CASE socket # None \/ hold # None BY <1>1, <1>2, UnbornTold DEF Listen
<1>3. CASE ~(socket # None \/ hold # None)
 <2>1. /\ socket = None /\ socket' = s /\ Launch(s, m)
       /\ ghost' = IF sup[s].initial THEN [ghost EXCEPT !.told = None] ELSE ghost
   BY <1>3 DEF Listen
 <2>2. pends \in BOOLEAN /\ (~sup[s].initial => pends = admission)
   BY <1>1 DEF Sups, SupervisorTypeOK
 <2> HIDE DEF pends
 <2>3. m \in Sups /\ m.pending = pends BY <1>1, <2>2 DEF Sups
 <2> HIDE DEF m
 <2>4. \A t \in SupIds : sup[t].at = "up" => t = s
   BY <2>1, SupervisorAssumption DEF AsToldInv, OneUp, SupIds
 <2>5. \A r \in DOMAIN req : req[r].sup # s BY <1>1 DEF StopInv, StopHeld, Began
 <2>6. ghost'.told # None => /\ ghost'.told = ghost.told
                             /\ ghost.told = "quiet" => m.pending
                             /\ ghost.told = "open" => ~m.pending
  <3>1. CASE sup[s].initial BY <1>1, <2>1, <3>1 DEF SupervisorTypeOK
  <3>2. CASE ~sup[s].initial BY <2>1, <2>2, <2>3, <3>2 DEF AsToldInv, ToldQuiet, ToldOpen
  <3> QED BY <3>1, <3>2
 <2> QED BY <1>1, <2>1, <2>3, <2>4, <2>5, <2>6, LaunchTold
<1> QED BY <1>2, <1>3

LEMMA RelaunchTold ==
  ASSUME AsToldInv, StopInv, NEW s \in SupIds, Relaunch(s)
  PROVE  AsToldInv'
<1>1. /\ SupervisorTypeOK /\ sup[s] \in Sups /\ sup[s].at = "up"
      /\ UNCHANGED <<admission, ghost>>
  BY Entries DEF StopInv, Relaunch
<1>2. CASE Leaves(s, req) /\ UNCHANGED bridge
  BY <1>2, <1>1, BridgesAsBefore, GoneTold DEF Leaves, Answers
<1>3. CASE Launch(s, sup[s]) /\ UNCHANGED <<req, socket>>
  BY <1>1, <1>3, LaunchTold DEF AsToldInv, OneUp, ToldQuiet, ToldOpen
<1> QED BY <1>2, <1>3 DEF Relaunch

-----------------------------------------------------------------------------
(* A request is sent, and arrives. *)

LEMMA AsksTold ==
  ASSUME AsToldInv, StopInv, NEW action \in {"quiesce", "activate", "resume", "stop"},
         NEW auth, Asks(action, auth)
  PROVE  AsToldInv'
<1>0. PICK last \in Nat : last = Len(req) + 1 BY Entries DEF StopInv
<1> DEFINE new == [action |-> action, auth |-> auth, sup |-> socket, at |-> "sent",
                   gone |-> FALSE, bridge |-> None, result |-> None]
<1>1. SupervisorTypeOK /\ req \in Seq(Reqs) /\ DOMAIN req = 1 .. Len(req) /\ Len(req) \in Nat
  BY Entries DEF StopInv, SupervisorTypeOK
<1>2. UNCHANGED <<sup, bridge, admission, socket>> /\ req' = Append(req, new) BY DEF Asks
<1>3. new.action = action /\ new.at = "sent" /\ new.result = None /\ new.sup = socket OBVIOUS
<1> HIDE DEF new
<1>4. /\ DOMAIN req' = DOMAIN req \cup {last} /\ req'[last] = new
      /\ \A r \in DOMAIN req : req'[r] = req[r] /\ r < last
      /\ last \notin DOMAIN req
  BY <1>0, <1>1, <1>2
<1>5. /\ Controls' = IF action = "stop" THEN Controls ELSE Controls \cup {last}
      /\ \A r \in Controls : r \in DOMAIN req /\ r \in Nat /\ r < last
  BY <1>1, <1>3, <1>4 DEF Controls
<1>6. \A r \in Controls : (Opens(r)' <=> Opens(r)) /\ (Quiesces(r)' <=> Quiesces(r))
                          /\ (Over(r) => Over(r)')
  BY <1>2, <1>4, <1>5 DEF Opens, Quiesces, Over, Kid
<1>7. /\ Opens(last)' <=> action \in {"activate", "resume"}
      /\ Quiesces(last)' <=> action = "quiesce"
  BY <1>3, <1>4 DEF Opens, Quiesces
<1>8. \A r \in Controls : /\ NoOpenerAfter(r)' => NoOpenerAfter(r)
                          /\ NoQuiesceAfter(r)' => NoQuiesceAfter(r)
  BY <1>5, <1>6 DEF NoOpenerAfter, NoQuiesceAfter
<1>9. ASSUME NEW b \in DOMAIN bridge
      PROVE  BridgeKnows(b)' /\ DrainsHeld(b)' /\ AgreedIsSo(b)'
 <2>1. BridgeKnows(b) /\ DrainsHeld(b) /\ AgreedIsSo(b) BY DEF AsToldInv
 <2>2. \A r \in Nat : Mentions(bridge[b], r) => r \in Controls BY <2>1 DEF BridgeKnows, Forwarded
 <2>3. ASSUME NEW r \in Controls, Forwarded(b, r) PROVE Forwarded(b, r)'
   BY <1>4, <1>5, <1>1, <1>2, <2>3 DEF Forwarded, Kid
 <2>4. \A r \in Nat : Mentions(bridge'[b], r) => Forwarded(b, r)'
   BY <1>2, <2>1, <2>2, <2>3 DEF BridgeKnows
 <2>5. \A i, r \in Nat : IsTold(bridge'[b], i, r) => req'[r].action = bridge'[b].inbox[i].kind
  <3> SUFFICES ASSUME NEW i \in Nat, NEW r \in Nat, IsTold(bridge[b], i, r)
               PROVE  req'[r].action = bridge[b].inbox[i].kind
    BY <1>2
  <3>1. r \in Controls BY <2>2 DEF Mentions
  <3>2. req[r].action = bridge[b].inbox[i].kind BY <2>1 DEF BridgeKnows
  <3> QED BY <1>4, <1>5, <3>1, <3>2
 <2>6. BridgeKnows(b)' BY <1>2, <2>1, <2>4, <2>5 DEF BridgeKnows
 <2>7. DrainsHeld(b)'
  <3> SUFFICES ASSUME Kid(b), bridge[b].control # None, Quiesces(bridge[b].control)'
               PROVE  bridge[b].held
    BY <1>2 DEF DrainsHeld, Kid
  <3>1. bridge[b].control \in Nat BY <1>1, Entries DEF Bridges, Maybe
  <3>2. bridge[b].control \in Controls BY <2>2, <3>1 DEF Mentions
  <3>3. req'[bridge[b].control].action = req[bridge[b].control].action BY <1>4, <1>5, <3>2
  <3>4. Quiesces(bridge[b].control) BY <1>2, <3>3 DEF Quiesces
  <3> QED BY <2>1, <3>4 DEF DrainsHeld
 <2>8. AgreedIsSo(b)'
  <3> SUFFICES ASSUME NEW i \in Nat, NEW r \in Nat, Kid(b), Alive(b), Agrees(bridge[b], i, r)
               PROVE  /\ Quiesces(r)' /\ NoOpenerAfter(r)' => Quiet(b)
                      /\ Opens(r)' /\ NoQuiesceAfter(r)' => ~bridge[b].held
    BY <1>2 DEF AgreedIsSo, Kid, Alive, Quiet, Works
  <3>1. r \in Controls BY <2>2 DEF Mentions, Agrees
  <3> QED BY <1>6, <1>8, <2>1, <3>1 DEF AgreedIsSo
 <2> QED BY <2>6, <2>7, <2>8
<1>10. OneUp' /\ ChildIsOwn' /\ ReadyIsChild'
  BY <1>2 DEF AsToldInv, OneUp, ChildIsOwn, ReadyIsChild
<1>11. action # "stop" => \A r \in Controls : req[r].at = "answered" \/ req[r].gone BY DEF Asks
<1>12. LastWaits'
 <2>1. CASE action = "stop" BY <1>4, <1>5, <2>1 DEF AsToldInv, LastWaits
 <2>2. CASE action # "stop" BY <1>0, <1>4, <1>5, <1>11, <2>2 DEF LastWaits
 <2> QED BY <2>1, <2>2
\* Who closes admission knows that it is open, and that nothing is left.
<1>13. ASSUME action = "quiesce", NEW r \in Controls, Opens(r) PROVE Over(r)
 <2> DEFINE q == LastControl
 <2>1. \E p \in Controls : \A t \in Controls : t <= p BY <1>13 DEF AsToldInv, LastWaits
 <2>2. q \in Controls /\ \A t \in Controls : t <= q BY <2>1 DEF LastControl
 <2>3. CASE Opens(q) BY <1>13, <2>3, <2>2 DEF Asks, AsToldInv, OpenedIsOver
 <2>4. CASE ~Opens(q)
   BY <1>1, <1>5, <2>2, Entries, <2>4, <1>13 DEF Controls, Opens, Quiesces, Reqs, AsToldInv, QuiescesLate
 <2> QED BY <2>3, <2>4
<1>14. QuiescesLate'
 <2> SUFFICES ASSUME NEW q \in Controls', NEW r \in Controls', r < q, Quiesces(q)', Opens(r)'
              PROVE  Over(r)'
   BY DEF QuiescesLate
 <2>1. r \in Controls BY <1>0, <1>5
 <2>2. Opens(r) BY <1>6, <2>1
 <2>3. CASE q \in Controls BY <1>6, <2>1, <2>2, <2>3 DEF AsToldInv, QuiescesLate
 <2>4. CASE q \notin Controls BY <1>5, <1>7, <2>4, <1>6, <1>13, <2>1, <2>2
 <2> QED BY <2>3, <2>4
<1>15. OpenedIsOver'
 <2> SUFFICES ASSUME NEW q \in Controls', NEW r \in Controls', r <= q, Opens(q)',
                     req'[q].result = "ok"
              PROVE  Over(r)'
   BY DEF OpenedIsOver
 <2>1. q \in Controls BY <1>3, <1>4, <1>5, SupervisorAssumption
 <2>2. r \in Controls BY <1>0, <1>5, <2>1
 <2> QED BY <1>4, <1>5, <1>6, <2>1, <2>2 DEF AsToldInv, OpenedIsOver
<1>16. ClosedBefore'
 <2> SUFFICES ASSUME NEW q \in Controls', Quiesces(q)', NoOpenerAfter(q)', req'[q].at # "sent",
                     sup[req'[q].sup].at = "up"
              PROVE  admission /\ sup[req'[q].sup].pending
   BY <1>2 DEF ClosedBefore
 <2>1. q \in Controls BY <1>3, <1>4, <1>5
 <2> QED BY <1>4, <1>5, <1>6, <1>8, <2>1 DEF AsToldInv, ClosedBefore
<1>17. /\ ghost'.told # None => ghost'.told = ghost.told
       /\ action # "stop" /\ action # "quiesce" => ghost'.told # "quiet"
       /\ action = "quiesce" => ghost'.told # "open"
  BY <1>1, SupervisorAssumption DEF Asks, SupervisorTypeOK
<1>18. ToldQuiet'
 <2> SUFFICES ASSUME ghost'.told = "quiet" PROVE ToldQuiet' BY DEF ToldQuiet
 <2>1. ghost.told = "quiet" /\ (action = "stop" \/ action = "quiesce")
   BY <1>17, SupervisorAssumption
 <2>2. \A r \in Controls' : Opens(r)' => r \in Controls BY <1>5, <1>7, <2>1
 <2> QED BY <1>2, <1>6, <2>1, <2>2 DEF AsToldInv, ToldQuiet, Kid, Alive, Quiet, Works
<1>19. ToldOpen'
 <2> SUFFICES ASSUME ghost'.told = "open" PROVE ToldOpen' BY DEF ToldOpen
 <2>1. ghost.told = "open" /\ action # "quiesce" BY <1>17, SupervisorAssumption
 <2>2. \A r \in Controls' : Quiesces(r)' => r \in Controls BY <1>5, <1>7, <2>1
 <2> QED BY <1>2, <1>6, <2>1, <2>2 DEF AsToldInv, ToldOpen, Kid, Alive
<1> QED BY <1>2, <1>9, <1>10, <1>12, <1>14, <1>15, <1>16, <1>18, <1>19 DEF AsToldInv

\* A request arrives, and nothing before it is still on its way: whoever hears
\* of it has heard of the others.
LEMMA ControlTold ==
  ASSUME AsToldInv, StopInv, NEW r \in DOMAIN req, Control(r)
  PROVE  AsToldInv'
<1>0. PICK s \in SupIds : s = req[r].sup BY Entries DEF StopInv, Reqs
<1> DEFINE m == [sup[s] EXCEPT !.pending = @ \/ Closes(r)]
           forwarded == Connected(s) /\ sup[s].ready # None
           order == [kind |-> req[r].action, r |-> r]
           child == sup[s].child
           to == [bridge[child] EXCEPT !.inbox = Append(@, order)]
           new == [req[r] EXCEPT !.at = "forwarded", !.bridge = child]
<1>1. /\ SupervisorTypeOK /\ sup[s] \in Sups /\ sup[s].at = "up" /\ req[r] \in Reqs
      /\ req[r].at = "sent" /\ req[r].action # "stop" /\ r \in Nat /\ r \in Controls
      /\ \A q \in 1 .. r - 1 : req[q].at # "sent"
      /\ Controls \subseteq Nat /\ Controls \subseteq DOMAIN req
  BY <1>0, Entries, ControlsAreNat DEF StopInv, Control, Arrives, Controls
<1>2. Closes(r) \in BOOLEAN /\ (Closes(r) <=> Quiesces(r)) BY DEF Closes, Quiesces
<1>3. /\ UNCHANGED <<socket, ghost>> /\ admission' = (admission \/ Closes(r))
      /\ sup' = [sup EXCEPT ![s] = m]
      /\ \/ forwarded /\ bridge' = [bridge EXCEPT ![child] = to]
              /\ req' = [req EXCEPT ![r] = new]
         \/ ~forwarded /\ req' = Answers({r}, "error") /\ UNCHANGED bridge
  BY <1>0 DEF Control, Tell
<1>4. /\ m \in Sups /\ m.at = sup[s].at /\ m.child = child /\ m.ready = sup[s].ready
      /\ m.pending = (sup[s].pending \/ Closes(r))
  BY <1>1, <1>2 DEF Sups
<1> HIDE DEF m
<1>5. \A t \in SupIds : /\ sup'[t].at = sup[t].at /\ sup'[t].child = sup[t].child
                        /\ sup'[t].ready = sup[t].ready
                        /\ sup'[t].pending = (sup[t].pending \/ (t = s /\ Closes(r)))
  BY <1>1, <1>3, <1>4, SupChanged DEF Sups
\* The request.
<1>6. /\ DOMAIN req' = DOMAIN req /\ \A q \in DOMAIN req : q # r => req'[q] = req[q]
      /\ req'[r].action = req[r].action /\ req'[r].sup = s /\ req'[r].gone = req[r].gone
      /\ req'[r].at # "sent" /\ (req'[r].result = "ok" => req[r].result = "ok")
      /\ forwarded => req'[r].bridge = child
 <2>1. CASE forwarded
  <3>1. /\ new.action = req[r].action /\ new.sup = s /\ new.gone = req[r].gone
        /\ new.at = "forwarded" /\ new.result = req[r].result /\ new.bridge = child
    BY <1>0, <1>1 DEF Reqs
  <3>2. req' = [req EXCEPT ![r] = new] BY <1>3, <2>1
  <3> HIDE DEF new, forwarded
  <3> QED BY <1>1, <3>1, <3>2
 <2>2. CASE ~forwarded
  <3>1. req' = Answers({r}, "error") BY <1>3, <2>2
  <3>2. DOMAIN req' = DOMAIN req /\ \A q \in DOMAIN req : q # r => req'[q] = req[q]
    BY <3>1 DEF Answers
  <3>3. /\ req'[r].action = req[r].action /\ req'[r].sup = req[r].sup
        /\ req'[r].gone = req[r].gone /\ req'[r].at = "answered" /\ req'[r].result = "error"
    BY <1>1, <3>1, AnswersSame
  <3> QED BY <1>0, <2>2, <3>2, <3>3
 <2> QED BY <2>1, <2>2
\* The bridges.
<1>7. /\ DOMAIN bridge' = DOMAIN bridge
      /\ \A b \in DOMAIN bridge :
           /\ bridge'[b].sup = bridge[b].sup /\ bridge'[b].at = bridge[b].at
           /\ bridge'[b].held = bridge[b].held /\ bridge'[b].change = bridge[b].change
           /\ bridge'[b].control = bridge[b].control /\ bridge'[b].outbox = bridge[b].outbox
           /\ \/ bridge'[b].inbox = bridge[b].inbox
              \/ forwarded /\ b = child /\ bridge'[b].inbox = Append(bridge[b].inbox, order)
 <2>1. CASE forwarded /\ child \in DOMAIN bridge
  <3>1. bridge[child] \in Bridges BY <1>1, <2>1, Entries
  <3>2. /\ to.sup = bridge[child].sup /\ to.at = bridge[child].at
        /\ to.held = bridge[child].held /\ to.change = bridge[child].change
        /\ to.control = bridge[child].control /\ to.outbox = bridge[child].outbox
        /\ to.inbox = Append(bridge[child].inbox, order)
    BY <3>1 DEF Bridges
  <3>3. bridge' = [bridge EXCEPT ![child] = to] BY <1>3, <2>1
  <3>4. forwarded BY <2>1
  <3> HIDE DEF to, forwarded, order
  <3> QED BY <1>1, <2>1, <3>2, <3>3, <3>4
 <2>2. CASE child \notin DOMAIN bridge BY <1>1, <1>3, <2>2 DEF SupervisorTypeOK
 <2>3. CASE ~forwarded BY <1>3, <2>3
 <2> QED BY <2>1, <2>2, <2>3
<1>8. order \in Orders /\ order.kind = req[r].action /\ order.kind # "stop" /\ order.r = r
  BY <1>1 DEF Orders, Reqs
<1>9. forwarded => sup[s].child # None /\ sup[s].ready # None BY DEF Connected
<1>10. forwarded => child \in DOMAIN bridge /\ bridge[child].sup = s /\ sup[s].ready = child
  BY <1>1, <1>9 DEF AsToldInv, ChildIsOwn, ReadyIsChild
<1> HIDE DEF order, forwarded, to, new
<1>11. \A b \in DOMAIN bridge : /\ bridge[b] \in Bridges /\ bridge[b].sup \in SupIds
                                /\ (Kid(b)' <=> Kid(b)) /\ (Alive(b)' <=> Alive(b))
                                /\ (Quiet(b)' <=> Quiet(b))
  BY <1>1, ControlsAreNat, <1>5, <1>7 DEF Kid, Alive, Quiet, Works
<1>12. Controls' = Controls /\ \A q \in Controls : (Opens(q)' <=> Opens(q))
                                                   /\ (Quiesces(q)' <=> Quiesces(q))
  BY <1>1, <1>6 DEF Controls, Opens, Quiesces
<1>13. \A q \in Controls : (NoOpenerAfter(q)' <=> NoOpenerAfter(q))
                           /\ (NoQuiesceAfter(q)' <=> NoQuiesceAfter(q))
  BY <1>12 DEF NoOpenerAfter, NoQuiesceAfter
<1>14. ASSUME NEW b \in DOMAIN bridge, NEW q \in Nat, Mentions(bridge[b], q)
       PROVE  Forwarded(b, q) /\ q \in Controls /\ q < r
  BY <1>14, <1>1, Entries DEF AsToldInv, BridgeKnows, Forwarded
<1>15. ASSUME NEW b \in DOMAIN bridge, NEW i \in Nat, NEW q \in Nat
       PROVE  /\ IsTold(bridge'[b], i, q) =>
                   \/ IsTold(bridge[b], i, q) /\ bridge'[b].inbox[i] = bridge[b].inbox[i]
                   \/ /\ i = Len(bridge[b].inbox) + 1 /\ q = r /\ forwarded /\ b = child
                      /\ bridge'[b].inbox[i] = order
              /\ IsTold(bridge[b], i, q) => i < Len(bridge[b].inbox) + 1
              /\ Says(bridge'[b], i, q) <=> Says(bridge[b], i, q)
              /\ Agrees(bridge'[b], i, q) <=> Agrees(bridge[b], i, q)
 <2>1. /\ Says(bridge'[b], i, q) <=> Says(bridge[b], i, q)
       /\ Agrees(bridge'[b], i, q) <=> Agrees(bridge[b], i, q)
   BY <1>7 DEF Says, Agrees
 <2>2. IsTold(bridge[b], i, q) => i < Len(bridge[b].inbox) + 1 BY <1>11, Boxes DEF IsTold
 <2>3. CASE bridge'[b].inbox = bridge[b].inbox BY <2>1, <2>2, <2>3 DEF IsTold
 <2>4. CASE forwarded /\ b = child /\ bridge'[b].inbox = Append(bridge[b].inbox, order)
   BY <1>11, Boxes, <1>8, <2>4, <2>1, <2>2 DEF IsTold
 <2> QED BY <1>7, <2>3, <2>4
<1>16. ASSUME NEW b \in DOMAIN bridge, NEW q \in Nat, Mentions(bridge'[b], q)
       PROVE  Mentions(bridge[b], q) \/ (q = r /\ forwarded /\ b = child)
  BY <1>7, <1>15, <1>16 DEF Mentions
<1>17. ASSUME NEW q \in Controls, Over(q) PROVE Over(q)' /\ q # r
  BY <1>1, <1>17, <1>6, <1>7, <1>11, <1>16 DEF Over
<1>18. ~Over(r) BY <1>1 DEF Over
<1>19. ASSUME NEW b \in DOMAIN bridge PROVE BridgeKnows(b)'
 <2> DEFINE n == bridge'[b]
            last == Len(bridge[b].inbox) + 1
 <2>1. BridgeKnows(b) /\ Ordered(bridge[b]) BY DEF AsToldInv, BridgeKnows
 <2>2. last \in Nat BY <1>11, Boxes
 <2>3. \A i, q \in Nat :
         /\ IsTold(n, i, q) => IsTold(bridge[b], i, q) \/ (i = last /\ q = r)
         /\ IsTold(bridge[b], i, q) => i < last /\ q < r
         /\ Says(n, i, q) <=> Says(bridge[b], i, q)
         /\ Agrees(n, i, q) <=> Agrees(bridge[b], i, q)
         /\ Agrees(n, i, q) => q < r
         /\ n.control = q => q < r
  <3> SUFFICES ASSUME NEW i \in Nat, NEW q \in Nat
               PROVE  /\ IsTold(n, i, q) => IsTold(bridge[b], i, q) \/ (i = last /\ q = r)
                      /\ IsTold(bridge[b], i, q) => i < last /\ q < r
                      /\ Says(n, i, q) <=> Says(bridge[b], i, q)
                      /\ Agrees(n, i, q) <=> Agrees(bridge[b], i, q)
                      /\ Agrees(n, i, q) => q < r
                      /\ n.control = q => q < r
    OBVIOUS
  <3>1. IsTold(bridge[b], i, q) \/ Agrees(bridge[b], i, q) \/ bridge[b].control = q
          => Mentions(bridge[b], q)
    BY DEF Mentions, Agrees
  <3>2. Mentions(bridge[b], q) => q < r BY <1>14
  <3> QED BY <1>7, <1>15, <3>1, <3>2
 <2>4. n.control = bridge[b].control BY <1>7
 <2> HIDE DEF n, last
 <2>5. Ordered(n)
  <3>1. ASSUME NEW i \in Nat, NEW j \in Nat, NEW q \in Nat, NEW p \in Nat,
               IsTold(n, i, q), IsTold(n, j, p), i < j
        PROVE  q < p
   <4>1. i < last /\ q < r /\ IsTold(bridge[b], i, q) BY <2>3, <2>2, <3>1
   <4>2. CASE IsTold(bridge[b], j, p) BY <2>1, <3>1, <4>1, <4>2 DEF Ordered
   <4>3. CASE p = r BY <4>1, <4>3
   <4> QED BY <2>3, <3>1, <4>2, <4>3
  <3>2. \A j, q, p \in Nat : n.control = q /\ IsTold(n, j, p) => q < p
    BY <2>1, <2>3, <2>4 DEF Ordered
  <3>3. \A i, j, q, p \in Nat : Agrees(n, i, q) /\ Says(n, j, p) /\ i < j => q < p
    BY <2>1, <2>3 DEF Ordered
  <3>4. \A i, j, q, p \in Nat : Agrees(n, i, q) /\ IsTold(n, j, p) => q < p
    BY <2>1, <2>3 DEF Ordered
  <3>5. \A i, q, p \in Nat : Agrees(n, i, q) /\ n.control = p => q < p
    BY <2>1, <2>3, <2>4 DEF Ordered
  <3> QED BY <3>1, <3>2, <3>3, <3>4, <3>5 DEF Ordered
 <2>6. ASSUME NEW q \in Nat, Mentions(bridge'[b], q) PROVE Forwarded(b, q)'
  <3>1. CASE Mentions(bridge[b], q)
   <4>1. Forwarded(b, q) /\ q \in Controls /\ q < r BY <1>14, <3>1
   <4>2. q \in DOMAIN req /\ q # r /\ req'[q] = req[q] BY <1>1, <1>6, <4>1
   <4>3. \A p \in 1 .. q : req'[p].at # "sent" BY <1>1, <4>1, <4>2, Entries, <1>6 DEF Forwarded
   <4>4. Kid(b)' => sup'[bridge'[b].sup].ready = b BY <1>5, <1>7, <1>11, <4>1 DEF Forwarded
   <4> QED BY <1>7, <1>12, <4>1, <4>2, <4>3, <4>4 DEF Forwarded
  <3>2. CASE q = r /\ forwarded /\ b = child
   <4>1. bridge[b].sup = s /\ sup[s].ready = b BY <1>10, <3>2
   <4>2. req'[q].bridge = b /\ req'[q].sup = bridge'[b].sup BY <1>6, <1>7, <3>2, <4>1
   <4>3. sup'[bridge'[b].sup].ready = b BY <1>5, <1>7, <4>1
   <4>4. \A p \in 1 .. q : req'[p].at # "sent"
    <5> SUFFICES ASSUME NEW p \in 1 .. q PROVE req'[p].at # "sent" OBVIOUS
    <5>1. p = r \/ (p \in 1 .. r - 1 /\ p \in DOMAIN req /\ p # r) BY <1>1, <3>2, Entries
    <5> QED BY <1>1, <1>6, <5>1
   <4>5. q \in Controls' BY <1>1, <1>12, <3>2
   <4> QED BY <4>2, <4>3, <4>4, <4>5 DEF Forwarded
  <3> QED BY <1>16, <2>6, <3>1, <3>2
 <2>7. ASSUME NEW i \in Nat, NEW q \in Nat, IsTold(bridge'[b], i, q)
       PROVE  req'[q].action = bridge'[b].inbox[i].kind
  <3>1. CASE IsTold(bridge[b], i, q) /\ bridge'[b].inbox[i] = bridge[b].inbox[i]
    BY <3>1, <1>1, <1>14, <1>6, <2>1 DEF Mentions, BridgeKnows
  <3>2. CASE q = r /\ bridge'[b].inbox[i] = order BY <1>6, <1>8, <3>2
  <3> QED BY <1>15, <2>7, <3>1, <3>2
 <2> QED BY <2>5, <2>6, <2>7 DEF BridgeKnows, n
<1>20. ASSUME NEW b \in DOMAIN bridge PROVE DrainsHeld(b)'
 <2> SUFFICES ASSUME Kid(b), bridge[b].control # None, Quiesces(bridge[b].control)'
              PROVE  bridge[b].held
   BY <1>7, <1>11 DEF DrainsHeld
 <2>1. bridge[b].control \in Nat BY <1>11 DEF Bridges, Maybe
 <2>2. bridge[b].control \in Controls BY <1>14, <2>1 DEF Mentions
 <2>3. req'[bridge[b].control].action = req[bridge[b].control].action BY <1>1, <1>6, <2>2
 <2>4. Quiesces(bridge[b].control) BY <1>7, <2>3 DEF Quiesces
 <2> QED BY <2>4 DEF AsToldInv, DrainsHeld
<1>21. ASSUME NEW b \in DOMAIN bridge PROVE AgreedIsSo(b)'
 <2> SUFFICES ASSUME NEW i \in Nat, NEW q \in Nat, Kid(b), Alive(b), Agrees(bridge[b], i, q)
              PROVE  /\ Quiesces(q)' /\ NoOpenerAfter(q)' => Quiet(b)'
                     /\ Opens(q)' /\ NoQuiesceAfter(q)' => ~bridge'[b].held
   BY <1>11, <1>15 DEF AgreedIsSo
 <2>1. Mentions(bridge[b], q) BY DEF Mentions, Agrees
 <2>2. q \in Controls BY <1>14, <2>1
 <2> QED BY <1>7, <1>11, <1>12, <1>13, <2>2 DEF AsToldInv, AgreedIsSo
<1>22. OneUp' /\ ChildIsOwn' /\ ReadyIsChild'
  BY <1>3, <1>5, <1>7 DEF AsToldInv, OneUp, ChildIsOwn, ReadyIsChild
<1>23. LastWaits' BY <1>1, <1>6, <1>12 DEF AsToldInv, LastWaits
<1>24. QuiescesLate' BY <1>12, <1>17 DEF AsToldInv, QuiescesLate
<1>25. OpenedIsOver'
 <2> SUFFICES ASSUME NEW p \in Controls, NEW q \in Controls, p <= q, Opens(q),
                     req'[q].result = "ok"
              PROVE  Over(p)'
   BY <1>12 DEF OpenedIsOver
 <2>1. req[q].result = "ok" BY <1>1, <1>6
 <2> QED BY <1>17, <2>1 DEF AsToldInv, OpenedIsOver
<1>26. ClosedBefore'
 <2> SUFFICES ASSUME NEW q \in Controls, Quiesces(q), NoOpenerAfter(q), req'[q].at # "sent",
                     sup'[req'[q].sup].at = "up"
              PROVE  admission' /\ sup'[req'[q].sup].pending
   BY <1>12, <1>13 DEF ClosedBefore
 <2>1. CASE q = r BY <1>2, <1>3, <1>5, <1>6, <2>1
 <2>2. CASE q # r
  <3>1. req'[q] = req[q] /\ req[q].sup \in SupIds BY <1>1, <1>6, <2>2, ControlsAreNat
  <3>2. admission /\ sup[req[q].sup].pending BY <1>5, <3>1 DEF AsToldInv, ClosedBefore
  <3> QED BY <1>3, <1>5, <3>1, <3>2
 <2> QED BY <2>1, <2>2
<1>27. ToldQuiet'
 <2> SUFFICES ASSUME ghost.told = "quiet" PROVE ToldQuiet' BY <1>3 DEF ToldQuiet
 <2>1. admission' /\ \A t \in SupIds : sup'[t].at = "up" => sup'[t].pending
   BY <1>3, <1>5 DEF AsToldInv, ToldQuiet
 <2>2. \A b \in DOMAIN bridge' : Kid(b)' /\ Alive(b)' => Quiet(b)'
   BY <1>7, <1>11 DEF AsToldInv, ToldQuiet
 <2>3. \A q \in Controls' : Opens(q)' => Over(q)' BY <1>12, <1>17 DEF AsToldInv, ToldQuiet
 <2> QED BY <2>1, <2>2, <2>3 DEF ToldQuiet
<1>28. ToldOpen'
 <2> SUFFICES ASSUME ghost.told = "open" PROVE ToldOpen' BY <1>3 DEF ToldOpen
 <2>1. ~Closes(r) BY <1>1, <1>2, <1>18 DEF AsToldInv, ToldOpen
 <2>2. ~admission' /\ \A t \in SupIds : sup'[t].at = "up" => ~sup'[t].pending
   BY <1>3, <1>5, <2>1 DEF AsToldInv, ToldOpen
 <2>3. \A b \in DOMAIN bridge' : Kid(b)' /\ Alive(b)' => ~bridge'[b].held
   BY <1>7, <1>11 DEF AsToldInv, ToldOpen
 <2>4. \A q \in Controls' : Quiesces(q)' => Over(q)' BY <1>12, <1>17 DEF AsToldInv, ToldOpen
 <2> QED BY <2>2, <2>3, <2>4 DEF ToldOpen
<1> QED BY <1>7, <1>19, <1>20, <1>21, <1>22, <1>23, <1>24, <1>25, <1>26, <1>27, <1>28 DEF AsToldInv

\* The child has agreed to request r, and the supervisor hears of it: nothing
\* of what was asked up to r is left.
LEMMA AgreedTold ==
  ASSUME AsToldInv, StopInv, NEW b \in DOMAIN bridge, NEW s \in SupIds, NEW r \in Controls,
         s = bridge[b].sup, Kid(b), Agrees(bridge[b], 1, r), req[r].at = "forwarded",
         bridge[b].outbox # <<>>, bridge' = Heard(b), UNCHANGED socket, req' = Answers({r}, "ok"),
         \A t \in SupIds : /\ sup'[t].at = sup[t].at /\ sup'[t].child = sup[t].child
                           /\ sup'[t].ready = sup[t].ready
                           /\ sup'[t].pending = (sup[t].pending /\ ~(t = s /\ Opens(r))),
         admission' = (admission /\ ~Opens(r)),
         ghost'.told = IF req[r].gone THEN ghost.told ELSE IF Opens(r) THEN "open" ELSE "quiet"
  PROVE  AsToldInv'
<1>1. /\ SupervisorTypeOK /\ Controls \subseteq DOMAIN req /\ Controls \subseteq Nat
      /\ \A q \in DOMAIN req : req[q].sup \in SupIds /\ req[q] \in Reqs
      /\ \A c \in DOMAIN bridge : bridge[c].sup \in SupIds /\ bridge[c] \in Bridges
  BY ControlsAreNat, Entries DEF StopInv
<1>2. /\ DOMAIN req' = DOMAIN req
      /\ \A q \in DOMAIN req :
           /\ req'[q].action = req[q].action /\ req'[q].sup = req[q].sup
           /\ req'[q].bridge = req[q].bridge /\ req'[q].gone = req[q].gone
           /\ req'[q].at = IF q = r THEN "answered" ELSE req[q].at
           /\ req'[q].result = IF q = r THEN "ok" ELSE req[q].result
  BY <1>1, AnswersSame
<1>3. /\ DOMAIN bridge' = DOMAIN bridge /\ \A c \in DOMAIN bridge : BridgeAsBefore(c)
      /\ bridge'[b].outbox = Tail(bridge[b].outbox) /\ bridge'[b].inbox = bridge[b].inbox
      /\ bridge'[b].control = bridge[b].control
  BY HeardAsBefore
<1>4. QueuesAsBefore BY <1>2, <1>3 DEF SupAsBefore, ReqAsBefore, QueuesAsBefore
<1>5. /\ \A c \in DOMAIN bridge' : BridgeKnows(c)' /\ DrainsHeld(c)' /\ AgreedIsSo(c)'
      /\ OneUp' /\ ChildIsOwn' /\ ReadyIsChild' /\ LastWaits' /\ QuiescesLate'
      /\ Controls' = Controls
      /\ \A q \in Controls : (Over(q) => Over(q)') /\ (Opens(q)' <=> Opens(q))
                             /\ (Quiesces(q)' <=> Quiesces(q))
      /\ \A c \in DOMAIN bridge : Kid(c)' => Kid(c)
  BY <1>4, QueuesKept
<1>6. Mentions(bridge[b], r) /\ ~Over(r) /\ Forwarded(b, r)
  BY <1>1 DEF Mentions, Agrees, Over, AsToldInv, BridgeKnows
<1>7. (Opens(r) \/ Quiesces(r)) /\ ~(Opens(r) /\ Quiesces(r))
  BY <1>1 DEF Controls, Reqs, Opens, Quiesces
<1>8. sup[s].at = "up" /\ \A t \in SupIds : sup[t].at = "up" => t = s
  BY SupervisorAssumption DEF Kid, AsToldInv, OneUp
<1>9. ASSUME NEW c \in DOMAIN bridge, Kid(c) PROVE c = b BY <1>1, <1>8, <1>9 DEF Kid
<1>10. ASSUME NEW q \in Nat, Mentions(bridge'[b], q) PROVE r < q
 <2>1. Ordered(bridge[b]) BY DEF AsToldInv, BridgeKnows
 <2>2. bridge'[b].control = q => r < q BY <1>1, <1>3, <2>1 DEF Ordered
 <2>3. ASSUME NEW i \in Nat, IsTold(bridge'[b], i, q) PROVE r < q
   BY <1>3, <2>3, <1>1, <2>1 DEF IsTold, Ordered
 <2>4. ASSUME NEW i \in Nat, Says(bridge'[b], i, q) PROVE r < q
  <3>1. PICK old \in Bridges : old = bridge[b] BY <1>1
  <3>2. PICK n : n = bridge'[b] OBVIOUS
  <3>3. old.outbox # <<>> /\ n.outbox = Tail(old.outbox) BY <1>3, <3>1, <3>2
  <3>4. Says(old, i + 1, q) /\ i >= 1 BY <2>4, <3>2, <3>3, SaysLess
  <3>5. i + 1 \in Nat /\ 1 \in Nat /\ 1 < i + 1 BY <3>4
  <3> QED BY <1>1, <2>1, <3>1, <3>4, <3>5 DEF Ordered
 <2> QED BY <1>10, <2>2, <2>3, <2>4 DEF Mentions
<1>11. ASSUME NEW q \in Controls, q <= r PROVE Over(q)'
 <2>1. q \in 1 .. r /\ q \in DOMAIN req BY <1>1, <1>11, Entries
 <2>2. req'[q].at # "sent" BY <1>2, <1>6, <2>1 DEF Forwarded
 <2>3. ~Mentions(bridge'[b], q) BY <1>1, <1>10, <1>11
 <2>4. \A c \in DOMAIN bridge' : Kid(c)' => ~Mentions(bridge'[c], q) BY <1>3, <1>5, <1>9, <2>3
 <2> QED BY <2>2, <2>4 DEF Over
<1>12. ASSUME NEW c \in DOMAIN bridge, Kid(c)', Alive(c)'
       PROVE  /\ c = b /\ Kid(c) /\ Alive(c) /\ bridge'[c].held = bridge[c].held
              /\ Quiet(c) => Quiet(c)'
  BY <1>3, <1>5, <1>12, <1>9 DEF BridgeAsBefore, Quiet
\* If its client is still there, r is the last request.
<1>13. ~req[r].gone => \A q \in Controls : q <= r BY <1>1 DEF AsToldInv, LastWaits
<1>14. /\ ~req[r].gone /\ Quiesces(r) => NoOpenerAfter(r)
       /\ ~req[r].gone /\ Opens(r) => NoQuiesceAfter(r)
  BY <1>1, <1>13 DEF NoOpenerAfter, NoQuiesceAfter
<1>15. OpenedIsOver'
 <2> SUFFICES ASSUME NEW p \in Controls, NEW q \in Controls, p <= q, Opens(q),
                     req'[q].result = "ok"
              PROVE  Over(p)'
   BY <1>5 DEF OpenedIsOver
 <2>1. CASE q = r BY <1>11, <2>1
 <2>2. CASE q # r BY <1>1, <1>2, <2>2, <1>5 DEF AsToldInv, OpenedIsOver
 <2> QED BY <2>1, <2>2
<1>16. ClosedBefore'
 <2> SUFFICES ASSUME NEW q \in Controls, Quiesces(q), NoOpenerAfter(q)', req'[q].at # "sent",
                     sup'[req'[q].sup].at = "up"
              PROVE  admission' /\ sup'[req'[q].sup].pending
   BY <1>5 DEF ClosedBefore
 <2>1. NoOpenerAfter(q) BY <1>5 DEF NoOpenerAfter
 <2>2. req[q].at # "sent" /\ req'[q].sup = req[q].sup /\ req[q].sup \in SupIds BY <1>1, <1>2
 <2>3. admission /\ sup[req[q].sup].pending BY <2>1, <2>2 DEF AsToldInv, ClosedBefore
 <2>4. ~Opens(r)
  <3> SUFFICES ASSUME Opens(r) PROVE FALSE OBVIOUS
  <3>1. q # r BY DEF Opens, Quiesces
  <3>2. ~(q < r) BY <1>1, <2>1 DEF NoOpenerAfter
  <3>3. r < q BY <1>1, <3>1, <3>2
  <3> QED BY <1>6, <3>3 DEF AsToldInv, QuiescesLate
 <2> QED BY <2>2, <2>3, <2>4
<1>17. ToldQuiet'
 <2> SUFFICES ASSUME ghost'.told = "quiet" PROVE ToldQuiet' BY DEF ToldQuiet
 <2>1. CASE req[r].gone BY <2>1, <1>6, <1>3, <1>5, <1>12 DEF AsToldInv, ToldQuiet
 <2>2. CASE ~req[r].gone
  <3>1. ~Opens(r) /\ Quiesces(r) BY <1>7, <2>2
  <3>2. admission /\ sup[s].pending
    BY <1>6, <1>8, <1>14, <2>2, <3>1 DEF Forwarded, AsToldInv, ClosedBefore
  <3>3. Kid(b)' /\ Alive(b)' => Quiet(b)'
    BY <1>1, <1>12, <1>14, <2>2, <3>1 DEF AsToldInv, AgreedIsSo
  <3>4. \A q \in Controls : Over(q)' BY <1>11, <1>13, <2>2
  <3>5. admission' /\ \A t \in SupIds : sup'[t].at = "up" => sup'[t].pending
   <4>1. admission' BY <3>1, <3>2
   <4>2. sup'[s].pending BY <3>1, <3>2
   <4>3. \A t \in SupIds : sup'[t].at = "up" => t = s BY <1>8
   <4> QED BY <4>1, <4>2, <4>3
  <3>6. ASSUME NEW c \in DOMAIN bridge', Kid(c)', Alive(c)' PROVE Quiet(c)'
    BY <1>3, <1>12, <3>6, <3>3
  <3>7. \A q \in Controls' : Opens(q)' => Over(q)' BY <1>5, <3>4
  <3> QED BY <3>5, <3>6, <3>7 DEF ToldQuiet
 <2> QED BY <2>1, <2>2
<1>18. ToldOpen'
 <2> SUFFICES ASSUME ghost'.told = "open" PROVE ToldOpen' BY DEF ToldOpen
 <2>1. CASE req[r].gone BY <2>1, <1>3, <1>5, <1>12 DEF AsToldInv, ToldOpen
 <2>2. CASE ~req[r].gone
  <3>1. Opens(r) BY <2>2
  <3>2. Kid(b)' /\ Alive(b)' => ~bridge'[b].held
    BY <1>1, <1>12, <1>14, <2>2, <3>1 DEF AsToldInv, AgreedIsSo
  <3>3. \A q \in Controls : Over(q)' BY <1>11, <1>13, <2>2
  <3>4. ~admission' /\ \A t \in SupIds : sup'[t].at = "up" => ~sup'[t].pending BY <1>8, <3>1
  <3>5. ASSUME NEW c \in DOMAIN bridge', Kid(c)', Alive(c)' PROVE ~bridge'[c].held
    BY <1>3, <1>12, <3>5, <3>2
  <3>6. \A q \in Controls' : Quiesces(q)' => Over(q)' BY <1>5, <3>3
  <3> QED BY <3>4, <3>5, <3>6 DEF ToldOpen
 <2> QED BY <2>1, <2>2
<1> QED BY <1>5, <1>15, <1>16, <1>17, <1>18 DEF AsToldInv

LEMMA ResultTold ==
  ASSUME AsToldInv, StopInv, NEW b \in DOMAIN bridge, Result(b)
  PROVE  AsToldInv'
<1> DEFINE old == bridge[b]
           word == Head(old.outbox)
<1>1. /\ SupervisorTypeOK /\ old \in Bridges /\ old.outbox # <<>> /\ word.kind = "result"
      /\ bridge' = Heard(b) /\ UNCHANGED socket
  BY Entries DEF StopInv, Result, Speaks
<1>2. PICK s \in SupIds : s = old.sup BY <1>1, ControlsAreNat
<1> DEFINE opened == [sup[s] EXCEPT !.pending = FALSE, !.initial = FALSE, !.quiesced = None]
<1>3. sup[s] \in Sups /\ sup[s].at = "up" BY <1>1, <1>2, Entries DEF Result, Speaks
<1>4. word = old.outbox[1] /\ word \in Words /\ 1 \in DOMAIN old.outbox
  BY <1>1, Boxes, HeadTailProperties
<1>5. PICK r \in Nat : r = word.r BY <1>1, <1>4 DEF Words
<1>6. word.ok \in BOOLEAN /\ Says(old, 1, r) /\ (word.ok => Agrees(old, 1, r))
  BY <1>1, <1>4, <1>5 DEF Words, Says, Agrees
<1>7. Forwarded(b, r) /\ r \in Controls BY <1>6 DEF Mentions, AsToldInv, BridgeKnows, Forwarded
<1>8. req[r].bridge = b /\ (Kid(b) => sup[s].ready = b) BY <1>2, <1>7 DEF Forwarded
<1>9. DOMAIN bridge' = DOMAIN bridge /\ \A c \in DOMAIN bridge : BridgeAsBefore(c)
  BY <1>1, HeardAsBefore
<1>10. CASE req[r].at # "forwarded"
  BY <1>5, <1>10, <1>1, <1>9, ReqsStay, RefusedTold DEF Result, SupAsBefore
<1>11. CASE req[r].at = "forwarded" /\ (sup[s].child # b \/ ~word.ok)
 <2>1. ~(word.ok /\ FromReady(s, r)) BY <1>8, <1>11 DEF FromReady
 <2>2. PICK what \in {"error", "refused"} : req' = Answers({r}, what)
   BY <1>2, <1>5, <1>11 DEF Result
 <2>3. sup' = sup BY <1>2, <1>5, <1>11, <2>1 DEF Result
 <2>4. admission' = admission BY <1>2, <1>5, <1>11, <1>1, <2>1 DEF Result, SupervisorTypeOK
 <2>5. ghost'.told = ghost.told BY <1>2, <1>5, <1>11, <1>1 DEF Result, SupervisorTypeOK
 <2>6. \A t \in SupIds : SupAsBefore(t) /\ (sup'[t].at = "up" => sup'[t].pending = sup[t].pending)
   BY <1>1, <2>3 DEF SupAsBefore
 <2>7. DOMAIN req' = DOMAIN req /\ \A q \in DOMAIN req : Refused(q) BY <1>11, <2>2, AnswersRefuse
 <2> QED BY <1>9, <2>4, <2>5, <2>6, <2>7, RefusedTold
<1>12. CASE req[r].at = "forwarded" /\ sup[s].child = b /\ word.ok
 <2>1. Kid(b) /\ FromReady(s, r) BY <1>2, <1>3, <1>8, <1>12 DEF Kid, FromReady
 <2>2. req' = Answers({r}, "ok") BY <1>2, <1>5, <1>12 DEF Result
 <2>3. sup' = IF Opens(r) THEN [sup EXCEPT ![s] = opened]
              ELSE [sup EXCEPT ![s].quiesced = b]
   BY <1>2, <1>5, <1>12, <2>1, <1>1 DEF Result, SupervisorTypeOK
 <2>4. admission' = (admission /\ ~Opens(r)) BY <1>2, <1>5, <1>12, <2>1 DEF Result, Unlinks
 <2>5. ghost'.told = IF req[r].gone THEN ghost.told ELSE IF Opens(r) THEN "open" ELSE "quiet"
   BY <1>2, <1>5, <1>12, <1>1 DEF Result, SupervisorTypeOK
 <2>6. \A t \in SupIds : /\ sup'[t].at = sup[t].at /\ sup'[t].child = sup[t].child
                         /\ sup'[t].ready = sup[t].ready
                         /\ sup'[t].pending = (sup[t].pending /\ ~(t = s /\ Opens(r)))
  <3> DEFINE drained == [sup[s] EXCEPT !.quiesced = b]
  <3>1. /\ opened \in Sups /\ opened.at = sup[s].at /\ opened.child = sup[s].child
        /\ opened.ready = sup[s].ready /\ opened.pending = FALSE
    BY <1>3 DEF Sups, Maybe
  <3>2. /\ drained \in Sups /\ drained.at = sup[s].at /\ drained.child = sup[s].child
        /\ drained.ready = sup[s].ready /\ drained.pending = sup[s].pending
    BY <1>1, <1>3, Entries DEF Sups, Maybe
  <3>3. sup' = [sup EXCEPT ![s] = IF Opens(r) THEN opened ELSE drained] BY <2>3
  <3> HIDE DEF opened, drained
  <3>4. \A t \in SupIds : sup'[t] = IF t = s THEN IF Opens(r) THEN opened ELSE drained
                                    ELSE sup[t]
    BY <1>1, <3>3 DEF SupervisorTypeOK
  <3>5. \A t \in SupIds : sup[t].pending \in BOOLEAN BY <1>1, Entries DEF Sups
  <3> QED BY <3>1, <3>2, <3>4, <3>5
 <2>7. Agrees(old, 1, r) BY <1>6, <1>12
 <2> QED BY <1>1, <1>2, <1>7, <1>12, <2>1, <2>2, <2>4, <2>5, <2>6, <2>7, AgreedTold
<1> QED BY <1>10, <1>11, <1>12

-----------------------------------------------------------------------------
(* The invariant holds, and says what was told. *)

LEMMA AsToldStart == Init => AsToldInv
<1> SUFFICES ASSUME Init PROVE AsToldInv OBVIOUS
<1>1. bridge = <<>> /\ req = <<>> /\ ghost.told = None BY DEF Init
<1>2. DOMAIN bridge = {} /\ DOMAIN req = {} /\ Controls = {} BY <1>1 DEF Controls
<1>3. \A s \in SupIds : sup[s].at = "unborn" BY DEF Init, Unborn, SupIds
<1>4. OneUp /\ ChildIsOwn /\ ReadyIsChild BY <1>3 DEF OneUp, ChildIsOwn, ReadyIsChild
<1>5. LastWaits /\ QuiescesLate /\ OpenedIsOver /\ ClosedBefore
  BY <1>2 DEF LastWaits, QuiescesLate, OpenedIsOver, ClosedBefore
<1>6. ToldQuiet /\ ToldOpen BY <1>1, SupervisorAssumption DEF ToldQuiet, ToldOpen
<1> QED BY <1>2, <1>4, <1>5, <1>6 DEF AsToldInv

LEMMA AsToldStutter == AsToldInv /\ StopInv /\ UNCHANGED vars => AsToldInv'
<1> SUFFICES ASSUME AsToldInv, StopInv, UNCHANGED vars PROVE AsToldInv' OBVIOUS
<1>1. UNCHANGED <<sup, bridge, req, admission, socket, ghost>> BY DEF vars
<1>2. \A s \in SupIds : SupAsBefore(s) /\ (sup'[s].at = "up" => sup'[s].pending = sup[s].pending)
  BY <1>1 DEF SupAsBefore
<1> QED BY <1>1, <1>2, BridgesAsBefore, ReqsStay, RefusedTold

LEMMA AsToldStep == AsToldInv /\ StopInv /\ [Next]_vars => AsToldInv'
<1> SUFFICES ASSUME AsToldInv, StopInv, [Next]_vars PROVE AsToldInv' OBVIOUS
<1>1. CASE Request BY <1>1, AsksTold DEF Request
<1>2. ASSUME NEW s \in SupIds, Starting(s) PROVE AsToldInv'
  BY <1>2, BornTold, ListenTold, RelaunchTold DEF Starting
<1>3. ASSUME NEW s \in SupIds, Running(s) PROVE AsToldInv'
  BY <1>3, EndsTold, StopFailsTold, SignalTold DEF Running
<1>4. ASSUME NEW r \in DOMAIN req, Asking(r) PROVE AsToldInv'
  BY <1>4, GivesUpTold, ControlTold, StopTold, UncertainTold DEF Asking
<1>5. ASSUME NEW b \in DOMAIN bridge, Events(b) PROVE AsToldInv'
  BY <1>5, ReadyTold, ResultTold, ExitedTold, WorkTold DEF Events
<1>6. ASSUME NEW b \in DOMAIN bridge, Bridge(b) PROVE AsToldInv'
  BY <1>6, BeginsTold, WorkTold, TakesTold, ControlledTold, DeathTold DEF Bridge
<1>7. CASE UNCHANGED vars BY <1>7, AsToldStutter
<1> QED BY <1>1, <1>2, <1>3, <1>4, <1>5, <1>6, <1>7 DEF Next, SupIds

\* Who agrees to a request has heard of all that were sent before it, the hold
\* file is there before the bridge hears of a quiesce, and what is left of
\* other requests cannot undo what a client was told (control requests of the
\* supervisor, upgrade-control of the bridge).
THEOREM AsToldInvariance == Spec => []AsToldInv
<1>1. AsToldInv /\ StopInv /\ [Next]_vars => AsToldInv' BY AsToldStep
<1> QED BY AsToldStart, <1>1, StopInvariance, PTL DEF Spec

LEMMA AsToldSafe == AsToldInv /\ StopInv => AdmissionAsTold
<1> SUFFICES ASSUME AsToldInv, StopInv PROVE AdmissionAsTold OBVIOUS
<1>1. ASSUME NEW b \in DOMAIN bridge, LookedAfter(b) PROVE Kid(b) /\ Alive(b)
  BY <1>1 DEF LookedAfter, Alive, StopInv, Known, Kid
<1>2. HoldSurvives BY <1>1 DEF AsToldInv, ToldQuiet, HoldSurvives, Quiet, Serving
<1>3. OpenMeansOpen BY <1>1 DEF AsToldInv, ToldOpen, OpenMeansOpen
<1> QED BY <1>2, <1>3 DEF AdmissionAsTold

\* What a client was told about admission is so until a client changes it:
\* neither a lost reply nor a crash, nor another bridge or supervisor, opens
\* what was closed, lets a change be made in it, or closes what was opened
\* (quiesce, activate and resume; the hold file).
THEOREM AdmissionStaysAsTold == Spec => []AdmissionAsTold
BY AsToldInvariance, StopInvariance, AsToldSafe, PTL
=============================================================================

----------------------- MODULE PoolingWorker_proofs -------------------------
(***************************************************************************)
(* Proofs about the worker that changes the pooling configuration.  About  *)
(* its lock (StoreLock), for any set of processes: at most one of them     *)
(* owns the directory, and it finds its own name in it.  About its calls   *)
(* (PoolingBatches), for any number of requests, calls and deaths:         *)
(* whatever is answered to a call is so, and what the main thread makes of *)
(* the answers (records of batches, answers to requests, the state an      *)
(* upgrade asks for) agrees with what the store has applied.               *)
(***************************************************************************)
EXTENDS StoreLock, PoolingBatches, SequenceTheorems, FiniteSetTheorems, TLAPS

-----------------------------------------------------------------------------
(* The lock of the store. *)

\* Nobody but these has the directory: they have made it, or taken it over.
Owners == {"first", "cleared", "fresh", "taken", "opening", "in", "closing"}

\* These have made the gate, and have not opened it again.
Gated == {"gate", "cleared", "taken", "opening"}

\* Without the directory there is nothing in it, and nobody who has it.
NothingWithoutLock == ~lockDir =>
    /\ ownerFile = NoProcess /\ ~takeover
    /\ \A p \in Processes : at[p] \notin Owners \cup Gated

OneWithLock == \A p, q \in Processes : at[p] \in Owners /\ at[q] \in Owners => p = q

\* The owner knows what process.json holds.
FileAsLeft == \A p \in Processes :
    /\ at[p] \in {"first", "cleared", "closing"} => ownerFile = NoProcess
    /\ at[p] \in {"fresh", "taken"} => ownerFile = "torn"
    /\ at[p] \in {"opening", "in"} => ownerFile = p

OneAtGate ==
    /\ \A p \in Processes : at[p] \in Gated => takeover
    /\ \A p, q \in Processes : at[p] \in Gated /\ at[q] \in Gated => p = q

\* Whoever takes the lock over has read the name of a process that is dead,
\* and no process gets that name again while it is remembered.
DeadOwnerRead == \A p \in Processes :
    /\ at[p] \in {"probe", "stale", "gate"} => owner[p] \in Processes
    /\ at[p] \in {"stale", "gate"} => at[owner[p]] = "dead"

LockInv ==
    /\ LockTypeOK /\ NothingWithoutLock /\ OneWithLock /\ FileAsLeft
    /\ OneAtGate /\ DeadOwnerRead
-----------------------------------------------------------------------------
(* Every step of every process keeps the invariant. *)

LEMMA LockInvKept ==
  ASSUME LockInv, NEW p \in Processes,
         \/ Acquiring(p) \/ Leave(p) \/ RemoveLock(p) \/ ProcessDies(p) \/ ProcessBorn(p)
  PROVE  LockInv'
<1> USE StoreLockAssumption
    DEF LockInv, LockTypeOK, NothingWithoutLock, OneWithLock, FileAsLeft, OneAtGate,
        DeadOwnerRead, Owners, Gated, Places, GoTo, Refused, Alive
\* mkdir of the lock: whoever finds none is the only one.
<1>1. CASE TryLock(p) BY <1>1 DEF TryLock
<1>2. CASE ReadOwner(p) BY <1>2 DEF ReadOwner
<1>3. CASE Probe(p) BY <1>3 DEF Probe
\* mkdir of the gate: it admits one.
<1>4. CASE TakeGate(p)
 <2>1. CASE lockDir /\ ~takeover BY <1>4, <2>1, SMTT(30) DEF TakeGate
 <2>2. CASE ~(lockDir /\ ~takeover) BY <1>4, <2>2 DEF TakeGate
 <2> QED BY <2>1, <2>2
\* The file names a dead process, so nobody who lives has the lock.
<1>5. CASE ClearOwner(p) BY <1>5 DEF ClearOwner
<1>6. CASE CreateOwner(p) BY <1>6 DEF CreateOwner
<1>7. CASE FillOwner(p) BY <1>7 DEF FillOwner
<1>8. CASE OpenGate(p) BY <1>8 DEF OpenGate
<1>9. CASE Leave(p) BY <1>9 DEF Leave
<1>10. CASE RemoveLock(p) BY <1>10 DEF RemoveLock
<1>11. CASE ProcessDies(p) BY <1>11 DEF ProcessDies
<1>12. CASE ProcessBorn(p) BY <1>12 DEF ProcessBorn
<1> QED BY <1>1, <1>2, <1>3, <1>4, <1>5, <1>6, <1>7, <1>8, <1>9, <1>10, <1>11, <1>12 DEF Acquiring

\* What the directory says of its owner agrees with where the processes are
\* (acquire, close).
THEOREM LockInvariance == LockSpec => []LockInv
<1>1. LockInit => LockInv BY StoreLockAssumption DEF LockInit, LockInv, LockTypeOK,
  NothingWithoutLock, OneWithLock, FileAsLeft, OneAtGate, DeadOwnerRead, Owners, Gated, Places
<1>2. LockInv /\ [LockNext]_lockVars => LockInv'
 <2>1. CASE LockNext BY <2>1, LockInvKept DEF LockNext
 <2>2. CASE UNCHANGED lockVars
   BY <2>2 DEF lockVars, LockInv, LockTypeOK, NothingWithoutLock, OneWithLock, FileAsLeft,
     OneAtGate, DeadOwnerRead
 <2> QED BY <2>1, <2>2
<1> QED BY <1>1, <1>2, PTL DEF LockSpec

\* No two processes ever work on the files of a configuration at once,
\* however many there are and whenever they die (acquire and close).
THEOREM LockIsExclusive == LockSpec => []OneOwner
<1>1. LockInv => OneOwner BY DEF LockInv, OneWithLock, OneOwner, Holds, Owners
<1> QED BY <1>1, LockInvariance, PTL

\* An owner finds its own name in process.json whenever it looks, so the
\* second look of an operation never fails by what others do.
THEOREM OwnerNamed == LockSpec => []OwnerIsNamed
<1>1. LockInv => OwnerIsNamed
  BY DEF LockInv, FileAsLeft, NothingWithoutLock, OwnerIsNamed, Holds, Owners
<1> QED BY <1>1, LockInvariance, PTL

-----------------------------------------------------------------------------
(* The calls of the worker. *)

-----------------------------------------------------------------------------
(* Sequences whose elements need no type. *)

IsSequence(s) == s \in Seq({s[k] : k \in 1 .. Len(s)})

LEMMA OwnElements ==
  ASSUME NEW S, NEW s \in Seq(S)
  PROVE  IsSequence(s) /\ Len(s) \in Nat /\ DOMAIN s = 1 .. Len(s)
<1> DEFINE T == {s[k] : k \in 1 .. Len(s)}
<1>1. Len(s) \in Nat /\ s \in [1 .. Len(s) -> S] /\ DOMAIN s = 1 .. Len(s) BY LenProperties
<1>2. s \in [1 .. Len(s) -> T] BY <1>1
<1>3. s \in Seq(T) BY <1>1, <1>2, SeqDef
<1> QED BY <1>1, <1>3 DEF IsSequence

LEMMA SequenceFacts ==
  ASSUME NEW s, IsSequence(s)
  PROVE  Len(s) \in Nat /\ DOMAIN s = 1 .. Len(s)
BY OwnElements DEF IsSequence

\* Another function on the same domain.
LEMMA MappedSequence ==
  ASSUME NEW s, IsSequence(s), NEW f, f = [k \in DOMAIN s |-> f[k]]
  PROVE  IsSequence(f) /\ Len(f) = Len(s) /\ DOMAIN f = DOMAIN s
<1> DEFINE n == Len(s)
           T == {f[k] : k \in 1 .. n}
<1>1. n \in Nat /\ DOMAIN s = 1 .. n BY SequenceFacts
<1>2. f \in [1 .. n -> T] BY <1>1
<1>3. f \in Seq(T) BY <1>1, <1>2, SeqDef
<1>4. Len(f) \in Nat /\ DOMAIN f = 1 .. Len(f) /\ IsSequence(f) BY <1>3, OwnElements
<1>5. DOMAIN f = 1 .. n BY <1>2
<1>6. Len(f) = n
 <2> DEFINE m == Len(f)
 <2>1. m \in Nat /\ 1 .. m = 1 .. n BY <1>4, <1>5
 <2> HIDE DEF m, n
 <2>2. n \in Nat BY <1>1 DEF n
 <2>3. m = n BY <2>1, <2>2
 <2> QED BY <2>3 DEF m, n
<1> QED BY <1>1, <1>4, <1>5, <1>6

LEMMA AppendSequence ==
  ASSUME NEW s, IsSequence(s), NEW e
  PROVE  /\ IsSequence(Append(s, e)) /\ Len(Append(s, e)) = Len(s) + 1
         /\ \A k \in 1 .. Len(s) : Append(s, e)[k] = s[k]
         /\ Append(s, e)[Len(s) + 1] = e
<1> DEFINE T == {s[k] : k \in 1 .. Len(s)} \cup {e}
<1>1. s \in Seq(T) BY SeqMonotonic DEF IsSequence
<1> HIDE DEF T
<1>2. e \in T  BY DEF T
<1>3. /\ Append(s, e) \in Seq(T) /\ Len(Append(s, e)) = Len(s) + 1
      /\ \A k \in 1 .. Len(s) : Append(s, e)[k] = s[k]
      /\ Append(s, e)[Len(s) + 1] = e
  BY <1>1, <1>2, AppendProperties
<1>4. IsSequence(Append(s, e)) BY <1>3, OwnElements
<1> QED BY <1>3, <1>4

LEMMA TailSequence ==
  ASSUME NEW s, IsSequence(s), s # <<>>
  PROVE  /\ IsSequence(Tail(s)) /\ Len(Tail(s)) = Len(s) - 1
         /\ \A k \in 1 .. Len(s) - 1 : Tail(s)[k] = s[k + 1]
         /\ Head(s) = s[1] /\ Len(s) > 0
<1> DEFINE T == {s[k] : k \in 1 .. Len(s)}
<1>1. s \in Seq(T) BY DEF IsSequence
<1> HIDE DEF T
<1>2. /\ Tail(s) \in Seq(T) /\ Len(Tail(s)) = Len(s) - 1
      /\ \A k \in 1 .. Len(Tail(s)) : Tail(s)[k] = s[k + 1]
  BY <1>1, HeadTailProperties
<1>3. IsSequence(Tail(s)) BY <1>2, OwnElements
<1>4. Len(s) > 0 /\ Head(s) = s[1] BY <1>1, EmptySeq
<1> QED BY <1>2, <1>3, <1>4

-----------------------------------------------------------------------------
(* The invariant. *)

States == {"not-committed", "committed", "unknown"}
Fields == {"method", "arg", "exec", "due", "settled", "open", "told", "done"}

\* What exec says of a call, and what its caller was told, is so.  A call that
\* was answered as not committed can be finished by nobody any more.
CallTrue(c) ==
    /\ DOMAIN c = Fields
    /\ c.method \in {"stage", "commit", "reject"}
    /\ c.exec \in ACTIVE .. FINISHED_COMMITTED
    /\ c.told \in States \cup {None}
    /\ c.done \in BOOLEAN
    /\ c.exec \in {ACTIVE, CANCELLED, EXPIRED, FINISHED} => ~c.done
    /\ c.exec \in {FINISHED_LATE, FINISHED_COMMITTED} => c.done
    /\ c.told = "committed" => c.done
    /\ c.told = "not-committed" =>
         ~c.done /\ (c.exec \in {CANCELLED, EXPIRED, FINISHED} \/ worker = Dead)

CallsTrue == \A i \in 1 .. Len(call) : CallTrue(call[i])

Unbegun(c) == c.exec \in {ACTIVE, CANCELLED, EXPIRED}

\* The worker takes the calls in the order of their numbers.
Begun == Len(call) - Len(inbox)
InOrder ==
    /\ Len(inbox) <= Len(call)
    /\ \A k \in 1 .. Len(inbox) : inbox[k] = Begun + k
    /\ \A i \in 1 .. Len(call) : i > Begun => Unbegun(call[i])

\* The call it is in is the last one it has taken.
AtWork ==
    /\ DOMAIN worker = {"id", "at", "result"}
    /\ worker.at \in {"work", "staged", "begun", "entered"}
    /\ worker.id = Begun /\ Begun > 0
    /\ worker.at \in {"work", "staged"} => Unbegun(call[worker.id])
    /\ worker.at = "staged" => call[worker.id].method = "stage" /\ worker.result.error = None
    /\ worker.at \in {"begun", "entered"} =>
         /\ call[worker.id].method = "commit"
         /\ call[worker.id].exec = COMMITTING /\ ~call[worker.id].done

\* An answer of the worker says what its call has come to, and that call is over.
MessageTrue(m) ==
    /\ m.id \in 1 .. Begun /\ (m.id = Begun => worker \in {NoWork, Dead})
    /\ m.answer.error \in States \cup {None}
    /\ m.answer.error = "not-committed" => call[m.id].exec = FINISHED
    /\ m.answer.error = "committed" => call[m.id].exec \in {FINISHED_LATE, FINISHED_COMMITTED}
    /\ m.answer.error = None /\ call[m.id].method = "stage" => call[m.id].exec = FINISHED
    /\ m.answer.error = None /\ m.late => call[m.id].exec \in {FINISHED_LATE, FINISHED_COMMITTED}

OutboxTrue == \A k \in 1 .. Len(outbox) : MessageTrue(outbox[k])

CallsInv ==
    /\ IsSequence(call) /\ inbox \in Seq(Nat) /\ IsSequence(outbox)
    /\ CallsTrue /\ InOrder
    /\ worker \in {NoWork, Dead} \/ AtWork
    /\ OutboxTrue

-----------------------------------------------------------------------------
(* The main thread. *)

\* What it may do to a call: it decides only about one that has not begun.
MainStep(c, d) ==
    /\ CallTrue(d)
    /\ d.method = c.method /\ d.done = c.done
    /\ d.exec = c.exec \/ (c.exec = ACTIVE /\ d.exec \in {CANCELLED, EXPIRED})

MainSteps(f) ==
    /\ f = [i \in DOMAIN call |-> f[i]]
    /\ \A i \in 1 .. Len(call) : MainStep(call[i], f[i])

\* It may also make another call, and take an answer from the outbox.
Sent(f) ==
    \/ call' = f /\ inbox' = inbox
    \/ \E method \in {"stage", "commit", "reject"} : \E arg :
         /\ call' = Append(f, NewCall(method, arg))
         /\ inbox' = Append(inbox, Len(call) + 1)

LEMMA NewCallTrue ==
  ASSUME NEW method \in {"stage", "commit", "reject"}, NEW arg
  PROVE  CallTrue(NewCall(method, arg)) /\ Unbegun(NewCall(method, arg))
BY BatchesAssumption DEF CallTrue, NewCall, Unbegun, Fields, States, ACTIVE, CANCELLED, EXPIRED,
  FINISHED, FINISHED_LATE, FINISHED_COMMITTED

LEMMA MainKeeps ==
  ASSUME CallsInv, NEW f, MainSteps(f), Sent(f), worker' = worker,
         outbox' = outbox \/ (outbox # <<>> /\ outbox' = Tail(outbox))
  PROVE  CallsInv'
<1> DEFINE n == Len(call)
<1>1. IsSequence(call) /\ IsSequence(outbox) /\ n \in Nat /\ DOMAIN call = 1 .. n
      /\ Len(outbox) \in Nat /\ Len(inbox) \in Nat
  BY SequenceFacts DEF CallsInv
<1>2. IsSequence(f) /\ Len(f) = n BY <1>1, MappedSequence DEF MainSteps
<1>3. \A i \in 1 .. n : MainStep(call[i], f[i]) BY DEF MainSteps
<1> DEFINE Grown ==
           /\ IsSequence(call') /\ inbox' \in Seq(Nat) /\ n <= Len(call') /\ Len(call') \in Nat
           /\ \A i \in 1 .. n : call'[i] = f[i]
           /\ \A i \in 1 .. Len(call') : i > n => CallTrue(call'[i]) /\ Unbegun(call'[i])
           /\ Len(inbox') <= Len(call')
           /\ Len(call') - Len(inbox') = n - Len(inbox)
           /\ \A k \in 1 .. Len(inbox') : inbox'[k] = n - Len(inbox) + k
<1>4. Grown
 <2>1. CASE call' = f /\ inbox' = inbox BY <1>1, <1>2, <2>1 DEF CallsInv, InOrder, Begun
 <2>2. ASSUME NEW method \in {"stage", "commit", "reject"}, NEW arg,
              call' = Append(f, NewCall(method, arg)), inbox' = Append(inbox, n + 1)
       PROVE  Grown
  <3> DEFINE c == NewCall(method, arg)
  <3>1. CallTrue(c) /\ Unbegun(c) BY NewCallTrue
  <3> HIDE DEF c
  <3>2. /\ IsSequence(call') /\ Len(call') = n + 1 /\ call'[n + 1] = c
        /\ \A i \in 1 .. n : call'[i] = f[i]
    BY <1>2, <2>2, AppendSequence DEF c
  <3>3. /\ inbox' \in Seq(Nat) /\ Len(inbox') = Len(inbox) + 1 /\ inbox'[Len(inbox) + 1] = n + 1
        /\ \A k \in 1 .. Len(inbox) : inbox'[k] = inbox[k]
    BY <1>1, <2>2, AppendProperties DEF CallsInv
  <3>4. \A k \in 1 .. Len(inbox') : inbox'[k] = n - Len(inbox) + k
   <4> DEFINE m == Len(inbox)
   <4>1. m \in Nat /\ n \in Nat /\ \A k \in 1 .. m : inbox[k] = n - m + k
     BY <1>1 DEF CallsInv, InOrder, Begun
   <4>2. Len(inbox') = m + 1 /\ inbox'[m + 1] = n + 1 /\ \A k \in 1 .. m : inbox'[k] = inbox[k]
     BY <3>3
   <4> HIDE DEF m, n
   <4>3. \A k \in 1 .. m + 1 : inbox'[k] = n - m + k BY <4>1, <4>2
   <4> QED BY <4>2, <4>3 DEF m
  <3>5. Len(inbox) <= n BY DEF CallsInv, InOrder
  <3>6. \A i \in 1 .. Len(call') : i > n => i = n + 1 BY <1>1, <3>2
  <3> HIDE DEF n
  <3> QED BY <1>1, <3>1, <3>2, <3>3, <3>4, <3>5, <3>6
 <2> QED BY <2>1, <2>2 DEF Sent
<1>5. Begun' = Begun BY <1>4 DEF Begun
<1>6. CallsTrue'
 <2> SUFFICES ASSUME NEW i \in 1 .. Len(call')
              PROVE  CallTrue(call'[i])
   BY DEF CallsTrue, CallTrue
 <2>1. CASE i > n BY <1>4, <2>1
 <2>2. CASE ~(i > n)
  <3>1. i \in 1 .. n /\ call'[i] = f[i] BY <1>1, <1>4, <2>2
  <3> QED BY <1>3, <3>1 DEF MainStep
 <2> QED BY <2>1, <2>2
<1>7. InOrder'
 <2>1. ASSUME NEW i \in 1 .. Len(call'), i > Begun
       PROVE  Unbegun(call'[i])
  <3>1. CASE i > n BY <1>4, <3>1
  <3>2. CASE ~(i > n)
   <4>1. i \in 1 .. n /\ call'[i] = f[i] BY <1>1, <1>4, <3>2
   <4>2. Unbegun(call[i]) /\ MainStep(call[i], f[i]) BY <1>3, <2>1, <4>1 DEF CallsInv, InOrder
   <4> QED BY <4>1, <4>2 DEF MainStep, Unbegun, ACTIVE, CANCELLED, EXPIRED
  <3> QED BY <3>1, <3>2
 <2> QED BY <1>4, <1>5, <2>1 DEF InOrder, Begun, Unbegun
<1>8. worker' \in {NoWork, Dead} \/ AtWork'
 <2>1. CASE worker \in {NoWork, Dead} BY <2>1 DEF NoWork, Dead
 <2>2. CASE AtWork
  <3>1. worker.id \in 1 .. n BY <2>2, <1>1 DEF AtWork, Begun
  <3>2. MainStep(call[worker.id], call'[worker.id]) BY <1>3, <1>4, <3>1
  <3> QED BY <1>5, <2>2, <3>2 DEF AtWork, MainStep, Unbegun, ACTIVE, CANCELLED, EXPIRED, COMMITTING
 <2> QED BY <2>1, <2>2 DEF CallsInv
<1>9. /\ IsSequence(outbox') /\ Len(outbox') \in Nat
      /\ \A k \in 1 .. Len(outbox') : \E j \in 1 .. Len(outbox) : outbox'[k] = outbox[j]
 <2>1. CASE outbox' = outbox BY <1>1, <2>1
 <2>2. CASE outbox # <<>> /\ outbox' = Tail(outbox) BY <1>1, <2>2, TailSequence
 <2> QED BY <2>1, <2>2
<1>10. ASSUME NEW m, MessageTrue(m)
       PROVE  MessageTrue(m)'
 <2>1. m.id \in 1 .. n BY <1>1, <1>10 DEF MessageTrue, Begun
 <2>2. MainStep(call[m.id], call'[m.id]) BY <1>3, <1>4, <2>1
 <2> QED BY <1>5, <1>10, <2>2 DEF MessageTrue, MainStep, ACTIVE, CANCELLED, EXPIRED, COMMITTING,
   FINISHED, FINISHED_LATE, FINISHED_COMMITTED
<1>11. OutboxTrue'
 <2> SUFFICES ASSUME NEW k \in 1 .. Len(outbox')
              PROVE  (MessageTrue(outbox[k]))'
   BY DEF OutboxTrue
 <2>1. PICK j \in 1 .. Len(outbox) : outbox'[k] = outbox[j] BY <1>9
 <2>2. PICK m : m = outbox[j] OBVIOUS
 <2>3. MessageTrue(m)' BY <2>2, <1>10 DEF CallsInv, OutboxTrue
 <2> QED BY <2>1, <2>2, <2>3 DEF MessageTrue
<1> QED BY <1>4, <1>6, <1>7, <1>8, <1>9, <1>11 DEF CallsInv

LEMMA CallsSame ==
  ASSUME CallsInv, UNCHANGED <<call, inbox, outbox, worker>>
  PROVE  CallsInv'
BY DEF CallsInv, IsSequence, CallsTrue, CallTrue, InOrder, Begun, AtWork, Unbegun, OutboxTrue,
  MessageTrue

LEMMA StepItself == CallsInv => MainSteps(call)
<1> SUFFICES ASSUME CallsInv PROVE MainSteps(call) OBVIOUS
<1>1. DOMAIN call = 1 .. Len(call) /\ call \in Seq({call[k] : k \in 1 .. Len(call)})
  BY SequenceFacts DEF CallsInv, IsSequence
<1>2. call = [i \in DOMAIN call |-> call[i]] BY <1>1
<1> QED BY <1>2 DEF MainSteps, MainStep, CallsInv, CallsTrue

\* One call makes a step of the main thread.
LEMMA StepOne ==
  ASSUME CallsInv, NEW i \in DOMAIN call, NEW d, MainStep(call[i], d)
  PROVE  MainSteps([call EXCEPT ![i] = d])
<1> DEFINE f == [call EXCEPT ![i] = d]
<1>1. DOMAIN call = 1 .. Len(call) BY SequenceFacts DEF CallsInv
<1>2. \A j \in 1 .. Len(call) : MainStep(call[j], call[j]) BY DEF MainStep, CallsInv, CallsTrue
<1>3. f = [j \in DOMAIN call |-> f[j]] OBVIOUS
<1>4. \A j \in 1 .. Len(call) : f[j] = IF j = i THEN d ELSE call[j] BY <1>1
<1> QED BY <1>2, <1>3, <1>4 DEF MainSteps

LEMMA RequestKeeps ==
  ASSUME CallsInv, StartReload \/ Close \/ LateJob \/ \E what \in Settings \cup {Cancel} : Request(what)
  PROVE  CallsInv'
BY CallsSame DEF StartReload, Close, LateJob, Request

LEMMA SendKeeps ==
  ASSUME CallsInv, UNCHANGED <<outbox, worker>>, UNCHANGED <<call, inbox>> \/
           \E method \in {"stage", "commit", "reject"} : \E arg : Sends(method, arg)
  PROVE  CallsInv'
<1>1. CASE UNCHANGED <<call, inbox>> BY <1>1, CallsSame
<1>2. CASE \E method \in {"stage", "commit", "reject"} : \E arg : Sends(method, arg)
  BY <1>2, StepItself, MainKeeps DEF Sent, Sends
<1> QED BY <1>1, <1>2

LEMMA JobsKeep ==
  ASSUME CallsInv, StageJob \/ CommitJob
  PROVE  CallsInv'
<1>1. CASE StageJob BY <1>1, SendKeeps DEF StageJob
<1>2. CASE CommitJob BY <1>2, SendKeeps DEF CommitJob
<1> QED BY <1>1, <1>2

\* A deadline passes, a call is given up.
LEMMA DueKeeps ==
  ASSUME CallsInv, NEW i \in DOMAIN call, Due(i)
  PROVE  CallsInv'
<1> DEFINE d == [call[i] EXCEPT !.due = TRUE]
<1>1. CallTrue(call[i]) BY SequenceFacts DEF CallsInv, CallsTrue
<1>2. MainStep(call[i], d) BY <1>1 DEF MainStep, CallTrue, Fields
<1>3. call' = [call EXCEPT ![i] = d] BY DEF Due
<1> HIDE DEF d
<1> QED BY <1>2, <1>3, StepOne, MainKeeps DEF Due, Sent

LEMMA CancelsKeep ==
  ASSUME CallsInv, NEW i \in DOMAIN call, NEW expired \in BOOLEAN, NEW m, Cancels(i, expired, m),
         UNCHANGED <<inbox, outbox, worker>>
  PROVE  CallsInv'
<1> DEFINE c == call[i]
           answer == CancelAnswer(c)
           d == [CancelTo(c, expired) EXCEPT !.settled = TRUE, !.told = answer]
<1>1. CASE answer = None BY <1>1, CallsSame DEF Cancels
<1>2. CASE answer # None
 <2>1. CallTrue(c) BY SequenceFacts DEF CallsInv, CallsTrue
 <2>2. call' = [call EXCEPT ![Settles(i)].settled = TRUE, ![i] = d] BY <1>2, Zenon DEF Cancels
 <2> HIDE DEF c
 <2>3. MainStep(c, d) BY <1>2, <2>1 DEF MainStep, CallTrue, Fields, States, CancelAnswer, CancelTo,
   ACTIVE, CANCELLED, EXPIRED, COMMITTING, FINISHED, FINISHED_LATE, FINISHED_COMMITTED
 <2> HIDE DEF d
 <2>4. PICK f : f = call' OBVIOUS
 <2>5. DOMAIN call = 1 .. Len(call) /\ \A j \in 1 .. Len(call) : CallTrue(call[j])
   BY SequenceFacts DEF CallsInv, CallsTrue
 <2>6. f = [j \in DOMAIN call |-> f[j]] BY <2>2, <2>4, Zenon
 <2>7. ASSUME NEW j \in 1 .. Len(call)
       PROVE  MainStep(call[j], f[j])
  <3>1. DOMAIN call[j] = Fields /\ CallTrue(call[j]) /\ j \in DOMAIN call BY <2>5 DEF CallTrue
  <3>2. CASE j = i
   <4>1. f[j] = d BY <2>2, <2>4, <3>1, <3>2, Zenon
   <4> QED BY <2>3, <3>2, <4>1 DEF c
  <3>3. CASE j # i
   <4>1. f[j] = call[j] \/ f[j] = [call[j] EXCEPT !.settled = TRUE]
     BY <2>2, <2>4, <3>1, <3>3, Zenon
   <4> QED BY <3>1, <4>1 DEF MainStep, CallTrue, Fields
  <3> QED BY <3>2, <3>3
 <2>8. MainSteps(f) /\ Sent(f) BY <2>4, <2>6, <2>7 DEF MainSteps, Sent
 <2> QED BY <2>8, MainKeeps
<1> QED BY <1>1, <1>2

LEMMA GivenUpKeeps ==
  ASSUME CallsInv, (\E i \in DOMAIN call : TimeOut(i)) \/ \E r \in DOMAIN main.req : Abort(r)
  PROVE  CallsInv'
<1>1. ASSUME NEW i \in DOMAIN call, TimeOut(i)
      PROVE  CallsInv'
  BY <1>1, CancelsKeep DEF TimeOut
<1>2. ASSUME NEW r \in DOMAIN main.req, Abort(r)
      PROVE  CallsInv'
 <2>1. CASE UNCHANGED call BY <1>2, <2>1, CallsSame DEF Abort
 <2>2. ASSUME NEW i \in DOMAIN call, NEW m, Cancels(i, FALSE, m)
       PROVE  CallsInv'
   BY <1>2, <2>2, CancelsKeep, Zenon DEF Abort
 <2> QED BY <1>2, <2>1, <2>2 DEF Abort
<1> QED BY <1>1, <1>2

\* A message of the worker.
LEMMA MessageKeeps ==
  ASSUME CallsInv, Message
  PROVE  CallsInv'
<1> DEFINE message == Head(outbox)
           a == message.answer
           i == message.id
           c == call[i]
           aborted == c.method = "stage" /\ main.req[c.arg.r].aborted
           late == a.error = None /\ message.late
           a1 == IF a.error = None /\ a.cancelled # None /\ aborted
                 THEN CancelledWith(a.cancelled) ELSE a
           a2 == IF late THEN Error("committed") ELSE a1
           given == [c EXCEPT !.open = FALSE]
           answered == [given EXCEPT !.settled = TRUE, !.told = IF c.settled THEN @ ELSE a2.error]
<1>1. /\ outbox # <<>> /\ outbox' = Tail(outbox) /\ worker' = worker BY Zenon DEF Message
<1>2. MessageTrue(message) BY <1>1, TailSequence DEF CallsInv, OutboxTrue
<1>3. IsSequence(call) /\ Len(call) \in Nat /\ Len(inbox) \in Nat /\ DOMAIN call = 1 .. Len(call)
  BY SequenceFacts DEF CallsInv
<1>4. i \in DOMAIN call /\ i \in 1 .. Len(call) BY <1>2, <1>3 DEF MessageTrue, Begun
<1>5. CallTrue(c) BY <1>4 DEF CallsInv, CallsTrue
<1>6. \A j \in 1 .. Len(call) : CallTrue(call[j]) BY DEF CallsInv, CallsTrue
<1>7. CASE /\ c.method = "reject"
           /\ call' = [call EXCEPT ![i].open = FALSE, ![i].settled = TRUE,
                                   ![c.arg.i].settled = TRUE]
           /\ UNCHANGED inbox
 <2> DEFINE f == [call EXCEPT ![i].open = FALSE, ![i].settled = TRUE, ![c.arg.i].settled = TRUE]
 <2>1. f = [j \in DOMAIN call |-> f[j]] BY Zenon
 <2>2. ASSUME NEW j \in 1 .. Len(call)
       PROVE  MainStep(call[j], f[j])
  <3>1. CallTrue(call[j]) /\ DOMAIN call[j] = Fields /\ j \in DOMAIN call
    BY <1>3, <1>6 DEF CallTrue
  <3>2. PICK d : d = f[j] OBVIOUS
  <3>3. /\ DOMAIN d = Fields /\ d.method = call[j].method /\ d.done = call[j].done
        /\ d.exec = call[j].exec /\ d.told = call[j].told
    BY <1>3, <1>4, <3>1, <3>2, Zenon DEF Fields
  <3> HIDE DEF f
  <3>4. MainStep(call[j], d) BY <3>1, <3>3 DEF MainStep, CallTrue
  <3> QED BY <3>2, <3>4
 <2>3. MainSteps(f) BY <2>1, <2>2, Zenon DEF MainSteps
 <2>4. Sent(f) BY <1>7, Zenon DEF Sent
 <2> HIDE DEF f
 <2> QED BY <1>1, <2>3, <2>4, MainKeeps, Zenon
<1>8. CASE /\ call' = Append([call EXCEPT ![i].open = FALSE],
                             NewCall("reject", [gen |-> a.gen, i |-> i]))
           /\ inbox' = Append(inbox, Len(call) + 1)
 <2> DEFINE f == [call EXCEPT ![i] = given]
 <2>1. MainStep(c, given) BY <1>5 DEF MainStep, CallTrue, Fields
 <2>2. call' = Append(f, NewCall("reject", [gen |-> a.gen, i |-> i])) BY <1>8
 <2>3. Sent(f) BY <1>8, <2>2, Zenon DEF Sent
 <2> HIDE DEF given
 <2>4. MainSteps(f) BY <1>4, <2>1, StepOne, Zenon
 <2> HIDE DEF f
 <2> QED BY <1>1, <2>3, <2>4, MainKeeps
<1>9. CASE /\ c.method # "reject"
           /\ call' = [call EXCEPT ![i].open = FALSE, ![i].settled = TRUE,
                                   ![i].told = IF c.settled THEN @ ELSE a2.error]
           /\ UNCHANGED inbox
 <2> DEFINE f == [call EXCEPT ![i] = answered]
 <2>1. /\ a2.error \in States \cup {None}
       /\ a2.error = "committed" => c.exec \in {FINISHED_LATE, FINISHED_COMMITTED}
       /\ a2.error = "not-committed" => c.exec = FINISHED
  <3>1. CASE late BY <1>2, <3>1 DEF MessageTrue, Error, States
  <3>2. CASE ~late /\ a.error = None /\ a.cancelled # None /\ aborted
    BY <1>2, <3>2, Zenon DEF MessageTrue, CancelledWith, Error, States
  <3>3. CASE a2 = a BY <1>2, <3>3, BatchesAssumption, Zenon DEF MessageTrue, States
  <3> QED BY <3>1, <3>2, <3>3, Zenon
 <2> HIDE DEF a2
 <2>2. MainStep(c, answered) BY <1>5, <2>1, BatchesAssumption DEF MainStep, CallTrue, Fields,
   FINISHED, FINISHED_LATE, FINISHED_COMMITTED, States
 <2>3. call' = f BY <1>9, Zenon
 <2>4. Sent(f) BY <1>9, <2>3, Zenon DEF Sent
 <2> HIDE DEF answered
 <2>5. MainSteps(f) BY <1>4, <2>2, StepOne
 <2> HIDE DEF f
 <2> QED BY <1>1, <2>4, <2>5, MainKeeps
<1> QED BY <1>7, <1>8, <1>9, Zenon DEF Message

\* The end of the worker: nobody is left who could commit what is not begun.
LEMMA ExitKeeps ==
  ASSUME CallsInv, WorkerExit
  PROVE  CallsInv'
<1> DEFINE open == {i \in DOMAIN call : call[i].open}
           told(c) == [c EXCEPT !.open = FALSE, !.settled = TRUE,
                                !.told = IF c.settled THEN @ ELSE WorkerFailure(c)]
<1>1. DOMAIN call = 1 .. Len(call) BY SequenceFacts DEF CallsInv
<1>2. worker = Dead /\ UNCHANGED <<inbox, outbox, worker>> BY DEF WorkerExit
<1>3. ASSUME NEW c, CallTrue(c)
      PROVE  MainStep(c, c) /\ MainStep(c, told(c))
 <2>1. CASE WorkerFailure(c) = "committed" BY <1>3, <2>1, BatchesAssumption DEF MainStep, CallTrue,
   Fields, WorkerFailure, States, COMMITTING, FINISHED_LATE, FINISHED_COMMITTED
 <2>2. CASE WorkerFailure(c) = "unknown"
   BY <1>3, <2>2, BatchesAssumption DEF MainStep, CallTrue, Fields, States
 <2>3. CASE WorkerFailure(c) = "not-committed" BY <1>2, <1>3, <2>3, BatchesAssumption DEF MainStep,
   CallTrue, Fields, WorkerFailure, States, ACTIVE, CANCELLED, EXPIRED, COMMITTING, FINISHED,
   FINISHED_LATE, FINISHED_COMMITTED
 <2>4. WorkerFailure(c) \in {"committed", "unknown", "not-committed"} BY DEF WorkerFailure
 <2> HIDE DEF told
 <2> QED BY <2>1, <2>2, <2>3, <2>4
<1>4. call' = [i \in DOMAIN call |-> IF i \in open THEN told(call[i]) ELSE call[i]]
  BY DEF WorkerExit, Error
<1>5. PICK f : f = [i \in DOMAIN call |-> IF i \in open THEN told(call[i]) ELSE call[i]] OBVIOUS
<1> HIDE DEF told, open
<1>6. \A i \in 1 .. Len(call) : MainStep(call[i], f[i]) BY <1>1, <1>3, <1>5 DEF CallsInv, CallsTrue
<1>7. MainSteps(f) BY <1>5, <1>6 DEF MainSteps
<1>8. Sent(f) BY <1>2, <1>4, <1>5 DEF Sent
<1> QED BY <1>2, <1>7, <1>8, MainKeeps

-----------------------------------------------------------------------------
(* The worker. *)

\* What an answer says of the call d that it ends.
Tells(m, d) ==
    /\ m.answer.error \in States \cup {None}
    /\ m.answer.error = "not-committed" => d.exec = FINISHED
    /\ m.answer.error = "committed" => d.exec \in {FINISHED_LATE, FINISHED_COMMITTED}
    /\ m.answer.error = None /\ d.method = "stage" => d.exec = FINISHED
    /\ m.answer.error = None /\ m.late => d.exec \in {FINISHED_LATE, FINISHED_COMMITTED}

\* It goes on with its call, or dies in it, or answers it.
Goes(d) ==
    \/ outbox' = outbox /\ (AtWork' \/ worker' = Dead)
    \/ worker' = NoWork /\ \E m : m.id = worker.id /\ Tells(m, d) /\ outbox' = Append(outbox, m)

LEMMA WorkKeeps ==
  ASSUME CallsInv, AtWork, NEW d, CallTrue(d), d.method = call[worker.id].method,
         call' = [call EXCEPT ![worker.id] = d], inbox' = inbox, Goes(d)
  PROVE  CallsInv'
<1> DEFINE n == Len(call)
           w == worker.id
<1>1. IsSequence(call) /\ IsSequence(outbox) /\ n \in Nat /\ DOMAIN call = 1 .. n
      /\ Len(outbox) \in Nat /\ Len(inbox) \in Nat
  BY SequenceFacts DEF CallsInv
<1>2. w = Begun /\ w \in 1 .. n /\ worker # Dead /\ worker # NoWork
  BY <1>1 DEF AtWork, Begun, Dead, NoWork
<1>3. /\ IsSequence(call') /\ Len(call') = n
      /\ \A i \in 1 .. n : call'[i] = IF i = w THEN d ELSE call[i]
  BY <1>1, MappedSequence
<1>4. Begun' = Begun BY <1>3 DEF Begun
<1>5. CallsTrue'
 <2> SUFFICES ASSUME NEW i \in 1 .. n
              PROVE  (CallTrue(call[i]))'
   BY <1>3 DEF CallsTrue
 <2>1. CallTrue(call'[i]) BY <1>3 DEF CallsInv, CallsTrue
 <2> QED BY <1>2, <2>1 DEF CallTrue
<1>6. InOrder'
 <2>1. ASSUME NEW i \in 1 .. n, i > Begun
       PROVE  call'[i] = call[i]
  <3> DEFINE b == Begun
  <3>1. w \in 1 .. n /\ w = b /\ i > b BY <1>2, <2>1
  <3> HIDE DEF w, b, n
  <3>2. i # w BY <3>1
  <3> QED BY <1>3, <3>2
 <2> QED BY <1>3, <1>4, <2>1 DEF CallsInv, InOrder, Begun, Unbegun
<1>7. worker' \in {NoWork, Dead} \/ AtWork' BY DEF Goes
\* Answers that are on their way are about other calls.
<1>8. ASSUME NEW m, MessageTrue(m)
      PROVE  MessageTrue(m)'
  BY <1>1, <1>2, <1>8, <1>3, <1>4 DEF MessageTrue, Begun
<1>9. CASE outbox' = outbox
 <2>1. OutboxTrue'
  <3> SUFFICES ASSUME NEW k \in 1 .. Len(outbox)
               PROVE  (MessageTrue(outbox[k]))'
    BY <1>9 DEF OutboxTrue
  <3>1. PICK m : m = outbox[k] OBVIOUS
  <3>2. MessageTrue(m)' BY <3>1, <1>8 DEF CallsInv, OutboxTrue
  <3> QED BY <1>9, <3>1, <3>2 DEF MessageTrue
 <2> QED BY <1>3, <1>5, <1>6, <1>7, <1>9, <2>1 DEF CallsInv
<1>10. ASSUME NEW m, worker' = NoWork, m.id = w, Tells(m, d), outbox' = Append(outbox, m)
       PROVE  CallsInv'
 <2>1. /\ IsSequence(outbox') /\ Len(outbox') = Len(outbox) + 1 /\ outbox'[Len(outbox) + 1] = m
       /\ \A k \in 1 .. Len(outbox) : outbox'[k] = outbox[k]
   BY <1>1, <1>10, AppendSequence
 <2>2. MessageTrue(m)' BY <1>1, <1>2, <1>3, <1>4, <1>10 DEF MessageTrue, Tells, Begun
 <2>3. OutboxTrue'
  <3> SUFFICES ASSUME NEW k \in 1 .. Len(outbox')
               PROVE  (MessageTrue(outbox[k]))'
    BY DEF OutboxTrue
  <3>1. PICK e : e = outbox'[k] OBVIOUS
  <3>2. MessageTrue(e)'
   <4>1. CASE k = Len(outbox) + 1 BY <2>1, <2>2, <3>1, <4>1
   <4>2. CASE k # Len(outbox) + 1 BY <1>1, <2>1, <3>1, <4>2, <1>8 DEF CallsInv, OutboxTrue
   <4> QED BY <4>1, <4>2
  <3> QED BY <3>1, <3>2 DEF MessageTrue
 <2> QED BY <1>3, <1>5, <1>6, <1>7, <2>1, <2>3 DEF CallsInv
<1> QED BY <1>9, <1>10 DEF Goes

\* An answer from within a step.
LEMMA RepliesGo ==
  ASSUME NEW a, NEW late, Replies(a, late), NEW d,
         LET m == [id |-> worker.id, late |-> late, answer |-> a] IN Tells(m, d)
  PROVE  Goes(d)
<1> DEFINE m == [id |-> worker.id, late |-> late, answer |-> a]
<1>1. outbox' = Append(outbox, m) /\ worker' = NoWork /\ m.id = worker.id BY DEF Replies, Reply
<1> HIDE DEF m
<1> QED BY <1>1 DEF Goes, m

\* Who is in a call is at work.
LEMMA InWork ==
  ASSUME CallsInv, NEW method \in {"stage", "commit", "reject"},
         NEW place \in {"work", "staged", "begun", "entered"}, In(method, place)
  PROVE  /\ AtWork /\ worker.at = place /\ call[worker.id].method = method
         /\ CallTrue(call[worker.id])
         /\ worker.id \in DOMAIN call /\ DOMAIN call = 1 .. Len(call)
<1>1. AtWork /\ worker.at = place /\ call[worker.id].method = method
  BY DEF CallsInv, In, NoWork, Dead
<1>2. Len(call) \in Nat /\ Len(inbox) \in Nat /\ DOMAIN call = 1 .. Len(call)
  BY SequenceFacts DEF CallsInv
<1>3. worker.id \in 1 .. Len(call) BY <1>1, <1>2 DEF AtWork, Begun
<1> QED BY <1>1, <1>2, <1>3 DEF CallsInv, CallsTrue

\* Only its place changes.
LEMMA GoesOn ==
  ASSUME CallsInv, NEW method \in {"stage", "commit", "reject"},
         NEW place \in {"work", "staged", "begun", "entered"}, In(method, place),
         UNCHANGED <<call, inbox, outbox>>, AtWork'
  PROVE  CallsInv'
<1> DEFINE c == call[worker.id]
<1>1. AtWork /\ CallTrue(c) /\ worker.id \in DOMAIN call BY InWork
<1>2. call' = [call EXCEPT ![worker.id] = c] BY StepItself DEF MainSteps
<1>3. Goes(c) BY DEF Goes
<1> QED BY <1>1, <1>2, <1>3, WorkKeeps

\* It is refused, or stops: nothing is done.
LEMMA RefusalKeeps ==
  ASSUME CallsInv, NEW method \in {"stage", "commit", "reject"},
         NEW place \in {"work", "staged", "begun", "entered"}, In(method, place),
         NEW cancelled, Fails("not-committed", cancelled), inbox' = inbox
  PROVE  CallsInv'
<1> DEFINE c == call[worker.id]
           d == FailTo(c, "not-committed")
           a == [Error("not-committed") EXCEPT !.cancelled = cancelled]
<1>1. AtWork /\ CallTrue(c) BY InWork
<1>2. ~c.done BY <1>1 DEF AtWork, CallTrue, Unbegun
<1>3. call' = [call EXCEPT ![worker.id] = d] /\ Replies(a, FALSE) BY DEF Fails
<1>4. d = [c EXCEPT !.exec = FINISHED] BY DEF FailTo
<1>5. CallTrue(d) /\ d.method = c.method /\ d.exec = FINISHED BY <1>1, <1>2, <1>4 DEF CallTrue,
  Fields, ACTIVE, CANCELLED, EXPIRED, FINISHED, FINISHED_LATE, FINISHED_COMMITTED
<1>6. a.error = "not-committed" BY DEF Error
<1> HIDE DEF a, d
<1>7. Goes(d) BY <1>5, <1>6, BatchesAssumption, <1>3, RepliesGo DEF Tells, States
<1> QED BY <1>1, <1>3, <1>5, <1>7, WorkKeeps

LEMMA TakeKeeps ==
  ASSUME CallsInv, Take
  PROVE  CallsInv'
<1> DEFINE n == Len(call)
           i == Head(inbox)
           d == [call[i] EXCEPT !.exec = FINISHED]
<1>1. IsSequence(call) /\ IsSequence(outbox) /\ n \in Nat /\ DOMAIN call = 1 .. n
      /\ Len(outbox) \in Nat /\ Len(inbox) \in Nat
  BY SequenceFacts DEF CallsInv
<1>2. /\ inbox' \in Seq(Nat) /\ Len(inbox') = Len(inbox) - 1 /\ Len(inbox) > 0
      /\ \A k \in 1 .. Len(inbox) - 1 : inbox'[k] = inbox[k + 1]
      /\ i = inbox[1]
  BY HeadTailProperties, EmptySeq DEF CallsInv, Take
<1>3. i = Begun + 1 /\ i \in 1 .. n BY <1>1, <1>2 DEF CallsInv, InOrder, Begun
<1>4. CallTrue(call[i]) /\ Unbegun(call[i]) BY <1>1, <1>3 DEF CallsInv, CallsTrue, InOrder, Begun
<1>5. worker = NoWork /\ worker # Dead BY DEF Take, NoWork, Dead
<1>6. /\ IsSequence(call') /\ Len(call') = n
      /\ \A j \in 1 .. n : j # i => call'[j] = call[j]
      /\ CallTrue(call'[i]) /\ call'[i].method = call[i].method
 <2>1. CASE call' = call BY <1>1, <1>4, <2>1
 <2>2. CASE call' = [call EXCEPT ![i].exec = FINISHED]
  <3>1. call' = [call EXCEPT ![i] = d] /\ call' = [j \in DOMAIN call |-> call'[j]] BY <2>2
  <3>2. IsSequence(call') /\ Len(call') = n BY <1>1, <3>1, MappedSequence
  <3>3. CallTrue(d) /\ d.method = call[i].method BY <1>4 DEF CallTrue, Unbegun, Fields, ACTIVE,
    CANCELLED, EXPIRED, FINISHED, FINISHED_LATE, FINISHED_COMMITTED
  <3> HIDE DEF d
  <3> QED BY <1>1, <1>3, <3>1, <3>2, <3>3
 <2> QED BY <2>1, <2>2 DEF Take
<1>7. Begun' = i BY <1>1, <1>2, <1>3, <1>6 DEF Begun
<1>8. CallsTrue'
 <2> SUFFICES ASSUME NEW j \in 1 .. n
              PROVE  (CallTrue(call[j]))'
   BY <1>6 DEF CallsTrue
 <2>1. CallTrue(call'[j]) BY <1>6 DEF CallsInv, CallsTrue
 <2> QED BY <1>5, <2>1 DEF CallTrue
<1>9. InOrder'
 <2> DEFINE b == Begun
            m == Len(inbox)
 <2>1. /\ b \in Int /\ m \in Nat /\ n \in Nat /\ b = n - m /\ i = b + 1
       /\ Begun' = b + 1 /\ Len(inbox') = m - 1 /\ Len(call') = n /\ m > 0 /\ m <= n
       /\ \A k \in 1 .. m : inbox[k] = b + k
       /\ \A k \in 1 .. m - 1 : inbox'[k] = inbox[k + 1]
       /\ \A j \in 1 .. n : j # i => call'[j] = call[j]
       /\ \A j \in 1 .. n : j > b => Unbegun(call[j])
   BY <1>1, <1>2, <1>3, <1>6, <1>7 DEF CallsInv, InOrder, Begun
 <2> HIDE DEF b, m, n, i
 <2>2. \A k \in 1 .. m - 1 : inbox'[k] = b + 1 + k BY <2>1
 <2>3. \A j \in 1 .. n : j > b + 1 => Unbegun(call'[j]) BY <2>1
 <2> QED BY <2>1, <2>2, <2>3 DEF InOrder, Unbegun
\* It is the first answer about this call.
<1>10. ASSUME NEW m, MessageTrue(m)
       PROVE  m.id # i /\ m.id \in 1 .. n /\ (MessageTrue(m))'
 <2>1. m.id # i /\ m.id \in 1 .. n /\ m.id \in 1 .. i
  <3> DEFINE b == Begun
  <3>1. m.id \in 1 .. b /\ i = b + 1 /\ i \in 1 .. n /\ n \in Nat /\ b \in Int
    BY <1>1, <1>3, <1>10 DEF MessageTrue, Begun
  <3> HIDE DEF b, i, n
  <3> QED BY <3>1
 <2>2. call'[m.id] = call[m.id] BY <1>6, <2>1
 <2> QED BY <1>7, <1>10, <2>1, <2>2 DEF MessageTrue
<1>11. \A k \in 1 .. Len(outbox) : \E m : m = outbox[k] /\ (MessageTrue(m))'
  BY <1>10 DEF CallsInv, OutboxTrue
<1>12. CASE Stopped(call[i])
 <2> DEFINE a == Error("not-committed")
 <2>0. PICK e : e = [id |-> i, late |-> FALSE, answer |-> a] OBVIOUS
 <2>1. outbox' = Append(outbox, e) /\ worker' = NoWork /\ call' = [call EXCEPT ![i].exec = FINISHED]
   BY <1>5, <1>12, <2>0 DEF Take, Reply
 <2>2. e.id = i /\ e.answer.error = "not-committed" BY <2>0 DEF Error
 <2>3. call'[i].exec = FINISHED BY <1>1, <1>3, <1>4, <2>1 DEF CallTrue, Fields
 <2>4. /\ IsSequence(outbox') /\ Len(outbox') = Len(outbox) + 1 /\ outbox'[Len(outbox) + 1] = e
       /\ \A k \in 1 .. Len(outbox) : outbox'[k] = outbox[k]
   BY <1>1, <2>1, AppendSequence
 <2>5. (MessageTrue(e))' BY <1>3, <1>7, <2>1, <2>2, <2>3, BatchesAssumption DEF MessageTrue, States
 <2>6. OutboxTrue'
  <3> SUFFICES ASSUME NEW k \in 1 .. Len(outbox')
               PROVE  (MessageTrue(outbox[k]))'
    BY DEF OutboxTrue
  <3>1. PICK m : m = outbox'[k] OBVIOUS
  <3>2. (MessageTrue(m))'
   <4>1. CASE k = Len(outbox) + 1 BY <2>4, <2>5, <3>1, <4>1
   <4>2. CASE k # Len(outbox) + 1 BY <1>1, <2>4, <3>1, <4>2, <1>11
   <4> QED BY <4>1, <4>2
  <3> QED BY <3>1, <3>2 DEF MessageTrue
 <2> QED BY <1>2, <1>6, <1>8, <1>9, <2>1, <2>4, <2>6 DEF CallsInv
<1>13. CASE ~Stopped(call[i])
 <2>1. outbox' = outbox /\ call' = call /\ worker' = [id |-> i, at |-> "work", result |-> None]
   BY <1>13 DEF Take
 <2>2. AtWork' BY <1>3, <1>4, <1>7, <2>1 DEF AtWork, Unbegun
 <2>3. OutboxTrue' BY <1>11, <2>1 DEF OutboxTrue, MessageTrue
 <2> QED BY <1>1, <1>2, <1>6, <1>8, <1>9, <2>1, <2>2, <2>3 DEF CallsInv
<1> QED BY <1>12, <1>13

\* A rejection is done, or fails.
LEMMA RejectKeeps ==
  ASSUME CallsInv, Reject
  PROVE  CallsInv'
<1> DEFINE c == call[worker.id]
           d == [c EXCEPT !.exec = FINISHED]
           a == Error(None)
<1>0. ASSUME Fails("not-committed", None)
      PROVE  CallsInv'
  BY <1>0, RefusalKeeps DEF Reject
<1> SUFFICES ASSUME ~Fails("not-committed", None)
             PROVE  CallsInv'
  BY <1>0
<1>1. /\ In("reject", "work") /\ Replies(a, FALSE) /\ inbox' = inbox
      /\ call' = [call EXCEPT ![worker.id].exec = FINISHED]
  BY DEF Reject
<1>2. AtWork /\ CallTrue(c) /\ c.method = "reject" /\ worker.id \in DOMAIN call /\ ~c.done
  BY <1>1, InWork DEF AtWork, CallTrue, Unbegun
<1>3. a.error = None BY DEF Error
<1> HIDE DEF a
<1>4. CallTrue(d) /\ d.method = c.method
  BY <1>2 DEF CallTrue, Fields, ACTIVE, CANCELLED, EXPIRED, FINISHED, FINISHED_LATE, FINISHED_COMMITTED
<1>5. call' = [call EXCEPT ![worker.id] = d] BY <1>1
<1> HIDE DEF d
<1>6. LET m == [id |-> worker.id, late |-> FALSE, answer |-> a] IN Tells(m, d)
  BY <1>2, <1>3, <1>4, BatchesAssumption DEF Tells, States
<1>7. Goes(d) BY <1>1, <1>6, RepliesGo
<1> QED BY <1>1, <1>2, <1>4, <1>5, <1>7, WorkKeeps

LEMMA StageKeeps ==
  ASSUME CallsInv, StageRefused \/ StageDone \/ StageComplete
  PROVE  CallsInv'
<1>1. CASE StageRefused BY <1>1, RefusalKeeps DEF StageRefused
<1>2. CASE StageDone
 <2>1. In("stage", "work") BY <1>2, Zenon DEF StageDone
 <2>2. AtWork /\ call[worker.id].method = "stage" BY <2>1, InWork
 <2>3. PICK result : worker' = [worker EXCEPT !.at = "staged", !.result = result] /\ result.error = None
  <3> DEFINE p == store.pending
             gen == store.gen + 1
             added == [batch |-> IF p = None THEN gen ELSE p.batch, gen |-> gen,
                       reqs |-> {call[worker.id].arg.r} \cup IF p = None THEN {} ELSE p.reqs]
             receipt(b, accepted) ==
                 [Error(None) EXCEPT !.pending = TRUE, !.accepted = accepted,
                                     !.batch = b.batch, !.gen = b.gen, !.reqs = b.reqs]
             staged(result) == worker' = [worker EXCEPT !.at = "staged", !.result = result]
             dropped == [Error(None) EXCEPT !.cancelled = p.batch]
  <3>1. staged(dropped) \/ staged(Error(None)) \/ staged(receipt(p, FALSE)) \/ staged(receipt(added, TRUE))
    BY <1>2, Zenon DEF StageDone
  <3>2. dropped.error = None /\ Error(None).error = None BY DEF Error
  <3>3. receipt(p, FALSE).error = None /\ receipt(added, TRUE).error = None BY Zenon DEF Error
  <3> HIDE DEF dropped, receipt, added
  <3> QED BY <3>1, <3>2, <3>3, Zenon
 <2>4. UNCHANGED <<call, inbox, outbox>> BY <1>2 DEF StageDone
 <2>5. AtWork' /\ worker # Dead BY <2>1, <2>2, <2>3, <2>4 DEF AtWork, Begun, Unbegun, Dead, In
 <2> QED BY <2>1, <2>4, <2>5, GoesOn, Zenon
<1>3. CASE StageComplete
 <2> DEFINE c == call[worker.id]
            d == [c EXCEPT !.exec = FINISHED]
            a == worker.result
 <2>1. In("stage", "staged") /\ inbox' = inbox BY <1>3 DEF StageComplete
 <2>2. AtWork /\ CallTrue(c) /\ worker.at = "staged" /\ c.method = "stage" BY <2>1, InWork
 <2>3. CASE Stopped(c) BY <1>3, <2>1, <2>3, RefusalKeeps DEF StageComplete
 <2>4. CASE ~Stopped(c)
  <3>1. Replies(a, FALSE) /\ call' = [call EXCEPT ![worker.id] = d] BY <1>3, <2>4 DEF StageComplete
  <3>2. CallTrue(d) /\ d.method = c.method /\ d.exec = FINISHED BY <2>2 DEF AtWork, Unbegun,
    CallTrue, Fields, ACTIVE, CANCELLED, EXPIRED, FINISHED, FINISHED_LATE, FINISHED_COMMITTED
  <3>3. a.error = None BY <2>2 DEF AtWork
  <3> HIDE DEF a, d
  <3>4. LET m == [id |-> worker.id, late |-> FALSE, answer |-> a] IN Tells(m, d)
    BY <3>2, <3>3, BatchesAssumption DEF Tells, States
  <3>5. Goes(d) BY <3>1, <3>4, RepliesGo
  <3> QED BY <2>1, <2>2, <3>1, <3>2, <3>5, WorkKeeps
 <2> QED BY <2>3, <2>4
<1> QED BY <1>1, <1>2, <1>3

\* The worker decides: from here on nobody else does.
LEMMA CommitStarts ==
  ASSUME CallsInv, CommitRefused \/ CommitBegins \/ CommitEntered
  PROVE  CallsInv'
<1>1. CASE CommitRefused BY <1>1, RefusalKeeps DEF CommitRefused
<1>2. CASE CommitBegins
 <2> DEFINE c == call[worker.id]
            d == [c EXCEPT !.exec = COMMITTING]
 <2>1. /\ In("commit", "work") /\ inbox' = inbox /\ outbox' = outbox /\ ~Stopped(c)
       /\ call' = [call EXCEPT ![worker.id] = d]
       /\ worker' = [worker EXCEPT !.at = "begun"]
   BY <1>2 DEF CommitBegins
 <2>2. AtWork /\ CallTrue(c) /\ worker.at = "work" /\ c.method = "commit"
       /\ worker.id \in DOMAIN call /\ DOMAIN call = 1 .. Len(call)
   BY <2>1, InWork
 <2>3. c.exec = ACTIVE BY <2>1, <2>2 DEF AtWork, Unbegun, Stopped, Checked
 <2>4. CallTrue(d) /\ d.method = c.method /\ d.exec = COMMITTING /\ ~d.done
   BY <2>2, <2>3, BatchesAssumption DEF AtWork, CallTrue, Fields, States, Dead, ACTIVE, CANCELLED,
     EXPIRED, COMMITTING, FINISHED, FINISHED_LATE, FINISHED_COMMITTED
 <2> HIDE DEF d
 <2>5. AtWork' BY <2>1, MappedSequence, <2>2, <2>4 DEF CallsInv, AtWork, Begun
 <2>6. Goes(d) BY <2>1, <2>5 DEF Goes
 <2> QED BY <2>1, <2>2, <2>4, <2>6, WorkKeeps
<1>3. CASE CommitEntered
 <2>1. In("commit", "begun") /\ inbox' = inbox BY <1>3 DEF CommitEntered
 <2>2. CASE call[worker.id].due BY <1>3, <2>1, <2>2, RefusalKeeps DEF CommitEntered
 <2>3. CASE ~call[worker.id].due
   BY <1>3, <2>3, <2>1, InWork, GoesOn DEF CommitEntered, AtWork, Begun
 <2> QED BY <2>2, <2>3
<1> QED BY <1>1, <1>2, <1>3

LEMMA CommitEndsTrue ==
  ASSUME CallsInv, NEW done \in BOOLEAN, NEW state \in {"ok", "not-committed", "committed", "unknown"},
         CommitDone(done, state)
  PROVE  CallsInv'
<1> DEFINE c == call[worker.id]
           e == [c EXCEPT !.done = done]
           d == IF state = "ok" THEN Completed(e) ELSE FailTo(e, state)
           a == Error(IF state = "ok" THEN None ELSE state)
           late == state = "ok" /\ e.due
<1>1. /\ In("commit", "entered") /\ inbox' = inbox
      /\ state \in {"ok", "committed"} => done
      /\ state = "not-committed" => ~done
      /\ call' = [call EXCEPT ![worker.id] = d] /\ Replies(a, late)
  BY DEF CommitDone
<1>2. AtWork /\ CallTrue(c) /\ worker.at = "entered" /\ c.method = "commit" BY <1>1, InWork
<1>3. c.exec = COMMITTING /\ ~c.done /\ worker # Dead BY <1>2 DEF AtWork, Dead
<1>4. c.told \in {"unknown", None}
  BY <1>2, <1>3 DEF CallTrue, States, CANCELLED, EXPIRED, COMMITTING, FINISHED
<1>5. a.error = IF state = "ok" THEN None ELSE state BY DEF Error
<1>6. /\ CallTrue(d) /\ d.method = c.method
      /\ state \in {"ok", "committed"} => d.exec \in {FINISHED_LATE, FINISHED_COMMITTED}
      /\ state = "not-committed" => d.exec = FINISHED
 <2>1. CallTrue(e) /\ e.method = c.method /\ e.told \in {"unknown", None} /\ e.done = done
       /\ e.exec = COMMITTING
   BY <1>2, <1>3, <1>4, BatchesAssumption DEF CallTrue, Fields, ACTIVE, CANCELLED, EXPIRED,
     COMMITTING, FINISHED, FINISHED_LATE, FINISHED_COMMITTED
 <2> HIDE DEF e
 <2>2. PICK x \in {COMMITTING, FINISHED, FINISHED_LATE, FINISHED_COMMITTED} :
         /\ d = [e EXCEPT !.exec = x]
         /\ state \in {"ok", "committed"} => x \in {FINISHED_LATE, FINISHED_COMMITTED} /\ done
         /\ state = "not-committed" => x = FINISHED /\ ~done
         /\ state = "unknown" => x = COMMITTING
  <3>1. CASE state = "ok" BY <1>1, <3>1 DEF Completed
  <3>2. CASE state = "committed" BY <1>1, <3>2 DEF FailTo, Completed
  <3>3. CASE state \in {"not-committed", "unknown"} BY <1>1, <3>3 DEF FailTo
  <3> QED BY <3>1, <3>2, <3>3
 <2> HIDE DEF d
 <2>3. d.exec = x /\ d.method = e.method /\ d.done = done /\ d.told = e.told /\ DOMAIN d = Fields
   BY <2>1, <2>2 DEF CallTrue, Fields
 <2> QED BY <2>1, <2>2, <2>3, BatchesAssumption DEF CallTrue, ACTIVE, CANCELLED, EXPIRED,
   COMMITTING, FINISHED, FINISHED_LATE, FINISHED_COMMITTED
<1>7. Goes(d)
 <2>1. late => state = "ok" OBVIOUS
 <2> HIDE DEF late, a, d
 <2>2. LET m == [id |-> worker.id, late |-> late, answer |-> a] IN Tells(m, d)
   BY <1>2, <1>5, <1>6, <2>1, BatchesAssumption DEF Tells, States
 <2> QED BY <1>1, <2>2, RepliesGo
<1> HIDE DEF d
<1> QED BY <1>1, <1>2, <1>6, <1>7, WorkKeeps

\* It dies, perhaps in the middle of a commit.
LEMMA DeathKeeps ==
  ASSUME CallsInv, NEW done \in BOOLEAN, WorkerDies(done)
  PROVE  CallsInv'
<1>1. worker' = Dead /\ UNCHANGED <<inbox, outbox>> BY DEF WorkerDies
<1>2. CASE done
 <2> DEFINE c == call[worker.id]
            d == [c EXCEPT !.done = TRUE]
 <2>1. In("commit", "entered") /\ call' = [call EXCEPT ![worker.id] = d] BY <1>2 DEF WorkerDies
 <2>2. AtWork /\ CallTrue(c) /\ worker.at = "entered" BY <2>1, InWork
 <2>3. c.exec = COMMITTING /\ worker # Dead BY <2>2 DEF AtWork, Dead
 <2>4. CallTrue(d) /\ d.method = c.method BY <2>2, <2>3 DEF CallTrue, Fields, ACTIVE, CANCELLED,
   EXPIRED, COMMITTING, FINISHED, FINISHED_LATE, FINISHED_COMMITTED
 <2> HIDE DEF d
 <2>5. Goes(d) BY <1>1 DEF Goes
 <2> QED BY <1>1, <2>1, <2>2, <2>4, <2>5, WorkKeeps
<1>3. CASE ~done
 <2>1. call' = call BY <1>3 DEF WorkerDies
 <2> QED BY <1>1, <2>1 DEF CallsInv, IsSequence, CallsTrue, CallTrue, InOrder, Begun, Unbegun,
   OutboxTrue, MessageTrue
<1> QED BY <1>2, <1>3
-----------------------------------------------------------------------------
(* Theorems. *)

LEMMA CallsInit == Init => CallsInv
<1> SUFFICES ASSUME Init PROVE CallsInv OBVIOUS
<1>1. call = <<>> /\ inbox = <<>> /\ outbox = <<>> /\ worker = NoWork BY DEF Init
<1>2. <<>> \in Seq({}) /\ Len(<<>>) = 0 /\ <<>> \in Seq(Nat) BY EmptySeq
<1>3. IsSequence(<<>>) BY <1>2, OwnElements
<1> QED BY <1>1, <1>2, <1>3 DEF CallsInv, CallsTrue, InOrder, Begun, OutboxTrue

LEMMA CallsNext == CallsInv /\ [Next]_vars => CallsInv'
<1> SUFFICES ASSUME CallsInv, [Next]_vars PROVE CallsInv' OBVIOUS
<1>1. CASE UNCHANGED vars BY <1>1, CallsSame DEF vars
<1>2. CASE Jobs BY <1>2, JobsKeep, RequestKeeps DEF Jobs
<1>3. CASE Events BY <1>3, GivenUpKeeps, MessageKeeps, ExitKeeps DEF Events
<1>4. CASE Work BY <1>4, TakeKeeps, RejectKeeps, StageKeeps, CommitStarts, CommitEndsTrue DEF Work
<1>5. CASE StartReload \/ Close \/ \E what \in Settings \cup {Cancel} : Request(what)
  BY <1>5, RequestKeeps
<1>6. CASE \E i \in DOMAIN call : Due(i) BY <1>6, DueKeeps
<1>7. CASE \E r \in DOMAIN main.req : Abort(r) BY <1>7, GivenUpKeeps
<1>8. CASE \E done \in BOOLEAN : WorkerDies(done) BY <1>8, DeathKeeps
<1> QED BY <1>1, <1>2, <1>3, <1>4, <1>5, <1>6, <1>7, <1>8 DEF Next

\* Each call is taken once and in order, only the worker finishes a call that
\* has begun, and what a message says is so.
THEOREM CallsInvariance == Spec => []CallsInv
BY CallsInit, CallsNext, PTL DEF Spec

\* A commit that was answered as not committed is never done, and one that was
\* answered as committed is, whichever of deadline, abort, answer and death
\* comes first (the integer of PoolingExecution).
THEOREM CallsAreTruthful == Spec => []TruthfulCalls
<1>1. CallsInv => TruthfulCalls
 <2> SUFFICES ASSUME CallsInv PROVE TruthfulCalls OBVIOUS
 <2>1. DOMAIN call = 1 .. Len(call) BY SequenceFacts DEF CallsInv
 <2> QED BY <2>1 DEF TruthfulCalls, CallsInv, CallsTrue, CallTrue
<1> QED BY <1>1, CallsInvariance, PTL

-----------------------------------------------------------------------------
(* What the main thread concludes: the invariant. *)

\* Batch b has been in the store, and will not be again; it was not applied.
Gone(b) == b \in 1 .. store.gen /\ (store.pending # None => store.pending.batch # b)
Untouched(own, b) == \A r \in store.applied : own[r] # b
Token(own, b) == Gone(b) /\ Untouched(own, b)

\* own names the batch that a request has become a part of.
Of(own, b, reqs) == \A r \in reqs : own[r] = b

\* The requests that may be applied: answered so, or left behind.
Ok(m) == {r \in 1 .. Len(m.req) : m.req[r].answer = "ok"} \cup store.left

\* A batch as the main thread knows it: what its generation is in the store.
SameAs(c, p) == p # None /\ c.gen = p.gen => c.batch = p.batch /\ c.reqs = p.reqs
BatchTrue(own, ok, c) ==
    /\ c.batch \in 1 .. store.gen /\ c.gen \in 1 .. store.gen
    /\ c.reqs \subseteq ok /\ Of(own, c.batch, c.reqs)
    /\ SameAs(c, store.pending) /\ SameAs(c, store.prior)

RecordTrue(own, ok, b, e) ==
    /\ DOMAIN e = {"status", "state", "reqs"}
    /\ b \in 1 .. store.gen /\ e.reqs \subseteq ok /\ Of(own, b, e.reqs)
    /\ e.state = "committed" => e.reqs \subseteq store.applied
    /\ e.status \in {"pending", "cancelled"} => Untouched(own, b)
    /\ e.status \in {"applied", "cancelled"} => Gone(b)

MainFields == {"req", "queue", "waiting", "pending", "applying", "record", "scheduled",
               "running", "failed"}
RequestFields == {"what", "version", "during", "aborted", "answer"}

LateTrue(own, ok, batch, state) ==
    BatchTrue(own, ok, batch) /\ (state = "committed" => batch.reqs \subseteq store.applied)
JobTrue(own, ok, m, j) ==
    /\ j.kind \in {"stage", "commit", "lateStage", "lateCommit"}
    /\ j.kind = "stage" => j.arg \in 1 .. Len(m.req) /\ m.req[j.arg].answer = None
    /\ j.kind = "lateStage" => Token(own, j.arg)
    /\ j.kind = "lateCommit" => LateTrue(own, ok, j.arg.batch, j.arg.state)

\* No request waits twice.
OnceEach(q) ==
    \A j, k \in 1 .. Len(q) : q[j].kind = "stage" /\ q[k].kind = "stage" /\ q[j].arg = q[k].arg => j = k

\* What the main thread has in mind, when the requests ok were answered so.
Shape(m) ==
    /\ DOMAIN m = MainFields /\ IsSequence(m.req) /\ IsSequence(m.queue)
    /\ \A r \in 1 .. Len(m.req) : DOMAIN m.req[r] = RequestFields
QueueTrue(own, ok, m) ==
    /\ \A j \in 1 .. Len(m.queue) : JobTrue(own, ok, m, m.queue[j])
    /\ OnceEach(m.queue)
RecordsKept(own, ok, m) == \A b \in DOMAIN m.record : RecordTrue(own, ok, b, m.record[b])
MainTrue(own, ok, m) ==
    /\ Shape(m) /\ QueueTrue(own, ok, m) /\ RecordsKept(own, ok, m)
    /\ m.pending # None => BatchTrue(own, ok, m.pending)

-----------------------------------------------------------------------------
(* What the operators of the main thread do to it. *)

\* More requests may have been answered.
LEMMA OkGrows ==
  ASSUME NEW own, NEW ok, NEW more, ok \subseteq more, NEW m, MainTrue(own, ok, m)
  PROVE  MainTrue(own, more, m)
<1>1. ASSUME NEW c, BatchTrue(own, ok, c)
      PROVE  BatchTrue(own, more, c)
  BY <1>1 DEF BatchTrue
<1>2. ASSUME NEW j, JobTrue(own, ok, m, j)
      PROVE  JobTrue(own, more, m, j)
  BY <1>1, <1>2 DEF JobTrue, LateTrue
<1>3. RecordsKept(own, more, m) BY DEF MainTrue, RecordsKept, RecordTrue
<1>4. QueueTrue(own, more, m) BY <1>2 DEF MainTrue, QueueTrue
<1> QED BY <1>1, <1>3, <1>4 DEF MainTrue

\* The first job leaves the queue, and nothing else changes.
LEMMA PopFields ==
  ASSUME NEW m, DOMAIN m = MainFields
  PROVE  /\ DOMAIN Pop(m) = MainFields
         /\ Pop(m).req = m.req /\ Pop(m).queue = Tail(m.queue) /\ Pop(m).waiting = None
         /\ Pop(m).pending = m.pending /\ Pop(m).applying = m.applying
         /\ Pop(m).record = m.record /\ Pop(m).failed = m.failed
         /\ Pop(m).scheduled = m.scheduled /\ Pop(m).running = m.running
BY DEF Pop, MainFields

\* A job is done.
LEMMA PopTrue ==
  ASSUME NEW own, NEW ok, NEW m, MainTrue(own, ok, m), m.queue # <<>>
  PROVE  /\ MainTrue(own, ok, Pop(m))
         /\ Head(m.queue).kind = "stage" =>
              \A j \in 1 .. Len(Pop(m).queue) :
                  Pop(m).queue[j].kind = "stage" => Pop(m).queue[j].arg # Head(m.queue).arg
         /\ JobTrue(own, ok, m, Head(m.queue))
<1> DEFINE q == m.queue
           n == Len(q)
<1>1. DOMAIN m = MainFields /\ IsSequence(q) /\ QueueTrue(own, ok, m) BY DEF MainTrue, Shape
<1>2. /\ IsSequence(Tail(q)) /\ Len(Tail(q)) = n - 1 /\ n \in Nat
      /\ \A k \in 1 .. n - 1 : Tail(q)[k] = q[k + 1]
      /\ Head(q) = q[1] /\ n > 0
  BY <1>1, TailSequence, SequenceFacts
<1>3. PICK p : p = Pop(m) OBVIOUS
<1>4. /\ DOMAIN p = MainFields /\ p.req = m.req /\ p.queue = Tail(q)
      /\ p.pending = m.pending /\ p.record = m.record
  BY <1>1, <1>3, PopFields
<1>5. ASSUME NEW j \in 1 .. Len(p.queue)
      PROVE  j + 1 \in 1 .. n /\ p.queue[j] = q[j + 1]
  BY <1>2, <1>4
<1>6. \A j \in 1 .. Len(p.queue) : JobTrue(own, ok, p, p.queue[j])
 <2> TAKE j \in 1 .. Len(p.queue)
 <2>1. JobTrue(own, ok, m, p.queue[j]) BY <1>1, <1>5 DEF QueueTrue
 <2> QED BY <1>4, <2>1 DEF JobTrue
<1>7. OnceEach(p.queue)
 <2> SUFFICES ASSUME NEW j \in 1 .. Len(p.queue), NEW k \in 1 .. Len(p.queue),
                     p.queue[j].kind = "stage", p.queue[k].kind = "stage",
                     p.queue[j].arg = p.queue[k].arg
              PROVE  j = k
   BY DEF OnceEach
 <2>1. /\ j + 1 \in 1 .. n /\ p.queue[j] = q[j + 1]
       /\ k + 1 \in 1 .. n /\ p.queue[k] = q[k + 1]
   BY <1>5
 <2>2. j + 1 = k + 1 BY <1>1, <2>1 DEF QueueTrue, OnceEach
 <2>3. j \in Nat /\ k \in Nat OBVIOUS
 <2> QED BY <2>2, <2>3
<1>8. MainTrue(own, ok, p)
  BY <1>1, <1>2, <1>4, <1>6, <1>7 DEF MainTrue, Shape, QueueTrue, RecordsKept
<1>9. ASSUME NEW j \in 1 .. Len(p.queue), Head(q).kind = "stage", p.queue[j].kind = "stage"
      PROVE  p.queue[j].arg # Head(q).arg
  BY <1>2, <1>5, <1>1, <1>9 DEF QueueTrue, OnceEach
<1>10. JobTrue(own, ok, m, Head(q)) BY <1>2, <1>1 DEF QueueTrue
<1> QED BY <1>3, <1>8, <1>9, <1>10

\* A request is answered, whose job is done.
LEMMA AnswerTrue ==
  ASSUME NEW own, NEW ok, NEW m, MainTrue(own, ok, m), NEW r \in 1 .. Len(m.req),
         m.req[r].answer = None, NEW what \in {"ok", "failed"},
         \A j \in 1 .. Len(m.queue) : m.queue[j].kind = "stage" => m.queue[j].arg # r
  PROVE  LET a == Answered(m, r, what) IN
         /\ MainTrue(own, ok, a)
         /\ Len(a.req) = Len(m.req)
         /\ Ok(a) = IF what = "ok" THEN Ok(m) \cup {r} ELSE Ok(m)
         /\ a.queue = m.queue /\ a.waiting = m.waiting /\ a.pending = m.pending
         /\ a.record = m.record /\ a.failed = m.failed /\ a.applying = m.applying
         /\ \A q \in 1 .. Len(m.req) : a.req[q].answer = IF q = r THEN what ELSE m.req[q].answer
<1> DEFINE a == Answered(m, r, what)
           d == [m.req[r] EXCEPT !.answer = what]
<1>1. /\ DOMAIN m = MainFields /\ IsSequence(m.req)
      /\ \A q \in 1 .. Len(m.req) : DOMAIN m.req[q] = RequestFields
  BY DEF MainTrue, Shape
<1>2. DOMAIN m.req = 1 .. Len(m.req) BY <1>1, SequenceFacts
<1>3. PICK f : f = [m.req EXCEPT ![r] = d] OBVIOUS
<1>4. PICK e : e = a OBVIOUS
<1>5. /\ DOMAIN e = MainFields /\ e.req = f
      /\ e.queue = m.queue /\ e.waiting = m.waiting /\ e.pending = m.pending
      /\ e.record = m.record /\ e.failed = m.failed /\ e.applying = m.applying
  BY <1>1, <1>3, <1>4 DEF Answered, MainFields
<1>6. DOMAIN d = RequestFields /\ d.answer = what BY <1>1 DEF RequestFields
<1> HIDE DEF a, d
<1>7. IsSequence(f) /\ Len(f) = Len(m.req) BY <1>3, <1>1, MappedSequence
<1>8. \A q \in 1 .. Len(m.req) : f[q] = IF q = r THEN d ELSE m.req[q] BY <1>2, <1>3
<1>9. Shape(e) BY <1>1, <1>5, <1>6, <1>7, <1>8 DEF MainTrue, Shape
<1>10. QueueTrue(own, ok, e)
 <2>1. ASSUME NEW j \in 1 .. Len(m.queue)
       PROVE  JobTrue(own, ok, e, m.queue[j])
   BY <1>5, <1>7, <1>8 DEF MainTrue, QueueTrue, JobTrue
 <2> QED BY <1>5, <2>1 DEF MainTrue, QueueTrue
<1>11. MainTrue(own, ok, e) BY <1>5, <1>9, <1>10 DEF MainTrue, RecordsKept
<1>12. Ok(e) = IF what = "ok" THEN Ok(m) \cup {r} ELSE Ok(m)
  BY <1>6, <1>8, <1>5, <1>7, BatchesAssumption DEF Ok
<1> QED BY <1>4, <1>5, <1>6, <1>7, <1>8, <1>11, <1>12 DEF a

\* Nothing that the invariant looks at, or only the pending batch.
LEMMA SameMind ==
  ASSUME NEW own, NEW ok, NEW m, MainTrue(own, ok, m), NEW d, DOMAIN d = MainFields,
         d.req = m.req, d.queue = m.queue, d.record = m.record,
         d.pending # None => BatchTrue(own, ok, d.pending)
  PROVE  MainTrue(own, ok, d) /\ Ok(d) = Ok(m)
<1>1. Shape(d) /\ RecordsKept(own, ok, d) /\ Ok(d) = Ok(m) BY DEF MainTrue, Shape, RecordsKept, Ok
<1>2. QueueTrue(own, ok, d) BY DEF MainTrue, QueueTrue, JobTrue
<1> QED BY <1>1, <1>2 DEF MainTrue

\* A batch gets a record.
LEMMA RecordedTrue ==
  ASSUME NEW own, NEW ok, NEW m, MainTrue(own, ok, m), NEW batch, NEW status, NEW state,
         batch.batch \in 1 .. store.gen, batch.reqs \subseteq ok, Of(own, batch.batch, batch.reqs),
         state = "committed" => batch.reqs \subseteq store.applied,
         status \in {"pending", "cancelled"} => Untouched(own, batch.batch),
         status \in {"applied", "cancelled"} => Gone(batch.batch)
  PROVE  LET d == Recorded(m, batch, status, state) IN
         /\ MainTrue(own, ok, d) /\ Ok(d) = Ok(m)
         /\ DOMAIN d = MainFields /\ d.req = m.req /\ d.queue = m.queue /\ d.waiting = m.waiting
         /\ d.pending = m.pending /\ d.applying = m.applying /\ d.failed = m.failed
         /\ DOMAIN d.record = DOMAIN m.record \cup {batch.batch}
         /\ \A b \in DOMAIN d.record :
              d.record[b].status = IF b = batch.batch THEN status ELSE m.record[b].status
<1> DEFINE id == batch.batch
           new == [status |-> status, state |-> state, reqs |-> batch.reqs]
<1>1. DOMAIN m = MainFields BY DEF MainTrue, Shape
<1>2. PICK d : d = Recorded(m, batch, status, state) OBVIOUS
<1>3. PICK e : e = new OBVIOUS
<1>4. PICK f : f = [b \in DOMAIN m.record \cup {id} |-> IF b = id THEN e ELSE m.record[b]] OBVIOUS
<1>5. /\ DOMAIN d = MainFields /\ d.record = f
      /\ d.req = m.req /\ d.queue = m.queue /\ d.waiting = m.waiting
      /\ d.pending = m.pending /\ d.applying = m.applying /\ d.failed = m.failed
  BY <1>1, <1>2, <1>3, <1>4 DEF Recorded, MainFields
<1>6. RecordTrue(own, ok, id, e) /\ e.status = status BY <1>3 DEF RecordTrue
<1> HIDE DEF new
<1>7. DOMAIN f = DOMAIN m.record \cup {id}
      /\ \A b \in DOMAIN f : f[b] = IF b = id THEN e ELSE m.record[b]
  BY <1>4
<1>8. RecordsKept(own, ok, d) BY <1>5, <1>6, <1>7 DEF MainTrue, RecordsKept
<1>9. MainTrue(own, ok, d) /\ Ok(d) = Ok(m)
  BY <1>5, <1>8 DEF MainTrue, Shape, Ok, QueueTrue, JobTrue
<1> QED BY <1>2, <1>5, <1>6, <1>7, <1>9

\* A batch was cancelled.
LEMMA DroppedTrue ==
  ASSUME NEW own, NEW ok, NEW m, MainTrue(own, ok, m), NEW batch, Token(own, batch)
  PROVE  LET d == Dropped(m, batch) IN
         /\ MainTrue(own, ok, d) /\ Ok(d) = Ok(m)
         /\ DOMAIN d = MainFields /\ d.req = m.req /\ d.queue = m.queue /\ d.waiting = m.waiting
         /\ d.applying = m.applying /\ d.failed = m.failed
         /\ DOMAIN d.record = DOMAIN m.record
         /\ \A b \in DOMAIN d.record :
              d.record[b].status = IF b = batch THEN "cancelled" ELSE m.record[b].status
<1>1. DOMAIN m = MainFields BY DEF MainTrue, Shape
<1>2. PICK d : d = Dropped(m, batch) OBVIOUS
<1>3. PICK f : f = [b \in DOMAIN m.record |->
                       IF b = batch THEN [m.record[b] EXCEPT !.status = "cancelled"] ELSE m.record[b]]
  OBVIOUS
<1>4. /\ DOMAIN d = MainFields /\ d.record = f
      /\ d.req = m.req /\ d.queue = m.queue /\ d.waiting = m.waiting
      /\ d.applying = m.applying /\ d.failed = m.failed
      /\ d.pending \in {None, m.pending}
  BY <1>1, <1>2, <1>3 DEF Dropped, MainFields
<1>5. ASSUME NEW b \in DOMAIN m.record
      PROVE  /\ RecordTrue(own, ok, b, f[b])
             /\ f[b].status = IF b = batch THEN "cancelled" ELSE m.record[b].status
 <2>1. RecordTrue(own, ok, b, m.record[b]) BY DEF MainTrue, RecordsKept
 <2>2. CASE b = batch
  <3>1. PICK e : e = m.record[b] OBVIOUS
  <3>2. PICK g : g = [e EXCEPT !.status = "cancelled"] OBVIOUS
  <3>3. f[b] = g BY <1>3, <2>2, <3>1, <3>2
  <3>4. /\ DOMAIN g = {"status", "state", "reqs"}
        /\ g.status = "cancelled" /\ g.state = e.state /\ g.reqs = e.reqs
    BY <2>1, <3>1, <3>2 DEF RecordTrue
  <3>5. RecordTrue(own, ok, b, g) BY <2>1, <2>2, <3>1, <3>4 DEF RecordTrue, Token
  <3> QED BY <2>2, <3>3, <3>4, <3>5
 <2>3. CASE b # batch BY <1>3, <2>1, <2>3
 <2> QED BY <2>2, <2>3
<1>6. DOMAIN f = DOMAIN m.record BY <1>3
<1>7. RecordsKept(own, ok, d) BY <1>4, <1>5, <1>6 DEF RecordsKept
<1>8. Shape(d) /\ Ok(d) = Ok(m) BY <1>4 DEF MainTrue, Shape, Ok
<1>9. QueueTrue(own, ok, d) BY <1>4 DEF MainTrue, QueueTrue, JobTrue
<1>10. MainTrue(own, ok, d) BY <1>4, <1>7, <1>8, <1>9 DEF MainTrue
<1> QED BY <1>2, <1>4, <1>5, <1>6, <1>8, <1>10

\* A job that is no stage joins the queue.
LEMMA LaterTrue ==
  ASSUME NEW own, NEW ok, NEW m, MainTrue(own, ok, m), NEW job, JobTrue(own, ok, m, job),
         job.kind # "stage"
  PROVE  LET d == Later(m, job) IN
         /\ MainTrue(own, ok, d) /\ Ok(d) = Ok(m)
         /\ DOMAIN d = MainFields /\ d.req = m.req /\ d.waiting = m.waiting
         /\ d.pending = m.pending /\ d.applying = m.applying /\ d.failed = m.failed
         /\ d.record = m.record /\ d.queue # <<>>
         /\ m.queue # <<>> => Head(d.queue) = Head(m.queue)
<1> DEFINE q == m.queue
           n == Len(q)
<1>1. DOMAIN m = MainFields /\ IsSequence(q) /\ QueueTrue(own, ok, m) BY DEF MainTrue, Shape
<1>2. PICK d : d = Later(m, job) OBVIOUS
<1>3. /\ DOMAIN d = MainFields /\ d.queue = Append(q, job)
      /\ d.req = m.req /\ d.waiting = m.waiting /\ d.record = m.record
      /\ d.pending = m.pending /\ d.applying = m.applying /\ d.failed = m.failed
  BY <1>1, <1>2 DEF Later, MainFields
<1>4. /\ IsSequence(d.queue) /\ Len(d.queue) = n + 1 /\ n \in Nat
      /\ \A k \in 1 .. n : d.queue[k] = q[k]
      /\ d.queue[n + 1] = job
  BY <1>1, <1>3, AppendSequence, SequenceFacts
<1>5. \A j \in 1 .. Len(d.queue) : j = n + 1 \/ j \in 1 .. n BY <1>4
<1>6. QueueTrue(own, ok, d)
 <2>1. ASSUME NEW j \in 1 .. Len(d.queue)
       PROVE  JobTrue(own, ok, d, d.queue[j])
   BY <1>1, <1>4, <1>5, <1>3 DEF QueueTrue, JobTrue
 <2>2. OnceEach(d.queue)
  <3> SUFFICES ASSUME NEW j \in 1 .. Len(d.queue), NEW k \in 1 .. Len(d.queue),
                      d.queue[j].kind = "stage", d.queue[k].kind = "stage",
                      d.queue[j].arg = d.queue[k].arg
               PROVE  j = k
    BY DEF OnceEach
  <3>1. j \in 1 .. n /\ k \in 1 .. n BY <1>4, <1>5
  <3> QED BY <1>1, <1>4, <3>1 DEF QueueTrue, OnceEach
 <2> QED BY <2>1, <2>2 DEF QueueTrue
<1>7. MainTrue(own, ok, d) /\ Ok(d) = Ok(m)
  BY <1>1, <1>3, <1>4, <1>6 DEF MainTrue, Shape, RecordsKept, Ok
<1>8. d.queue # <<>> BY <1>4, EmptySeq DEF IsSequence
<1>9. ASSUME q # <<>>
      PROVE  Head(d.queue) = Head(q)
  BY <1>1, <1>9, TailSequence, <1>4, <1>8
<1> QED BY <1>2, <1>3, <1>7, <1>8, <1>9

-----------------------------------------------------------------------------
(* A call ends. *)

\* What a step of the main thread makes of m: requests stay answered, and a
\* batch is called pending only by the end of a stage.
Follows(m, d) ==
    /\ Ok(m) \subseteq Ok(d) /\ Len(m.req) <= Len(d.req)
    /\ \A r \in 1 .. Len(m.req) : m.req[r].answer # None => d.req[r].answer # None
    /\ DOMAIN m.record \subseteq DOMAIN d.record
NonePending(m, d) ==
    \A b \in DOMAIN d.record : d.record[b].status = "pending" =>
        b \in DOMAIN m.record /\ m.record[b].status = "pending"

\* What the answer a of a stage must be for that, to the request r.
StageAnswer(own, ok, r, a) ==
    /\ a.cancelled # None => Token(own, a.cancelled)
    /\ a.error = None /\ a.pending /\ ~closed =>
         /\ Untouched(own, a.batch)
         /\ a.batch \in 1 .. store.gen /\ a.gen \in 1 .. store.gen
         /\ a.reqs \subseteq ok \cup {r} /\ Of(own, a.batch, a.reqs)
         /\ SameAs(a, store.pending) /\ SameAs(a, store.prior)

\* The request r of m is answered, and d has what has become of its batches.
Finishes(own, m, r, d, ok, s) ==
    /\ MainTrue(own, Ok(s), s) /\ s.waiting = None /\ s.record = d.record
    /\ s.failed = d.failed /\ Ok(s) = ok /\ Len(s.req) = Len(m.req) /\ s.req[r].answer # None
    /\ \A q \in 1 .. Len(m.req) : m.req[q].answer # None => s.req[q].answer # None

LEMMA FinishesFollow ==
  ASSUME NEW own, NEW m, MainTrue(own, Ok(m), m), NEW r, NEW d, NEW ok, NEW s,
         Finishes(own, m, r, d, ok, s), Ok(m) \subseteq ok, DOMAIN m.record \subseteq DOMAIN d.record
  PROVE  Follows(m, s)
<1>1. Len(m.req) \in Nat BY SequenceFacts DEF MainTrue, Shape
<1> QED BY <1>1 DEF Finishes, Follows

\* A stage ends: its request is answered, and the pending batch is the one it reports.
LEMMA StageEndsTrue ==
  ASSUME NEW own, NEW m, MainTrue(own, Ok(m), m), m.queue # <<>>, Head(m.queue).kind = "stage",
         NEW a, StageAnswer(own, Ok(m), Head(m.queue).arg, a)
  PROVE  LET s == StageEnds(m, Head(m.queue).arg, a) IN
         /\ MainTrue(own, Ok(s), s) /\ Follows(m, s) /\ s.waiting = None /\ s.failed = m.failed
         /\ s.req[Head(m.queue).arg].answer # None
         /\ a.error # None => NonePending(m, s)
         /\ a.error = None /\ ~closed =>
              /\ Head(m.queue).arg \in Ok(s)
              /\ a.pending => a.batch \in DOMAIN s.record
<1> DEFINE r == Head(m.queue).arg
           batch == [batch |-> a.batch, gen |-> a.gen, reqs |-> a.reqs, version |-> store.version]
           dropped == IF a.cancelled = None THEN m ELSE Dropped(m, a.cancelled)
           pending == [m EXCEPT !.pending = batch,
                                !.scheduled = IF a.accepted THEN a.gen ELSE @]
           kept == Recorded(pending, batch, "pending", None)
\* The answer of a request whose job is done.
<1>1. ASSUME NEW d, NEW ok, MainTrue(own, ok, d), d.req = m.req, d.queue = m.queue,
             NEW what \in {"ok", "failed"}, ok = IF what = "ok" THEN Ok(m) \cup {r} ELSE Ok(m)
      PROVE  Finishes(own, m, r, d, ok, Answered(Pop(d), r, what))
 <2>1. PICK p : p = Pop(d) OBVIOUS
 <2>2. /\ MainTrue(own, ok, p) /\ JobTrue(own, ok, d, Head(m.queue))
       /\ \A j \in 1 .. Len(p.queue) : p.queue[j].kind = "stage" => p.queue[j].arg # r
   BY <1>1, <2>1, PopTrue
 <2>3. p.req = m.req /\ p.waiting = None /\ p.record = d.record /\ p.failed = d.failed
   BY <1>1, <2>1, PopFields DEF MainTrue, Shape
 <2>4. r \in 1 .. Len(p.req) /\ p.req[r].answer = None BY <1>1, <2>2, <2>3 DEF JobTrue
 <2>5. Ok(p) = Ok(m) BY <2>3 DEF Ok
 <2>6. PICK s : s = Answered(p, r, what) OBVIOUS
 <2> HIDE DEF r
 <2>7. /\ MainTrue(own, ok, s) /\ Len(s.req) = Len(p.req)
       /\ Ok(s) = IF what = "ok" THEN Ok(p) \cup {r} ELSE Ok(p)
       /\ s.waiting = p.waiting /\ s.record = p.record /\ s.failed = p.failed
       /\ \A q \in 1 .. Len(p.req) : s.req[q].answer = IF q = r THEN what ELSE p.req[q].answer
   BY <2>2, <2>4, <2>6, AnswerTrue
 <2>8. what # None BY BatchesAssumption
 <2>9. Finishes(own, m, r, d, ok, s) BY <1>1, <2>3, <2>4, <2>5, <2>7, <2>8 DEF Finishes
 <2> QED BY <2>1, <2>6, <2>9
<1>2. PICK x : x = dropped OBVIOUS
<1>3. /\ MainTrue(own, Ok(m), x) /\ x.req = m.req /\ x.queue = m.queue /\ x.failed = m.failed
      /\ DOMAIN x.record = DOMAIN m.record /\ NonePending(m, x)
 <2>1. CASE a.cancelled = None BY <1>2, <2>1 DEF NonePending
 <2>2. CASE a.cancelled # None
  <3>1. Token(own, a.cancelled) BY <2>2 DEF StageAnswer
  <3>2. x = Dropped(m, a.cancelled) BY <1>2, <2>2
  <3> HIDE DEF dropped
  <3> QED BY <3>1, <3>2, DroppedTrue DEF NonePending
 <2> QED BY <2>1, <2>2
<1>4. CASE a.error # None
 <2>1. StageEnds(m, r, a) = Answered(Pop(x), r, "failed") BY <1>2, <1>4 DEF StageEnds
 <2>2. PICK s : s = Answered(Pop(x), r, "failed") OBVIOUS
 <2>3. Finishes(own, m, r, x, Ok(m), s) BY <1>1, <1>3, <2>2
 <2>4. Follows(m, s) BY <1>3, <2>3, FinishesFollow
 <2>5. NonePending(m, s) BY <1>3, <2>3 DEF Finishes, NonePending
 <2> QED BY <1>3, <1>4, <2>1, <2>2, <2>3, <2>4, <2>5 DEF Finishes
<1>5. CASE a.error = None /\ closed
 <2>1. StageEnds(m, r, a) = Answered(Pop(m), r, "failed") BY <1>5 DEF StageEnds
 <2>2. PICK s : s = Answered(Pop(m), r, "failed") OBVIOUS
 <2>3. Finishes(own, m, r, m, Ok(m), s) BY <1>1, <2>2
 <2>4. Follows(m, s) BY <2>3, FinishesFollow
 <2>5. NonePending(m, s) BY <2>3 DEF Finishes, NonePending
 <2> QED BY <1>5, <2>1, <2>2, <2>3, <2>4, <2>5 DEF Finishes
<1>6. CASE a.error = None /\ ~closed /\ ~a.pending
 <2>1. StageEnds(m, r, a) = Answered(Pop(x), r, "ok") BY <1>2, <1>6 DEF StageEnds
 <2>2. MainTrue(own, Ok(m) \cup {r}, x) BY <1>3, OkGrows
 <2>3. PICK s : s = Answered(Pop(x), r, "ok") OBVIOUS
 <2>4. Finishes(own, m, r, x, Ok(m) \cup {r}, s) BY <1>1, <1>3, <2>2, <2>3
 <2>5. Follows(m, s) BY <1>3, <2>4, FinishesFollow
 <2> QED BY <1>3, <1>6, <2>1, <2>3, <2>4, <2>5 DEF Finishes
<1>7. CASE a.error = None /\ ~closed /\ a.pending
 <2> DEFINE ok == Ok(m) \cup {r}
 <2>1. PICK k : k = kept OBVIOUS
 <2>2. StageEnds(m, r, a) = Answered(Pop(k), r, "ok") BY <1>7, <2>1 DEF StageEnds
 <2>3. PICK b : b = batch OBVIOUS
 <2>4. b.batch = a.batch /\ b.gen = a.gen /\ b.reqs = a.reqs BY <2>3
 <2>5. BatchTrue(own, ok, b) /\ Untouched(own, b.batch)
   BY <1>7, <2>4 DEF StageAnswer, BatchTrue, SameAs
 <2>6. PICK d : d = pending OBVIOUS
 <2>7. DOMAIN m = MainFields BY DEF MainTrue, Shape
 <2>8. /\ DOMAIN d = MainFields /\ d.req = m.req /\ d.queue = m.queue /\ d.record = m.record
       /\ d.pending = b /\ d.failed = m.failed
   BY <2>3, <2>6, <2>7 DEF MainFields
 <2>9. MainTrue(own, ok, m) BY OkGrows
 <2>10. k = Recorded(d, b, "pending", None) BY <2>1, <2>3, <2>6
 <2> HIDE DEF batch, pending, kept, ok
 <2>11. MainTrue(own, ok, d) BY <2>5, <2>8, <2>9, SameMind
 <2>12. None # "committed" BY BatchesAssumption
 <2>13. /\ b.batch \in 1 .. store.gen /\ b.reqs \subseteq ok /\ Of(own, b.batch, b.reqs)
   BY <2>5 DEF BatchTrue
 <2>14. /\ MainTrue(own, ok, k) /\ k.req = m.req /\ k.queue = m.queue /\ k.failed = m.failed
        /\ DOMAIN k.record = DOMAIN m.record \cup {b.batch}
   BY <2>5, <2>8, <2>10, <2>11, <2>12, <2>13, RecordedTrue
 <2>15. PICK s : s = Answered(Pop(k), r, "ok") OBVIOUS
 <2>16. Finishes(own, m, r, k, ok, s) BY <1>1, <2>14, <2>15 DEF ok
 <2>17. Ok(m) \subseteq ok /\ r \in ok BY DEF ok
 <2>18. Follows(m, s) BY <2>14, <2>16, <2>17, FinishesFollow
 <2> QED BY <1>7, <2>2, <2>4, <2>14, <2>15, <2>16, <2>17, <2>18 DEF Finishes
<1> QED BY <1>4, <1>5, <1>6, <1>7

\* A commit has failed, or an answer says so late.
LEMMA FailedCommitTrue ==
  ASSUME NEW own, NEW m, MainTrue(own, Ok(m), m), NEW batch, NEW state,
         LateTrue(own, Ok(m), batch, state)
  PROVE  LET d == FailedCommit(m, batch, state) IN
         /\ MainTrue(own, Ok(d), d) /\ Ok(d) = Ok(m) /\ d.req = m.req /\ d.queue = m.queue
         /\ d.waiting = m.waiting /\ d.pending = m.pending /\ d.failed = m.failed
         /\ DOMAIN m.record \subseteq DOMAIN d.record /\ NonePending(m, d)
<1>1. PICK what : what = Reconciled(batch, state) OBVIOUS
<1>2. what = "committed" => batch.reqs \subseteq store.applied BY <1>1 DEF Reconciled, LateTrue
<1>3. batch.batch \in 1 .. store.gen /\ batch.reqs \subseteq Ok(m) /\ Of(own, batch.batch, batch.reqs)
  BY DEF LateTrue, BatchTrue
<1>4. PICK d : d = Recorded(m, batch, "failed", what) OBVIOUS
<1>5. /\ MainTrue(own, Ok(m), d) /\ Ok(d) = Ok(m) /\ d.req = m.req /\ d.queue = m.queue
      /\ d.waiting = m.waiting /\ d.pending = m.pending /\ d.failed = m.failed
      /\ DOMAIN d.record = DOMAIN m.record \cup {batch.batch}
      /\ \A b \in DOMAIN d.record :
           d.record[b].status = IF b = batch.batch THEN "failed" ELSE m.record[b].status
  BY <1>2, <1>3, <1>4, RecordedTrue
<1>6. NonePending(m, d) BY <1>5 DEF NonePending
<1> QED BY <1>1, <1>4, <1>5, <1>6 DEF FailedCommit

\* A commit ends: its batch gets the record that fits what is known of it.
LEMMA CommitEndsFollows ==
  ASSUME NEW own, NEW m, MainTrue(own, Ok(m), m), m.queue # <<>>, NEW a,
         LateTrue(own, Ok(m), m.applying, IF a.error = None THEN "committed" ELSE a.error),
         a.error = None => Gone(m.applying.batch)
  PROVE  LET s == CommitEnds(m, a) IN
         /\ MainTrue(own, Ok(s), s) /\ Follows(m, s) /\ s.waiting = None /\ s.failed = m.failed
         /\ NonePending(m, s)
<1>1. PICK x : x = IF a.error = None THEN Recorded(m, m.applying, "applied", "committed")
                   ELSE FailedCommit(m, m.applying, a.error)
  OBVIOUS
<1>2. /\ MainTrue(own, Ok(x), x) /\ Ok(x) = Ok(m) /\ x.req = m.req /\ x.queue = m.queue
      /\ x.failed = m.failed /\ DOMAIN m.record \subseteq DOMAIN x.record /\ NonePending(m, x)
 <2>1. CASE a.error # None BY <1>1, <2>1, FailedCommitTrue
 <2>2. CASE a.error = None
  <3>1. LateTrue(own, Ok(m), m.applying, "committed") /\ Gone(m.applying.batch) BY <2>2
  <3>2. /\ m.applying.batch \in 1 .. store.gen /\ m.applying.reqs \subseteq Ok(m)
        /\ Of(own, m.applying.batch, m.applying.reqs) /\ m.applying.reqs \subseteq store.applied
    BY <3>1 DEF LateTrue, BatchTrue
  <3>3. x = Recorded(m, m.applying, "applied", "committed") BY <1>1, <2>2
  <3>4. /\ MainTrue(own, Ok(m), x) /\ Ok(x) = Ok(m) /\ x.req = m.req /\ x.queue = m.queue
        /\ x.failed = m.failed /\ DOMAIN x.record = DOMAIN m.record \cup {m.applying.batch}
        /\ \A b \in DOMAIN x.record :
             x.record[b].status = IF b = m.applying.batch THEN "applied" ELSE m.record[b].status
    BY <3>1, <3>2, <3>3, RecordedTrue
  <3>5. NonePending(m, x) BY <3>4 DEF NonePending
  <3> QED BY <3>4, <3>5
 <2> QED BY <2>1, <2>2
<1>3. PICK p : p = Pop(x) OBVIOUS
<1>4. MainTrue(own, Ok(m), p) BY <1>2, <1>3, PopTrue
<1>5. /\ DOMAIN p = MainFields /\ p.req = x.req /\ p.waiting = None /\ p.record = x.record
      /\ p.pending = x.pending /\ p.failed = x.failed
  BY <1>2, <1>3, PopFields DEF MainTrue, Shape
<1>6. PICK s : s = [p EXCEPT !.applying = None, !.running = None] OBVIOUS
<1>7. /\ DOMAIN s = MainFields /\ s.req = p.req /\ s.queue = p.queue /\ s.record = p.record
      /\ s.pending = p.pending /\ s.failed = p.failed /\ s.waiting = p.waiting
  BY <1>5, <1>6 DEF MainFields
<1>8. MainTrue(own, Ok(m), s) /\ Ok(s) = Ok(p) /\ Ok(p) = Ok(m)
  BY <1>2, <1>4, <1>5, <1>7, SameMind DEF MainTrue, Ok
<1>9. Len(m.req) \in Nat BY SequenceFacts DEF MainTrue, Shape
<1>10. NonePending(m, s) /\ Follows(m, s) BY <1>2, <1>5, <1>7, <1>8, <1>9 DEF NonePending, Follows
<1>11. CommitEnds(m, a) = s BY <1>1, <1>3, <1>6 DEF CommitEnds
<1> QED BY <1>2, <1>5, <1>7, <1>8, <1>10, <1>11

\* What the end of call i must be for the main thread m, if it waits for it.
EndTrue(own, m, a) ==
    /\ m.queue # <<>> /\ Head(m.queue).kind \in {"stage", "commit"}
    /\ Head(m.queue).kind = "stage" => StageAnswer(own, Ok(m), Head(m.queue).arg, a)
    /\ Head(m.queue).kind = "commit" =>
         /\ LateTrue(own, Ok(m), m.applying, IF a.error = None THEN "committed" ELSE a.error)
         /\ a.error = None => Gone(m.applying.batch)

\* A call is settled: the job that waits for it, if it is the first, ends.
LEMMA SettleTrue ==
  ASSUME NEW own, NEW m, MainTrue(own, Ok(m), m), NEW i, NEW a, m.waiting = i => EndTrue(own, m, a)
  PROVE  LET s == Settle(m, i, a) IN
         /\ MainTrue(own, Ok(s), s) /\ Follows(m, s) /\ s.failed = m.failed
         /\ m.waiting # i => s = m
         /\ m.waiting = i =>
              /\ s.waiting = None
              /\ Head(m.queue).kind = "stage" => s.req[Head(m.queue).arg].answer # None
              /\ a.error # None \/ Head(m.queue).kind = "commit" => NonePending(m, s)
              /\ a.error = None /\ ~closed /\ Head(m.queue).kind = "stage" =>
                   /\ Head(m.queue).arg \in Ok(s)
                   /\ a.pending => a.batch \in DOMAIN s.record
<1>1. CASE m.waiting # i BY SequenceFacts, <1>1 DEF MainTrue, Shape, Settle, Follows
<1>2. CASE m.waiting = i /\ Head(m.queue).kind = "stage"
 <2>1. Settle(m, i, a) = StageEnds(m, Head(m.queue).arg, a) BY <1>2 DEF Settle
 <2>2. m.queue # <<>> /\ StageAnswer(own, Ok(m), Head(m.queue).arg, a) BY <1>2 DEF EndTrue
 <2>3. PICK s : s = StageEnds(m, Head(m.queue).arg, a) OBVIOUS
 <2>4. /\ MainTrue(own, Ok(s), s) /\ Follows(m, s) /\ s.waiting = None /\ s.failed = m.failed
       /\ s.req[Head(m.queue).arg].answer # None
       /\ a.error # None => NonePending(m, s)
       /\ a.error = None /\ ~closed =>
            /\ Head(m.queue).arg \in Ok(s)
            /\ a.pending => a.batch \in DOMAIN s.record
   BY <1>2, <2>2, <2>3, StageEndsTrue
 <2> QED BY <1>2, <2>1, <2>3, <2>4
<1>3. CASE m.waiting = i /\ Head(m.queue).kind = "commit"
  BY <1>3, CommitEndsFollows DEF Settle, EndTrue
<1> QED BY <1>1, <1>2, <1>3 DEF EndTrue

-----------------------------------------------------------------------------
(* The invariant of the whole. *)

PendingTrue(own, p) ==
    /\ p.batch \in 1 .. store.gen /\ p.gen \in 1 .. store.gen /\ p.reqs # {}
    /\ p.reqs \subseteq Nat /\ Of(own, p.batch, p.reqs) /\ Untouched(own, p.batch)

\* The last publication, while it is the last, can be taken back.
StoreTrue(own, ok) ==
    /\ DOMAIN store = {"pending", "prior", "published", "gen", "applied", "version", "left"}
    /\ store.gen \in Nat /\ store.applied \subseteq ok /\ store.left \subseteq Nat
    /\ \A r \in store.applied : own[r] \in 1 .. store.gen
    /\ store.pending # None => PendingTrue(own, store.pending)
    /\ store.published = None => store.prior = None
    /\ store.published # None /\ store.pending # None =>
         /\ store.published = store.pending.gen
         /\ store.prior # None =>
              /\ PendingTrue(own, store.prior) /\ store.prior.batch = store.pending.batch
              /\ store.prior.gen # store.pending.gen /\ store.prior.reqs \subseteq store.pending.reqs

\* The worker has yet to end call i.
Unfinished(i) == i > Begun \/ (i = Begun /\ worker \notin {NoWork, Dead})

\* The first job waits for the last call, or for the one that takes it back.
Waiting ==
    main.waiting # None =>
        LET c == call[main.waiting] IN
        /\ main.waiting \in 1 .. Len(call) /\ ~c.settled /\ main.queue # <<>>
        /\ c.method \in {"stage", "commit"} /\ Head(main.queue).kind = c.method
        /\ c.method = "stage" => Head(main.queue).arg = c.arg.r
        /\ c.method = "commit" => main.applying = c.arg
        /\ \/ main.waiting = Len(call) /\ c.open
           \/ /\ main.waiting = Len(call) - 1 /\ ~c.open
              /\ call[Len(call)].method = "reject" /\ ~call[Len(call)].settled

\* The store has the change r of generation gen, and can take it back.
Published(gen, r) ==
    /\ store.pending # None /\ store.published = gen
    /\ store.pending.reqs \subseteq {r} \cup Prior

\* A stage that was given up before its end will not be accepted, and what is
\* not waited for is answered.
Stage(i) ==
    /\ call[i].arg.r \in 1 .. Len(main.req)
    /\ call[i].exec \in {ACTIVE, CANCELLED, EXPIRED, FINISHED}
    /\ call[i].settled /\ Unfinished(i) /\ ~main.failed => call[i].exec \in {CANCELLED, EXPIRED}
    /\ main.waiting # i => main.req[call[i].arg.r].answer # None
Commit(own, i) ==
    /\ BatchTrue(own, Ok(main), call[i].arg)
    /\ call[i].done => call[i].arg.reqs \subseteq store.applied /\ Gone(call[i].arg.batch)
    /\ Unfinished(i) /\ call[i].arg.batch \in DOMAIN main.record =>
         main.record[call[i].arg.batch].status # "pending"
Rejection(i) ==
    /\ call[i].exec \in {ACTIVE, CANCELLED, EXPIRED, FINISHED}
    /\ i - 1 \in 1 .. Len(call) /\ call[i].arg.i = i - 1 /\ ~Unfinished(i - 1)
    /\ call[i - 1].method = "stage"
    /\ ~call[i].settled => i = Len(call) /\ main.waiting = i - 1 /\ call[i].open
    /\ call[i].settled /\ ~main.failed => call[i - 1].settled
    /\ Unfinished(i) /\ ~main.failed => Published(call[i].arg.gen, call[i - 1].arg.r)
Linked(own, i) ==
    /\ call[i].settled \in BOOLEAN /\ call[i].open \in BOOLEAN /\ call[i].due \in BOOLEAN
    /\ call[i].method = "stage" => Stage(i)
    /\ call[i].method = "commit" => Commit(own, i)
    /\ call[i].method = "reject" => Rejection(i)
    /\ call[i].method # "reject" /\ call[i].open /\ ~call[i].settled => main.waiting = i
    /\ Unfinished(i) /\ ~main.failed => call[i].open

\* What is said of a stage is what the store has of it, and who is added.
Receipt(a, r) ==
    /\ a.accepted => a.pending
    /\ a.pending =>
         /\ store.pending # None /\ a.cancelled = None
         /\ a.batch = store.pending.batch /\ a.gen = store.pending.gen /\ a.reqs = store.pending.reqs
    /\ a.accepted => Published(a.gen, r)

MessageFits(own, m) ==
    LET c == call[m.id] a == m.answer IN
    /\ c.open
    /\ a.cancelled # None => c.method = "stage" /\ Token(own, a.cancelled)
    /\ c.method = "stage" /\ a.error = None => ~c.settled /\ Receipt(a, c.arg.r)
    /\ c.method = "commit" /\ a.error = None => c.done
MessagesFit(own) ==
    /\ \A k \in 1 .. Len(outbox) : MessageFits(own, outbox[k])
    /\ \A j, k \in 1 .. Len(outbox) : outbox[j].id = outbox[k].id => j = k

WorkerFits(own) ==
    /\ worker.at = "staged" =>
         /\ Receipt(worker.result, call[worker.id].arg.r)
         /\ worker.result.cancelled # None => Token(own, worker.result.cancelled)
    /\ worker.at \in {"begun", "entered"} =>
         store.pending # None /\ store.pending.gen = call[worker.id].arg.gen

\* A request was added to the pending batch, and is not answered.
Limbo ==
    \/ worker.at = "staged" /\ worker.result.accepted
    \/ \E k \in 1 .. Len(outbox) :
         call[outbox[k].id].method = "stage" /\ outbox[k].answer.error = None
         /\ outbox[k].answer.accepted
    \/ \E i \in 1 .. Len(call) : call[i].method = "reject" /\ Unfinished(i)
\* The worker has died in a call, and that is not noticed.
Stuck ==
    /\ worker = Dead /\ Begun \in 1 .. Len(call) /\ call[Begun].open
    /\ \A k \in 1 .. Len(outbox) : outbox[k].id # Begun

\* Otherwise the requests of the pending batch are answered, and it has a record,
\* but for what was left behind.
Known(p) == p.reqs \subseteq Ok(main)
            /\ (p.batch \in DOMAIN main.record \/ p.reqs \cap store.left # {})
PendingKnown ==
    ~closed /\ ~main.failed /\ store.pending # None =>
        \/ Stuck
        \/ Limbo /\ (store.prior # None => Known(store.prior))
        \/ ~Limbo /\ Known(store.pending)

\* What is left behind is of a stage that has ended.
LeftEnded == \A r \in store.left : \E i \in 1 .. Len(call) :
    call[i].method = "stage" /\ call[i].arg.r = r /\ ~Unfinished(i)

Kept(own) ==
    /\ LeftEnded /\ StoreTrue(own, Ok(main)) /\ MainTrue(own, Ok(main), main)
    /\ main.failed \in BOOLEAN /\ (main.failed => worker = Dead /\ outbox = <<>>)
    /\ Waiting /\ \A i \in 1 .. Len(call) : Linked(own, i)
    /\ MessagesFit(own) /\ WorkerFits(own) /\ PendingKnown
AnswersInv == CallsInv /\ \E own \in [Nat -> Nat] : Kept(own)

-----------------------------------------------------------------------------
(* Steps of the main thread. *)

\* They leave the store alone.
LEMMA StoreAlone ==
  ASSUME UNCHANGED store, NEW own
  PROVE  /\ \A b : Gone(b) => Gone(b)'
         /\ \A b : Token(own, b) => Token(own, b)'
         /\ \A ok, c : BatchTrue(own, ok, c) => BatchTrue(own, ok, c)'
         /\ \A ok, m : MainTrue(own, ok, m) => MainTrue(own, ok, m)'
         /\ \A a, r : Receipt(a, r) => Receipt(a, r)'
         /\ \A g, r : Published(g, r) => Published(g, r)'
<1>1. \A b : Gone(b) => Gone(b)' BY DEF Gone
<1>2. \A b : Token(own, b) => Token(own, b)' BY DEF Token, Gone, Untouched
<1>3. \A ok, c : BatchTrue(own, ok, c) => BatchTrue(own, ok, c)' BY DEF BatchTrue, SameAs, Of
<1>4. ASSUME NEW ok, NEW m, MainTrue(own, ok, m)
      PROVE  MainTrue(own, ok, m)'
 <2>1. Shape(m)' BY <1>4 DEF MainTrue, Shape, IsSequence
 <2>2. RecordsKept(own, ok, m)' BY <1>4 DEF MainTrue, RecordsKept, RecordTrue, Untouched, Gone, Of
 <2>3. QueueTrue(own, ok, m)'
  <3>1. ASSUME NEW j, JobTrue(own, ok, m, j)
        PROVE  JobTrue(own, ok, m, j)'
    BY <1>2, <1>3, <3>1 DEF JobTrue, LateTrue
  <3> QED BY <1>4, <3>1 DEF MainTrue, QueueTrue, OnceEach
 <2> QED BY <1>3, <1>4, <2>1, <2>2, <2>3 DEF MainTrue
<1>5. \A a, r : Receipt(a, r) => Receipt(a, r)' BY DEF Receipt, Published, Prior
<1>6. \A g, r : Published(g, r) => Published(g, r)' BY DEF Published, Prior
<1> QED BY <1>1, <1>2, <1>3, <1>4, <1>5, <1>6

\* What they make of call i.
CallGoes(i) ==
    LET c == call[i] d == call'[i] IN
    /\ d.method = c.method /\ d.arg = c.arg /\ d.done = c.done
    /\ d.settled \in BOOLEAN /\ d.open \in BOOLEAN /\ d.due \in BOOLEAN
    /\ (c.settled => d.settled) /\ (d.open => c.open)
    /\ d.exec = c.exec \/ d.exec \in {CANCELLED, EXPIRED} \/ c.method = "commit"
    /\ c.method = "reject" =>
         /\ ~d.settled => d.open
         /\ d.settled /\ ~c.settled /\ ~main'.failed => call'[i - 1].settled
    /\ c.method = "stage" /\ main.waiting = i =>
         main'.waiting = i \/ main'.req[c.arg.r].answer # None
    /\ Unfinished(i) /\ ~main'.failed =>
         /\ d.open = c.open
         /\ c.method = "stage" /\ d.settled /\ ~c.settled => d.exec \in {CANCELLED, EXPIRED}
    /\ ~d.settled /\ (c.method = "reject" \/ d.open) => main'.waiting = main.waiting
    /\ ~d.settled /\ c.method = "reject" => Len(call') = Len(call)

\* A call that is made.
CallBegins(own, i) ==
    LET d == call'[i] IN
    /\ i = Len(call) + 1 /\ d.open = TRUE /\ d.settled = FALSE /\ d.due = FALSE /\ d.done = FALSE
    /\ d.exec = ACTIVE /\ main'.waiting = IF d.method = "reject" THEN i - 1 ELSE i
    /\ d.method = "stage" => d.arg.r \in 1 .. Len(main'.req)
    /\ d.method = "commit" =>
         /\ BatchTrue(own, Ok(main'), d.arg)
         /\ d.arg.batch \in DOMAIN main'.record => main'.record[d.arg.batch].status # "pending"
    /\ d.method = "reject" =>
         /\ d.arg.i = i - 1 /\ i - 1 \in 1 .. Len(call) /\ ~Unfinished(i - 1)
         /\ call[i - 1].method = "stage" /\ Published(d.arg.gen, call[i - 1].arg.r)

\* A message that is not read keeps its call.
MessageGoes(k) ==
    LET c == call[outbox[k].id] d == call'[outbox[k].id] IN
    /\ d.open = c.open
    /\ c.method = "stage" /\ outbox[k].answer.error = None => d.settled = c.settled

MainGoes(own) ==
    /\ UNCHANGED <<store, worker>> /\ Begun' = Begun
    /\ MainTrue(own, Ok(main'), main') /\ Follows(main, main')
    /\ main'.failed \in BOOLEAN /\ (main.failed => main'.failed)
    /\ main'.failed => worker = Dead /\ outbox' = <<>>
    /\ Len(call) <= Len(call')
    /\ \A i \in 1 .. Len(call) : CallGoes(i)
    /\ \A i \in 1 .. Len(call') : i > Len(call) => CallBegins(own, i)
    /\ \/ NonePending(main, main')
       \/ \A i \in 1 .. Len(call') : call'[i].method = "commit" => ~Unfinished(i)
    /\ \/ outbox' = outbox /\ \A k \in 1 .. Len(outbox) : MessageGoes(k)
       \/ /\ outbox # <<>> /\ outbox' = Tail(outbox)
          /\ \A k \in 2 .. Len(outbox) : MessageGoes(k)

\* After a step of the main thread each call is still tied to its job, as before it,
LEMMA LinkedGoes ==
  ASSUME CallsInv, CallsInv', NEW own, Kept(own), MainGoes(own), NEW i \in 1 .. Len(call)
  PROVE  Linked(own, i)'
<1> DEFINE c == call[i]
           d == call'[i]
<1>1. /\ Linked(own, i) /\ CallGoes(i)
      /\ Len(call) \in Nat /\ Len(call') \in Nat /\ Len(main.req) \in Nat
  BY SequenceFacts DEF Kept, MainGoes, CallsInv, MainTrue, Shape
<1>2. Begun' = Begun /\ worker' = worker /\ store' = store BY DEF MainGoes
<1>3. Unfinished(i)' <=> Unfinished(i) BY <1>2 DEF Unfinished
<1>4. main.failed => main'.failed BY DEF MainGoes
<1>5. Ok(main) \subseteq Ok(main') /\ Len(main.req) <= Len(main'.req)
      /\ \A r \in 1 .. Len(main.req) : main.req[r].answer # None => main'.req[r].answer # None
      /\ DOMAIN main.record \subseteq DOMAIN main'.record
  BY DEF MainGoes, Follows
<1>6. Len(call) <= Len(call') /\ Len(main'.req) \in Nat
  BY SequenceFacts DEF MainGoes, MainTrue, Shape
<1>7. ASSUME c.method = "stage"
      PROVE  Stage(i)'
 <2>1. Stage(i) /\ d.arg = c.arg /\ c.arg.r \in 1 .. Len(main.req)
   BY <1>1, <1>7 DEF Linked, Stage, CallGoes
 <2>2. d.exec \in {ACTIVE, CANCELLED, EXPIRED, FINISHED} BY <1>1, <1>7, <2>1 DEF Stage, CallGoes
 <2>3. d.settled /\ Unfinished(i) /\ ~main'.failed => d.exec \in {CANCELLED, EXPIRED}
   BY <1>1, <1>4, <1>7, <2>1 DEF Stage, CallGoes
 <2>4. main'.waiting # i => main'.req[d.arg.r].answer # None
   BY <1>1, <1>5, <1>7, <2>1 DEF Stage, CallGoes
 <2>5. d.arg.r \in 1 .. Len(main'.req) BY <1>1, <1>5, <1>6, <2>1
 <2> QED BY <1>3, <2>2, <2>3, <2>4, <2>5 DEF Stage
<1>8. ASSUME c.method = "commit"
      PROVE  Commit(own, i)'
 <2>1. Commit(own, i) /\ d.arg = c.arg /\ d.done = c.done /\ d.method = c.method
   BY <1>1, <1>8 DEF Linked, CallGoes
 <2>2. BatchTrue(own, Ok(main'), c.arg) BY <1>5, <2>1 DEF Commit, BatchTrue
 <2>3. PICK ok : ok = Ok(main') OBVIOUS
 <2>4. PICK e : e = c.arg OBVIOUS
 <2>5. BatchTrue(own, ok, e)' BY <1>2, <2>2, <2>3, <2>4, StoreAlone
 <2>6. BatchTrue(own, Ok(main), call[i].arg)'
   BY <1>2, <2>3, <2>1, <2>4, <2>5 DEF Ok, BatchTrue, Of, SameAs
 <2>8. d.done => d.arg.reqs \subseteq store'.applied /\ Gone(call[i].arg.batch)'
   BY <1>2, <2>1 DEF Commit, Gone
 <2>9. ASSUME Unfinished(i), d.arg.batch \in DOMAIN main'.record
       PROVE  main'.record[d.arg.batch].status # "pending"
   BY <1>1, <1>6, <1>8, <2>1, <2>9 DEF MainGoes, Commit, NonePending
 <2> QED BY <1>3, <2>6, <2>8, <2>9 DEF Commit
<1>9. ASSUME c.method = "reject"
      PROVE  Rejection(i)'
 <2>1. /\ Rejection(i) /\ d.arg = c.arg
       /\ ~d.settled => d.open
       /\ d.exec \in {ACTIVE, CANCELLED, EXPIRED, FINISHED}
   BY <1>1, <1>9 DEF Linked, CallGoes, Rejection
 <2>2. i - 1 \in 1 .. Len(call) /\ i - 1 \in 1 .. Len(call') BY <1>1, <1>6, <2>1 DEF Rejection
 <2>6. CallGoes(i - 1) BY <2>2 DEF MainGoes
 <2>7. /\ call'[i - 1].method = "stage" /\ call'[i - 1].arg = call[i - 1].arg
       /\ d.settled /\ ~main'.failed => call'[i - 1].settled
   BY <1>1, <1>4, <1>9, <2>1, <2>6 DEF Rejection, CallGoes
 <2>3. ~d.settled => i = Len(call') /\ main'.waiting = i - 1
   BY <1>1, <1>9, <2>1 DEF Rejection, CallGoes
 <2>4. Unfinished(i) /\ ~main'.failed => Published(call[i].arg.gen, call[i - 1].arg.r)'
  <3>1. PICK g, r : g = d.arg.gen /\ r = call'[i - 1].arg.r OBVIOUS
  <3>2. Unfinished(i) /\ ~main'.failed => Published(g, r) BY <1>4, <2>1, <2>7, <3>1 DEF Rejection
  <3>3. Unfinished(i) /\ ~main'.failed => Published(g, r)' BY <1>2, <3>2, StoreAlone
  <3> QED BY <3>1, <3>3 DEF Published, Prior
 <2>5. ~Unfinished(i - 1)' BY <1>2, <2>1 DEF Rejection, Unfinished
 <2> QED BY <1>2, <1>3, <2>1, <2>2, <2>3, <2>4, <2>5, <2>7 DEF Rejection
<1>10. /\ d.settled \in BOOLEAN /\ d.open \in BOOLEAN /\ d.due \in BOOLEAN /\ d.method = c.method
       /\ c.method # "reject" /\ d.open /\ ~d.settled => main'.waiting = i
       /\ Unfinished(i) /\ ~main'.failed => d.open
  BY <1>1, <1>4 DEF Linked, CallGoes
<1> QED BY <1>3, <1>7, <1>8, <1>9, <1>10 DEF Linked

\* and so is the call that the step has sent.
LEMMA LinkedBegins ==
  ASSUME CallsInv, CallsInv', NEW own, Kept(own), MainGoes(own), NEW i \in 1 .. Len(call'),
         i > Len(call)
  PROVE  Linked(own, i)'
<1> DEFINE d == call'[i]
<1>1. CallBegins(own, i) /\ Len(call) \in Nat /\ Len(call') \in Nat
  BY SequenceFacts DEF MainGoes, CallsInv
<1>2. Begun' = Begun /\ worker' = worker /\ store' = store BY DEF MainGoes
<1>3. i = Len(call') /\ i - 1 \in Int
 <2>1. \A k \in 1 .. Len(call') : k > Len(call) => k = Len(call) + 1 BY DEF MainGoes, CallBegins
 <2> QED BY <1>1, <2>1
<1>4. /\ d.open = TRUE /\ d.settled = FALSE /\ d.due = FALSE /\ d.done = FALSE
      /\ d.exec = ACTIVE /\ main'.waiting = IF d.method = "reject" THEN i - 1 ELSE i
  BY <1>1 DEF CallBegins
<1>5. ASSUME d.method = "stage"
      PROVE  Stage(i)'
  BY <1>1, <1>4, <1>5 DEF CallBegins, Stage
<1>6. ASSUME d.method = "commit"
      PROVE  Commit(own, i)'
 <2>1. /\ BatchTrue(own, Ok(main'), d.arg)
       /\ d.arg.batch \in DOMAIN main'.record => main'.record[d.arg.batch].status # "pending"
   BY <1>1, <1>6 DEF CallBegins
 <2>2. PICK ok : ok = Ok(main') OBVIOUS
 <2>3. PICK e : e = d.arg OBVIOUS
 <2>4. BatchTrue(own, ok, e)' BY <1>2, <2>1, <2>2, <2>3, StoreAlone
 <2>5. BatchTrue(own, Ok(main), call[i].arg)'
   BY <1>2, <2>2, <2>3, <2>4 DEF Ok, BatchTrue, Of, SameAs
 <2> QED BY <1>4, <2>1, <2>5 DEF Commit
<1>7. ASSUME d.method = "reject"
      PROVE  Rejection(i)'
 <2>1. /\ d.arg.i = i - 1 /\ i - 1 \in 1 .. Len(call) /\ ~Unfinished(i - 1)
       /\ call[i - 1].method = "stage" /\ Published(d.arg.gen, call[i - 1].arg.r)
   BY <1>1, <1>7 DEF CallBegins
 <2>2. CallGoes(i - 1) /\ i - 1 \in 1 .. Len(call') /\ ~Unfinished(i - 1)'
   BY <1>1, <1>2, <2>1 DEF MainGoes, Unfinished
 <2>3. Published(call[i].arg.gen, call[i - 1].arg.r)' /\ call'[i - 1].method = "stage"
  <3>1. PICK g, r : g = d.arg.gen /\ r = call'[i - 1].arg.r OBVIOUS
  <3>2. Published(g, r) /\ call'[i - 1].method = "stage" BY <2>1, <2>2, <3>1 DEF CallGoes
  <3>3. Published(g, r)' BY <1>2, <3>2, StoreAlone
  <3> QED BY <3>1, <3>2, <3>3 DEF Published, Prior
 <2> QED BY <1>3, <1>4, <1>7, <2>1, <2>2, <2>3 DEF Rejection
<1> QED BY <1>4, <1>5, <1>6, <1>7 DEF Linked

\* An answer fits, when nothing that it speaks of has changed.
LEMMA FitsStill ==
  ASSUME NEW own, NEW m, MessageFits(own, m), UNCHANGED store, MainGoes(own),
         m.id \in 1 .. Len(call), call'[m.id].open = call[m.id].open,
         call[m.id].method = "stage" /\ m.answer.error = None => call'[m.id].settled = call[m.id].settled
  PROVE  MessageFits(own, m)'
<1> DEFINE c == call[m.id]
           d == call'[m.id]
           a == m.answer
<1>1. d.method = c.method /\ d.arg = c.arg /\ d.done = c.done BY DEF MainGoes, CallGoes
<1>2. d.open /\ (c.method = "commit" /\ a.error = None => d.done) BY <1>1 DEF MessageFits
<1>3. a.cancelled # None => c.method = "stage" /\ Token(own, a.cancelled)'
 <2>1. PICK b : b = a.cancelled OBVIOUS
 <2>2. Token(own, b) => Token(own, b)' BY StoreAlone
 <2> QED BY <2>1, <2>2 DEF MessageFits
<1>4. c.method = "stage" /\ a.error = None => ~d.settled /\ Receipt(a, c.arg.r)'
 <2>1. c.method = "stage" /\ a.error = None => ~d.settled /\ Receipt(a, c.arg.r) BY DEF MessageFits
 <2>2. PICK r : r = c.arg.r OBVIOUS
 <2>3. Receipt(a, r) => Receipt(a, r)' BY StoreAlone
 <2> QED BY <1>1, <2>1, <2>2, <2>3 DEF Receipt, Published, Prior
<1> QED BY <1>1, <1>2, <1>3, <1>4 DEF MessageFits, Receipt, Published, Prior

\* The messages that are left still fit: the one that was read is gone.
LEMMA MessagesGo ==
  ASSUME CallsInv, CallsInv', NEW own, Kept(own), MainGoes(own)
  PROVE  MessagesFit(own)'
<1> DEFINE n == Len(outbox)
<1>1. IsSequence(outbox) /\ n \in Nat /\ IsSequence(call) /\ Len(call) \in Nat /\ Len(inbox) \in Nat
  BY SequenceFacts DEF CallsInv
<1>2. \A k \in 1 .. n : outbox[k].id \in 1 .. Len(call) /\ MessageFits(own, outbox[k])
  BY <1>1 DEF CallsInv, OutboxTrue, MessageTrue, Begun, Kept, MessagesFit
\* Where a message that is still there has been.
<1>3. /\ Len(outbox') \in Nat
      /\ \/ Len(outbox') = n /\ \A k \in 1 .. n : outbox'[k] = outbox[k] /\ MessageGoes(k)
         \/ Len(outbox') = n - 1 /\ \A k \in 1 .. n - 1 : outbox'[k] = outbox[k + 1] /\ MessageGoes(k + 1)
 <2>1. CASE outbox' = outbox /\ \A k \in 1 .. n : MessageGoes(k) BY <1>1, <2>1
 <2>2. CASE outbox # <<>> /\ outbox' = Tail(outbox) /\ \A k \in 2 .. n : MessageGoes(k)
  <3>1. /\ Len(outbox') = n - 1 /\ n > 0 /\ \A k \in 1 .. n - 1 : outbox'[k] = outbox[k + 1]
    BY <1>1, <2>2, TailSequence
  <3>2. ASSUME NEW k \in 1 .. n - 1
        PROVE  MessageGoes(k + 1)
    BY <1>1, <2>2
  <3>3. Len(outbox') \in Nat BY <1>1, <3>1
  <3> QED BY <3>1, <3>2, <3>3
 <2> QED BY <2>1, <2>2 DEF MainGoes
<1>4. ASSUME NEW k \in 1 .. n, MessageGoes(k)
      PROVE  \E m : m = outbox[k] /\ MessageFits(own, m)'
 <2>1. PICK m : m = outbox[k] OBVIOUS
 <2>2. store' = store BY DEF MainGoes
 <2>3. MessageFits(own, m)' BY <1>2, <1>4, <2>1, <2>2, FitsStill DEF MessageGoes
 <2> QED BY <2>1, <2>3
<1>5. ASSUME NEW k \in 1 .. Len(outbox')
      PROVE  MessageFits(own, outbox[k])'
 <2>1. \E m : m = outbox'[k] /\ MessageFits(own, m)'
  <3>1. CASE Len(outbox') = n /\ \A j \in 1 .. n : outbox'[j] = outbox[j] /\ MessageGoes(j)
    BY <1>4, <3>1
  <3>2. CASE Len(outbox') = n - 1 /\ \A j \in 1 .. n - 1 : outbox'[j] = outbox[j + 1] /\ MessageGoes(j + 1)
    BY <1>1, <3>2, <1>4
  <3> QED BY <1>3, <3>1, <3>2
 <2>2. PICK m : m = outbox'[k] /\ MessageFits(own, m)' BY <2>1
 <2> QED BY <2>2 DEF MessageFits, Receipt, Published, Prior, Token, Gone, Untouched
<1>6. ASSUME NEW j \in 1 .. Len(outbox'), NEW k \in 1 .. Len(outbox'), outbox'[j].id = outbox'[k].id
      PROVE  j = k
 <2>1. \A x, y \in 1 .. n : outbox[x].id = outbox[y].id => x = y BY DEF Kept, MessagesFit
 <2>2. CASE Len(outbox') = n /\ \A x \in 1 .. n : outbox'[x] = outbox[x] BY <1>6, <2>1, <2>2
 <2>3. CASE Len(outbox') = n - 1 /\ \A x \in 1 .. n - 1 : outbox'[x] = outbox[x + 1]
   BY <1>1, <1>6, <2>3, <2>1
 <2> QED BY <1>3, <2>2, <2>3
<1> QED BY <1>5, <1>6 DEF MessagesFit

\* What holds of a name for the main thread after a step holds of the main thread.
LEMMA MainNamed ==
  ASSUME NEW own, NEW m, NEW ok, m = main', ok = Ok(main)', MainTrue(own, ok, m)'
  PROVE  MainTrue(own, Ok(main), main)'
<1>1. MainTrue(own, ok, m)' OBVIOUS
<1>2. m = main' /\ ok = Ok(main)' OBVIOUS
<1>3. Shape(main)' /\ OnceEach(main.queue)'
  BY <1>1, <1>2 DEF MainTrue, Shape, IsSequence, QueueTrue, OnceEach
<1>4. RecordsKept(own, Ok(main), main)'
  BY <1>1, <1>2 DEF MainTrue, RecordsKept, RecordTrue, Of, Untouched, Gone
<1>5. (main.pending # None => BatchTrue(own, Ok(main), main.pending))'
  BY <1>1, <1>2, Zenon DEF MainTrue, BatchTrue, SameAs, Of
<1>6. ASSUME NEW j \in 1 .. Len(main'.queue)
       PROVE  JobTrue(own, Ok(main), main, main.queue[j])'
 <2>1. PICK q : q = main'.queue[j] OBVIOUS
 <2>2. j \in 1 .. Len(m.queue) /\ q = m.queue[j] BY <1>2, <2>1
 <2>3. \A k \in 1 .. Len(m.queue) : JobTrue(own, ok, m, m.queue[k])'
   BY <1>1 DEF MainTrue, QueueTrue
 <2>4. JobTrue(own, ok, m, m.queue[j])' BY <2>2, <2>3
 <2>5. JobTrue(own, ok, m, q)'
   BY <2>2, <2>4 DEF JobTrue, LateTrue, BatchTrue, SameAs, Of, Token, Gone, Untouched
 <2> QED BY <1>2, <2>1, <2>5 DEF JobTrue, LateTrue, BatchTrue, SameAs, Of, Token, Gone, Untouched
<1>7. QueueTrue(own, Ok(main), main)'
  BY <1>3, <1>6 DEF QueueTrue, JobTrue, LateTrue, BatchTrue, SameAs, Of, Token, Gone, Untouched
<1> QED BY <1>3, <1>4, <1>5, <1>7, Zenon DEF MainTrue, RecordsKept, RecordTrue, QueueTrue,
  JobTrue, LateTrue, BatchTrue, SameAs, Of, Token, Gone, Untouched, Shape, IsSequence, OnceEach

\* What is left to show of a step of the main thread.
LEMMA MainKept ==
  ASSUME CallsInv, CallsInv', NEW own, Kept(own), MainGoes(own), Waiting', PendingKnown'
  PROVE  Kept(own)'
<1>1. UNCHANGED <<store, worker>> /\ Ok(main) \subseteq Ok(main') BY DEF MainGoes, Follows
<1>2. StoreTrue(own, Ok(main))'
 <2>1. StoreTrue(own, Ok(main)) BY DEF Kept
 <2>2. PICK ok : ok = Ok(main') OBVIOUS
 <2>3. StoreTrue(own, ok)' BY <1>1, <2>1, <2>2 DEF StoreTrue, PendingTrue, Of, Untouched
 <2>4. ok = Ok(main)' BY <1>1, <2>2 DEF Ok
 <2> QED BY <2>3, <2>4 DEF StoreTrue, PendingTrue, Of, Untouched
<1>3. MainTrue(own, Ok(main), main)'
 <2>1. PICK ok : ok = Ok(main') OBVIOUS
 <2>2. PICK m : m = main' OBVIOUS
 <2>3. MainTrue(own, ok, m)' BY <1>1, <2>1, <2>2, StoreAlone DEF MainGoes
 <2>4. ok = Ok(main)' BY <1>1, <2>1 DEF Ok
 <2> QED BY <2>2, <2>3, <2>4, MainNamed
<1>4. main'.failed \in BOOLEAN /\ (main'.failed => worker' = Dead /\ outbox' = <<>>)
  BY DEF MainGoes
<1>5. ASSUME NEW i \in 1 .. Len(call')
      PROVE  Linked(own, i)'
 <2>1. CASE i > Len(call) BY <2>1, LinkedBegins
 <2>2. CASE ~(i > Len(call)) BY <2>2, SequenceFacts, LinkedGoes DEF CallsInv
 <2> QED BY <2>1, <2>2
<1>6. MessagesFit(own)' BY MessagesGo
<1>7. WorkerFits(own)'
 <2>1. ASSUME worker.at \in {"staged", "begun", "entered"}
       PROVE  call'[worker.id].arg = call[worker.id].arg
  <3>1. AtWork /\ Len(call) \in Nat /\ Len(inbox) \in Nat
    BY <2>1, SequenceFacts DEF CallsInv, NoWork, Dead
  <3>2. worker.id \in 1 .. Len(call) BY <3>1 DEF AtWork, Begun
  <3> QED BY <3>2 DEF MainGoes, CallGoes
 <2>2. ASSUME worker.at = "staged"
       PROVE  /\ Receipt(worker.result, call[worker.id].arg.r)'
              /\ worker.result.cancelled # None => Token(own, worker.result.cancelled)'
   BY <2>2, <2>1, <1>1 DEF Kept, WorkerFits, Receipt, Published, Prior, Token, Gone, Untouched
 <2>3. ASSUME worker.at \in {"begun", "entered"}
       PROVE  (store.pending # None /\ store.pending.gen = call[worker.id].arg.gen)'
   BY <1>1, <2>1, <2>3 DEF Kept, WorkerFits
 <2> QED BY <1>1, <2>2, <2>3 DEF WorkerFits
<1>8. LeftEnded'
 <2>1. ASSUME NEW r \in store'.left
       PROVE  \E i \in 1 .. Len(call') :
                call'[i].method = "stage" /\ call'[i].arg.r = r /\ ~Unfinished(i)'
  <3>1. PICK i \in 1 .. Len(call) : call[i].method = "stage" /\ call[i].arg.r = r /\ ~Unfinished(i)
    BY <1>1, <2>1 DEF Kept, LeftEnded
  <3>2. CallGoes(i) /\ i \in 1 .. Len(call') BY SequenceFacts DEF MainGoes, CallsInv
  <3>3. ~Unfinished(i)' BY <1>1, <3>1 DEF MainGoes, Unfinished
  <3> QED BY <3>1, <3>2, <3>3 DEF CallGoes
 <2> QED BY <2>1 DEF LeftEnded
<1> QED BY <1>2, <1>3, <1>4, <1>5, <1>6, <1>7, <1>8 DEF Kept

\* A step that reads no message changes nothing about the pending batch.
LEMMA PendingStays ==
  ASSUME CallsInv, CallsInv', NEW own, Kept(own), MainGoes(own), closed => closed', outbox' = outbox,
         \A i \in 1 .. Len(call) : call[i].open => call'[i].open = TRUE,
         \A i \in 1 .. Len(call') : i > Len(call) => call'[i].method # "reject"
  PROVE  PendingKnown'
<1>1. /\ store' = store /\ worker' = worker /\ Begun' = Begun
      /\ Len(call) <= Len(call') /\ Len(call) \in Nat /\ Len(call') \in Nat /\ Len(inbox) \in Nat
      /\ \A i \in 1 .. Len(call) : call'[i].method = call[i].method
      /\ main.failed => main'.failed
  BY SequenceFacts DEF MainGoes, CallsInv, CallGoes
<1>2. \A i : Unfinished(i)' <=> Unfinished(i) BY <1>1 DEF Unfinished
<1>3. \A k \in 1 .. Len(outbox) : outbox[k].id \in 1 .. Len(call)
  BY <1>1 DEF CallsInv, OutboxTrue, MessageTrue, Begun
<1>4. Stuck => Stuck' BY <1>1 DEF Stuck
<1>5. Limbo' <=> Limbo
 <2>1. worker'.at = "staged" /\ worker'.result.accepted <=> worker.at = "staged" /\ worker.result.accepted
   BY <1>1
 <2>2. ASSUME NEW k \in 1 .. Len(outbox)
       PROVE  call'[outbox[k].id].method = call[outbox[k].id].method
   BY <1>1, <1>3
 <2>3. (\E i \in 1 .. Len(call') : call'[i].method = "reject" /\ Unfinished(i)')
         <=> \E i \in 1 .. Len(call) : call[i].method = "reject" /\ Unfinished(i)
  <3>1. ASSUME NEW i \in 1 .. Len(call'), call'[i].method = "reject"
        PROVE  i \in 1 .. Len(call) /\ call[i].method = "reject"
    BY <1>1, <3>1
  <3>2. ASSUME NEW i \in 1 .. Len(call), call[i].method = "reject"
        PROVE  i \in 1 .. Len(call') /\ call'[i].method = "reject"
    BY <1>1, <3>2
  <3> QED BY <1>2, <3>1, <3>2
 <2> QED BY <2>1, <2>2, <2>3 DEF Limbo
<1>6. ASSUME NEW p, Known(p)
      PROVE  Known(p)'
  BY <1>6 DEF MainGoes, Follows, Known, Ok
<1> QED BY <1>1, <1>4, <1>5, <1>6 DEF PendingKnown, Kept, Known

\* When no job waits, every call that can still be answered was given up.
LEMMA NobodyWaits ==
  ASSUME CallsInv, NEW own, Kept(own), main.waiting = None, NEW i \in 1 .. Len(call)
  PROVE  /\ call[i].method = "reject" => call[i].settled
         /\ call[i].open => call[i].settled
<1>1. Linked(own, i) /\ Len(call) \in Nat /\ None \notin Nat
  BY SequenceFacts, BatchesAssumption DEF Kept, CallsInv
<1>2. i \in Nat BY <1>1
<1>3. call[i].method = "reject" => i - 1 \in Nat BY <1>1 DEF Linked, Rejection
<1> QED BY <1>1, <1>2, <1>3 DEF Linked, Rejection

\* The types of what a call says of itself.
LEMMA CallFields ==
  ASSUME CallsInv, NEW own, Kept(own), NEW i \in 1 .. Len(call)
  PROVE  /\ CallTrue(call[i]) /\ DOMAIN call[i] = Fields
         /\ call[i].settled \in BOOLEAN /\ call[i].open \in BOOLEAN /\ call[i].due \in BOOLEAN
         /\ call[i].method \in {"stage", "commit", "reject"}
BY DEF Kept, Linked, CallsInv, CallsTrue, CallTrue

\* A step that leaves a call alone.
LEMMA CallStays ==
  ASSUME CallsInv, NEW own, Kept(own), NEW i \in 1 .. Len(call), call'[i] = call[i],
         main'.waiting = main.waiting \/ (call[i].settled /\ call[i].method = "reject")
           \/ (call[i].method # "reject" /\ (call[i].settled \/ ~call[i].open)),
         Len(call') = Len(call) \/ call[i].settled \/ call[i].method # "reject",
         call[i].method = "stage" /\ main.waiting = i =>
           main'.waiting = i \/ main'.req[call[i].arg.r].answer # None
  PROVE  CallGoes(i)
<1>1. CallTrue(call[i]) /\ Linked(own, i) /\ (call[i].settled \in BOOLEAN) /\ call[i].open \in BOOLEAN
  BY CallFields DEF Kept
<1>2. call[i].method = "reject" /\ ~call[i].settled => call[i].open BY <1>1 DEF Linked, Rejection
<1> QED BY <1>1, <1>2 DEF CallGoes, Linked

\* Steps of the main thread that make no call.
LEMMA CallsAlone ==
  ASSUME CallsInv, CallsInv', NEW own, Kept(own),
         UNCHANGED <<call, inbox, outbox, worker, store>>, closed => closed',
         main'.waiting = main.waiting, main'.failed = main.failed, main'.applying = main.applying,
         main.waiting # None => main'.queue # <<>> /\ Head(main'.queue) = Head(main.queue),
         MainTrue(own, Ok(main'), main'), Follows(main, main'), NonePending(main, main')
  PROVE  Kept(own)'
<1>1. Len(call) \in Nat BY SequenceFacts DEF CallsInv
<1>2. \A i \in 1 .. Len(call) : CallGoes(i) BY CallStays
<1>3. Begun' = Begun BY DEF Begun
<1>4. \A k \in 1 .. Len(outbox) : MessageGoes(k) BY DEF MessageGoes
<1>5. MainGoes(own) BY <1>1, <1>2, <1>3, <1>4 DEF MainGoes, Kept
<1>6. Waiting' BY DEF Kept, Waiting
<1>7. PendingKnown'
 <2>1. \A i \in 1 .. Len(call) : call[i].open => call'[i].open = TRUE BY CallFields
 <2>2. \A i \in 1 .. Len(call') : i > Len(call) => call'[i].method # "reject" BY <1>1
 <2>3. outbox' = outbox OBVIOUS
 <2> QED BY <1>5, <2>1, <2>2, <2>3, PendingStays
<1> QED BY <1>5, <1>6, <1>7, MainKept

\* A step that leaves answers and records alone.
LEMMA OwnStep ==
  ASSUME NEW own, NEW m, MainTrue(own, Ok(m), m), NEW d, Ok(d) = Ok(m), d.req = m.req,
         d.record = m.record
  PROVE  Follows(m, d) /\ NonePending(m, d)
<1>1. Len(m.req) \in Nat BY SequenceFacts DEF MainTrue, Shape
<1> QED BY <1>1 DEF Follows, NonePending

\* A request joins the queue.
LEMMA RequestTrue ==
  ASSUME NEW own, NEW m, MainTrue(own, Ok(m), m), NEW q, DOMAIN q = RequestFields, q.answer = None,
         NEW d, d = Later([m EXCEPT !.req = Append(@, q)], Job("stage", Len(m.req) + 1))
  PROVE  /\ MainTrue(own, Ok(d), d) /\ Follows(m, d) /\ NonePending(m, d)
         /\ d.waiting = m.waiting /\ d.failed = m.failed /\ d.applying = m.applying
         /\ m.queue # <<>> => d.queue # <<>> /\ Head(d.queue) = Head(m.queue)
<1> DEFINE n == Len(m.req)
           l == Len(m.queue)
<1>1. /\ DOMAIN m = MainFields /\ IsSequence(m.req) /\ IsSequence(m.queue) /\ QueueTrue(own, Ok(m), m)
      /\ \A r \in 1 .. n : DOMAIN m.req[r] = RequestFields
      /\ n \in Nat /\ l \in Nat
  BY SequenceFacts DEF MainTrue, Shape
<1>2. PICK j : j = Job("stage", n + 1) OBVIOUS
<1>3. j.kind = "stage" /\ j.arg = n + 1 BY <1>2 DEF Job
<1>4. /\ DOMAIN d = MainFields /\ d.req = Append(m.req, q) /\ d.queue = Append(m.queue, j)
      /\ d.waiting = m.waiting /\ d.failed = m.failed /\ d.applying = m.applying
      /\ d.pending = m.pending /\ d.record = m.record
  BY <1>1, <1>2 DEF Later, MainFields
<1>5. /\ IsSequence(d.req) /\ Len(d.req) = n + 1 /\ d.req[n + 1] = q
      /\ \A r \in 1 .. n : d.req[r] = m.req[r]
 <2>1. PICK f : f = m.req OBVIOUS
 <2>2. IsSequence(f) /\ d.req = Append(f, q) BY <1>1, <1>4, <2>1
 <2>3. PICK e : e = Append(f, q) OBVIOUS
 <2>4. /\ IsSequence(e) /\ Len(e) = Len(f) + 1 /\ \A r \in 1 .. Len(f) : e[r] = f[r]
       /\ e[Len(f) + 1] = q
   BY <2>2, <2>3, AppendSequence
 <2> QED BY <2>1, <2>2, <2>3, <2>4
<1>6. /\ IsSequence(d.queue) /\ Len(d.queue) = l + 1 /\ d.queue[l + 1] = j
      /\ \A k \in 1 .. l : d.queue[k] = m.queue[k]
 <2>1. PICK f : f = m.queue OBVIOUS
 <2>2. IsSequence(f) /\ d.queue = Append(f, j) BY <1>1, <1>4, <2>1
 <2>3. PICK e : e = Append(f, j) OBVIOUS
 <2>4. /\ IsSequence(e) /\ Len(e) = Len(f) + 1 /\ \A k \in 1 .. Len(f) : e[k] = f[k]
       /\ e[Len(f) + 1] = j
   BY <2>2, <2>3, AppendSequence
 <2> QED BY <2>1, <2>2, <2>3, <2>4
<1>7. Ok(d) = Ok(m)
 <2>1. q.answer # "ok" BY BatchesAssumption
 <2>2. \A r : r \in 1 .. n + 1 <=> r \in 1 .. n \/ r = n + 1 BY <1>1
 <2> QED BY <1>5, <2>1, <2>2 DEF Ok
<1>8. \A k \in 1 .. l + 1 : k \in 1 .. l \/ k = l + 1 BY <1>1
<1>9. Shape(d)
 <2>1. ASSUME NEW r \in 1 .. n + 1
       PROVE  DOMAIN d.req[r] = RequestFields
  <3>1. r \in 1 .. n \/ r = n + 1 BY <1>1
  <3> QED BY <1>1, <1>5, <3>1
 <2> QED BY <1>4, <1>5, <1>6, <2>1 DEF Shape
<1>10. ASSUME NEW k \in 1 .. l
       PROVE  JobTrue(own, Ok(d), d, d.queue[k]) /\ (d.queue[k].kind = "stage" => d.queue[k].arg # n + 1)
 <2>1. JobTrue(own, Ok(m), m, m.queue[k]) BY <1>1 DEF QueueTrue
 <2>2. ASSUME m.queue[k].kind = "stage"
       PROVE  /\ m.queue[k].arg \in 1 .. n + 1 /\ m.queue[k].arg # n + 1
              /\ d.req[m.queue[k].arg].answer = None
  <3>1. PICK r : r = m.queue[k].arg OBVIOUS
  <3>2. r \in 1 .. n /\ m.req[r].answer = None BY <2>1, <2>2, <3>1 DEF JobTrue
  <3>3. d.req[r] = m.req[r] /\ r \in 1 .. n + 1 /\ r # n + 1
   <4>1. r \in 1 .. n /\ n \in Nat BY <1>1, <3>2
   <4>2. d.req[r] = m.req[r] BY <1>5, <4>1
   <4> HIDE DEF n
   <4>3. r \in 1 .. n + 1 /\ r # n + 1 BY <4>1
   <4> QED BY <4>2, <4>3
  <3> QED BY <3>1, <3>2, <3>3
 <2> QED BY <1>5, <1>6, <1>7, <2>1, <2>2 DEF JobTrue
<1>11. JobTrue(own, Ok(d), d, j) BY <1>1, <1>3, <1>5 DEF JobTrue
<1>12. QueueTrue(own, Ok(d), d)
 <2>1. \A k \in 1 .. Len(d.queue) : JobTrue(own, Ok(d), d, d.queue[k]) BY <1>6, <1>8, <1>10, <1>11
 <2>2. OnceEach(d.queue)
  <3> SUFFICES ASSUME NEW x \in 1 .. l + 1, NEW y \in 1 .. l + 1,
                      d.queue[x].kind = "stage", d.queue[y].kind = "stage",
                      d.queue[x].arg = d.queue[y].arg
               PROVE  x = y
    BY <1>6 DEF OnceEach
  <3>1. (x \in 1 .. l /\ y \in 1 .. l) \/ (x = l + 1 /\ y = l + 1) BY <1>3, <1>6, <1>8, <1>10
  <3>2. CASE x \in 1 .. l /\ y \in 1 .. l BY <1>1, <1>6, <3>2 DEF QueueTrue, OnceEach
  <3> QED BY <3>1, <3>2
 <2> QED BY <2>1, <2>2 DEF QueueTrue
<1>13. MainTrue(own, Ok(d), d) BY <1>4, <1>7, <1>9, <1>12 DEF MainTrue, RecordsKept
<1>14. Follows(m, d) /\ NonePending(m, d)
 <2>1. n <= Len(d.req) BY <1>1, <1>5
 <2>2. \A r \in 1 .. n : m.req[r].answer # None => d.req[r].answer # None BY <1>5
 <2> QED BY <1>4, <1>7, <2>1, <2>2 DEF Follows, NonePending
<1>15. ASSUME m.queue # <<>>
       PROVE  d.queue # <<>> /\ Head(d.queue) = Head(m.queue)
 <2>1. l > 0 /\ Head(m.queue) = m.queue[1] BY <1>1, <1>15, TailSequence
 <2>2. d.queue # <<>> BY <1>1, <1>6, EmptySeq
 <2>3. Head(d.queue) = d.queue[1] BY <1>6, <2>2, TailSequence
 <2>4. 1 \in 1 .. l BY <1>1, <2>1
 <2> QED BY <1>6, <2>1, <2>2, <2>3, <2>4
<1> QED BY <1>4, <1>13, <1>14, <1>15

\* A request comes (or reloadNow, startReload).
LEMMA RequestAnswers ==
  ASSUME CallsInv, CallsInv', NEW own, Kept(own), NEW what, Request(what)
  PROVE  Kept(own)'
<1>1. MainTrue(own, Ok(main), main) /\ Waiting BY DEF Kept
<1>2. PICK q : q = [what |-> what, version |-> store.version, during |-> main.applying,
                    aborted |-> FALSE, answer |-> None]
  OBVIOUS
<1>3. DOMAIN q = RequestFields /\ q.answer = None BY <1>2 DEF RequestFields
<1>4. PICK d : d = main' OBVIOUS
<1>5. d = Later([main EXCEPT !.req = Append(@, q)], Job("stage", Len(main.req) + 1))
  BY <1>2, <1>4 DEF Request
<1>6. /\ MainTrue(own, Ok(d), d) /\ Follows(main, d) /\ NonePending(main, d)
      /\ d.waiting = main.waiting /\ d.failed = main.failed /\ d.applying = main.applying
      /\ main.queue # <<>> => d.queue # <<>> /\ Head(d.queue) = Head(main.queue)
  BY <1>1, <1>3, <1>5, RequestTrue
<1>7. UNCHANGED <<call, inbox, outbox, worker, store, closed>> BY DEF Request
<1> QED BY <1>1, <1>4, <1>6, <1>7, CallsAlone DEF Waiting

\* The scheduler begins a reload, or is closed.
LEMMA ReloadAnswers ==
  ASSUME CallsInv, CallsInv', NEW own, Kept(own), StartReload \/ Close
  PROVE  Kept(own)'
<1>1. MainTrue(own, Ok(main), main) /\ Waiting /\ DOMAIN main = MainFields
  BY DEF Kept, MainTrue, Shape
<1>2. UNCHANGED <<call, inbox, outbox, worker, store>> /\ (closed => closed')
  BY DEF StartReload, Close
<1>3. CASE StartReload
 <2>1. PICK m : m = [main EXCEPT !.scheduled = None, !.running = main.scheduled] OBVIOUS
 <2>2. /\ DOMAIN m = MainFields /\ m.req = main.req /\ m.queue = main.queue /\ m.record = main.record
       /\ m.pending = main.pending /\ m.waiting = main.waiting /\ m.failed = main.failed
       /\ m.applying = main.applying
   BY <1>1, <2>1 DEF MainFields
 <2>3. MainTrue(own, Ok(m), m) /\ Ok(m) = Ok(main) BY <1>1, <2>2, SameMind DEF MainTrue
 <2>4. PICK job : job = Job("commit", main.scheduled) OBVIOUS
 <2>5. job.kind = "commit" BY <2>4 DEF Job
 <2>6. JobTrue(own, Ok(m), m, job) BY <2>5 DEF JobTrue
 <2>7. PICK d : d = Later(m, job) OBVIOUS
 <2>8. /\ MainTrue(own, Ok(m), d) /\ Ok(d) = Ok(m)
       /\ d.req = m.req /\ d.waiting = m.waiting
       /\ d.applying = m.applying /\ d.failed = m.failed
       /\ d.record = m.record /\ d.queue # <<>>
       /\ m.queue # <<>> => Head(d.queue) = Head(m.queue)
   BY <2>3, <2>5, <2>6, <2>7, LaterTrue
 <2>9. main' = d BY <1>3, <2>1, <2>4, <2>7 DEF StartReload
 <2>10. Follows(main, d) /\ NonePending(main, d) BY <1>1, <2>2, <2>3, <2>8, OwnStep
 <2> QED BY <1>1, <1>2, <2>2, <2>3, <2>8, <2>9, <2>10, CallsAlone DEF Waiting
<1>4. CASE Close
 <2>1. PICK d : d = [main EXCEPT !.scheduled = None] OBVIOUS
 <2>2. /\ DOMAIN d = MainFields /\ d.req = main.req /\ d.queue = main.queue /\ d.record = main.record
       /\ d.pending = main.pending /\ d.waiting = main.waiting /\ d.failed = main.failed
       /\ d.applying = main.applying
   BY <1>1, <2>1 DEF MainFields
 <2>3. d.pending # None => BatchTrue(own, Ok(main), d.pending) BY <1>1, <2>2 DEF MainTrue
 <2>4. MainTrue(own, Ok(main), d) /\ Ok(d) = Ok(main) BY <1>1, <2>2, <2>3, SameMind
 <2>5. main' = d BY <1>4, <2>1 DEF Close
 <2>6. Follows(main, d) /\ NonePending(main, d) BY <1>1, <2>2, <2>4, OwnStep
 <2> QED BY <1>1, <1>2, <2>2, <2>4, <2>5, <2>6, CallsAlone DEF Waiting
<1> QED BY <1>3, <1>4

\* A job ends without a call.
LEMMA JobEnds ==
  ASSUME CallsInv, CallsInv', NEW own, Kept(own), main.waiting = None, main'.waiting = None,
         UNCHANGED <<call, inbox, outbox, worker, store, closed>>, main'.failed = main.failed,
         MainTrue(own, Ok(main'), main'), Follows(main, main'), NonePending(main, main')
  PROVE  Kept(own)'
<1>1. Len(call) \in Nat BY SequenceFacts DEF CallsInv
<1>2. \A i \in 1 .. Len(call) : CallGoes(i) BY CallStays, BatchesAssumption
<1>3. Begun' = Begun /\ outbox' = outbox BY DEF Begun
<1>4. \A k \in 1 .. Len(outbox) : MessageGoes(k) BY DEF MessageGoes
<1>5. MainGoes(own) BY <1>1, <1>2, <1>3, <1>4 DEF MainGoes, Kept
<1>6. Waiting' BY DEF Waiting
<1>7. PendingKnown'
 <2>1. \A i \in 1 .. Len(call) : call[i].open => call'[i].open = TRUE BY CallFields
 <2>2. \A i \in 1 .. Len(call') : i > Len(call) => call'[i].method # "reject" BY <1>1
 <2> QED BY <1>3, <1>5, <2>1, <2>2, PendingStays
<1> QED BY <1>5, <1>6, <1>7, MainKept

\* The first job is done without a call.
LEMMA PopFollows ==
  ASSUME NEW own, NEW m, MainTrue(own, Ok(m), m), m.queue # <<>>, NEW p, p = Pop(m)
  PROVE  /\ MainTrue(own, Ok(p), p) /\ Ok(p) = Ok(m)
         /\ DOMAIN p = MainFields /\ p.waiting = None /\ p.failed = m.failed
         /\ p.req = m.req /\ p.record = m.record /\ p.pending = m.pending
<1>1. DOMAIN m = MainFields BY DEF MainTrue, Shape
<1>2. /\ DOMAIN p = MainFields /\ p.waiting = None /\ p.failed = m.failed
      /\ p.req = m.req /\ p.record = m.record /\ p.pending = m.pending
  BY <1>1, PopFields
<1>3. MainTrue(own, Ok(m), p) BY PopTrue
<1>4. Ok(p) = Ok(m) BY <1>2 DEF Ok
<1> QED BY <1>2, <1>3, <1>4

\* A late settlement is reconciled (#lateStage, #lateCommit).
LEMMA LateAnswers ==
  ASSUME CallsInv, CallsInv', NEW own, Kept(own), LateJob
  PROVE  Kept(own)'
<1> DEFINE j == Head(main.queue)
<1>1. MainTrue(own, Ok(main), main) /\ main.queue # <<>> /\ main.waiting = None
      /\ j.kind \in {"lateStage", "lateCommit"}
      /\ UNCHANGED <<call, inbox, outbox, worker, store, closed>>
  BY DEF Kept, LateJob, Begins
<1>2. JobTrue(own, Ok(main), main, j) BY <1>1, PopTrue
<1>3. PICK d : d = IF j.kind = "lateStage" THEN Dropped(main, j.arg)
                   ELSE FailedCommit(main, j.arg.batch, j.arg.state)
  OBVIOUS
<1>4. /\ MainTrue(own, Ok(d), d) /\ Ok(d) = Ok(main) /\ d.req = main.req /\ d.queue = main.queue
      /\ d.failed = main.failed /\ DOMAIN main.record \subseteq DOMAIN d.record
      /\ NonePending(main, d)
 <2>1. CASE j.kind = "lateStage" BY <1>2, <1>3, <2>1, <1>1, DroppedTrue DEF JobTrue, NonePending
 <2>2. CASE j.kind = "lateCommit" BY <1>2, <1>3, <2>2, <1>1, FailedCommitTrue DEF JobTrue
 <2> QED BY <1>1, <2>1, <2>2
<1>5. PICK p : p = Pop(d) OBVIOUS
<1>6. /\ MainTrue(own, Ok(p), p) /\ Ok(p) = Ok(d) /\ p.waiting = None /\ p.failed = d.failed
      /\ p.req = d.req /\ p.record = d.record
 <2>1. MainTrue(own, Ok(d), d) /\ d.queue # <<>> BY <1>1, <1>4
 <2> HIDE DEF j
 <2> QED BY <1>5, <2>1, PopFollows
<1>7. main' = p BY <1>3, <1>5 DEF LateJob
<1>8. Len(main.req) \in Nat BY <1>1, SequenceFacts DEF MainTrue, Shape
<1>9. Follows(main, p) /\ NonePending(main, p) BY <1>4, <1>6, <1>8 DEF Follows, NonePending
<1> QED BY <1>1, <1>4, <1>6, <1>7, <1>9, JobEnds

\* A job makes a call, and waits for it.
LEMMA SendKept ==
  ASSUME CallsInv, CallsInv', NEW own, Kept(own), NEW method \in {"stage", "commit"}, NEW arg,
         Sends(method, arg), main.waiting = None, UNCHANGED <<outbox, worker, store, closed>>,
         MainTrue(own, Ok(main'), main'), Follows(main, main'), NonePending(main, main'),
         main'.failed = main.failed, main'.waiting = Len(call) + 1, main'.queue # <<>>,
         Head(main'.queue).kind = method,
         method = "stage" => arg.r \in 1 .. Len(main'.req) /\ Head(main'.queue).arg = arg.r,
         method = "commit" =>
           /\ main'.applying = arg /\ BatchTrue(own, Ok(main'), arg)
           /\ arg.batch \in DOMAIN main'.record => main'.record[arg.batch].status # "pending"
  PROVE  Kept(own)'
<1> DEFINE n == Len(call)
<1>1. /\ IsSequence(call) /\ n \in Nat /\ inbox \in Seq(Nat) /\ Len(inbox) \in Nat
      /\ Len(outbox) \in Nat
  BY SequenceFacts DEF CallsInv
<1>2. PICK c : c = NewCall(method, arg) OBVIOUS
<1>3. /\ c.method = method /\ c.arg = arg /\ c.exec = ACTIVE /\ c.due = FALSE /\ c.settled = FALSE
      /\ c.open = TRUE /\ c.done = FALSE
  BY <1>2 DEF NewCall
<1>4. Len(call') = n + 1 /\ call'[n + 1] = c /\ \A i \in 1 .. n : call'[i] = call[i]
  BY <1>1, <1>2, AppendSequence DEF Sends
<1>5. Len(inbox') = Len(inbox) + 1 BY <1>1, AppendProperties DEF Sends
<1>6. Begun' = Begun BY <1>1, <1>4, <1>5 DEF Begun
<1>7. ASSUME NEW i \in 1 .. n
      PROVE  CallGoes(i)
  BY NobodyWaits, <1>4, CallFields, CallStays, BatchesAssumption
<1>8. \A i \in 1 .. Len(call') : i > n => i = n + 1 BY <1>1, <1>4
<1>9. CallBegins(own, n + 1) BY <1>3, <1>4 DEF CallBegins
<1>10. ASSUME NEW k \in 1 .. Len(outbox)
       PROVE  MessageGoes(k)
 <2>1. outbox[k].id \in 1 .. n
  <3>1. outbox[k].id \in 1 .. Len(call) - Len(inbox)
    BY DEF CallsInv, OutboxTrue, MessageTrue, Begun
  <3> QED BY <1>1, <3>1
 <2> QED BY <1>4, <2>1 DEF MessageGoes
<1>11. MainGoes(own) BY <1>1, <1>4, <1>8, <1>9, <1>6, <1>7, <1>10 DEF MainGoes, Kept
<1>12. Waiting' BY <1>1, <1>3, <1>4 DEF Waiting
<1>13. PendingKnown' BY <1>4, CallFields, <1>3, <1>8, <1>11, PendingStays
<1> QED BY <1>11, <1>12, <1>13, MainKept

\* The job of a request runs: it sends a stage, or refuses the request.
LEMMA StageJobAnswers ==
  ASSUME CallsInv, CallsInv', NEW own, Kept(own), StageJob
  PROVE  Kept(own)'
<1> DEFINE r == Head(main.queue).arg
<1>1. /\ MainTrue(own, Ok(main), main) /\ DOMAIN main = MainFields
      /\ main.queue # <<>> /\ main.waiting = None /\ Head(main.queue).kind = "stage"
      /\ UNCHANGED <<outbox, worker, store, closed>>
  BY DEF Kept, MainTrue, Shape, StageJob, Begins
<1>2. r \in 1 .. Len(main.req) BY <1>1, PopTrue DEF JobTrue
<1>3. CASE closed \/ main.failed \/ main.req[r].aborted
 <2>1. PICK a : a = Error("not-committed") OBVIOUS
 <2>2. a.error = "not-committed" /\ a.cancelled = None /\ a.error # None
   BY <2>1, BatchesAssumption DEF Error
 <2>3. PICK s : s = StageEnds(main, r, a) OBVIOUS
 <2>4. s = Answered(Pop(main), r, "failed") BY <2>2, <2>3 DEF StageEnds
 <2>5. main' = s /\ UNCHANGED <<call, inbox>> BY <1>3, <2>4 DEF StageJob
 <2>6. StageAnswer(own, Ok(main), r, a) BY <2>2 DEF StageAnswer
 <2>7. /\ MainTrue(own, Ok(s), s) /\ Follows(main, s) /\ s.waiting = None /\ s.failed = main.failed
       /\ NonePending(main, s)
   BY <1>1, <2>2, <2>3, <2>6, StageEndsTrue
 <2> QED BY <1>1, <2>5, <2>7, JobEnds
<1>4. CASE ~(closed \/ main.failed \/ main.req[r].aborted)
 <2>1. PICK arg : arg = [r |-> r, version |-> VersionOf(r)] OBVIOUS
 <2>2. Sends("stage", arg) /\ main' = [main EXCEPT !.waiting = Len(call) + 1]
   BY <1>4, <2>1 DEF StageJob
 <2>3. arg.r = r BY <2>1
 <2> HIDE DEF r
 <2>4. PICK d : d = main' OBVIOUS
 <2>5. /\ DOMAIN d = MainFields /\ d.req = main.req /\ d.queue = main.queue /\ d.record = main.record
       /\ d.pending = main.pending /\ d.waiting = Len(call) + 1 /\ d.failed = main.failed
   BY <1>1, <2>2, <2>4 DEF MainFields
 <2>6. MainTrue(own, Ok(main), d) /\ Ok(d) = Ok(main) BY <1>1, <2>5, SameMind DEF MainTrue
 <2>7. Follows(main, d) /\ NonePending(main, d) BY <1>1, <2>5, <2>6, OwnStep
 <2>8. arg.r \in 1 .. Len(d.req) /\ Head(d.queue).arg = arg.r BY <1>2, <2>3, <2>5 DEF r
 <2> QED BY <1>1, <2>2, <2>4, <2>5, <2>6, <2>7, <2>8, SendKept
<1> QED BY <1>3, <1>4

\* The job of a commit runs: it sends the commit of the pending batch, if it is still that.
LEMMA CommitJobAnswers ==
  ASSUME CallsInv, CallsInv', NEW own, Kept(own), CommitJob
  PROVE  Kept(own)'
<1> DEFINE b == main.pending
           begun == [Recorded(main, b, "applying", None) EXCEPT !.pending = None, !.applying = b]
           stale == closed \/ b = None \/ (b # None /\ b.gen # Head(main.queue).arg)
<1>1. /\ MainTrue(own, Ok(main), main) /\ DOMAIN main = MainFields
      /\ main.queue # <<>> /\ main.waiting = None /\ Head(main.queue).kind = "commit"
      /\ UNCHANGED <<outbox, worker, store, closed>>
  BY DEF Kept, MainTrue, Shape, CommitJob, Begins
<1>2. CASE stale
 <2>1. PICK p : p = Pop(main) OBVIOUS
 <2>2. /\ MainTrue(own, Ok(p), p) /\ Ok(p) = Ok(main)
       /\ DOMAIN p = MainFields /\ p.waiting = None /\ p.failed = main.failed
       /\ p.req = main.req /\ p.record = main.record /\ p.pending = main.pending
   BY <1>1, <2>1, PopFollows
 <2>3. PICK d : d = [p EXCEPT !.running = None] OBVIOUS
 <2>4. /\ DOMAIN d = MainFields /\ d.req = p.req /\ d.queue = p.queue /\ d.record = p.record
       /\ d.pending = p.pending /\ d.waiting = None /\ d.failed = main.failed
   BY <2>2, <2>3 DEF MainFields
 <2>5. MainTrue(own, Ok(p), d) /\ Ok(d) = Ok(p) BY <2>2, <2>4, SameMind DEF MainTrue
 <2>6. Ok(d) = Ok(main) /\ d.req = main.req /\ d.record = main.record BY <2>2, <2>4, <2>5
 <2>7. Follows(main, d) /\ NonePending(main, d) BY <1>1, <2>6, OwnStep
 <2>8. main' = d /\ UNCHANGED <<call, inbox>> BY <1>2, <2>1, <2>3 DEF CommitJob
 <2> QED BY <1>1, <2>2, <2>4, <2>5, <2>7, <2>8, JobEnds
\* The batch that the scheduler has in mind is begun.
<1>3. ASSUME ~stale
      PROVE  \E e : /\ e = begun /\ DOMAIN e = MainFields
                    /\ MainTrue(own, Ok(e), e) /\ Ok(e) = Ok(main) /\ e.req = main.req
                    /\ e.queue = main.queue /\ e.waiting = None /\ e.failed = main.failed
                    /\ e.applying = b /\ Follows(main, e) /\ NonePending(main, e)
                    /\ BatchTrue(own, Ok(e), b) /\ e.record[b.batch].status # "pending"
 <2>1. BatchTrue(own, Ok(main), b) BY <1>1, <1>3 DEF MainTrue
 <2>2. PICK x : x = Recorded(main, b, "applying", None) OBVIOUS
 <2>3. /\ b.batch \in 1 .. store.gen /\ b.reqs \subseteq Ok(main) /\ Of(own, b.batch, b.reqs)
       /\ None # "committed"
   BY <2>1, BatchesAssumption DEF BatchTrue
 <2>4. /\ MainTrue(own, Ok(main), x) /\ Ok(x) = Ok(main)
       /\ DOMAIN x = MainFields /\ x.req = main.req /\ x.queue = main.queue /\ x.waiting = main.waiting
       /\ x.failed = main.failed /\ DOMAIN x.record = DOMAIN main.record \cup {b.batch}
       /\ \A k \in DOMAIN x.record :
            x.record[k].status = IF k = b.batch THEN "applying" ELSE main.record[k].status
   BY <1>1, <2>2, <2>3, RecordedTrue
 <2>5. PICK e : e = [x EXCEPT !.pending = None, !.applying = b] OBVIOUS
 <2>6. /\ DOMAIN e = MainFields /\ e.req = x.req /\ e.queue = x.queue /\ e.record = x.record
       /\ e.pending = None /\ e.applying = b /\ e.waiting = x.waiting /\ e.failed = x.failed
   BY <2>4, <2>5 DEF MainFields
 <2>7. MainTrue(own, Ok(main), e) /\ Ok(e) = Ok(x) BY <2>6, <2>4, SameMind DEF Ok
 <2>8. Len(main.req) \in Nat BY <1>1, SequenceFacts DEF MainTrue, Shape
 <2>9. Follows(main, e) /\ NonePending(main, e) BY <2>4, <2>6, <2>7, <2>8 DEF Follows, NonePending
 <2>10. e = begun BY <2>2, <2>5
 <2> HIDE DEF begun
 <2>11. e.record[b.batch].status # "pending" BY <2>4, <2>6
 <2> QED BY <1>1, <2>1, <2>4, <2>6, <2>7, <2>9, <2>10, <2>11
<1>4. ASSUME ~stale, main.failed
      PROVE  Kept(own)'
 <2>1. PICK e : /\ e = begun /\ DOMAIN e = MainFields
                /\ MainTrue(own, Ok(e), e) /\ Ok(e) = Ok(main) /\ e.req = main.req
                /\ e.queue = main.queue /\ e.waiting = None /\ e.failed = main.failed
                /\ e.applying = b /\ Follows(main, e) /\ NonePending(main, e)
                /\ BatchTrue(own, Ok(e), b)
   BY <1>3, <1>4
 <2>2. PICK a : a = Error("not-committed") OBVIOUS
 <2>3. a.error = "not-committed" /\ a.error # None BY <2>2, BatchesAssumption DEF Error
 <2>4. PICK s : s = CommitEnds(e, a) OBVIOUS
 <2>5. main' = s /\ UNCHANGED <<call, inbox>> BY <1>4, <2>1, <2>2, <2>4 DEF CommitJob
 <2> HIDE DEF begun
 <2>6. LateTrue(own, Ok(e), e.applying, IF a.error = None THEN "committed" ELSE a.error)
   BY <2>1, <2>3 DEF LateTrue
 <2>7. /\ MainTrue(own, Ok(s), s) /\ Follows(e, s) /\ s.waiting = None /\ s.failed = e.failed
       /\ NonePending(e, s)
   BY <1>1, <2>1, <2>3, <2>4, <2>6, CommitEndsFollows
 <2>8. Follows(main, s) /\ NonePending(main, s) BY <2>1, <2>7 DEF Follows, NonePending
 <2> QED BY <1>1, <2>1, <2>5, <2>7, <2>8, JobEnds
<1>5. ASSUME ~stale, ~main.failed
      PROVE  Kept(own)'
 <2>1. PICK e : /\ e = begun /\ DOMAIN e = MainFields
                /\ MainTrue(own, Ok(e), e) /\ Ok(e) = Ok(main) /\ e.req = main.req
                /\ e.queue = main.queue /\ e.waiting = None /\ e.failed = main.failed
                /\ e.applying = b /\ Follows(main, e) /\ NonePending(main, e)
                /\ BatchTrue(own, Ok(e), b) /\ e.record[b.batch].status # "pending"
   BY <1>3, <1>5
 <2>2. Sends("commit", b) /\ main' = [e EXCEPT !.waiting = Len(call) + 1]
   BY <1>5, <2>1 DEF CommitJob
 <2> HIDE DEF begun
 <2>3. PICK d : d = main' OBVIOUS
 <2>4. /\ DOMAIN d = MainFields /\ d.req = e.req /\ d.queue = e.queue /\ d.record = e.record
       /\ d.pending = e.pending /\ d.waiting = Len(call) + 1 /\ d.failed = e.failed
       /\ d.applying = e.applying
   BY <2>1, <2>2, <2>3 DEF MainFields
 <2>5. MainTrue(own, Ok(e), d) /\ Ok(d) = Ok(e) BY <2>1, <2>4, SameMind DEF MainTrue
 <2>6. Follows(main, d) /\ NonePending(main, d) BY <2>1, <2>4, <2>5 DEF Follows, NonePending
 <2>7. BatchTrue(own, Ok(d), b) /\ d.applying = b /\ d.record[b.batch].status # "pending"
       /\ d.queue # <<>> /\ Head(d.queue).kind = "commit"
   BY <1>1, <2>1, <2>4, <2>5
 <2> QED BY <1>1, <2>1, <2>2, <2>3, <2>4, <2>5, <2>6, <2>7, SendKept
<1> QED BY <1>2, <1>4, <1>5

\* A stage that the worker has yet to end was begun by nobody who decides.
LEMMA UnfinishedStage ==
  ASSUME CallsInv, NEW i \in 1 .. Len(call), Unfinished(i), call[i].method = "stage"
  PROVE  Unbegun(call[i])
<1>1. CASE i > Begun BY <1>1 DEF CallsInv, InOrder
<1>2. CASE i = Begun /\ worker \notin {NoWork, Dead} BY <1>2 DEF CallsInv, AtWork
<1> QED BY <1>1, <1>2 DEF Unfinished

\* A deadline passes.
LEMMA DueAnswers ==
  ASSUME CallsInv, CallsInv', NEW own, Kept(own), NEW i \in DOMAIN call, Due(i)
  PROVE  Kept(own)'
<1> DEFINE d == [call[i] EXCEPT !.due = TRUE]
<1>1. /\ IsSequence(call) /\ Len(call) \in Nat /\ DOMAIN call = 1 .. Len(call)
  BY SequenceFacts DEF CallsInv
<1>2. call' = [call EXCEPT ![i] = d] BY DEF Due
<1>3. /\ CallTrue(call[i]) /\ DOMAIN call[i] = Fields
      /\ call[i].settled \in BOOLEAN /\ call[i].open \in BOOLEAN /\ call[i].due \in BOOLEAN
  BY <1>1, CallFields
<1>4. /\ d.method = call[i].method /\ d.arg = call[i].arg /\ d.done = call[i].done
      /\ d.settled = call[i].settled /\ d.open = call[i].open /\ d.due = TRUE /\ d.exec = call[i].exec
  BY <1>3 DEF Fields
<1> HIDE DEF d
<1>5. Len(call') = Len(call) BY <1>2, <1>1, MappedSequence
<1>6. \A k \in 1 .. Len(call) : call'[k] = IF k = i THEN d ELSE call[k] BY <1>1, <1>2
<1>7. UNCHANGED <<main, inbox, outbox, worker, store, closed>> BY DEF Due
<1>8. ASSUME NEW k \in 1 .. Len(call)
      PROVE  CallGoes(k)
 <2>1. CASE k = i
  <3>1. call[i].method = "reject" /\ ~call[i].settled => call[i].open
    BY <1>1, <1>3 DEF Kept, Linked, Rejection
  <3>2. call'[i] = d /\ main' = main /\ Len(call') = Len(call) BY <1>1, <1>5, <1>6, <1>7
  <3> QED BY <1>3, <1>4, <2>1, <3>1, <3>2 DEF CallGoes
 <2>2. CASE k # i BY <1>5, <1>6, <1>7, <2>2, CallStays
 <2> QED BY <2>1, <2>2
<1>9. \A k \in 1 .. Len(call) : /\ call'[k].open = call[k].open /\ call'[k].settled = call[k].settled
                                /\ call'[k].method = call[k].method /\ call'[k].arg = call[k].arg
  BY <1>4, <1>6
<1>10. ASSUME NEW k \in 1 .. Len(outbox)
       PROVE  MessageGoes(k)
 <2>1. outbox[k].id \in 1 .. Len(call)
   BY <1>1, SequenceFacts DEF CallsInv, OutboxTrue, MessageTrue, Begun
 <2> QED BY <1>9, <2>1 DEF MessageGoes
<1>11. Begun' = Begun BY <1>5, <1>7 DEF Begun
<1>12. Follows(main, main) /\ NonePending(main, main) BY OwnStep DEF Kept
<1>13. MainTrue(own, Ok(main'), main') BY <1>7 DEF Kept
<1>14. MainGoes(own) BY <1>1, <1>5, <1>7, <1>8, <1>10, <1>11, <1>12, <1>13 DEF MainGoes, Kept
<1>15. Waiting' BY <1>1, <1>5, <1>7, <1>9 DEF Kept, Waiting
<1>16. PendingKnown'
 <2>1. \A k \in 1 .. Len(call) : call[k].open => call'[k].open = TRUE BY <1>9, CallFields
 <2>2. \A k \in 1 .. Len(call') : k > Len(call) => call'[k].method # "reject" BY <1>1, <1>5
 <2>3. outbox' = outbox BY <1>7
 <2> QED BY <1>7, <1>14, <2>1, <2>2, <2>3, PendingStays
<1> QED BY <1>14, <1>15, <1>16, MainKept

\* Call i is given up, and answered if that can be done; m is what the main
\* thread has in mind then.
LEMMA CancelAnswers ==
  ASSUME CallsInv, CallsInv', NEW own, Kept(own), NEW i \in DOMAIN call, NEW expired \in BOOLEAN,
         NEW m, MainTrue(own, Ok(m), m), Follows(main, m), m.record = main.record,
         m.queue = main.queue, m.waiting = main.waiting, m.applying = main.applying,
         m.failed = main.failed, Ok(m) = Ok(main), Cancels(i, expired, m), Open(i),
         UNCHANGED <<inbox, outbox, worker, store, closed>>
  PROVE  Kept(own)'
<1> DEFINE c == call[i]
           n == Len(call)
<1>1. /\ IsSequence(call) /\ n \in Nat /\ DOMAIN call = 1 .. n /\ Waiting
  BY SequenceFacts DEF CallsInv, Kept
<1>2. /\ CallTrue(c) /\ DOMAIN c = Fields /\ c.method \in {"stage", "commit", "reject"}
      /\ (c.settled \in BOOLEAN) /\ (c.open \in BOOLEAN) /\ (c.due \in BOOLEAN)
  BY <1>1, CallFields
<1>3. PICK answer : answer = CancelAnswer(c) OBVIOUS
<1>4. NonePending(main, m) BY DEF NonePending
<1>5. CASE answer = None BY <1>3, <1>5, <1>1, <1>4, CallsAlone DEF Cancels, Waiting
<1>6. CASE answer # None
 <2>1. PICK d : d = [CancelTo(c, expired) EXCEPT !.settled = TRUE, !.told = answer] OBVIOUS
 <2>2. PICK a : a = Error(answer) OBVIOUS
 <2>3. PICK p : p = Settles(i) OBVIOUS
 <2>4. a.error = answer /\ a.cancelled = None BY <2>2 DEF Error
 <2>5. /\ d.method = c.method /\ d.arg = c.arg /\ d.done = c.done /\ d.settled = TRUE
       /\ d.open = c.open /\ d.due = c.due
       /\ d.exec = c.exec \/ d.exec \in {CANCELLED, EXPIRED}
       /\ c.exec \in {ACTIVE, CANCELLED, EXPIRED} => d.exec \in {CANCELLED, EXPIRED}
   BY <1>2, <2>1 DEF CancelTo, Fields, ACTIVE, CANCELLED, EXPIRED
 <2>6. c.open /\ ~c.settled /\ i \in 1 .. n /\ i # None /\ Linked(own, i)
   BY <1>1, <1>2, BatchesAssumption DEF Open, Kept
 \* The job waits for the call, or for the stage that it takes back.
 <2>7. /\ main.waiting = p /\ p \in 1 .. n
       /\ c.method # "reject" => p = i
       /\ c.method = "reject" => p = i - 1 /\ call[p].method = "stage" /\ ~Unfinished(p)
  <3>1. CASE c.method = "reject" BY <2>3, <2>6, <3>1 DEF Linked, Rejection, Settles
  <3>2. CASE c.method # "reject" BY <2>3, <2>6, <3>2 DEF Linked, Settles
  <3> QED BY <3>1, <3>2
 <2>8. /\ main.queue # <<>> /\ Head(main.queue).kind = call[p].method /\ i = n
       /\ call[p].method \in {"stage", "commit"}
       /\ call[p].method = "stage" => Head(main.queue).arg = call[p].arg.r
       /\ call[p].method = "commit" => main.applying = c.arg /\ p = i
       /\ p # i => ~call[p].open
  <3>1. main.waiting # None /\ p \in Nat BY <2>7, BatchesAssumption
  <3>2. CASE c.method = "reject" BY <1>1, <2>6, <2>7, <3>1, <3>2 DEF Waiting, Linked, Rejection
  <3>3. CASE c.method # "reject" BY <1>1, <2>6, <2>7, <3>1, <3>3 DEF Waiting
  <3> QED BY <3>2, <3>3
 <2>9. PICK e : e = [call[p] EXCEPT !.settled = TRUE] OBVIOUS
 <2>10. /\ e.method = call[p].method /\ e.arg = call[p].arg /\ e.done = call[p].done
        /\ e.settled = TRUE /\ e.open = call[p].open /\ e.due = call[p].due
        /\ e.exec = call[p].exec
   BY <2>7, <2>9, CallFields DEF Fields
 <2>11. PICK f : f = [call EXCEPT ![p] = e] OBVIOUS
 <2>12. IsSequence(f) /\ Len(f) = n /\ \A k \in 1 .. n : f[k] = IF k = p THEN e ELSE call[k]
   BY <1>1, <2>7, <2>11, MappedSequence
 <2>13. call' = [f EXCEPT ![i] = d] /\ main' = Settle(m, p, a)
   BY <1>3, <1>6, <2>1, <2>2, <2>3, <2>9, <2>11 DEF Cancels
 <2>14. /\ Len(call') = n
        /\ \A k \in 1 .. n : call'[k] = IF k = i THEN d ELSE IF k = p THEN e ELSE call[k]
  <3>1. DOMAIN f = 1 .. n BY <2>12, SequenceFacts
  <3> QED BY <2>6, <2>12, <2>13, <3>1, MappedSequence
 <2>15. EndTrue(own, m, a)
  <3>1. CASE call[p].method = "stage" BY <1>6, <2>4, <2>8, <3>1 DEF StageAnswer, EndTrue
  <3>2. CASE call[p].method = "commit"
   <4>1. Commit(own, i) BY <2>6, <2>8, <3>2 DEF Linked
   <4>2. answer = "committed" => c.done BY <1>2, <1>3, <2>8, <3>2, BatchesAssumption DEF CallTrue,
     CancelAnswer, COMMITTING, FINISHED, FINISHED_LATE, FINISHED_COMMITTED
   <4>3. LateTrue(own, Ok(m), c.arg, answer) BY <4>1, <4>2 DEF Commit, LateTrue
   <4> QED BY <1>6, <2>4, <2>8, <3>2, <4>3 DEF EndTrue
  <3> QED BY <2>8, <3>1, <3>2
 <2>16. PICK s : s = Settle(m, p, a) OBVIOUS
 <2>17. /\ MainTrue(own, Ok(s), s) /\ Follows(m, s) /\ s.failed = m.failed
        /\ s.waiting = None /\ NonePending(m, s)
        /\ call[p].method = "stage" => s.req[call[p].arg.r].answer # None
   BY <1>6, <2>4, <2>7, <2>8, <2>15, <2>16, SettleTrue
 <2>18. Follows(main, s) /\ NonePending(main, s)
   BY <2>17, SequenceFacts DEF Kept, MainTrue, Shape, Follows, NonePending
 <2>19. main' = s BY <2>13, <2>16
 <2>20. ASSUME NEW k \in 1 .. n
        PROVE  CallGoes(k)
  <3>1. CASE k = i
   <4>1. c.method = "stage" /\ Unfinished(i) => d.exec \in {CANCELLED, EXPIRED}
     BY <2>5, <2>6, UnfinishedStage DEF Unbegun
   <4>2. c.method = "reject" => call'[i - 1].settled BY <2>5, <2>7, <2>10, <2>14
   <4>3. c.method = "stage" => s.req[c.arg.r].answer # None BY <2>7, <2>17
   <4>4. call'[i] = d BY <2>6, <2>14
   <4> HIDE DEF c
   <4> QED BY <1>2, <2>5, <2>6, <2>19, <3>1, <4>1, <4>2, <4>3, <4>4 DEF CallGoes, c
  <3>2. CASE k = p /\ k # i
   <4>1. call[p].method = "stage" /\ ~Unfinished(p) /\ call'[p] = e BY <2>7, <2>14, <3>2
   <4>2. call[p].open \in BOOLEAN /\ call[p].due \in BOOLEAN BY <2>7, CallFields
   <4> QED BY <2>10, <2>17, <2>19, <3>2, <4>1, <4>2 DEF CallGoes
  <3>3. CASE k # i /\ k # p
   <4>1. call'[k] = call[k] /\ Len(call') = Len(call) /\ main.waiting # k BY <2>7, <2>14, <3>3
   <4>2. Linked(own, k) BY DEF Kept
   <4>3. call[k].method = "reject" => call[k].settled BY <2>8, <3>3, <4>2 DEF Linked, Rejection
   <4>4. call[k].method # "reject" => call[k].settled \/ ~call[k].open BY <4>1, <4>2 DEF Linked
   <4> QED BY <4>1, <4>3, <4>4, CallStays
  <3> QED BY <3>1, <3>2, <3>3
 <2>21. ASSUME NEW k \in 1 .. Len(outbox)
        PROVE  MessageGoes(k)
  <3> DEFINE id == outbox[k].id
  <3>1. id \in 1 .. n /\ MessageTrue(outbox[k]) /\ MessageFits(own, outbox[k])
    BY <1>1 DEF CallsInv, OutboxTrue, MessageTrue, Begun, Kept, MessagesFit
  <3>2. CASE id # i /\ id # p BY <2>14, <3>1, <3>2 DEF MessageGoes
  <3>3. CASE id # i /\ id = p BY <2>8, <3>1, <3>3 DEF MessageFits
  \* An answer that is on its way is the one the caller gets.
  <3>4. CASE id = i
   <4>1. c.method = "stage" /\ outbox[k].answer.error = None => answer = None
     BY <3>1, <1>3, <3>4 DEF MessageTrue, CancelAnswer, COMMITTING, FINISHED, FINISHED_LATE,
       FINISHED_COMMITTED
   <4> QED BY <1>6, <2>5, <2>14, <3>1, <3>4, <4>1 DEF MessageGoes
  <3> QED BY <3>2, <3>3, <3>4
 <2>22. Begun' = Begun BY <2>14 DEF Begun
 <2>23. MainGoes(own) BY <1>1, <2>14, <2>17, <2>18, <2>19, <2>20, <2>21, <2>22 DEF MainGoes, Kept
 <2>24. Waiting' BY <2>17, <2>19 DEF Waiting
 <2>25. PendingKnown'
  <3>1. \A k \in 1 .. n : call[k].open => call'[k].open = TRUE BY <2>5, <2>10, <2>14, CallFields
  <3>2. \A k \in 1 .. Len(call') : k > n => call'[k].method # "reject" BY <1>1, <2>14
  <3>3. outbox' = outbox OBVIOUS
  <3> QED BY <2>23, <3>1, <3>2, <3>3, PendingStays
 <2> QED BY <2>23, <2>24, <2>25, MainKept
<1> QED BY <1>5, <1>6

\* The timer of a call fires.
LEMMA TimeOutAnswers ==
  ASSUME CallsInv, CallsInv', NEW own, Kept(own), NEW i \in DOMAIN call, TimeOut(i)
  PROVE  Kept(own)'
<1>1. MainTrue(own, Ok(main), main) /\ Follows(main, main) BY OwnStep DEF Kept
<1>2. PICK m : m = main OBVIOUS
<1>3. /\ Cancels(i, TRUE, m) /\ Open(i) /\ UNCHANGED <<inbox, outbox, worker, store, closed>>
  BY <1>2 DEF TimeOut
<1> QED BY <1>1, <1>2, <1>3, CancelAnswers

\* Being aborted changes nothing that the main thread has concluded.
LEMMA AbortedTrue ==
  ASSUME NEW own, NEW m, MainTrue(own, Ok(m), m), NEW r \in 1 .. Len(m.req),
         NEW d, d = [m EXCEPT !.req[r].aborted = TRUE]
  PROVE  /\ MainTrue(own, Ok(d), d) /\ Ok(d) = Ok(m) /\ Follows(m, d) /\ NonePending(m, d)
         /\ d.queue = m.queue /\ d.waiting = m.waiting /\ d.applying = m.applying
         /\ d.record = m.record /\ d.failed = m.failed
<1> DEFINE q == [m.req[r] EXCEPT !.aborted = TRUE]
<1>1. /\ DOMAIN m = MainFields /\ IsSequence(m.req)
      /\ \A k \in 1 .. Len(m.req) : DOMAIN m.req[k] = RequestFields
  BY DEF MainTrue, Shape
<1>2. DOMAIN m.req = 1 .. Len(m.req) /\ Len(m.req) \in Nat BY <1>1, SequenceFacts
<1>3. PICK f : f = [m.req EXCEPT ![r] = q] OBVIOUS
<1>4. /\ DOMAIN d = MainFields /\ d.req = f
      /\ d.queue = m.queue /\ d.waiting = m.waiting /\ d.pending = m.pending
      /\ d.record = m.record /\ d.failed = m.failed /\ d.applying = m.applying
  BY <1>1, <1>3 DEF MainFields
<1>5. DOMAIN q = RequestFields /\ q.answer = m.req[r].answer BY <1>1 DEF RequestFields
<1> HIDE DEF q
<1>6. IsSequence(f) /\ Len(f) = Len(m.req) BY <1>3, <1>1, MappedSequence
<1>7. \A k \in 1 .. Len(m.req) : DOMAIN f[k] = RequestFields /\ f[k].answer = m.req[k].answer
  BY <1>1, <1>2, <1>3, <1>5
<1>8. Ok(d) = Ok(m) BY <1>4, <1>6, <1>7 DEF Ok
<1>9. Shape(d) BY <1>1, <1>4, <1>6, <1>7 DEF MainTrue, Shape
<1>10. QueueTrue(own, Ok(m), d)
 <2>1. ASSUME NEW j \in 1 .. Len(m.queue)
       PROVE  JobTrue(own, Ok(m), d, m.queue[j])
  <3>1. JobTrue(own, Ok(m), m, m.queue[j]) BY DEF MainTrue, QueueTrue
  <3>2. PICK k : k = m.queue[j].arg OBVIOUS
  <3>3. m.queue[j].kind = "stage" => k \in 1 .. Len(d.req) /\ d.req[k].answer = None
    BY <1>4, <1>6, <1>7, <3>1, <3>2 DEF JobTrue
  <3> QED BY <3>1, <3>2, <3>3 DEF JobTrue
 <2> QED BY <1>4, <2>1 DEF MainTrue, QueueTrue
<1>11. MainTrue(own, Ok(d), d) BY <1>4, <1>8, <1>9, <1>10 DEF MainTrue, RecordsKept
<1>12. Follows(m, d) /\ NonePending(m, d) BY <1>2, <1>4, <1>6, <1>8 DEF Follows, NonePending
<1> QED BY <1>4, <1>8, <1>11, <1>12

\* The client of a request goes away.
LEMMA AbortAnswers ==
  ASSUME CallsInv, CallsInv', NEW own, Kept(own), NEW r \in DOMAIN main.req, Abort(r)
  PROVE  Kept(own)'
<1>1. MainTrue(own, Ok(main), main) /\ r \in 1 .. Len(main.req) /\ Waiting
  BY SequenceFacts DEF Kept, MainTrue, Shape
<1>2. PICK m : m = [main EXCEPT !.req[r].aborted = TRUE] OBVIOUS
<1>3. /\ MainTrue(own, Ok(m), m) /\ Ok(m) = Ok(main) /\ Follows(main, m) /\ NonePending(main, m)
      /\ m.queue = main.queue /\ m.waiting = main.waiting /\ m.applying = main.applying
      /\ m.record = main.record /\ m.failed = main.failed
  BY <1>1, <1>2, AbortedTrue
<1>4. UNCHANGED <<inbox, outbox, worker, store, closed>> BY DEF Abort
<1>5. CASE main' = m /\ call' = call BY <1>1, <1>3, <1>4, <1>5, CallsAlone, Zenon DEF Waiting
<1>6. ASSUME NEW i \in DOMAIN call, Open(i), call[i].method = "stage", Cancels(i, FALSE, m)
      PROVE  Kept(own)'
  BY <1>3, <1>4, <1>6, CancelAnswers, Zenon
<1> QED BY <1>2, <1>5, <1>6 DEF Abort

\* What is known of the message that is read next.
LEMMA HeadFacts ==
  ASSUME CallsInv, NEW own, Kept(own), outbox # <<>>, NEW m, m = Head(outbox)
  PROVE  /\ MessageFits(own, m) /\ MessageTrue(m) /\ m.id \in 1 .. Len(call)
         /\ ~Unfinished(m.id) /\ ~main.failed
         /\ \A k \in 2 .. Len(outbox) : outbox[k].id # m.id /\ outbox[k].id \in 1 .. Len(call)
         /\ \E k \in 1 .. Len(outbox) : outbox[k] = m
         /\ Len(outbox') = Len(outbox) - 1 \/ outbox' # Tail(outbox)
         /\ outbox' = Tail(outbox) => \A k \in 1 .. Len(outbox') : outbox'[k] = outbox[k + 1]
<1> DEFINE l == Len(outbox)
<1>1. IsSequence(outbox) /\ l \in Nat /\ Len(call) \in Nat /\ Len(inbox) \in Nat
  BY SequenceFacts DEF CallsInv
<1>2. /\ m = outbox[1] /\ l > 0 /\ 1 \in 1 .. l
      /\ Len(Tail(outbox)) = l - 1 /\ \A k \in 1 .. l - 1 : Tail(outbox)[k] = outbox[k + 1]
  BY <1>1, TailSequence
<1>3. \A k \in 1 .. l : MessageTrue(outbox[k]) /\ MessageFits(own, outbox[k])
  BY DEF CallsInv, OutboxTrue, Kept, MessagesFit
<1>4. \A k \in 1 .. l : outbox[k].id \in 1 .. Len(call) BY <1>3, <1>1 DEF MessageTrue, Begun
<1>5. ASSUME NEW k \in 2 .. l
      PROVE  outbox[k].id # m.id
  BY <1>1, <1>2 DEF Kept, MessagesFit
<1>6. ~Unfinished(m.id) BY <1>2, <1>3, <1>1 DEF MessageTrue, Begun, Unfinished
<1>7. ~main.failed BY DEF Kept
<1>8. \A k \in 2 .. l : k \in 1 .. l BY <1>1
<1> QED BY <1>1, <1>2, <1>3, <1>4, <1>5, <1>6, <1>7, <1>8, Zenon

\* Reading a message does not help a call in which the worker died.
LEMMA StuckStays ==
  ASSUME CallsInv, NEW own, Kept(own), outbox # <<>>, outbox' = Tail(outbox), worker' = worker,
         Begun' = Begun, Len(call) <= Len(call'), Len(call') \in Nat, Stuck,
         \A k \in 1 .. Len(call) : k # Head(outbox).id => call'[k].open = call[k].open
  PROVE  Stuck'
<1>1. PICK m : m = Head(outbox) OBVIOUS
<1>2. /\ Len(outbox') = Len(outbox) - 1 /\ Len(outbox) \in Nat /\ Len(call) \in Nat
      /\ \A k \in 1 .. Len(outbox') : outbox'[k] = outbox[k + 1]
      /\ \E k \in 1 .. Len(outbox) : outbox[k] = m
  BY <1>1, HeadFacts, SequenceFacts DEF CallsInv
<1>3. m.id # Begun BY <1>2 DEF Stuck
<1>4. call'[Begun].open = call[Begun].open BY <1>1, <1>3 DEF Stuck
<1>5. ASSUME NEW k \in 1 .. Len(outbox')
      PROVE  outbox'[k].id # Begun
  BY <1>2 DEF Stuck
<1>6. Begun \in 1 .. Len(call') BY <1>2 DEF Stuck
<1> QED BY <1>4, <1>5, <1>6 DEF Stuck

\* A stage that was taken back has ended.
RejectionEnds(i) ==
    /\ call' = [call EXCEPT ![i].open = FALSE, ![i].settled = TRUE, ![call[i].arg.i].settled = TRUE]
    /\ main' = Settle(main, call[i].arg.i, Error("not-committed"))
    /\ UNCHANGED <<inbox, worker, store, closed>>

EndedAt(i, p, k) ==
    /\ call'[k].method = call[k].method /\ call'[k].arg = call[k].arg
    /\ call'[k].done = call[k].done /\ call'[k].exec = call[k].exec
    /\ call'[k].due = call[k].due
    /\ call'[k].open = (IF k = i THEN FALSE ELSE call[k].open)
    /\ call'[k].settled = (IF k \in {i, p} THEN TRUE ELSE call[k].settled)
    /\ k \notin {i, p} => call'[k] = call[k]

\* It ends, and so does its rejection.
LEMMA RejectionFields ==
  ASSUME CallsInv, NEW own, Kept(own), NEW i \in 1 .. Len(call), NEW p \in 1 .. Len(call),
         call[i].arg.i = p, p # i, RejectionEnds(i)
  PROVE  Len(call') = Len(call) /\ \A k \in 1 .. Len(call) : EndedAt(i, p, k)
<1>1. IsSequence(call) /\ DOMAIN call = 1 .. Len(call) BY SequenceFacts DEF CallsInv
<1>2. \A k \in 1 .. Len(call) : DOMAIN call[k] = Fields BY CallFields
<1>3. Len(call') = Len(call)
 <2>1. call' = [k \in DOMAIN call |-> call'[k]] BY Zenon DEF RejectionEnds
 <2> QED BY <1>1, <2>1, MappedSequence, Zenon
<1>4. ASSUME NEW k \in 1 .. Len(call)
      PROVE  EndedAt(i, p, k)
  BY <1>1, <1>2 DEF RejectionEnds, Fields, EndedAt
<1> QED BY <1>3, <1>4

\* The answer of a rejection is read: the stage it takes back ends with an error.
LEMMA RejectionRead ==
  ASSUME CallsInv, CallsInv', NEW own, Kept(own), outbox # <<>>, outbox' = Tail(outbox),
         NEW i, i = Head(outbox).id, call[i].method = "reject", ~call[i].settled, RejectionEnds(i)
  PROVE  Kept(own)'
<1> DEFINE n == Len(call)
<1>0. PICK p : p = i - 1 OBVIOUS
<1>1. PICK m : m = Head(outbox) OBVIOUS
<1>2. /\ MessageFits(own, m) /\ i \in 1 .. n /\ ~Unfinished(i) /\ ~main.failed
      /\ \A k \in 2 .. Len(outbox) : outbox[k].id # i /\ outbox[k].id \in 1 .. n
      /\ Len(outbox') = Len(outbox) - 1
      /\ \A k \in 1 .. Len(outbox') : outbox'[k] = outbox[k + 1]
  BY <1>1, HeadFacts
<1>3. n \in Nat /\ IsSequence(call) /\ DOMAIN call = 1 .. n /\ Len(inbox) \in Nat
      /\ Len(outbox) \in Nat
  BY SequenceFacts DEF CallsInv
<1>4. /\ ~call[i].settled /\ call[i].open /\ Linked(own, i) BY <1>1, <1>2 DEF MessageFits, Kept
<1>5. /\ i = n /\ main.waiting = p /\ p \in 1 .. n /\ call[i].arg.i = p /\ ~Unfinished(p) /\ p # i
      /\ call[p].method = "stage"
  BY <1>0, <1>2, <1>3, <1>4 DEF Linked, Rejection
<1>6. /\ Waiting /\ MainTrue(own, Ok(main), main) /\ p # None BY <1>5, BatchesAssumption DEF Kept
<1>7. /\ ~call[p].open /\ ~call[p].settled /\ main.queue # <<>> /\ Head(main.queue).kind = "stage"
      /\ Head(main.queue).arg = call[p].arg.r
  BY <1>5, <1>6, <1>3, Zenon DEF Waiting
<1>9. ASSUME NEW k \in 1 .. n
      PROVE  /\ call'[k].method = call[k].method /\ call'[k].arg = call[k].arg
             /\ call'[k].done = call[k].done /\ call'[k].exec = call[k].exec
             /\ call'[k].due = call[k].due
             /\ call'[k].open = (IF k = i THEN FALSE ELSE call[k].open)
             /\ call'[k].settled = (IF k \in {i, p} THEN TRUE ELSE call[k].settled)
             /\ k \notin {i, p} => call'[k] = call[k]
 <2>1. EndedAt(i, p, k) BY <1>2, <1>5, RejectionFields
 <2> QED BY <2>1 DEF EndedAt
<1>10. Len(call') = n BY <1>2, <1>5, RejectionFields
<1>11. PICK a : a = Error("not-committed") OBVIOUS
<1>12. a.error = "not-committed" /\ a.cancelled = None /\ a.error # None
  BY <1>11, BatchesAssumption DEF Error
<1>13. EndTrue(own, main, a) BY <1>12, <1>7 DEF StageAnswer, EndTrue
<1>14. PICK s : s = Settle(main, p, a) OBVIOUS
<1>15. /\ MainTrue(own, Ok(s), s) /\ Follows(main, s) /\ s.failed = main.failed
       /\ s.waiting = None /\ NonePending(main, s) /\ s.req[call[p].arg.r].answer # None
  BY <1>7, <1>13, <1>6, <1>14, SettleTrue, <1>5, <1>12
<1>16. main' = s /\ UNCHANGED <<inbox, worker, store, closed>>
  BY <1>5, <1>11, <1>14, Zenon DEF RejectionEnds
<1>17. Begun' = Begun /\ Begun \in Int BY <1>3, <1>10, <1>16 DEF Begun
<1>18. ASSUME NEW k \in 1 .. n
       PROVE  CallGoes(k)
 <2>1. /\ call[k].settled \in BOOLEAN /\ call[k].open \in BOOLEAN /\ call[k].due \in BOOLEAN
       /\ Linked(own, k)
   BY CallFields DEF Kept
 <2>2. CASE k \in {i, p}
  <3>1. call'[i - 1].settled = TRUE /\ main' = s BY <1>0, <1>5, <1>9, <1>16
  <3>2. CASE k = i
   <4>1. /\ call'[i].method = "reject" /\ call[i].method = "reject"
         /\ call'[i].settled = TRUE /\ call'[i].open = FALSE
     BY <1>2, <1>9
   <4> QED BY <1>2, <1>9, <2>1, <3>1, <3>2, <4>1 DEF CallGoes
  <3>3. CASE k = p
   <4>1. /\ call'[p].method = "stage" /\ call[p].method = "stage" /\ p # i
         /\ call'[p].settled = TRUE /\ call'[p].open = call[p].open
         /\ s.req[call[p].arg.r].answer # None
     BY <1>5, <1>9, <1>15
   <4> QED BY <1>5, <1>9, <2>1, <3>1, <3>3, <4>1 DEF CallGoes
  <3> QED BY <2>2, <3>2, <3>3
 <2>3. CASE k \notin {i, p} BY <1>5, <2>1, <2>3, <1>9, <1>10, CallStays DEF Linked, Rejection
 <2> QED BY <2>2, <2>3
\* No other answer is on its way that somebody waits for.
<1>19. ASSUME NEW k \in 2 .. Len(outbox)
       PROVE  MessageGoes(k)
 <2>1. outbox[k].id \in 1 .. n /\ outbox[k].id # i BY <1>2
 <2>2. k \in 1 .. Len(outbox) BY <1>3
 <2>3. MessageFits(own, outbox[k]) BY <2>2, Zenon DEF Kept, MessagesFit
 <2>4. outbox[k].id # p BY <1>7, <2>3, Zenon DEF MessageFits
 <2> QED BY <1>9, <2>1, <2>4 DEF MessageGoes
<1>20. MainGoes(own)
 <2>1. n <= Len(call') /\ \A k \in 1 .. Len(call') : ~(k > n) BY <1>3, <1>10
 <2>2. MainTrue(own, Ok(main'), main') /\ Follows(main, main') /\ NonePending(main, main')
       /\ main'.failed = FALSE
   BY <1>2, <1>15, <1>16 DEF Kept
 <2> QED BY <1>2, <1>16, <1>17, <1>18, <1>19, <2>1, <2>2, Zenon DEF MainGoes
<1>21. Waiting' BY <1>15, <1>16 DEF Waiting
<1>22. ~Limbo /\ ~Limbo'
 <2>1. Begun = n /\ worker \in {NoWork, Dead}
  <3>1. PICK b : b = Begun OBVIOUS
  <3>2. b \in Int /\ b <= n BY <1>3, <3>1 DEF Begun
  <3>3. ~(n > b) /\ ~(n = b /\ worker \notin {NoWork, Dead}) BY <1>2, <1>5, <3>1 DEF Unfinished
  <3>4. n = b
   <4>1. n \in Nat BY <1>3
   <4> HIDE DEF n
   <4> QED BY <3>2, <3>3, <4>1
  <3> QED BY <3>1, <3>3, <3>4
 <2>2. worker.at # "staged" /\ worker' = worker BY <1>16, <2>1 DEF NoWork, Dead
 <2>3. \A k \in 1 .. n : ~Unfinished(k) /\ ~Unfinished(k)'
  <3> TAKE k \in 1 .. n
  <3>1. ~(k > n) BY <1>3
  <3> QED BY <1>16, <1>17, <2>1, <3>1 DEF Unfinished
 <2>4. ASSUME NEW k \in 1 .. Len(outbox), outbox[k].id \in 1 .. n
       PROVE  ~(call[outbox[k].id].method = "stage" /\ outbox[k].answer.error = None)
   BY <2>4, <1>5, <1>7 DEF Kept, MessagesFit, MessageFits, Linked
 <2>5. \A k \in 1 .. Len(outbox) : outbox[k].id \in 1 .. n
   BY <2>1 DEF CallsInv, OutboxTrue, MessageTrue
 <2>6. ~Limbo BY <2>2, <2>3, <2>4, <2>5 DEF Limbo
 <2>7. ASSUME NEW k \in 1 .. Len(outbox')
       PROVE  ~(call'[outbox'[k].id].method = "stage" /\ outbox'[k].answer.error = None)
  <3>1. PICK j \in 1 .. Len(outbox) : outbox'[k] = outbox[j] BY <1>2, <1>3
  <3>2. PICK e : e = outbox[j] OBVIOUS
  <3>3. PICK l \in 1 .. n : l = e.id BY <2>5, <3>2
  <3>4. ~(call[l].method = "stage" /\ e.answer.error = None) BY <2>4, <3>2, <3>3
  <3>5. call'[l].method = call[l].method BY <1>9
  <3> QED BY <3>1, <3>2, <3>3, <3>4, <3>5
 <2>8. ~Limbo' BY <1>10, <2>2, <2>3, <2>7 DEF Limbo
 <2> QED BY <2>6, <2>8, Zenon
<1>23. PendingKnown'
 <2>1. Stuck => Stuck'
  <3>1. \A k \in 1 .. n : k # Head(outbox).id => call'[k].open = call[k].open BY <1>9
  <3>2. worker' = worker /\ Len(call) <= Len(call') /\ Len(call') \in Nat BY <1>3, <1>10, <1>16
  <3> QED BY <1>17, <3>1, <3>2, StuckStays
 <2>2. Known(store.pending) => Known(store.pending)' BY <1>15, <1>16 DEF Follows, Known, Ok
 <2> QED BY <1>15, <1>16, <1>22, <2>1, <2>2 DEF Kept, PendingKnown
<1> QED BY <1>20, <1>21, <1>23, MainKept

\* The answer of a rejection that was given up is read: nothing else depends on it.
LEMMA RejectionForgotten ==
  ASSUME CallsInv, CallsInv', NEW own, Kept(own), outbox # <<>>, outbox' = Tail(outbox),
         NEW i, i = Head(outbox).id, call[i].method = "reject", call[i].settled, RejectionEnds(i)
  PROVE  Kept(own)'
<1> DEFINE n == Len(call)
<1>1. PICK m : m = Head(outbox) OBVIOUS
<1>2. /\ i \in 1 .. n /\ ~Unfinished(i) /\ ~main.failed
      /\ \A k \in 2 .. Len(outbox) : outbox[k].id # i /\ outbox[k].id \in 1 .. n
      /\ Len(outbox') = Len(outbox) - 1
      /\ \A k \in 1 .. Len(outbox') : outbox'[k] = outbox[k + 1]
      /\ i = m.id
  BY <1>1, HeadFacts
<1>3. /\ n \in Nat /\ IsSequence(call) /\ DOMAIN call = 1 .. n /\ Len(inbox) \in Nat
      /\ IsSequence(outbox) /\ Len(outbox) \in Nat
  BY SequenceFacts DEF CallsInv
<1>4. PICK p : p = call[i].arg.i OBVIOUS
<1>5. p \in 1 .. n /\ p # i /\ call[p].settled /\ p # None
  BY <1>2, <1>3, <1>4, BatchesAssumption DEF Kept, Linked, Rejection
<1>6. MainTrue(own, Ok(main), main) /\ main.waiting # p BY <1>5 DEF Kept, Waiting
<1>7. main' = main /\ UNCHANGED <<inbox, worker, store, closed>>
  BY <1>4, <1>6 DEF RejectionEnds, Settle
<1>8. Len(call') = n BY <1>2, <1>4, <1>5, RejectionFields
<1>9. ASSUME NEW k \in 1 .. n
      PROVE  /\ call'[k].method = call[k].method /\ call'[k].arg = call[k].arg
             /\ call'[k].done = call[k].done /\ call'[k].exec = call[k].exec
             /\ call'[k].due = call[k].due
             /\ call'[k].open = (IF k = i THEN FALSE ELSE call[k].open)
             /\ call'[k].settled = call[k].settled
 <2>1. call[k].settled \in BOOLEAN BY CallFields
 <2>2. EndedAt(i, p, k) BY <1>2, <1>4, <1>5, RejectionFields
 <2> QED BY <1>2, <1>5, <2>1, <2>2 DEF EndedAt
<1>10. Begun' = Begun BY <1>7, <1>8 DEF Begun
<1>11. ASSUME NEW k \in 1 .. n
       PROVE  CallGoes(k)
 <2>1. /\ call[k].settled \in BOOLEAN /\ call[k].open \in BOOLEAN /\ call[k].due \in BOOLEAN
       /\ call[k].method = "reject" /\ ~call[k].settled => call[k].open
   BY CallFields DEF Kept, Linked, Rejection
 <2>2. k = i => call[k].settled /\ ~Unfinished(k) BY <1>2
 <2> QED BY <1>7, <1>8, <1>9, <2>1, <2>2 DEF CallGoes
<1>12. ASSUME NEW k \in 2 .. Len(outbox)
       PROVE  MessageGoes(k)
  BY <1>2, <1>9 DEF MessageGoes
<1>13. MainGoes(own)
 <2>1. n <= Len(call') /\ \A k \in 1 .. Len(call') : ~(k > n) BY <1>3, <1>8
 <2>2. MainTrue(own, Ok(main'), main') /\ Follows(main, main') /\ NonePending(main, main')
       /\ main'.failed = FALSE
   BY <1>2, <1>6, <1>7, OwnStep DEF Kept
 <2> QED BY <1>2, <1>7, <1>10, <1>11, <1>12, <2>1, <2>2, Zenon DEF MainGoes
<1>14. Waiting'
 <2>1. CASE main.waiting = None BY <1>7, <2>1 DEF Waiting
 <2>2. CASE main.waiting # None
  <3>1. PICK w : w = main.waiting OBVIOUS
  <3>2. /\ w \in 1 .. n /\ n \in 1 .. n /\ w # i
        /\ \/ w = n /\ call[w].open
           \/ w = n - 1 /\ ~call[w].open /\ call[n].method = "reject" /\ ~call[n].settled
    BY <1>2, <1>3, <2>2, <3>1 DEF Kept, Waiting
  <3>3. /\ call'[w].open = call[w].open /\ call'[w].settled = call[w].settled
        /\ call'[w].method = call[w].method /\ call'[w].arg = call[w].arg
        /\ call'[n].method = call[n].method /\ call'[n].settled = call[n].settled
    BY <1>9, <3>2
  <3> QED BY <1>7, <1>8, <2>2, <3>1, <3>2, <3>3 DEF Kept, Waiting
 <2> QED BY <2>1, <2>2
<1>15. \A k : Unfinished(k)' <=> Unfinished(k) BY <1>7, <1>10 DEF Unfinished
<1>16. Limbo' <=> Limbo
 <2>1. ASSUME NEW k \in 1 .. Len(outbox')
       PROVE  \E j \in 1 .. Len(outbox) : /\ outbox'[k] = outbox[j]
                                          /\ call'[outbox[j].id].method = call[outbox[j].id].method
  <3>1. PICK j \in 2 .. Len(outbox) : outbox'[k] = outbox[j] /\ j \in 1 .. Len(outbox)
    BY <1>2, <1>3
  <3> QED BY <1>2, <1>9, <3>1
 <2>2. ASSUME NEW k \in 1 .. Len(outbox), call[outbox[k].id].method = "stage"
       PROVE  \E j \in 1 .. Len(outbox') : /\ outbox'[j] = outbox[k]
                                           /\ call'[outbox[k].id].method = call[outbox[k].id].method
  <3>1. k # 1
   <4>1. outbox[1] = m BY <1>1, <1>3, TailSequence
   <4> QED BY <1>2, <2>2, <4>1
  <3>2. k \in 2 .. Len(outbox) /\ k - 1 \in 1 .. Len(outbox') /\ k - 1 + 1 = k BY <1>2, <1>3, <3>1
  <3>3. PICK j \in 1 .. Len(outbox') : outbox'[j] = outbox[k] BY <1>2, <3>2
  <3>4. outbox[k].id \in 1 .. n BY <1>2, <3>2
  <3> QED BY <1>9, <3>3, <3>4
 <2>3. (\E k \in 1 .. Len(outbox') :
          call'[outbox'[k].id].method = "stage" /\ outbox'[k].answer.error = None
          /\ outbox'[k].answer.accepted)
       <=> \E k \in 1 .. Len(outbox) :
             call[outbox[k].id].method = "stage" /\ outbox[k].answer.error = None
             /\ outbox[k].answer.accepted
  <3>1. ASSUME NEW k \in 1 .. Len(outbox'), call'[outbox'[k].id].method = "stage",
               outbox'[k].answer.error = None, outbox'[k].answer.accepted
        PROVE  \E j \in 1 .. Len(outbox) :
                 call[outbox[j].id].method = "stage" /\ outbox[j].answer.error = None
                 /\ outbox[j].answer.accepted
    BY <2>1, <3>1
  <3>2. ASSUME NEW k \in 1 .. Len(outbox), call[outbox[k].id].method = "stage",
               outbox[k].answer.error = None, outbox[k].answer.accepted
        PROVE  \E j \in 1 .. Len(outbox') :
                 call'[outbox'[j].id].method = "stage" /\ outbox'[j].answer.error = None
                 /\ outbox'[j].answer.accepted
   <4>1. PICK j \in 1 .. Len(outbox') : /\ outbox'[j] = outbox[k]
                                      /\ call'[outbox[k].id].method = call[outbox[k].id].method
     BY <2>2, <3>2
   <4> QED BY <3>2, <4>1
  <3> QED BY <3>1, <3>2
 <2>4. (\E k \in 1 .. Len(call') : call'[k].method = "reject" /\ Unfinished(k)')
         <=> \E k \in 1 .. Len(call) : call[k].method = "reject" /\ Unfinished(k)
  <3>1. \A k \in 1 .. n : call'[k].method = call[k].method BY <1>9
  <3> QED BY <1>8, <1>15, <3>1
 <2>5. worker' = worker BY <1>7
 <2> QED BY <2>3, <2>4, <2>5 DEF Limbo
<1>17. PendingKnown'
 <2>1. Stuck => Stuck'
  <3>1. \A k \in 1 .. n : k # Head(outbox).id => call'[k].open = call[k].open BY <1>9
  <3> QED BY <1>3, <1>7, <1>8, <1>10, <3>1, StuckStays
 <2>2. \A q : Known(q) => Known(q)' BY <1>7 DEF Known, Ok
 <2> QED BY <1>7, <1>16, <2>1, <2>2 DEF Kept, PendingKnown, Known, Ok
<1> QED BY <1>13, <1>14, <1>17, MainKept

\* A stage that nobody waits for any more is to be taken back.
Rejects(i, gen) ==
    /\ call' = Append([call EXCEPT ![i].open = FALSE], NewCall("reject", [gen |-> gen, i |-> i]))
    /\ inbox' = Append(inbox, Len(call) + 1)
    /\ UNCHANGED <<main, worker, store, closed>>

\* A stage was accepted that had been aborted: the main thread sends its rejection.
LEMMA RejectionSent ==
  ASSUME CallsInv, CallsInv', NEW own, Kept(own), outbox # <<>>, outbox' = Tail(outbox),
         NEW i, i = Head(outbox).id, NEW a, a = Head(outbox).answer,
         call[i].method = "stage", a.error = None, a.pending, a.accepted, Rejects(i, a.gen)
  PROVE  Kept(own)'
<1> DEFINE n == Len(call)
<1>1. PICK m : m = Head(outbox) OBVIOUS
<1>2. /\ MessageFits(own, m) /\ i \in 1 .. n /\ ~Unfinished(i) /\ ~main.failed
      /\ \A k \in 2 .. Len(outbox) : outbox[k].id # i /\ outbox[k].id \in 1 .. n
      /\ \E k \in 1 .. Len(outbox) : outbox[k] = m
  BY <1>1, HeadFacts
<1>3. n \in Nat /\ IsSequence(call) /\ DOMAIN call = 1 .. n /\ Len(inbox) \in Nat
      /\ inbox \in Seq(Nat) /\ Len(outbox) \in Nat
  BY SequenceFacts DEF CallsInv
<1>4. /\ ~call[i].settled /\ call[i].open /\ Receipt(a, call[i].arg.r) /\ Linked(own, i)
  BY <1>1, <1>2 DEF MessageFits, Kept
<1>5. /\ main.waiting = i /\ i = n BY <1>4, <1>2, BatchesAssumption DEF Linked, Kept, Waiting
<1>6. PICK f : f = [call EXCEPT ![i].open = FALSE] OBVIOUS
<1>7. /\ IsSequence(f) /\ Len(f) = n
      /\ \A k \in 1 .. n : k # i => f[k] = call[k]
  BY <1>6, <1>3, MappedSequence
<1>8. /\ f[i].method = "stage" /\ f[i].arg = call[i].arg /\ f[i].done = call[i].done
      /\ f[i].exec = call[i].exec /\ f[i].due = call[i].due /\ f[i].open = FALSE
      /\ f[i].settled = call[i].settled
  BY <1>2, CallFields, <1>3, <1>6 DEF Fields
<1>9. PICK arg : arg = [gen |-> a.gen, i |-> i] OBVIOUS
<1>10. PICK c : c = NewCall("reject", arg) OBVIOUS
<1>11. /\ c.method = "reject" /\ c.arg.gen = a.gen /\ c.arg.i = i /\ c.exec = ACTIVE
       /\ c.due = FALSE /\ c.settled = FALSE /\ c.open = TRUE /\ c.done = FALSE
  BY <1>9, <1>10 DEF NewCall
<1>12. Len(call') = n + 1 /\ call'[n + 1] = c /\ \A k \in 1 .. n : call'[k] = f[k]
 <2>1. call' = Append(f, c) BY <1>6, <1>9, <1>10 DEF Rejects
 <2>2. PICK e : e = Append(f, c) OBVIOUS
 <2>3. /\ Len(e) = Len(f) + 1 /\ e[Len(f) + 1] = c /\ \A k \in 1 .. Len(f) : e[k] = f[k]
   BY <1>7, <2>2, AppendSequence
 <2> QED BY <1>7, <2>1, <2>2, <2>3
<1>13. Len(inbox') = Len(inbox) + 1 /\ UNCHANGED <<main, worker, store, closed>>
  BY <1>3, AppendProperties DEF Rejects
<1>14. Begun' = Begun /\ Begun \in Int /\ Begun <= n BY <1>3, <1>12, <1>13 DEF Begun
<1>15. ASSUME NEW k \in 1 .. n
       PROVE  CallGoes(k)
 <2>1. /\ call[k].settled \in BOOLEAN /\ call[k].open \in BOOLEAN /\ call[k].due \in BOOLEAN
       /\ Linked(own, k)
   BY CallFields DEF Kept
 <2>2. CASE k = i BY <1>2, <1>8, <1>12, <1>13, <2>1, <2>2 DEF CallGoes
 <2>3. CASE k # i BY <1>3, <1>5, <2>1, <1>7, <1>12, <2>3, <1>13, CallStays DEF Linked, Rejection
 <2> QED BY <2>2, <2>3
<1>16. CallBegins(own, n + 1)
 <2>1. Published(a.gen, call[i].arg.r) BY <1>4 DEF Receipt
 <2>2. PICK j : j = n + 1 OBVIOUS
 <2>3. j - 1 = n /\ i = n /\ n \in 1 .. n BY <1>2, <1>3, <1>5, <2>2
 <2>4. main'.waiting = n /\ call'[j] = c BY <1>5, <1>12, <1>13, <2>2
 <2>5. ~Unfinished(j - 1) BY <1>2, <2>3
 <2>6. CallBegins(own, j) BY <1>11, <2>1, <2>2, <2>3, <2>4, <2>5 DEF CallBegins
 <2> QED BY <2>2, <2>6
<1>17. ASSUME NEW k \in 2 .. Len(outbox)
       PROVE  MessageGoes(k)
  BY <1>2, <1>7, <1>12 DEF MessageGoes
<1>18. MainGoes(own)
 <2>1. \A k \in 1 .. Len(call') : k > n => CallBegins(own, k)
  <3> TAKE k \in 1 .. Len(call')
  <3>1. k > n => k = n + 1 BY <1>3, <1>12
  <3> QED BY <1>16, <3>1
 <2>2. MainTrue(own, Ok(main'), main') /\ Follows(main, main') /\ NonePending(main, main')
   BY <1>13, OwnStep DEF Kept
 <2>3. n <= Len(call') BY <1>3, <1>12
 <2> QED BY <1>2, <1>13, <1>14, <1>15, <1>17, <2>1, <2>2, <2>3 DEF MainGoes, Kept
<1>19. Waiting'
 <2>1. n \in 1 .. Len(call') /\ n = Len(call') - 1 /\ n # Len(call')
  <3>1. n \in 1 .. n /\ n \in Nat /\ Len(call') = n + 1 BY <1>2, <1>3, <1>5, <1>12
  <3> HIDE DEF n
  <3> QED BY <3>1
 <2>2. call'[n] = f[n] /\ call'[Len(call')] = c /\ main' = main BY <1>2, <1>5, <1>12, <1>13
 <2> QED BY <1>4, <1>5, <1>8, <1>11, <2>1, <2>2 DEF Kept, Waiting
<1>20. PendingKnown'
 <2>1. Stuck => Stuck'
  <3>1. \A k \in 1 .. n : k # i => call'[k].open = call[k].open BY <1>7, <1>12
  <3>2. worker' = worker /\ Len(call) <= Len(call') /\ Len(call') \in Nat BY <1>3, <1>12, <1>13
  <3> QED BY <1>14, <3>1, <3>2, StuckStays
 <2>2. Limbo BY <1>1, <1>2 DEF Limbo
 <2>3. Limbo'
  <3>1. Begun' < n + 1 /\ n + 1 \in 1 .. Len(call') BY <1>3, <1>12, <1>14
  <3>2. PICK j \in 1 .. Len(call') : j = n + 1 /\ Begun' < j BY <3>1
  <3>3. Unfinished(j)' /\ call'[j].method = "reject"
    BY <1>3, <1>11, <1>12, <1>14, <3>2 DEF Unfinished
  <3> QED BY <3>3 DEF Limbo
 <2> QED BY <1>13, <2>1, <2>2, <2>3 DEF Kept, PendingKnown, Known, Ok
<1> QED BY <1>18, <1>19, <1>20, MainKept

\* What nobody was told is said again by a job of its own.
LEMMA LateFollows ==
  ASSUME NEW own, NEW m, MainTrue(own, Ok(m), m), NEW c, NEW a,
         c.method = "stage" /\ a.cancelled # None => Token(own, a.cancelled),
         c.method = "commit" => LateTrue(own, Ok(m), c.arg, IF a.error = None THEN "committed" ELSE a.error)
  PROVE  LET d == Late(m, c, a) IN
         /\ MainTrue(own, Ok(d), d) /\ Ok(d) = Ok(m)
         /\ d.req = m.req /\ d.waiting = m.waiting /\ d.applying = m.applying /\ d.failed = m.failed
         /\ d.record = m.record
         /\ m.queue # <<>> => d.queue # <<>> /\ Head(d.queue) = Head(m.queue)
<1>1. ASSUME NEW job, JobTrue(own, Ok(m), m, job), job.kind # "stage", Late(m, c, a) = Later(m, job)
      PROVE  LET d == Late(m, c, a) IN
             /\ MainTrue(own, Ok(d), d) /\ Ok(d) = Ok(m)
             /\ d.req = m.req /\ d.waiting = m.waiting /\ d.applying = m.applying /\ d.failed = m.failed
             /\ d.record = m.record
             /\ m.queue # <<>> => d.queue # <<>> /\ Head(d.queue) = Head(m.queue)
 <2>1. PICK d : d = Later(m, job) OBVIOUS
 <2>2. /\ MainTrue(own, Ok(m), d) /\ Ok(d) = Ok(m)
       /\ d.req = m.req /\ d.waiting = m.waiting
       /\ d.applying = m.applying /\ d.failed = m.failed
       /\ d.record = m.record /\ d.queue # <<>>
       /\ m.queue # <<>> => Head(d.queue) = Head(m.queue)
   BY <1>1, <2>1, LaterTrue
 <2> QED BY <1>1, <2>1, <2>2
<1>2. CASE c.method = "stage" /\ a.cancelled # None
 <2>1. PICK job : job = Job("lateStage", a.cancelled) OBVIOUS
 <2>2. job.kind = "lateStage" /\ job.arg = a.cancelled BY <2>1 DEF Job
 <2>3. JobTrue(own, Ok(m), m, job) BY <1>2, <2>2 DEF JobTrue
 <2>4. Late(m, c, a) = Later(m, job) BY <1>2, <2>1 DEF Late
 <2> QED BY <1>1, <2>2, <2>3, <2>4
<1>3. CASE c.method = "commit"
 <2>1. PICK state : state = IF a.error = None THEN "committed" ELSE a.error OBVIOUS
 <2>2. PICK job : job = LateCommit(c, state) OBVIOUS
 <2>3. job.kind = "lateCommit" /\ job.arg.batch = c.arg /\ job.arg.state = state
   BY <2>2 DEF LateCommit, Job
 <2>4. JobTrue(own, Ok(m), m, job) BY <1>3, <2>1, <2>3 DEF JobTrue
 <2>5. Late(m, c, a) = Later(m, job) BY <1>3, <2>1, <2>2 DEF Late
 <2> QED BY <1>1, <2>3, <2>4, <2>5
<1>4. CASE c.method # "commit" /\ ~(c.method = "stage" /\ a.cancelled # None) BY <1>4 DEF Late
<1> QED BY <1>2, <1>3, <1>4

\* Any other answer ends its call: a is what is made of it, told what the caller
\* is told, and late says that nobody waits for it.
AnswerEnds(i, a, told, late) ==
    /\ call' = [call EXCEPT ![i].open = FALSE, ![i].settled = TRUE, ![i].told = told]
    /\ main' = Settle(IF late THEN Late(main, call[i], a) ELSE main, i, a)
    /\ UNCHANGED <<inbox, worker, store, closed>>

\* What is made of the answer m of call i.
MadeOf(i, m, a) ==
    /\ a.cancelled # None => a.cancelled = m.answer.cancelled
    /\ call[i].method = "stage" /\ a.error = None => a = m.answer
    /\ call[i].method = "stage" /\ m.answer.error = None /\ m.answer.pending /\ m.answer.accepted
         => a = m.answer
    /\ call[i].method = "commit" =>
         /\ a.error = None => m.answer.error = None
         /\ a.error = "committed" => call[i].done

\* The answer to a stage, if it is awaited.
LEMMA StageAnswered ==
  ASSUME CallsInv, NEW own, Kept(own), NEW m, MessageFits(own, m), MessageTrue(m), ~main.failed,
         m.id \in 1 .. Len(call), \E k \in 1 .. Len(outbox) : outbox[k] = m,
         NEW i, i = m.id, call[i].method = "stage", main.waiting = i, NEW a, MadeOf(i, m, a)
  PROVE  StageAnswer(own, Ok(main), call[i].arg.r, a)
<1> DEFINE r == call[i].arg.r
<1>1. a.cancelled # None => Token(own, a.cancelled) BY DEF MadeOf, MessageFits
<1>2. ASSUME a.error = None, a.pending, ~closed
      PROVE  /\ Untouched(own, a.batch)
             /\ a.batch \in 1 .. store.gen /\ a.gen \in 1 .. store.gen
             /\ a.reqs \subseteq Ok(main) \cup {r} /\ Of(own, a.batch, a.reqs)
             /\ SameAs(a, store.pending) /\ SameAs(a, store.prior)
 <2>1. a = m.answer /\ call[i].open /\ ~call[i].settled /\ Receipt(a, r)
   BY <1>2 DEF MadeOf, MessageFits
 <2>2. /\ store.pending # None /\ a.batch = store.pending.batch /\ a.gen = store.pending.gen
       /\ a.reqs = store.pending.reqs
   BY <1>2, <2>1 DEF Receipt
 <2>3. StoreTrue(own, Ok(main)) /\ PendingTrue(own, store.pending) BY <2>2 DEF Kept, StoreTrue
 <2>4. SameAs(a, store.pending) BY <2>2 DEF SameAs
 <2>5. SameAs(a, store.prior) BY <2>2, <2>3 DEF SameAs, StoreTrue
 <2>6. i = Len(call) /\ Len(call) \in Nat /\ Len(inbox) \in Nat /\ i # None
   BY SequenceFacts, BatchesAssumption, <2>1 DEF CallsInv, Kept, Waiting
 <2>7. i = Begun /\ worker \in {NoWork, Dead} BY <2>6 DEF MessageTrue, Begun
 <2>8. ~Stuck BY <2>7 DEF Stuck
 <2>9. \/ Limbo /\ (store.prior # None => Known(store.prior))
       \/ ~Limbo /\ Known(store.pending)
   BY <1>2, <2>2, <2>8 DEF Kept, PendingKnown
 <2>10. CASE a.accepted
  <3>1. store.pending.reqs \subseteq {r} \cup IF store.prior = None THEN {} ELSE store.prior.reqs
    BY <2>1, <2>10 DEF Receipt, Published, Prior
  <3>2. Limbo BY <1>2, <2>1, <2>10 DEF Limbo
  <3>3. store.prior # None => store.prior.reqs \subseteq Ok(main) BY <2>9, <3>2 DEF Known
  <3>4. a.reqs \subseteq Ok(main) \cup {r} BY <2>2, <3>1, <3>3
  <3> HIDE DEF r
  <3> QED BY <2>2, <2>3, <2>4, <2>5, <3>4 DEF PendingTrue
 <2>11. CASE ~a.accepted
  <3>1. worker.at # "staged" BY <2>7 DEF NoWork, Dead
  <3>2. ASSUME NEW k \in 1 .. Len(call)
        PROVE  ~Unfinished(k)
    BY <2>6, <2>7 DEF Unfinished
  <3>3. ASSUME NEW k \in 1 .. Len(outbox), call[outbox[k].id].method = "stage",
               outbox[k].answer.error = None, outbox[k].answer.accepted
        PROVE  FALSE
   <4>1. MessageFits(own, outbox[k]) /\ MessageTrue(outbox[k])
     BY DEF Kept, MessagesFit, CallsInv, OutboxTrue
   <4>2. call[outbox[k].id].open /\ ~call[outbox[k].id].settled BY <3>3, <4>1 DEF MessageFits
   <4>3. outbox[k].id \in 1 .. Len(call) BY <2>6, <2>7, <4>1 DEF MessageTrue
   <4>4. outbox[k].id = i BY <3>3, <4>2, <4>3 DEF Kept, Linked
   <4>5. outbox[k] = m BY <4>4 DEF Kept, MessagesFit
   <4> QED BY <2>1, <2>11, <3>3, <4>5
  <3>4. ~Limbo BY <3>1, <3>2, <3>3 DEF Limbo
  <3>5. a.reqs \subseteq Ok(main) \cup {r} BY <2>2, <2>9, <3>4 DEF Known
  <3> HIDE DEF r
  <3> QED BY <2>2, <2>3, <2>4, <2>5, <3>5 DEF PendingTrue
 <2> QED BY <2>10, <2>11
<1> QED BY <1>1, <1>2 DEF StageAnswer

\* Any other answer is read, in time or late.
LEMMA AnswerRead ==
  ASSUME CallsInv, CallsInv', NEW own, Kept(own), outbox # <<>>, outbox' = Tail(outbox),
         NEW m, m = Head(outbox), NEW i, i = m.id, call[i].method # "reject",
         NEW a, NEW told, NEW late \in BOOLEAN, AnswerEnds(i, a, told, late), MadeOf(i, m, a)
  PROVE  Kept(own)'
<1> DEFINE n == Len(call)
           c == call[i]
<1>1. /\ MessageFits(own, m) /\ MessageTrue(m) /\ i \in 1 .. n /\ ~Unfinished(i) /\ ~main.failed
      /\ \A k \in 2 .. Len(outbox) : outbox[k].id # i /\ outbox[k].id \in 1 .. n
      /\ Len(outbox') = Len(outbox) - 1
      /\ \A k \in 1 .. Len(outbox') : outbox'[k] = outbox[k + 1]
      /\ \E k \in 1 .. Len(outbox) : outbox[k] = m
  BY HeadFacts
<1>2. n \in Nat /\ IsSequence(call) /\ DOMAIN call = 1 .. n /\ Len(inbox) \in Nat
      /\ Len(outbox) \in Nat
  BY SequenceFacts DEF CallsInv
<1>3. /\ c.open /\ Linked(own, i) /\ CallTrue(c) /\ DOMAIN c = Fields
      /\ (c.settled \in BOOLEAN) /\ (c.due \in BOOLEAN) /\ c.method \in {"stage", "commit"}
  BY <1>1, CallFields DEF MessageFits, Kept
<1>4. PICK e : e = [c EXCEPT !.open = FALSE, !.settled = TRUE, !.told = told] OBVIOUS
<1>5. /\ e.method = c.method /\ e.arg = c.arg /\ e.done = c.done /\ e.exec = c.exec /\ e.due = c.due
      /\ e.open = FALSE /\ e.settled = TRUE
  BY <1>3, <1>4, Zenon DEF Fields
<1>6. /\ call' = [call EXCEPT ![i] = e] /\ UNCHANGED <<inbox, worker, store, closed>>
      /\ main' = Settle(IF late THEN Late(main, c, a) ELSE main, i, a)
  BY <1>1, <1>2, <1>4 DEF AnswerEnds
<1> HIDE DEF c
<1>7. Len(call') = n BY <1>6, <1>2, MappedSequence
<1>8. \A k \in 1 .. n : call'[k] = IF k = i THEN e ELSE call[k] BY <1>2, <1>6
<1>9. MainTrue(own, Ok(main), main) /\ Waiting /\ i # None BY <1>1, BatchesAssumption DEF Kept
<1>10. c.method = "commit" => /\ LateTrue(own, Ok(main), c.arg, IF a.error = None THEN "committed" ELSE a.error)
                              /\ a.error = None => Gone(c.arg.batch)
 <2> SUFFICES ASSUME c.method = "commit"
              PROVE  /\ LateTrue(own, Ok(main), c.arg, IF a.error = None THEN "committed" ELSE a.error)
                     /\ a.error = None => Gone(c.arg.batch)
   OBVIOUS
 <2>1. Commit(own, i) BY <1>3 DEF Linked, c
 <2>2. a.error = None \/ a.error = "committed" => c.done BY <1>1 DEF MadeOf, MessageFits, c
 <2> QED BY <2>1, <2>2 DEF Commit, LateTrue, c
<1>11. PICK x : x = IF late THEN Late(main, c, a) ELSE main OBVIOUS
<1>12. /\ MainTrue(own, Ok(x), x) /\ Ok(x) = Ok(main)
       /\ x.req = main.req /\ x.waiting = main.waiting /\ x.applying = main.applying
       /\ x.failed = main.failed /\ x.record = main.record
       /\ main.queue # <<>> => x.queue # <<>> /\ Head(x.queue) = Head(main.queue)
 <2>1. CASE late BY <1>1, <1>11, <2>1, <1>9, <1>10, LateFollows DEF MadeOf, MessageFits
 <2>2. CASE ~late BY <1>9, <1>11, <2>2
 <2> QED BY <2>1, <2>2
<1>13. ASSUME main.waiting = i
       PROVE  /\ i = n /\ x.queue # <<>> /\ Head(x.queue).kind = c.method
              /\ c.method = "stage" => Head(x.queue).arg = c.arg.r
              /\ c.method = "commit" => x.applying = c.arg
              /\ EndTrue(own, x, a)
  BY <1>3, <1>9, <1>13, <1>12, <1>1, StageAnswered, <1>10 DEF Waiting, c, EndTrue
<1>14. PICK s : s = Settle(x, i, a) OBVIOUS
<1>15. /\ MainTrue(own, Ok(s), s) /\ Follows(x, s) /\ s.failed = x.failed
       /\ x.waiting # i => s = x
       /\ x.waiting = i =>
            /\ s.waiting = None
            /\ Head(x.queue).kind = "stage" => s.req[Head(x.queue).arg].answer # None
            /\ a.error # None \/ Head(x.queue).kind = "commit" => NonePending(x, s)
            /\ a.error = None /\ ~closed /\ Head(x.queue).kind = "stage" =>
                 /\ Head(x.queue).arg \in Ok(s)
                 /\ a.pending => a.batch \in DOMAIN s.record
  BY <1>12, <1>13, <1>14, SettleTrue
<1>16. main' = s BY <1>6, <1>11, <1>14
<1>17. Follows(main, s) BY <1>12, <1>15 DEF Follows
<1>18. Begun' = Begun /\ Begun \in Int /\ Begun <= n BY <1>2, <1>6, <1>7 DEF Begun
<1>19. ASSUME NEW k \in 1 .. n
       PROVE  CallGoes(k)
 <2>1. /\ call[k].settled \in BOOLEAN /\ call[k].open \in BOOLEAN /\ call[k].due \in BOOLEAN
       /\ Linked(own, k)
   BY CallFields DEF Kept
 <2>2. CASE k = i
  <3>1. c.method = "stage" /\ main.waiting = i => s.req[c.arg.r].answer # None
    BY <1>12, <1>13, <1>15
  <3> QED BY <1>1, <1>3, <1>5, <1>8, <1>16, <2>1, <2>2, <3>1 DEF CallGoes, c
 <2>3. CASE k # i
  <3>1. call'[k] = call[k] /\ Len(call') = Len(call) BY <1>7, <1>8, <2>3
  <3>2. CASE main.waiting # i BY <1>12, <1>15, <1>16, <2>1, <3>1, <3>2, CallStays
  <3>3. CASE main.waiting = i
    BY <1>2, <1>13, <3>3, <2>1, <2>3, <3>1, CallStays DEF Linked, Rejection
  <3> QED BY <3>2, <3>3
 <2> QED BY <2>2, <2>3, Zenon
<1>20. ASSUME NEW k \in 2 .. Len(outbox)
       PROVE  MessageGoes(k)
  BY <1>1, <1>8 DEF MessageGoes
\* A batch is called pending only when no other call is left.
<1>21. NonePending(main, s) \/ \A k \in 1 .. n : ~Unfinished(k)
 <2>1. CASE main.waiting # i BY <1>12, <1>15, <2>1 DEF NonePending
 <2>2. CASE main.waiting = i /\ (a.error # None \/ c.method = "commit")
   BY <1>12, <1>13, <1>15, <2>2 DEF NonePending
 <2>3. CASE main.waiting = i /\ ~(a.error # None \/ c.method = "commit")
  <3>1. i = n /\ Begun = n
   <4>1. i = n /\ i \in 1 .. Begun BY <1>1, <1>13, <2>3 DEF MessageTrue
   <4>2. PICK b \in Int : b = Begun BY <1>18, Zenon
   <4>3. b <= n /\ i = n /\ i \in 1 .. b BY <1>18, <4>1, <4>2, Zenon
   <4>4. b = n
    <5> HIDE DEF n
    <5> QED BY <4>2, <4>3
   <4> QED BY <4>2, <4>3, <4>4, Zenon
  <3>2. ASSUME NEW k \in 1 .. n
        PROVE  ~Unfinished(k)
   <4>1. CASE k = i BY <1>1, <4>1
   <4>2. CASE k # i
    <5>1. PICK b : b = Begun BY Zenon
    <5>2. n \in Nat /\ b = n /\ k # n BY <1>2, <3>1, <4>2, <5>1, Zenon
    <5>3. ~(k > b) /\ k # b
     <6> HIDE DEF n
     <6> QED BY <5>2
    <5> QED BY <5>1, <5>3 DEF Unfinished
   <4> QED BY <4>1, <4>2
  <3> QED BY <3>2
 <2> QED BY <2>1, <2>2, <2>3
<1>22. MainGoes(own)
 <2>1. n <= Len(call') /\ \A k \in 1 .. Len(call') : ~(k > n) BY <1>2, <1>7
 <2>2. MainTrue(own, Ok(main'), main') /\ Follows(main, main') /\ main'.failed = FALSE
   BY <1>1, <1>12, <1>15, <1>16, <1>17 DEF Kept
 <2>3. NonePending(main, main') \/ \A k \in 1 .. Len(call') : call'[k].method = "commit" => ~Unfinished(k)
   BY <1>7, <1>16, <1>21
 <2> QED BY <1>1, <1>6, <1>18, <1>19, <1>20, <2>1, <2>2, <2>3, Zenon DEF MainGoes
<1>23. Waiting'
 <2>1. CASE main.waiting = i BY <1>12, <1>15, <1>16, <2>1 DEF Waiting
 <2>2. CASE main.waiting = None BY <1>9, <1>12, <1>15, <1>16, <2>2 DEF Waiting
 <2>3. CASE main.waiting # i /\ main.waiting # None
  <3>1. /\ s.waiting = main.waiting /\ s.applying = main.applying
        /\ main.waiting \in 1 .. n /\ s.queue # <<>> /\ Head(s.queue) = Head(main.queue)
    BY <1>9, <1>12, <1>15, <2>3 DEF Waiting
  <3>2. call'[main.waiting] = call[main.waiting] BY <1>8, <2>3, <3>1
  <3>3. /\ n \in 1 .. n /\ call'[n].method = call[n].method
        /\ (call[n].method = "reject" => call'[n] = call[n])
    BY <1>2, <3>1, <1>3, <1>5, <1>8 DEF c
  <3> QED BY <1>7, <1>9, <1>16, <2>3, <3>1, <3>2, <3>3 DEF Waiting
 <2> QED BY <2>1, <2>2, <2>3
<1>24. Limbo' => Limbo
 <2> SUFFICES ASSUME Limbo' PROVE Limbo OBVIOUS
 <2>1. CASE worker'.at = "staged" /\ worker'.result.accepted BY <1>6, <2>1 DEF Limbo
 <2>2. ASSUME NEW k \in 1 .. Len(outbox'), call'[outbox'[k].id].method = "stage",
              outbox'[k].answer.error = None, outbox'[k].answer.accepted
       PROVE  Limbo
  <3>1. PICK j \in 2 .. Len(outbox) : outbox'[k] = outbox[j] BY <1>1, <1>2
  <3>2. call'[outbox[j].id] = call[outbox[j].id] /\ j \in 1 .. Len(outbox) BY <1>1, <1>2, <1>8
  <3> QED BY <2>2, <3>1, <3>2 DEF Limbo
 <2>3. ASSUME NEW k \in 1 .. Len(call'), call'[k].method = "reject", Unfinished(k)'
       PROVE  Limbo
   BY <1>5, <1>6, <1>7, <1>8, <1>18, <2>3 DEF Unfinished, c, Limbo
 <2> QED BY <2>1, <2>2, <2>3 DEF Limbo
<1>25. ASSUME Limbo, ~Limbo'
       PROVE  c.method = "stage" /\ m.answer.error = None /\ m.answer.accepted
 <2>1. ASSUME NEW k \in 1 .. Len(outbox), call[outbox[k].id].method = "stage",
              outbox[k].answer.error = None, outbox[k].answer.accepted
       PROVE  c.method = "stage" /\ m.answer.error = None /\ m.answer.accepted
  <3>1. CASE outbox[k].id = i BY <1>1, <3>1, <2>1 DEF Kept, MessagesFit, c
  <3>2. CASE outbox[k].id # i
   <4>1. k # 1 BY TailSequence, <3>2 DEF CallsInv
   <4>2. k \in 2 .. Len(outbox) BY <1>2, <4>1
   <4>3. k - 1 \in 1 .. Len(outbox') /\ k - 1 + 1 = k BY <1>1, <1>2, <4>2
   <4>4. PICK j \in 1 .. Len(outbox') : outbox'[j] = outbox[k] BY <1>1, <4>3
   <4>5. call'[outbox[k].id] = call[outbox[k].id] BY <1>1, <1>8, <4>2
   <4>6. Limbo' BY <2>1, <4>4, <4>5 DEF Limbo
   <4> QED BY <1>25, <4>6
  <3> QED BY <3>1, <3>2
 <2>2. ~(worker.at = "staged" /\ worker.result.accepted) BY <1>6, <1>25 DEF Limbo
 <2>3. ASSUME NEW k \in 1 .. n, call[k].method = "reject", Unfinished(k)
       PROVE  FALSE
   BY <1>5, <1>6, <1>7, <1>8, <1>18, <2>3, <1>25 DEF Unfinished, c, Limbo
 <2> QED BY <1>25, <2>1, <2>2, <2>3 DEF Limbo
<1>26. PendingKnown'
 <2>1. Stuck => Stuck' BY <1>8, <1>2, <1>6, <1>7, <1>18, StuckStays
 <2>2. Follows(main, main') /\ store' = store BY <1>6, <1>16, <1>17
 <2>3. ASSUME Limbo, ~Limbo', ~closed, store.prior # None => Known(store.prior)
       PROVE  Known(store.pending)'
  <3>1. c.method = "stage" /\ m.answer.error = None /\ m.answer.accepted BY <1>25, <2>3
  <3>2. ~c.settled /\ Receipt(m.answer, c.arg.r) BY <1>1, <3>1 DEF MessageFits, c
  <3>3. m.answer.pending /\ a = m.answer BY <1>1, <3>1, <3>2 DEF Receipt, MadeOf, c
  <3>4. main.waiting = i BY <1>3, <3>1, <3>2 DEF Linked, c
  <3>5. c.arg.r \in Ok(s) /\ a.batch \in DOMAIN s.record
    BY <1>12, <1>13, <1>15, <2>3, <3>1, <3>3, <3>4
  <3>6. /\ a.batch = store.pending.batch
        /\ store.pending.reqs \subseteq {c.arg.r} \cup IF store.prior = None THEN {} ELSE store.prior.reqs
    BY <3>1, <3>2, <3>3 DEF Receipt, Published, Prior
  <3>7. store.prior # None => store.prior.reqs \subseteq Ok(s) BY <1>17, <2>3 DEF Known, Follows
  <3>8. store.pending.reqs \subseteq Ok(s) BY <3>5, <3>6, <3>7
  <3> QED BY <1>6, <1>16, <3>5, <3>6, <3>8 DEF Known, Ok
 <2>4. store' = store /\ closed' = closed /\ ~main.failed BY <1>1, <1>6
 <2>5. CASE closed \/ store.pending = None BY <2>4, <2>5 DEF PendingKnown
 <2>6. CASE ~closed /\ store.pending # None
   BY <2>4, <2>6, <2>2, <1>24, <2>1, <2>3 DEF Kept, PendingKnown, Follows, Known, Ok
 <2> QED BY <2>5, <2>6
<1> QED BY <1>22, <1>23, <1>26, MainKept

\* A message of the worker is handled.
LEMMA MessageAnswers ==
  ASSUME CallsInv, CallsInv', NEW own, Kept(own), Message
  PROVE  Kept(own)'
<1>1. PICK m : m = Head(outbox) OBVIOUS
<1>2. PICK i : i = m.id OBVIOUS
<1>3. PICK a : a = m.answer OBVIOUS
<1>4. PICK c : c = call[i] OBVIOUS
<1> DEFINE aborted == c.method = "stage" /\ main.req[c.arg.r].aborted
           given == IF a.error = None /\ a.cancelled # None /\ aborted
                    THEN CancelledWith(a.cancelled) ELSE a
           late == a.error = None /\ m.late
<1>5. PICK b : b = IF late THEN Error("committed") ELSE given OBVIOUS
<1>6. PICK told : told = IF c.settled THEN c.told ELSE b.error BY Zenon
<1>7. outbox # <<>> /\ outbox' = Tail(outbox) /\ UNCHANGED <<worker, store, closed>>
  BY Zenon DEF Message
<1>8. /\ MessageFits(own, m) /\ MessageTrue(m) /\ i \in 1 .. Len(call)
  BY <1>1, <1>2, <1>7, HeadFacts
<1>9. /\ CallTrue(c) /\ DOMAIN c = Fields /\ c.settled \in BOOLEAN /\ i \in DOMAIN call
  BY SequenceFacts, <1>4, <1>8, CallFields DEF CallsInv
<1>10. CASE /\ c.method = "reject"
            /\ call' = [call EXCEPT ![i].open = FALSE, ![i].settled = TRUE,
                                    ![c.arg.i].settled = TRUE]
            /\ main' = Settle(main, c.arg.i, Error("not-committed")) /\ UNCHANGED inbox
 <2>1. RejectionEnds(i) BY <1>4, <1>7, <1>10 DEF RejectionEnds
 <2> QED BY <1>1, <1>2, <1>4, <1>7, <1>10, <2>1, RejectionRead, RejectionForgotten
<1>11. CASE /\ c.method # "reject" /\ a.error = None /\ a.pending /\ a.accepted /\ aborted
            /\ call' = Append([call EXCEPT ![i].open = FALSE],
                              NewCall("reject", [gen |-> a.gen, i |-> i]))
            /\ inbox' = Append(inbox, Len(call) + 1) /\ UNCHANGED main
  BY <1>7, <1>11, <1>1, <1>2, <1>3, <1>4, RejectionSent DEF Rejects
<1>12. CASE /\ c.method # "reject" /\ ~(a.error = None /\ a.pending /\ a.accepted /\ aborted)
            /\ call' = [call EXCEPT ![i].open = FALSE, ![i].settled = TRUE,
                                    ![i].told = IF c.settled THEN @ ELSE b.error]
            /\ main' = Settle(IF c.settled \/ late THEN Late(main, c, b) ELSE main, i, b)
            /\ UNCHANGED inbox
 <2>1. call' = [call EXCEPT ![i].open = FALSE, ![i].settled = TRUE, ![i].told = told]
   BY <1>4, <1>6, <1>9, <1>12 DEF Fields
 <2>2. AnswerEnds(i, b, told, c.settled \/ late) BY <1>4, <1>7, <1>12, <2>1 DEF AnswerEnds
 <2>3. MadeOf(i, m, b)
  <3>1. CASE late
   <4>1. /\ b.error = "committed" /\ b.cancelled = None
         /\ c.exec \in {FINISHED_LATE, FINISHED_COMMITTED}
         /\ c.method # "stage"
     BY <1>2, <1>3, <1>4, <1>5, <1>8, <3>1 DEF Error, MessageTrue, FINISHED, FINISHED_LATE,
       FINISHED_COMMITTED
   <4>2. c.done BY <1>9, <4>1 DEF CallTrue
   <4>3. b.error # None BY <4>1, BatchesAssumption
   <4> QED BY <1>4, <4>1, <4>2, <4>3 DEF MadeOf
  <3>2. CASE ~late /\ a.error = None /\ a.cancelled # None /\ aborted
    BY <1>5, <3>2, BatchesAssumption, <1>3, <1>4, <1>12 DEF CancelledWith, Error, MadeOf
  <3>3. CASE b = a BY <1>2, <1>3, <1>4, <1>8, <1>9, <3>3 DEF MessageTrue, CallTrue, MadeOf
  <3> QED BY <1>5, <3>1, <3>2, <3>3
 <2>4. (c.settled \/ late) \in BOOLEAN OBVIOUS
 <2> HIDE DEF late
 <2> QED BY <1>1, <1>2, <1>4, <1>7, <1>12, <2>2, <2>3, <2>4, AnswerRead, Zenon
<1> QED BY <1>1, <1>2, <1>3, <1>4, <1>5, <1>10, <1>11, <1>12, Zenon DEF Message

\* One sequence after the other.
LEMMA ConcatSequence ==
  ASSUME NEW s, IsSequence(s), NEW t, IsSequence(t)
  PROVE  /\ IsSequence(s \o t) /\ Len(s \o t) = Len(s) + Len(t)
         /\ \A k \in 1 .. Len(s) : (s \o t)[k] = s[k]
         /\ \A k \in 1 .. Len(s \o t) : k > Len(s) =>
              k - Len(s) \in 1 .. Len(t) /\ (s \o t)[k] = t[k - Len(s)]
<1> DEFINE T == {s[k] : k \in 1 .. Len(s)} \cup {t[k] : k \in 1 .. Len(t)}
<1>1. s \in Seq(T) /\ t \in Seq(T) BY SeqMonotonic DEF IsSequence
<1> HIDE DEF T
<1>2. PICK u : u = s \o t OBVIOUS
<1>3. /\ u \in Seq(T) /\ Len(u) = Len(s) + Len(t)
      /\ \A k \in 1 .. Len(s) + Len(t) : u[k] = IF k <= Len(s) THEN s[k] ELSE t[k - Len(s)]
  BY <1>1, <1>2, ConcatProperties
<1>4. PICK x \in Nat, y \in Nat : x = Len(s) /\ y = Len(t) BY SequenceFacts
<1>5. ASSUME NEW k \in 1 .. x
      PROVE  u[k] = s[k]
  BY <1>3, <1>4
<1>6. ASSUME NEW k \in 1 .. x + y, k > x
      PROVE  k - x \in 1 .. y /\ u[k] = t[k - x]
  BY <1>6, <1>3, <1>4
<1>7. IsSequence(u) BY <1>3, OwnElements
<1> QED BY <1>2, <1>3, <1>4, <1>5, <1>6, <1>7

\* The calls of a set in their order are a sequence, also when something is
\* made of each.
LEMMA AscendingSequence ==
  ASSUME CallsInv, NEW ids \in SUBSET (1 .. Len(call)), NEW s \in Ascending(ids),
         NEW f, f = [k \in DOMAIN s |-> f[k]]
  PROVE  IsSequence(f) /\ \A k \in 1 .. Len(f) : k \in DOMAIN s /\ s[k] \in ids
<1>1. Len(call) \in Nat BY SequenceFacts DEF CallsInv
<1>2. Cardinality(ids) \in Nat
 <2>1. IsFiniteSet(1 .. Len(call)) BY <1>1, FS_Interval
 <2>2. IsFiniteSet(ids) BY <2>1, FS_Subset
 <2> QED BY <2>2, FS_CardinalityType
<1>3. PICK n \in Nat : s \in [1 .. n -> ids] BY <1>2 DEF Ascending
<1>4. DOMAIN f = 1 .. n BY <1>3
<1> DEFINE T == {f[k] : k \in 1 .. n}
<1>5. f \in [1 .. n -> T] BY <1>3
<1>6. f \in Seq(T) BY <1>5, SeqDef
<1>7. IsSequence(f) /\ DOMAIN f = 1 .. Len(f) BY <1>6, OwnElements
<1> QED BY <1>3, <1>4, <1>7

\* The writer fails, and what its callers were not told joins the queue.
Failing(m, g) == [m EXCEPT !.failed = TRUE, !.queue = @ \o g]
FailedNow(own, m, d) ==
    /\ MainTrue(own, Ok(d), d) /\ Ok(d) = Ok(m) /\ Follows(m, d) /\ NonePending(m, d)
    /\ d.failed = TRUE /\ d.waiting = m.waiting /\ d.applying = m.applying
    /\ m.queue # <<>> => d.queue # <<>> /\ Head(d.queue) = Head(m.queue)

\* The exit of the worker adds a late settlement for each commit whose end is not known.
LEMMA FailedTrue ==
  ASSUME NEW own, NEW m, MainTrue(own, Ok(m), m), NEW g, IsSequence(g),
         \A k \in 1 .. Len(g) : g[k].kind = "lateCommit" /\ JobTrue(own, Ok(m), m, g[k]),
         NEW d, d = Failing(m, g)
  PROVE  FailedNow(own, m, d)
<1>1. DOMAIN m = MainFields /\ IsSequence(m.queue) /\ QueueTrue(own, Ok(m), m)
  BY DEF MainTrue, Shape
<1>2. PICK q : q = m.queue \o g OBVIOUS
<1>3. /\ DOMAIN d = MainFields /\ d.queue = q /\ d.failed = TRUE
      /\ d.req = m.req /\ d.waiting = m.waiting /\ d.record = m.record
      /\ d.pending = m.pending /\ d.applying = m.applying
  BY <1>1, <1>2 DEF Failing, MainFields
<1>4. PICK x \in Nat, y \in Nat : x = Len(m.queue) /\ y = Len(g) BY <1>1, SequenceFacts
<1>5. /\ IsSequence(q) /\ Len(q) = x + y
      /\ \A k \in 1 .. x : q[k] = m.queue[k]
      /\ \A k \in 1 .. x + y : k > x => k - x \in 1 .. y /\ q[k] = g[k - x]
  BY <1>1, <1>2, <1>4, ConcatSequence
<1>6. ASSUME NEW k \in 1 .. x + y
      PROVE  \/ k \in 1 .. x /\ q[k] = m.queue[k]
             \/ q[k].kind = "lateCommit" /\ JobTrue(own, Ok(m), m, q[k])
 <2>1. CASE k > x BY <1>4, <1>5, <2>1
 <2>2. CASE ~(k > x) BY <2>2, <1>5
 <2> QED BY <2>1, <2>2
<1>7. ASSUME NEW k \in 1 .. x + y
      PROVE  JobTrue(own, Ok(m), d, q[k])
 <2>1. JobTrue(own, Ok(m), m, q[k]) BY <1>1, <1>4, <1>6 DEF QueueTrue
 <2> QED BY <1>3, <2>1 DEF JobTrue
<1>8. OnceEach(q)
 <2> SUFFICES ASSUME NEW j \in 1 .. x + y, NEW k \in 1 .. x + y,
                     q[j].kind = "stage", q[k].kind = "stage", q[j].arg = q[k].arg
              PROVE  j = k
   BY <1>5 DEF OnceEach
 <2>1. j \in 1 .. x /\ q[j] = m.queue[j] /\ k \in 1 .. x /\ q[k] = m.queue[k] BY <1>6
 <2> QED BY <1>1, <1>4, <2>1 DEF QueueTrue, OnceEach
<1>9. Ok(d) = Ok(m) /\ Shape(d) /\ RecordsKept(own, Ok(m), d)
  BY <1>3, <1>5 DEF MainTrue, Shape, RecordsKept, Ok
<1>10. QueueTrue(own, Ok(m), d) BY <1>3, <1>5, <1>7, <1>8 DEF QueueTrue
<1>11. MainTrue(own, Ok(d), d) BY <1>3, <1>9, <1>10 DEF MainTrue
<1>12. m.queue # <<>> => d.queue # <<>> /\ Head(d.queue) = Head(m.queue)
 <2> SUFFICES ASSUME m.queue # <<>>
              PROVE  d.queue # <<>> /\ Head(d.queue) = Head(m.queue)
   OBVIOUS
 <2>1. x > 0 /\ Head(m.queue) = m.queue[1] BY <1>1, <1>4, TailSequence
 <2>2. q # <<>> BY <1>5, <2>1
 <2>3. Head(q) = q[1] BY <1>5, <2>2, TailSequence
 <2>4. q[1] = m.queue[1] BY <1>5, <2>1
 <2> QED BY <1>3, <2>1, <2>2, <2>3, <2>4
<1>13. Follows(m, d) /\ NonePending(m, d) BY <1>3, <1>9, <1>11, OwnStep
<1> QED BY <1>3, <1>9, <1>11, <1>12, <1>13 DEF FailedNow

\* A failure that is reported as committed is that of a call that is done.
LEMMA FailureTrue ==
  ASSUME CallsInv, NEW own, Kept(own), NEW i \in 1 .. Len(call)
  PROVE  /\ WorkerFailure(call[i]) # None
         /\ call[i].method = "commit" =>
              LateTrue(own, Ok(main), call[i].arg, WorkerFailure(call[i]))
<1>1. WorkerFailure(call[i]) # None BY BatchesAssumption DEF WorkerFailure
<1>2. WorkerFailure(call[i]) = "committed" => call[i].exec \in {FINISHED_LATE, FINISHED_COMMITTED}
  BY DEF WorkerFailure
<1>3. WorkerFailure(call[i]) = "committed" => call[i].done BY <1>2, CallFields DEF CallTrue
<1>4. call[i].method = "commit" => Commit(own, i) BY DEF Kept, Linked
<1> QED BY <1>1, <1>3, <1>4 DEF Commit, LateTrue

\* The job that waits is among those that end.
LEMMA WaitingSettles ==
  ASSUME CallsInv, NEW own, Kept(own)
  PROVE  LET ends == {Settles(i) : i \in {i \in DOMAIN call : call[i].open}} IN
         /\ main.waiting # None => main.waiting \in ends
         /\ main.waiting \in ends => main.waiting # None
<1> DEFINE open == {i \in DOMAIN call : call[i].open}
           n == Len(call)
<1>1. n \in Nat /\ DOMAIN call = 1 .. n BY SequenceFacts DEF CallsInv
<1>2. ASSUME main.waiting # None
      PROVE  \E i \in open : main.waiting = Settles(i)
 <2>1. CASE main.waiting = n /\ call[main.waiting].open
   BY <1>1, <1>2, <2>1 DEF Kept, Waiting, Settles
 <2>2. CASE main.waiting = n - 1 /\ call[n].method = "reject" /\ ~call[n].settled
  <3>1. n \in 1 .. n
   <4>1. n - 1 \in 1 .. n BY <1>2, <2>2 DEF Kept, Waiting
   <4> QED BY <1>1, <4>1
  <3>2. Rejection(n) BY <2>2, <3>1 DEF Kept, Linked
  <3>3. call[n].open /\ call[n].arg.i = n - 1 BY <2>2, <3>2 DEF Rejection
  <3> QED BY <1>1, <2>2, <3>1, <3>3 DEF Settles
 <2> QED BY <1>2, <2>1, <2>2 DEF Kept, Waiting
<1>3. ASSUME NEW i \in open
      PROVE  Settles(i) # None
 <2>1. i \in 1 .. n BY <1>1
 <2>2. Linked(own, i) BY <2>1 DEF Kept
 <2>3. call[i].method = "reject" => call[i].arg.i \in 1 .. n BY <2>2 DEF Linked, Rejection
 <2>4. Settles(i) \in 1 .. n BY <2>1, <2>3 DEF Settles
 <2>5. Settles(i) \in Nat BY <1>1, <2>4
 <2> QED BY <2>5, BatchesAssumption
<1> HIDE DEF open
<1> QED BY <1>2, <1>3 DEF open

\* What the end of the worker does to call i, and to the main thread m.
Dies(c) == IF c.open THEN [c EXCEPT !.open = FALSE, !.settled = TRUE,
                                    !.told = IF c.settled THEN @ ELSE WorkerFailure(c)] ELSE c
Notices(late) ==
    main' = IF main.waiting # None
            THEN Settle(late, main.waiting, Error(WorkerFailure(call[main.waiting]))) ELSE late

\* The first job ends with the failure, if it waits for a call.
LEMMA NoticeTrue ==
  ASSUME CallsInv, NEW own, Kept(own), NEW late, Notices(late),
         MainTrue(own, Ok(late), late), Ok(late) = Ok(main), Follows(main, late),
         NonePending(main, late),
         late.failed = TRUE, late.waiting = main.waiting, late.applying = main.applying,
         main.queue # <<>> => late.queue # <<>> /\ Head(late.queue) = Head(main.queue)
  PROVE  /\ MainTrue(own, Ok(main'), main') /\ Follows(main, main') /\ NonePending(main, main')
         /\ main'.failed = TRUE /\ main'.waiting = None
         /\ \A i \in 1 .. Len(call) : main.waiting = i /\ call[i].method = "stage" =>
              main'.req[call[i].arg.r].answer # None
<1>1. CASE main.waiting = None
 <2>1. \A i \in 1 .. Len(call) : i # None BY SequenceFacts, BatchesAssumption DEF CallsInv
 <2> QED BY <1>1, <2>1 DEF Notices
<1>2. CASE main.waiting # None
 <2>1. PICK i : i = main.waiting OBVIOUS
 <2>2. PICK a : a = Error(WorkerFailure(call[i])) OBVIOUS
 <2>3. /\ i \in 1 .. Len(call) /\ main.queue # <<>>
       /\ call[i].method \in {"stage", "commit"} /\ Head(main.queue).kind = call[i].method
       /\ call[i].method = "commit" => main.applying = call[i].arg
       /\ call[i].method = "stage" => Head(main.queue).arg = call[i].arg.r
   BY <1>2, <2>1 DEF Kept, Waiting
 <2>4. /\ WorkerFailure(call[i]) # None
       /\ call[i].method = "commit" =>
            LateTrue(own, Ok(main), call[i].arg, WorkerFailure(call[i]))
   BY <2>3, FailureTrue
 <2>5. a.error = WorkerFailure(call[i]) /\ a.cancelled = None BY <2>2 DEF Error
 <2>6. EndTrue(own, late, a) BY <2>3, <2>4, <2>5 DEF EndTrue, StageAnswer
 <2>7. PICK s : s = Settle(late, i, a) OBVIOUS
 <2>8. /\ MainTrue(own, Ok(s), s) /\ Follows(late, s) /\ s.failed = late.failed
       /\ s.waiting = None /\ NonePending(late, s)
       /\ Head(late.queue).kind = "stage" => s.req[Head(late.queue).arg].answer # None
   BY <2>1, <2>4, <2>5, <2>6, <2>7, SettleTrue
 <2>9. main' = s BY <1>2, <2>1, <2>2, <2>7 DEF Notices
 <2>10. Len(main.req) \in Nat /\ Len(late.req) \in Nat /\ Len(s.req) \in Nat
   BY <2>8, SequenceFacts DEF Kept, MainTrue, Shape
 <2>11. Follows(main, s)
  <3>1. Len(main.req) <= Len(late.req) /\ Len(late.req) <= Len(s.req) BY <2>8 DEF Follows
  <3>2. ASSUME NEW r \in 1 .. Len(main.req), main.req[r].answer # None
        PROVE  s.req[r].answer # None
   <4>1. r \in 1 .. Len(late.req) BY <2>10, <3>1
   <4> QED BY <3>2, <4>1, <2>8 DEF Follows
  <3>3. Len(main.req) <= Len(s.req) BY <2>10, <3>1
  <3> QED BY <2>8, <3>2, <3>3 DEF Follows
 <2>12. NonePending(main, s) BY <2>8 DEF NonePending
 <2>13. ASSUME NEW k \in 1 .. Len(call), main.waiting = k, call[k].method = "stage"
        PROVE  main'.req[call[k].arg.r].answer # None
   BY <1>2, <2>1, <2>3, <2>8, <2>9, <2>13
 <2> QED BY <2>8, <2>9, <2>11, <2>12, <2>13
<1> QED BY <1>1, <1>2

\* Nobody waits any more, and what is pending is not asked for.
LEMMA ExitKept ==
  ASSUME CallsInv, CallsInv', NEW own, Kept(own), worker = Dead, outbox = <<>>,
         UNCHANGED <<inbox, outbox, worker, store, closed>>,
         call' = [i \in DOMAIN call |-> Dies(call[i])],
         MainTrue(own, Ok(main'), main'), Follows(main, main'), NonePending(main, main'),
         main'.failed = TRUE, main'.waiting = None,
         \A i \in 1 .. Len(call) : main.waiting = i /\ call[i].method = "stage" =>
            main'.req[call[i].arg.r].answer # None
  PROVE  Kept(own)'
<1> DEFINE n == Len(call)
<1>1. n \in Nat /\ IsSequence(call) /\ DOMAIN call = 1 .. n /\ Len(inbox) \in Nat
  BY SequenceFacts DEF CallsInv
<1>2. Len(call') = n BY <1>1, MappedSequence
<1>3. ASSUME NEW i \in 1 .. n
      PROVE  CallGoes(i)
 <2>1. PICK c : c = call[i] OBVIOUS
 <2>2. PICK d : d = call'[i] OBVIOUS
 <2>3. d = Dies(c) BY <1>1, <2>1, <2>2
 <2>4. /\ DOMAIN c = Fields /\ c.settled \in BOOLEAN /\ c.open \in BOOLEAN /\ c.due \in BOOLEAN
       /\ c.method = "reject" => c.open \/ c.settled
   BY <2>1, CallFields DEF Kept, Linked, Rejection
 <2>5. CASE c.open
  <3>1. /\ d.method = c.method /\ d.arg = c.arg /\ d.done = c.done /\ d.exec = c.exec
        /\ d.due = c.due /\ d.open = FALSE /\ d.settled = TRUE
    BY <2>3, <2>4, <2>5 DEF Dies, Fields
  <3> QED BY <2>1, <2>2, <2>4, <3>1 DEF CallGoes
 <2>6. CASE ~c.open BY <2>3, <2>6, <2>1, <2>2, <2>4 DEF Dies, CallGoes
 <2> QED BY <2>5, <2>6
<1>4. Begun' = Begun BY <1>2 DEF Begun
<1>5. Len(outbox) = 0 OBVIOUS
<1>6. MainGoes(own)
 <2>1. \A i \in 1 .. Len(call') : ~(i > n) BY <1>1, <1>2
 <2>2. \A k \in 1 .. Len(outbox) : MessageGoes(k) BY <1>5
 <2>3. n <= Len(call') BY <1>1, <1>2
 <2> QED BY <1>3, <1>4, <2>1, <2>2, <2>3 DEF MainGoes
<1>7. Waiting' BY DEF Waiting
<1>8. PendingKnown' BY DEF PendingKnown
<1> QED BY <1>6, <1>7, <1>8, MainKept

\* The exit of the worker, with the late settlements g,
LEMMA ExitWith ==
  ASSUME CallsInv, CallsInv', NEW own, Kept(own), worker = Dead, outbox = <<>>,
         UNCHANGED <<inbox, outbox, worker, store, closed>>,
         call' = [i \in DOMAIN call |-> Dies(call[i])], NEW g, IsSequence(g),
         \A k \in 1 .. Len(g) : g[k].kind = "lateCommit" /\ JobTrue(own, Ok(main), main, g[k]),
         NEW late, late = Failing(main, g), Notices(late)
  PROVE  Kept(own)'
<1>1. PICK m : m = main OBVIOUS
<1>2. late = Failing(m, g) /\ MainTrue(own, Ok(m), m) BY <1>1 DEF Kept
<1>3. \A k \in 1 .. Len(g) : g[k].kind = "lateCommit" /\ JobTrue(own, Ok(m), m, g[k]) BY <1>1
<1>4. FailedNow(own, m, late) BY <1>2, <1>3, FailedTrue
<1>5. /\ MainTrue(own, Ok(late), late) /\ Ok(late) = Ok(main) /\ Follows(main, late)
      /\ NonePending(main, late)
      /\ late.failed = TRUE /\ late.waiting = main.waiting /\ late.applying = main.applying
      /\ main.queue # <<>> => late.queue # <<>> /\ Head(late.queue) = Head(main.queue)
  BY <1>1, <1>4 DEF FailedNow
<1>6. /\ MainTrue(own, Ok(main'), main') /\ Follows(main, main') /\ NonePending(main, main')
      /\ main'.failed = TRUE /\ main'.waiting = None
      /\ \A i \in 1 .. Len(call) : main.waiting = i /\ call[i].method = "stage" =>
           main'.req[call[i].arg.r].answer # None
  BY <1>5, NoticeTrue, Zenon
<1> QED BY <1>6, ExitKept

\* and with those of the open calls, in their order.
LEMMA ExitAnswers ==
  ASSUME CallsInv, CallsInv', NEW own, Kept(own), WorkerExit
  PROVE  Kept(own)'
<1> DEFINE open == {i \in DOMAIN call : call[i].open}
           failure(i) == WorkerFailure(call[i])
           lates == {i \in open : call[i].method = "commit"
                                  /\ (call[i].settled \/ failure(i) # "not-committed")}
           jobs(s) == [k \in DOMAIN s |-> LateCommit(call[s[k]], failure(s[k]))]
           failed(g) == [main EXCEPT !.failed = TRUE, !.queue = @ \o g]
<1>1. /\ worker = Dead /\ outbox = <<>> /\ UNCHANGED <<inbox, outbox, worker, store, closed>>
  BY DEF WorkerExit
<1>2. PICK s \in Ascending(lates) :
        main' = IF main.waiting \in {Settles(i) : i \in open}
                THEN Settle(failed(jobs(s)), main.waiting, Error(failure(main.waiting)))
                ELSE failed(jobs(s))
  BY Zenon DEF WorkerExit
<1>3. PICK g : g = jobs(s) OBVIOUS
<1>4. PICK late : late = failed(g) OBVIOUS
<1>5. DOMAIN call = 1 .. Len(call) BY SequenceFacts DEF CallsInv
<1>6. IsSequence(g) /\ \A k \in 1 .. Len(g) : k \in DOMAIN s /\ s[k] \in lates
 <2>1. lates \in SUBSET (1 .. Len(call)) BY <1>5
 <2>2. g = [k \in DOMAIN s |-> g[k]] BY <1>3
 <2> HIDE DEF lates
 <2> QED BY <2>1, <2>2, AscendingSequence
<1>7. ASSUME NEW k \in 1 .. Len(g)
      PROVE  g[k].kind = "lateCommit" /\ JobTrue(own, Ok(main), main, g[k])
 <2>1. PICK i : i = s[k] OBVIOUS
 <2>2. i \in 1 .. Len(call) /\ call[i].method = "commit" BY <1>5, <1>6, <2>1
 <2>3. g[k] = LateCommit(call[i], failure(i)) BY <1>3, <1>6, <2>1
 <2>4. /\ g[k].kind = "lateCommit" /\ g[k].arg.batch = call[i].arg /\ g[k].arg.state = failure(i)
   BY <2>3 DEF LateCommit, Job
 <2>5. LateTrue(own, Ok(main), call[i].arg, failure(i)) BY <2>2, FailureTrue
 <2> QED BY <2>4, <2>5 DEF JobTrue
<1>8. Notices(late) BY WaitingSettles, <1>2, <1>3, <1>4 DEF Notices
<1>9. call' = [i \in DOMAIN call |-> Dies(call[i])] BY DEF WorkerExit, Dies
<1>10. late = Failing(main, g) BY <1>4 DEF Failing
<1>11. IsSequence(g) BY <1>6
<1> HIDE DEF open, failure, lates, jobs, failed
<1> QED BY <1>1, <1>7, <1>8, <1>9, <1>10, <1>11, ExitWith

-----------------------------------------------------------------------------
(* Steps of the worker. *)

\* Nobody waits for an answer that has been sent, and nothing is taken back,
\* while the worker is in a call; and that call is open.
LEMMA WorkFacts ==
  ASSUME CallsInv, NEW own, Kept(own), worker \notin {NoWork, Dead}
  PROVE  /\ AtWork /\ worker.id \in 1 .. Len(call) /\ worker.id = Begun /\ main.failed = FALSE
         /\ Unfinished(worker.id) /\ Linked(own, worker.id) /\ call[worker.id].open
         /\ \A k \in 1 .. Len(outbox) :
              /\ outbox[k].id \in 1 .. Len(call) /\ outbox[k].id # worker.id
              /\ call[outbox[k].id].method = "stage" => outbox[k].answer.error # None
         /\ \A i \in 1 .. Len(call) :
              call[i].method = "reject" /\ Unfinished(i) => i = worker.id
<1> DEFINE n == Len(call)
           id == worker.id
<1>1. AtWork /\ n \in Nat /\ Len(inbox) \in Nat BY SequenceFacts DEF CallsInv
<1>2. PICK b : b = Begun OBVIOUS
<1>3. id = b /\ b > 0 /\ b \in Int /\ b <= n BY <1>1, <1>2 DEF AtWork, Begun
<1>4. id \in 1 .. n BY <1>1, <1>3
<1>5. main.failed = FALSE BY DEF Kept
<1>6. Unfinished(id) BY <1>2, <1>3 DEF Unfinished
<1>7. Linked(own, id) /\ call[id].open BY <1>4, <1>5, <1>6 DEF Kept, Linked
<1>8. ASSUME NEW k \in 1 .. Len(outbox)
      PROVE  /\ outbox[k].id \in 1 .. n /\ outbox[k].id # id
             /\ call[outbox[k].id].method = "stage" => outbox[k].answer.error # None
 <2>1. PICK j : j = outbox[k].id OBVIOUS
 <2>2. MessageFits(own, outbox[k]) /\ MessageTrue(outbox[k])
   BY DEF Kept, MessagesFit, CallsInv, OutboxTrue
 <2>3. j \in 1 .. b /\ j # b BY <1>2, <2>1, <2>2 DEF MessageTrue
 <2>4. j \in 1 .. n /\ j # n BY <1>1, <1>3, <2>3
 <2>5. ASSUME call[j].method = "stage", outbox[k].answer.error = None
       PROVE  FALSE
   BY <2>1, <2>2, <2>5, <2>4, <1>1, BatchesAssumption DEF MessageFits, Kept, Linked, Waiting
 <2> QED BY <1>3, <2>1, <2>3, <2>4, <2>5
<1>9. ASSUME NEW i \in 1 .. n, call[i].method = "reject", Unfinished(i)
      PROVE  i = id
 <2>1. ~Unfinished(i - 1) BY <1>9 DEF Kept, Linked, Rejection
 <2>2. ~(i > b)
  <3>1. ~(i - 1 > b) /\ i - 1 # b BY <2>1, <1>2, <1>3, <1>6 DEF Unfinished
  <3>2. i \in Int OBVIOUS
  <3> QED BY <1>3, <3>1, <3>2
 <2> QED BY <1>2, <1>3, <1>9, <2>2 DEF Unfinished
<1> QED BY <1>1, <1>2, <1>3, <1>4, <1>5, <1>6, <1>7, <1>8, <1>9

\* What is known of batches carries over to the next store, when next names
\* the batches of requests.
Carries(own, next) ==
    /\ store'.gen \in Nat /\ store.gen <= store'.gen /\ store.applied \subseteq store'.applied
    /\ store.left \subseteq store'.left
    /\ \A b : Gone(b) => Gone(b)'
    /\ \A b : Token(own, b) => Token(next, b)'
    /\ \A c : BatchTrue(own, Ok(main), c) => BatchTrue(next, Ok(main), c)'
    /\ \A b \in DOMAIN main.record : RecordTrue(next, Ok(main), b, main.record[b])'
    /\ StoreTrue(next, Ok(main))'

\* A step of the worker takes nothing from what the main thread concluded.
LEMMA CarriedMain ==
  ASSUME NEW own, NEW next, main' = main, MainTrue(own, Ok(main), main), Carries(own, next)
  PROVE  MainTrue(next, Ok(main), main)'
<1>1. PICK m : m = main OBVIOUS
<1>2. PICK ok : ok = Ok(main) OBVIOUS
<1>3. PICK then : then = Ok(main)' OBVIOUS
<1>4. ASSUME NEW c, BatchTrue(own, ok, c)
      PROVE  BatchTrue(next, then, c)'
  BY <1>2, <1>3, <1>4 DEF Carries, BatchTrue, SameAs, Of
<1>5. ASSUME NEW j, JobTrue(own, ok, m, j)
      PROVE  JobTrue(next, then, m, j)'
 <2>1. j.kind = "lateCommit" => LateTrue(next, then, j.arg.batch, j.arg.state)'
  <3> SUFFICES ASSUME j.kind = "lateCommit"
               PROVE  LateTrue(next, then, j.arg.batch, j.arg.state)'
    OBVIOUS
  <3>1. LateTrue(own, ok, j.arg.batch, j.arg.state) BY <1>5 DEF JobTrue
  <3>2. PICK c : c = j.arg.batch OBVIOUS
  <3>3. BatchTrue(next, then, c)' BY <1>4, <3>1, <3>2 DEF LateTrue
  <3>4. store.applied \subseteq store'.applied BY DEF Carries
  <3> QED BY <3>1, <3>2, <3>3, <3>4 DEF LateTrue
 <2>2. j.kind = "lateStage" => Token(next, j.arg)'
  <3>1. PICK b : b = j.arg OBVIOUS
  <3>2. Token(own, b) => Token(next, b)' BY DEF Carries
  <3> QED BY <1>5, <3>1, <3>2 DEF JobTrue
 <2> QED BY <1>5, <2>1, <2>2 DEF JobTrue
<1>6. Shape(m)' /\ OnceEach(m.queue)' BY <1>1 DEF MainTrue, Shape, IsSequence, QueueTrue, OnceEach
<1>7. QueueTrue(next, then, m)' BY <1>1, <1>2, <1>5, <1>6 DEF MainTrue, QueueTrue
<1>8. RecordsKept(next, then, m)'
  BY <1>1, <1>3 DEF Carries, RecordsKept, RecordTrue, Of, Untouched, Gone
<1>9. m.pending # None => BatchTrue(next, then, m.pending)'
 <2>1. PICK c : c = m.pending OBVIOUS
 <2>2. m.pending # None => BatchTrue(own, ok, c) BY <1>1, <1>2, <2>1 DEF MainTrue
 <2>3. m.pending # None => BatchTrue(next, then, c)' BY <1>4, <2>2
 <2> QED BY <2>1, <2>3 DEF BatchTrue, Of, SameAs
<1>10. MainTrue(next, then, m)' BY <1>6, <1>7, <1>8, <1>9 DEF MainTrue
<1> QED BY <1>1, <1>3, <1>10, MainNamed

\* What the worker makes of call i.
CallWorks(i) ==
    LET c == call[i] d == call'[i] IN
    /\ d.method = c.method /\ d.arg = c.arg
    /\ d.settled = c.settled /\ d.open = c.open /\ d.due = c.due
    /\ c.method # "commit" => d.exec = c.exec \/ (d.exec = FINISHED /\ ~Unfinished(i)')
    /\ c.done => d.done
    /\ d.done => c.done \/ (c.arg.reqs \subseteq store'.applied /\ Gone(c.arg.batch)')
    /\ Unfinished(i)' => Unfinished(i)
    /\ c.method = "reject" /\ Unfinished(i)' => store' = store

WorkerGoes(own, next) ==
    /\ UNCHANGED <<main, closed>> /\ worker # Dead /\ Carries(own, next)
    /\ Len(call') = Len(call) /\ \A i \in 1 .. Len(call) : CallWorks(i)
    /\ store' = store \/ \A k \in 1 .. Len(outbox) :
         call[outbox[k].id].method = "stage" => outbox[k].answer.error # None

\* Each call is still tied to its job: the worker changes only the call it is in.
LEMMA LinkedWorks ==
  ASSUME CallsInv, CallsInv', NEW own, NEW next, Kept(own), WorkerGoes(own, next),
         NEW i \in 1 .. Len(call')
  PROVE  Linked(next, i)'
<1> DEFINE c == call[i]
           d == call'[i]
<1>1. i \in 1 .. Len(call) /\ CallWorks(i) /\ Linked(own, i) /\ main' = main /\ main.failed = FALSE
  BY DEF WorkerGoes, Kept
<1>2. Len(call') = Len(call) /\ Carries(own, next) BY DEF WorkerGoes
<1>3. /\ d.method = c.method /\ d.arg = c.arg
      /\ d.settled = c.settled /\ d.open = c.open /\ d.due = c.due
      /\ Unfinished(i)' => Unfinished(i)
  BY <1>1 DEF CallWorks
<1>4. ASSUME c.method = "stage"
      PROVE  Stage(i)'
  BY <1>1, <1>4, <1>3 DEF Linked, CallWorks, Stage
<1>5. ASSUME c.method = "commit"
      PROVE  Commit(next, i)'
 <2>1. Commit(own, i) BY <1>1, <1>5 DEF Linked
 <2>2. PICK e : e = c.arg OBVIOUS
 <2>3. BatchTrue(next, Ok(main), e)' BY <1>2, <2>1, <2>2 DEF Commit, Carries
 <2>4. BatchTrue(next, Ok(main), call[i].arg)' BY <1>3, <2>2, <2>3 DEF BatchTrue, Of, SameAs
 <2>5. d.done => d.arg.reqs \subseteq store'.applied /\ Gone(call[i].arg.batch)'
  <3>1. CASE c.done
   <4>1. c.arg.reqs \subseteq store.applied /\ Gone(c.arg.batch) BY <2>1, <3>1 DEF Commit
   <4>2. PICK b : b = c.arg.batch OBVIOUS
   <4>3. Gone(b)' /\ store.applied \subseteq store'.applied BY <1>2, <4>1, <4>2 DEF Carries
   <4> QED BY <1>3, <4>1, <4>2, <4>3 DEF Gone
  <3>2. CASE ~c.done BY <1>1, <1>3, <3>2 DEF CallWorks, Gone
  <3> QED BY <3>1, <3>2
 <2>6. Unfinished(i)' /\ d.arg.batch \in DOMAIN main'.record => main'.record[d.arg.batch].status # "pending"
   BY <1>1, <1>3, <2>1 DEF Commit
 <2> QED BY <2>4, <2>5, <2>6 DEF Commit
<1>6. ASSUME c.method = "reject"
      PROVE  Rejection(i)'
 <2>1. /\ Rejection(i) /\ (Unfinished(i)' => store' = store)
       /\ d.exec = c.exec \/ d.exec = FINISHED
   BY <1>1, <1>6 DEF Linked, CallWorks
 <2>2. PICK p : p = i - 1 OBVIOUS
 <2>3. p \in 1 .. Len(call) /\ CallWorks(p) /\ ~Unfinished(p)
   BY <2>1, <2>2 DEF Rejection, WorkerGoes
 <2>4. /\ ~Unfinished(p)' /\ call'[p].method = call[p].method /\ call'[p].arg = call[p].arg
       /\ call'[p].settled = call[p].settled
   BY <2>3 DEF CallWorks
 <2>5. ~Unfinished(i - 1)' BY <2>2, <2>4 DEF Unfinished
 <2>6. Unfinished(i)' => Published(call[i].arg.gen, call[i - 1].arg.r)'
  <3>1. Unfinished(i)' => Published(c.arg.gen, call[p].arg.r) /\ store' = store
    BY <1>1, <1>3, <2>1, <2>2 DEF Rejection
  <3> QED BY <1>3, <2>2, <2>4, <3>1 DEF Published, Prior
 <2>7. d.exec \in {ACTIVE, CANCELLED, EXPIRED, FINISHED} BY <2>1 DEF Rejection
 <2>8. /\ ~d.settled => i = Len(call') /\ main'.waiting = i - 1 /\ d.open
       /\ d.settled => call'[i - 1].settled
   BY <1>1, <1>2, <1>3, <2>1, <2>2, <2>4 DEF Rejection
 <2> QED BY <1>1, <1>2, <1>3, <2>1, <2>2, <2>3, <2>4, <2>5, <2>6, <2>7, <2>8 DEF Rejection
<1> QED BY <1>1, <1>3, <1>4, <1>5, <1>6 DEF Linked

\* What a message says stays so while the worker goes on.
LEMMA FitsCarried ==
  ASSUME CallsInv, NEW own, NEW next, Kept(own), WorkerGoes(own, next), NEW k \in 1 .. Len(outbox),
         outbox[k].id \in 1 .. Len(call), NEW m, m = outbox[k]
  PROVE  MessageFits(next, m)'
<1> DEFINE c == call[m.id]
           d == call'[m.id]
           a == m.answer
<1>1. MessageFits(own, m) /\ CallWorks(m.id) BY DEF Kept, MessagesFit, WorkerGoes
<1>2. d.method = c.method /\ d.arg = c.arg /\ d.settled = c.settled /\ d.open = c.open /\ (c.done => d.done)
  BY <1>1 DEF CallWorks
<1>3. a.cancelled # None => c.method = "stage" /\ Token(next, a.cancelled)'
 <2>1. PICK b : b = a.cancelled OBVIOUS
 <2>2. Token(own, b) => Token(next, b)' BY DEF WorkerGoes, Carries
 <2> QED BY <1>1, <2>1, <2>2 DEF MessageFits
<1>4. c.method = "stage" /\ a.error = None => Receipt(a, c.arg.r)'
 <2> SUFFICES ASSUME c.method = "stage", a.error = None PROVE Receipt(a, c.arg.r)' OBVIOUS
 <2>1. store' = store /\ Receipt(a, c.arg.r) BY <1>1 DEF WorkerGoes, MessageFits
 <2> QED BY <1>2, <2>1 DEF Receipt, Published, Prior
<1> QED BY <1>1, <1>2, <1>3, <1>4 DEF MessageFits, Receipt

\* What is left to show of a step of the worker.
LEMMA WorkerKept ==
  ASSUME CallsInv, CallsInv', NEW own, NEW next, Kept(own), WorkerGoes(own, next),
         \A k \in 1 .. Len(outbox) : outbox[k].id \in 1 .. Len(call),
         outbox' = outbox \/ \E m : /\ outbox' = Append(outbox, m) /\ MessageFits(next, m)'
                                    /\ \A k \in 1 .. Len(outbox) : outbox[k].id # m.id,
         WorkerFits(next)', PendingKnown', LeftEnded'
  PROVE  Kept(next)'
<1>1. /\ main' = main /\ main.failed = FALSE /\ Carries(own, next) /\ Len(call') = Len(call)
      /\ \A i \in 1 .. Len(call) : CallWorks(i)
  BY DEF WorkerGoes, Kept
<1>2. StoreTrue(next, Ok(main))' BY <1>1 DEF Carries
<1>3. MainTrue(next, Ok(main), main)' BY <1>1, CarriedMain DEF Kept
<1>4. Waiting'
 <2>1. CASE main.waiting = None BY <1>1, <2>1 DEF Waiting
 <2>2. CASE main.waiting # None
   BY <2>2, SequenceFacts, <1>1, SMTT(30), ZenonT(30) DEF Kept, Waiting, CallsInv, CallWorks
 <2> QED BY <2>1, <2>2
<1>5. \A i \in 1 .. Len(call') : Linked(next, i)' BY LinkedWorks
<1>6. MessagesFit(next)'
 <2>1. ASSUME NEW k \in 1 .. Len(outbox)
       PROVE  \E m : m = outbox[k] /\ MessageFits(next, m)'
  <3>1. PICK m : m = outbox[k] OBVIOUS
  <3>2. MessageFits(next, m)' BY <3>1, FitsCarried
  <3> QED BY <3>1, <3>2
 <2>2. \A j, k \in 1 .. Len(outbox) : outbox[j].id = outbox[k].id => j = k BY DEF Kept, MessagesFit
 <2>3. CASE outbox' = outbox
  <3>1. ASSUME NEW k \in 1 .. Len(outbox')
        PROVE  MessageFits(next, outbox[k])'
   <4>1. PICK m : m = outbox[k] /\ MessageFits(next, m)' BY <2>1, <2>3
   <4> QED BY <2>3, <4>1 DEF MessageFits, Receipt, Token, Gone, Untouched
  <3> QED BY <2>2, <2>3, <3>1 DEF MessagesFit
 <2>4. ASSUME NEW e, outbox' = Append(outbox, e), MessageFits(next, e)',
              \A k \in 1 .. Len(outbox) : outbox[k].id # e.id
       PROVE  MessagesFit(next)'
  <3>1. /\ Len(outbox') = Len(outbox) + 1 /\ outbox'[Len(outbox) + 1] = e
        /\ \A k \in 1 .. Len(outbox) : outbox'[k] = outbox[k]
    BY <2>4, AppendSequence DEF CallsInv
  <3>2. PICK n \in Nat : n = Len(outbox) BY SequenceFacts DEF CallsInv
  <3>3. ASSUME NEW k \in 1 .. Len(outbox')
        PROVE  (k = n + 1 /\ outbox'[k] = e) \/ (k \in 1 .. n /\ outbox'[k] = outbox[k])
    BY <3>1, <3>2
  <3>4. ASSUME NEW k \in 1 .. Len(outbox')
        PROVE  MessageFits(next, outbox[k])'
   <4>1. PICK m : m = outbox'[k] /\ MessageFits(next, m)' BY <2>1, <2>4, <3>2, <3>3
   <4> QED BY <4>1 DEF MessageFits, Receipt, Token, Gone, Untouched
  <3>5. ASSUME NEW j \in 1 .. Len(outbox'), NEW k \in 1 .. Len(outbox'), outbox'[j].id = outbox'[k].id
        PROVE  j = k
    BY <2>2, <2>4, <3>2, <3>3, <3>5
  <3> QED BY <3>4, <3>5 DEF MessagesFit
 <2> QED BY <2>3, <2>4
<1> QED BY <1>1, <1>2, <1>3, <1>4, <1>5, <1>6 DEF Kept

\* A step that leaves nothing behind.
LEMMA LeftStays ==
  ASSUME NEW own, NEW next, Kept(own), WorkerGoes(own, next), store'.left = store.left
  PROVE  LeftEnded'
<1> SUFFICES ASSUME NEW r \in store'.left
             PROVE  \E i \in 1 .. Len(call') : /\ call'[i].method = "stage" /\ call'[i].arg.r = r
                                               /\ ~Unfinished(i)'
  BY DEF LeftEnded
<1>1. PICK i \in 1 .. Len(call) : call[i].method = "stage" /\ call[i].arg.r = r /\ ~Unfinished(i)
  BY DEF Kept, LeftEnded
<1>2. Len(call') = Len(call) /\ CallWorks(i) BY DEF WorkerGoes
<1> QED BY <1>1, <1>2 DEF CallWorks

\* Call id leaves the change r behind.
LeftBy(r, id) == \E i \in 1 .. Len(call) : /\ call[i].method = "stage" /\ call[i].arg.r = r
                                           /\ i = id \/ ~Unfinished(i)

LEMMA LeftGrows ==
  ASSUME NEW own, NEW next, Kept(own), WorkerGoes(own, next), NEW id, ~Unfinished(id)',
         \A r \in store'.left : r \in store.left \/ LeftBy(r, id)
  PROVE  LeftEnded'
<1> SUFFICES ASSUME NEW r \in store'.left
             PROVE  \E i \in 1 .. Len(call') : /\ call'[i].method = "stage" /\ call'[i].arg.r = r
                                               /\ ~Unfinished(i)'
  BY DEF LeftEnded
<1>1. PICK i \in 1 .. Len(call) : /\ call[i].method = "stage" /\ call[i].arg.r = r
                                  /\ i = id \/ ~Unfinished(i)
  BY DEF Kept, LeftEnded, LeftBy
<1>2. Len(call') = Len(call) /\ CallWorks(i) BY DEF WorkerGoes
<1>3. ~Unfinished(i)' BY <1>1, <1>2 DEF CallWorks
<1> QED BY <1>1, <1>2, <1>3 DEF CallWorks

StoreFields == {"pending", "prior", "published", "gen", "applied", "version", "left"}

\* The pending batch stays, or is gone, or is again what it was.
Falls ==
    /\ DOMAIN store' = StoreFields /\ store'.gen = store.gen /\ store'.applied = store.applied
    /\ store'.prior = None /\ store'.published = None /\ store'.left = store.left
    /\ \/ store'.pending = None
       \/ store'.pending = store.pending
       \/ /\ store.pending # None /\ store.published # None /\ store.prior # None
          /\ store'.pending = store.prior

\* Changes are left behind.
Leaves ==
    /\ DOMAIN store' = StoreFields /\ store'.gen = store.gen /\ store'.applied = store.applied
    /\ store'.prior = store.prior /\ store'.published = store.published
    /\ store'.pending = store.pending
    /\ store.left \subseteq store'.left /\ store'.left \subseteq Nat

\* A pending batch that is discarded was not applied, and never will be.
LEMMA FallsCarries ==
  ASSUME NEW own, Kept(own), main' = main, store' = store \/ Falls \/ Leaves
  PROVE  Carries(own, own)
<1>1. PICK ok : ok = Ok(main) OBVIOUS
<1>2. StoreTrue(own, ok) BY <1>1 DEF Kept
<1>3. CASE Leaves
 <2>1. PICK then : then = Ok(main)' OBVIOUS
 <2>2. ok \subseteq then /\ store'.gen = store.gen /\ store'.applied = store.applied
       /\ store'.pending = store.pending /\ store'.prior = store.prior
   BY <1>1, <1>3, <2>1 DEF Ok, Leaves
 <2>3. StoreTrue(own, then)'
   BY <1>2, <1>3, <2>2 DEF StoreTrue, PendingTrue, Of, Untouched, Leaves, StoreFields
 <2>4. StoreTrue(own, Ok(main))' BY <2>1, <2>3 DEF StoreTrue, PendingTrue, Of, Untouched
 <2>5. \A b : Gone(b) => Gone(b)' BY <2>2 DEF Gone
 <2>6. \A b : Token(own, b) => Token(own, b)' BY <2>2, <2>5 DEF Token, Untouched
 <2>7. ASSUME NEW c, BatchTrue(own, ok, c)
       PROVE  BatchTrue(own, then, c)'
   BY <2>2, <2>7 DEF BatchTrue, SameAs, Of
 <2>8. \A c : BatchTrue(own, Ok(main), c) => BatchTrue(own, Ok(main), c)'
   BY <1>1, <2>1, <2>7 DEF BatchTrue, SameAs, Of
 <2>9. ASSUME NEW b \in DOMAIN main.record
       PROVE  RecordTrue(own, Ok(main), b, main.record[b])'
  <3>1. PICK e : e = main.record[b] OBVIOUS
  <3>2. RecordTrue(own, ok, b, e) BY <1>1, <3>1 DEF Kept, MainTrue, RecordsKept
  <3>3. RecordTrue(own, then, b, e)' BY <2>2, <2>5, <3>2 DEF RecordTrue, Of, Untouched
  <3> QED BY <2>1, <3>1, <3>3 DEF RecordTrue, Of, Untouched, Gone
 <2>10. /\ store'.gen \in Nat /\ store.gen <= store'.gen /\ store.applied \subseteq store'.applied
        /\ store.left \subseteq store'.left
   BY <1>2, <1>3 DEF StoreTrue, Leaves
 <2> QED BY <2>4, <2>5, <2>6, <2>8, <2>9, <2>10 DEF Carries
<1>4. CASE Falls
 <2>1. /\ DOMAIN store' = StoreFields /\ store'.gen = store.gen /\ store'.applied = store.applied
       /\ store'.prior = None /\ store'.published = None /\ store'.left = store.left
       /\ store.gen \in Nat
   BY <1>2, <1>4 DEF Falls, StoreTrue
 <2>2. /\ store.prior # None /\ store.pending # None /\ store.published # None
            => store.prior.batch = store.pending.batch /\ PendingTrue(own, store.prior)
       /\ store.pending # None => PendingTrue(own, store.pending)
   BY <1>2 DEF StoreTrue
 <2>3. store'.pending # None =>
         /\ store.pending # None /\ store'.pending.batch = store.pending.batch
         /\ PendingTrue(own, store'.pending)
         /\ store'.pending = store.pending \/ store'.pending = store.prior
   BY <1>4, <2>2 DEF Falls
 <2>4. \A b : Gone(b) => Gone(b)' BY <2>1, <2>3 DEF Gone
 <2>5. \A b : Token(own, b) => Token(own, b)' BY <2>1, <2>4 DEF Token, Untouched
 <2>6. \A c : BatchTrue(own, Ok(main), c) => BatchTrue(own, Ok(main), c)'
   BY <2>1, <2>3 DEF BatchTrue, SameAs, Of, Ok
 <2>7. ASSUME NEW b \in DOMAIN main.record
       PROVE  RecordTrue(own, Ok(main), b, main.record[b])'
  <3>1. RecordTrue(own, Ok(main), b, main.record[b]) BY DEF Kept, MainTrue, RecordsKept
  <3>2. Gone(b) => Gone(b)' BY <2>4
  <3> QED BY <2>1, <3>1, <3>2 DEF RecordTrue, Of, Untouched, Ok
 <2>8. StoreTrue(own, ok)'
   BY <1>2, <2>1, <2>3 DEF StoreTrue, StoreFields, PendingTrue, Of, Untouched
 <2>9. StoreTrue(own, Ok(main))' BY <1>1, <2>1, <2>8 DEF StoreTrue, PendingTrue, Of, Untouched, Ok
 <2> QED BY <2>1, <2>4, <2>5, <2>6, <2>7, <2>9 DEF Carries
<1>5. store' = store => Leaves BY <1>2 DEF StoreTrue, Leaves, StoreFields
<1> QED BY <1>3, <1>4, <1>5

\* The pending batch is applied: nothing of it comes back.
Applies ==
    /\ DOMAIN store' = StoreFields /\ store'.gen = store.gen
    /\ store.pending # None /\ store'.pending = None
    /\ store'.applied = store.applied \cup store.pending.reqs /\ store'.left = store.left
    /\ \/ store'.prior = None /\ store'.published = None
       \/ store'.prior = store.prior /\ store'.published = store.published

\* A batch is applied whose requests are answered, and that no record calls pending.
LEMMA AppliesCarries ==
  ASSUME NEW own, Kept(own), main' = main, Applies, store.pending.reqs \subseteq Ok(main),
         store.pending.batch \in DOMAIN main.record =>
           main.record[store.pending.batch].status # "pending"
  PROVE  Carries(own, own)
<1>1. PICK ok : ok = Ok(main) OBVIOUS
<1>2. StoreTrue(own, ok) BY <1>1 DEF Kept
<1>3. PICK p : p = store.pending OBVIOUS
<1>4. /\ DOMAIN store' = StoreFields /\ store'.gen = store.gen /\ store.gen \in Nat
      /\ store'.applied = store.applied \cup p.reqs /\ store'.pending = None
      /\ store'.left = store.left
      /\ p # None /\ p.batch \in 1 .. store.gen /\ Of(own, p.batch, p.reqs)
      /\ \/ store'.prior = None /\ store'.published = None
         \/ store'.prior = store.prior /\ store'.published = store.published
  BY <1>2, <1>3 DEF Applies, StoreTrue, PendingTrue
<1>5. \A b : Gone(b) => Gone(b)' /\ b # p.batch BY <1>3, <1>4 DEF Gone
<1>6. \A b : Untouched(own, b) /\ b # p.batch => Untouched(own, b)' BY <1>4 DEF Untouched, Of
<1>7. \A b : Token(own, b) => Token(own, b)' BY <1>5, <1>6 DEF Token
<1>8. \A c : BatchTrue(own, Ok(main), c) => BatchTrue(own, Ok(main), c)'
  BY <1>4 DEF BatchTrue, SameAs, Of, Ok
<1>9. ASSUME NEW b \in DOMAIN main.record
      PROVE  RecordTrue(own, Ok(main), b, main.record[b])'
 <2>1. RecordTrue(own, Ok(main), b, main.record[b]) BY DEF Kept, MainTrue, RecordsKept
 <2>2. main.record[b].status \in {"pending", "cancelled"} => b # p.batch
   BY <1>3, <1>5, <2>1 DEF RecordTrue
 <2>3. main.record[b].status \in {"pending", "cancelled"} => Untouched(own, b)'
   BY <1>6, <2>1, <2>2 DEF RecordTrue
 <2>4. main.record[b].status \in {"applied", "cancelled"} => Gone(b)' BY <1>5, <2>1 DEF RecordTrue
 <2> QED BY <1>4, <2>1, <2>3, <2>4 DEF RecordTrue, Of, Ok, Untouched, Gone
<1>10. StoreTrue(own, ok)' BY <1>2, <1>4, <1>1, <1>3 DEF StoreTrue, Of, StoreFields
<1>11. StoreTrue(own, Ok(main))' BY <1>1, <1>4, <1>10 DEF StoreTrue, PendingTrue, Of, Untouched, Ok
<1> QED BY <1>4, <1>5, <1>7, <1>8, <1>9, <1>11 DEF Carries

\* Request r joins the pending batch, or begins one.
Adds(r, added) ==
    /\ DOMAIN store' = StoreFields /\ store'.gen = store.gen + 1 /\ store'.applied = store.applied
    /\ store'.left = store.left
    /\ store'.pending = added /\ store'.prior = store.pending /\ store'.published = store.gen + 1
    /\ added.gen = store.gen + 1
    /\ IF store.pending = None THEN added.batch = store.gen + 1 /\ added.reqs = {r}
       ELSE added.batch = store.pending.batch /\ added.reqs = {r} \cup store.pending.reqs

\* A request becomes a part of the pending batch, or of a new one.
LEMMA AddsCarries ==
  ASSUME NEW own \in [Nat -> Nat], Kept(own), main' = main, NEW r \in Nat, r \notin Ok(main),
         NEW added, added # None, Adds(r, added), NEW next, next = [own EXCEPT ![r] = added.batch]
  PROVE  Carries(own, next) /\ next \in [Nat -> Nat]
<1>1. PICK ok : ok = Ok(main) OBVIOUS
<1>2. PICK gen : gen = store.gen OBVIOUS
<1>3. PICK p : p = store.pending OBVIOUS
<1>4. PICK b0 : b0 = added.batch OBVIOUS
<1>5. StoreTrue(own, ok) /\ gen \in Nat /\ store.applied \subseteq ok /\ r \notin ok
  BY <1>1, <1>2 DEF Kept, StoreTrue
<1>6. p # None => /\ p.batch \in 1 .. gen /\ p.gen \in 1 .. gen /\ p.reqs \subseteq Nat /\ p.reqs # {}
                  /\ Of(own, p.batch, p.reqs) /\ Untouched(own, p.batch)
  BY <1>2, <1>3, <1>5 DEF StoreTrue, PendingTrue
<1>7. /\ DOMAIN store' = StoreFields /\ store'.gen = gen + 1 /\ store'.applied = store.applied
      /\ store'.pending = added /\ store'.prior = p /\ store'.published = gen + 1
      /\ added.gen = gen + 1 /\ store'.left = store.left
      /\ p = None => b0 = gen + 1 /\ added.reqs = {r}
      /\ p # None => b0 = p.batch /\ added.reqs = {r} \cup p.reqs
  BY <1>2, <1>3, <1>4 DEF Adds
<1>same. ok = Ok(main)' BY <1>1, <1>7 DEF Ok
<1>8. b0 \in 1 .. gen + 1 /\ b0 \in Nat BY <1>5, <1>6, <1>7
<1>9. next \in [Nat -> Nat] /\ next[r] = b0 /\ \A q \in Nat : q # r => next[q] = own[q]
  BY <1>4, <1>8
<1>10. ok \subseteq Nat /\ \A q \in ok : next[q] = own[q]
 <2>1. Len(main.req) \in Nat BY SequenceFacts DEF Kept, MainTrue, Shape
 <2>2. ok \subseteq Nat
  <3>1. store.left \subseteq Nat BY <1>5 DEF StoreTrue
  <3>2. PICK n \in Nat : n = Len(main.req) BY <2>1
  <3>3. \A q \in ok : q \in 1 .. n \/ q \in store.left BY <1>1, <3>2 DEF Ok
  <3> QED BY <3>1, <3>2, <3>3
 <2> QED BY <1>5, <1>9, <2>2
<1>11. ASSUME NEW b, NEW reqs \in SUBSET ok, Of(own, b, reqs)
       PROVE  Of(next, b, reqs)
  BY <1>10, <1>11 DEF Of
<1>12. ASSUME NEW b, Untouched(own, b)
       PROVE  Untouched(next, b)'
  BY <1>5, <1>7, <1>10, <1>12 DEF Untouched
<1>13. ASSUME NEW b, Gone(b)
       PROVE  Gone(b)'
  BY <1>2, <1>3, <1>13, <1>5, <1>4, <1>7 DEF Gone
<1>14. ASSUME NEW b, Token(own, b)
       PROVE  Token(next, b)'
  BY <1>12, <1>13, <1>14 DEF Token
<1>15. ASSUME NEW c, BatchTrue(own, ok, c)
       PROVE  BatchTrue(next, ok, c)'
  BY <1>2, <1>3, <1>15, <1>11, <1>5, <1>7 DEF BatchTrue, SameAs, Of
<1>16. \A c : BatchTrue(own, Ok(main), c) => BatchTrue(next, Ok(main), c)'
  BY <1>1, <1>15, <1>same DEF BatchTrue, SameAs, Of
<1>17. ASSUME NEW b \in DOMAIN main.record
       PROVE  RecordTrue(next, Ok(main), b, main.record[b])'
 <2>1. PICK e : e = main.record[b] OBVIOUS
 <2>2. RecordTrue(own, ok, b, e) BY <1>1, <2>1 DEF Kept, MainTrue, RecordsKept
 <2>3. b \in 1 .. gen + 1 BY <1>2, <2>2, <1>5 DEF RecordTrue
 <2>4. Of(next, b, e.reqs) BY <1>11, <2>2 DEF RecordTrue
 <2>5. RecordTrue(next, ok, b, e)' BY <1>7, <1>12, <1>13, <2>2, <2>3, <2>4 DEF RecordTrue, Of
 <2> QED BY <1>same, <2>1, <2>5 DEF RecordTrue, Of, Untouched, Gone
<1>18. PendingTrue(next, added)'
 <2>1. added.reqs \subseteq Nat BY <1>6, <1>7
 <2>2. Of(next, b0, added.reqs) BY <1>6, <1>7, <1>9 DEF Of
 <2>3. CASE p = None
  <3>1. \A q \in store.applied : next[q] \in 1 .. gen BY <1>2, <1>5, <1>10 DEF StoreTrue
  <3>2. \A q \in store.applied : next[q] # gen + 1 BY <1>5, <3>1
  <3> QED BY <1>4, <1>5, <1>7, <1>8, <2>1, <2>2, <2>3, <3>2 DEF PendingTrue, Of, Untouched
 <2>4. CASE p # None
  <3>1. Untouched(next, b0)' BY <1>6, <1>7, <1>12, <2>4
  <3> QED BY <1>4, <1>5, <1>7, <1>8, <2>1, <2>2, <3>1 DEF PendingTrue, Of, Untouched
 <2> QED BY <2>3, <2>4
<1>19. p # None => PendingTrue(next, p)' /\ p.batch = b0 /\ p.gen # gen + 1
 <2> SUFFICES ASSUME p # None PROVE PendingTrue(next, p)' /\ p.batch = b0 /\ p.gen # gen + 1
   OBVIOUS
 <2>1. Of(next, p.batch, p.reqs) BY <1>6, <1>7, <1>9 DEF Of
 <2>2. Untouched(next, p.batch)' BY <1>6, <1>12
 <2>3. p.batch \in 1 .. gen + 1 /\ p.gen \in 1 .. gen + 1 /\ p.gen # gen + 1 BY <1>5, <1>6
 <2> QED BY <1>6, <1>7, <2>1, <2>2, <2>3 DEF PendingTrue, Of
<1>20. StoreTrue(next, ok)'
  BY <1>2, <1>5, <1>10, <1>7, BatchesAssumption, <1>4, <1>18, <1>19 DEF StoreTrue, StoreFields, PendingTrue, Of,
    Untouched
<1>21. StoreTrue(next, Ok(main))' BY <1>20, <1>same DEF StoreTrue, PendingTrue, Of, Untouched
<1>22. /\ store'.gen \in Nat /\ store.gen <= store'.gen /\ store.applied \subseteq store'.applied
       /\ store.left \subseteq store'.left
  BY <1>2, <1>5, <1>7
<1> QED BY <1>9, <1>13, <1>14, <1>16, <1>17, <1>21, <1>22 DEF Carries

\* What becomes of the call that the worker is in.
CallEnds(d) ==
    LET c == call[worker.id] IN
    /\ d.method = c.method /\ d.arg = c.arg
    /\ d.settled = c.settled /\ d.open = c.open /\ d.due = c.due
    /\ c.method # "commit" =>
         \/ d.exec = c.exec
         \/ d.exec = FINISHED /\ worker' \in {NoWork, Dead}
    /\ c.done => d.done
    /\ d.done => c.done \/ \E b : b = c.arg.batch /\ Gone(b)' /\ c.arg.reqs \subseteq store'.applied
    /\ c.method = "reject" => worker' \in {NoWork, Dead}

\* A step of the worker touches only the call it is in, which is the last it took.
LEMMA WorkGoes ==
  ASSUME CallsInv, NEW own, NEW next, Kept(own), worker \notin {NoWork, Dead},
         UNCHANGED <<main, inbox, closed>>, Carries(own, next), NEW d, CallEnds(d),
         call' = [call EXCEPT ![worker.id] = d]
  PROVE  /\ WorkerGoes(own, next) /\ Begun' = Begun
         /\ \A i : i = worker.id /\ worker' \in {NoWork, Dead} => ~Unfinished(i)'
<1>1. /\ worker.id \in 1 .. Len(call) /\ worker.id = Begun /\ Unfinished(worker.id)
      /\ \A k \in 1 .. Len(outbox) :
           call[outbox[k].id].method = "stage" => outbox[k].answer.error # None
      /\ \A i \in 1 .. Len(call) : call[i].method = "reject" /\ Unfinished(i) => i = worker.id
  BY WorkFacts
<1>2. IsSequence(call) /\ DOMAIN call = 1 .. Len(call) /\ Len(call') = Len(call)
  BY SequenceFacts, MappedSequence DEF CallsInv
<1>3. Begun' = Begun BY <1>2 DEF Begun
<1>4. ASSUME NEW i \in 1 .. Len(call)
      PROVE  Unfinished(i)' => Unfinished(i)
  BY <1>1, <1>3 DEF Unfinished
<1>5. ASSUME NEW i, i = worker.id, worker' \in {NoWork, Dead}
      PROVE  ~Unfinished(i)'
 <2>1. PICK b : b = Begun OBVIOUS
 <2>2. i = b /\ b \in Nat /\ Begun' = b BY <1>1, <1>2, <1>3, <1>5, <2>1, SequenceFacts
 <2>3. ~(i > b) BY <2>2
 <2> QED BY <1>5, <2>2, <2>3 DEF Unfinished
<1>6. ASSUME NEW i \in 1 .. Len(call)
      PROVE  CallWorks(i)
 <2>1. CASE i = worker.id BY <1>1, <1>2, <2>1, <1>5, <1>4 DEF CallEnds, Gone, CallWorks
 <2>2. CASE i # worker.id BY <1>2, <2>2, <1>1, <1>4 DEF CallWorks
 <2> QED BY <2>1, <2>2
<1> QED BY <1>1, <1>2, <1>3, <1>5, <1>6 DEF WorkerGoes

\* Unless it has just added a request, a worker that ends a call leaves none unanswered.
LEMMA NoLimbo ==
  ASSUME CallsInv, NEW own, NEW next, Kept(own), worker \notin {NoWork, Dead},
         WorkerGoes(own, next), Begun' = Begun,
         ~(worker'.at = "staged" /\ worker'.result.accepted),
         call[worker.id].method = "reject" => worker' = NoWork,
         outbox' = outbox \/ \E m : /\ outbox' = Append(outbox, m) /\ m.id = worker.id
                                    /\ ~ (call[worker.id].method = "stage"
                                          /\ m.answer.error = None /\ m.answer.accepted)
  PROVE  ~Limbo'
<1>1. /\ worker.id \in 1 .. Len(call) /\ worker.id = Begun
      /\ \A k \in 1 .. Len(outbox) :
           /\ outbox[k].id \in 1 .. Len(call)
           /\ call[outbox[k].id].method = "stage" => outbox[k].answer.error # None
      /\ \A i \in 1 .. Len(call) : call[i].method = "reject" /\ Unfinished(i) => i = worker.id
  BY WorkFacts
<1>2. /\ Len(call') = Len(call) /\ \A i \in 1 .. Len(call) : CallWorks(i) BY DEF WorkerGoes
<1>3. ASSUME NEW i \in 1 .. Len(call'), call'[i].method = "reject", Unfinished(i)'
      PROVE  FALSE
 <2>1. i \in 1 .. Len(call) /\ call[i].method = "reject" /\ Unfinished(i)
   BY <1>2, <1>3 DEF CallWorks
 <2>2. i = worker.id /\ worker' = NoWork BY <1>1, <2>1
 <2>3. PICK b : b = Begun OBVIOUS
 <2>4. b \in Nat /\ i = b /\ Begun' = b BY <1>1, <2>2, <2>3, SequenceFacts DEF CallsInv
 <2>5. ~(i > b) BY <2>4
 <2> QED BY <1>3, <2>2, <2>4, <2>5 DEF Unfinished
<1>4. ASSUME NEW m, NEW id, m.id = id, id \in 1 .. Len(call),
             ~(call[id].method = "stage" /\ m.answer.error = None /\ m.answer.accepted)
      PROVE  ~(call'[m.id].method = "stage" /\ m.answer.error = None /\ m.answer.accepted)
  BY <1>2, <1>4 DEF CallWorks
<1>5. \A k \in 1 .. Len(outbox) :
        ~(call'[outbox[k].id].method = "stage" /\ outbox[k].answer.error = None /\ outbox[k].answer.accepted)
  BY <1>1, <1>4
<1>6. ASSUME NEW k \in 1 .. Len(outbox'), call'[outbox'[k].id].method = "stage",
             outbox'[k].answer.error = None, outbox'[k].answer.accepted
      PROVE  FALSE
 <2>1. CASE outbox' = outbox BY <1>5, <1>6, <2>1
 <2>2. ASSUME NEW m, outbox' = Append(outbox, m), m.id = worker.id,
              ~ (call[worker.id].method = "stage" /\ m.answer.error = None /\ m.answer.accepted)
       PROVE  FALSE
  <3>1. PICK n \in Nat : n = Len(outbox) BY SequenceFacts DEF CallsInv
  <3>2. /\ Len(outbox') = n + 1 /\ outbox'[n + 1] = m
        /\ \A j \in 1 .. n : outbox'[j] = outbox[j]
    BY <2>2, <3>1, AppendSequence DEF CallsInv
  <3>3. k \in 1 .. n + 1 BY <3>2
  <3>4. k = n + 1 \/ k \in 1 .. n BY <3>3
  <3>5. CASE k = n + 1 BY <1>1, <1>4, <1>6, <2>2, <3>2, <3>5
  <3>6. CASE k \in 1 .. n BY <1>5, <1>6, <3>1, <3>2, <3>6
  <3> QED BY <3>4, <3>5, <3>6
 <2> QED BY <2>1, <2>2
<1> QED BY <1>3, <1>6 DEF Limbo

\* What was known before of the pending batch, and of what it was.
LEMMA WasKnown ==
  ASSUME CallsInv, NEW own, Kept(own), worker \notin {NoWork, Dead}, ~closed, store.pending # None
  PROVE  /\ call[worker.id].method # "reject" /\ ~(worker.at = "staged" /\ worker.result.accepted)
              => Known(store.pending)
         /\ call[worker.id].method = "reject" \/ (worker.at = "staged" /\ worker.result.accepted)
              => (store.prior # None => Known(store.prior))
<1>1. /\ worker.id \in 1 .. Len(call) /\ Unfinished(worker.id) /\ main.failed = FALSE
      /\ \A k \in 1 .. Len(outbox) :
           call[outbox[k].id].method = "stage" => outbox[k].answer.error # None
      /\ \A i \in 1 .. Len(call) : call[i].method = "reject" /\ Unfinished(i) => i = worker.id
  BY WorkFacts
<1>2. ~Stuck BY DEF Stuck
<1>3. \/ Limbo /\ (store.prior # None => Known(store.prior))
      \/ ~Limbo /\ Known(store.pending)
  BY <1>1, <1>2 DEF Kept, PendingKnown
<1>4. Limbo <=> call[worker.id].method = "reject" \/ (worker.at = "staged" /\ worker.result.accepted)
  BY <1>1 DEF Limbo
<1> QED BY <1>3, <1>4

\* What is known stays known, and more is left behind.
LEMMA KnownStays ==
  ASSUME UNCHANGED main, store.left \subseteq store'.left, NEW p, Known(p)
  PROVE  Known(p)'
BY DEF Known, Ok

\* When no request waits for its answer, the pending batch is known.
LEMMA QuietKnown ==
  ASSUME UNCHANGED <<main, closed>>, ~Limbo',
         ~closed /\ store'.pending # None => Known(store.pending)'
  PROVE  PendingKnown'
BY DEF PendingKnown

LEMMA KnownThen ==
  ASSUME UNCHANGED main, store.left \subseteq store'.left, Known(store'.pending)
  PROVE  Known(store.pending)'
<1>1. PICK p : p = store'.pending OBVIOUS
<1>2. Known(p)' BY <1>1, KnownStays
<1> QED BY <1>1, <1>2 DEF Known

LEMMA QuietStays ==
  ASSUME UNCHANGED <<main, closed>>, ~Limbo', store.left \subseteq store'.left,
         ~closed /\ store'.pending # None => Known(store'.pending)
  PROVE  PendingKnown'
BY KnownThen, QuietKnown

\* The answer of a call that fails, or ends without one.
ErrorWith(state, cancelled) == [Error(state) EXCEPT !.cancelled = cancelled]
NoReceipt(a, state, cancelled) ==
    a.error = state /\ a.cancelled = cancelled /\ a.pending = FALSE /\ a.accepted = FALSE

\* An error reports no batch.
LEMMA ErrorFields ==
  ASSUME NEW state, NEW cancelled, NEW a, a = ErrorWith(state, cancelled)
  PROVE  NoReceipt(a, state, cancelled)
<1>1. PICK e : e = Error(state) OBVIOUS
<1>2. /\ DOMAIN e = {"error", "cancelled", "pending", "accepted", "batch", "gen", "reqs"}
      /\ e.error = state /\ e.pending = FALSE /\ e.accepted = FALSE
  BY <1>1 DEF Error
<1>3. a = [e EXCEPT !.cancelled = cancelled] BY <1>1 DEF ErrorWith
<1> QED BY <1>2, <1>3 DEF NoReceipt

\* A call that fails.
LEMMA FailsAnswer ==
  ASSUME CallsInv, CallsInv', NEW own, Kept(own), worker \notin {NoWork, Dead},
         UNCHANGED <<main, inbox, closed>>, NEW cancelled, Fails("not-committed", cancelled),
         cancelled # None => call[worker.id].method = "stage" /\ Token(own, cancelled),
         store' = store \/ Falls \/ Leaves,
         \A r \in store'.left : r \in store.left \/ LeftBy(r, worker.id),
         ~closed /\ store'.pending # None => Known(store.pending)'
  PROVE  Kept(own)'
<1>1. PICK id : id = worker.id OBVIOUS
<1>2. PICK a : a = ErrorWith("not-committed", cancelled) OBVIOUS
<1>3. PICK m : m = [id |-> id, late |-> FALSE, answer |-> a] OBVIOUS
<1>4. PICK d : d = [call[id] EXCEPT !.exec = FINISHED] OBVIOUS
<1>5. /\ id \in 1 .. Len(call) /\ call[id].open
      /\ \A k \in 1 .. Len(outbox) : outbox[k].id \in 1 .. Len(call) /\ outbox[k].id # id
  BY <1>1, WorkFacts
<1>6. /\ a.error = "not-committed" /\ a.cancelled = cancelled /\ a.accepted = FALSE /\ a.error # None
 <2>1. a.error = "not-committed" /\ a.cancelled = cancelled /\ a.accepted = FALSE
  <3>1. PICK state : state = "not-committed" OBVIOUS
  <3>2. a = ErrorWith(state, cancelled) BY <1>2, <3>1
  <3>3. NoReceipt(a, state, cancelled) BY <3>2, ErrorFields
  <3> QED BY <3>1, <3>3 DEF NoReceipt
 <2> QED BY <2>1, BatchesAssumption
<1>7. outbox' = Append(outbox, m) /\ worker' = NoWork
  BY <1>1, <1>2, <1>3 DEF Fails, Replies, Reply, ErrorWith
<1>8. call' = [call EXCEPT ![worker.id] = d] BY <1>1, <1>4 DEF Fails, FailTo
<1>9. DOMAIN call[id] = Fields BY <1>5, CallFields
<1>10. CallEnds(d) BY <1>1, <1>4, <1>7, <1>9 DEF CallEnds, Fields
<1>11. Carries(own, own) BY FallsCarries
<1>12. /\ WorkerGoes(own, own) /\ Begun' = Begun
       /\ \A i : i = worker.id /\ worker' \in {NoWork, Dead} => ~Unfinished(i)'
  BY <1>8, <1>10, <1>11, WorkGoes
<1>13. m.id = id /\ m.answer = a BY <1>3
<1>14. MessageFits(own, m)'
 <2>1. call'[id].method = call[id].method /\ call'[id].open
   BY <1>5, <1>12 DEF WorkerGoes, CallWorks
 <2>2. cancelled # None => Token(own, cancelled)' BY <1>11 DEF Carries
 <2>3. a.cancelled # None => Token(own, a.cancelled)' BY <1>6, <2>2 DEF Token, Gone, Untouched
 <2> QED BY <1>1, <1>6, <1>13, <2>1, <2>3 DEF MessageFits
<1>15. ~Limbo' BY <1>7, <1>1, <1>6, <1>13, <1>12, NoLimbo DEF NoWork
<1>16. PendingKnown' BY <1>15, QuietKnown
<1>17. WorkerFits(own)' BY <1>7 DEF WorkerFits, NoWork
<1>18. \E e : /\ outbox' = Append(outbox, e) /\ MessageFits(own, e)'
              /\ \A k \in 1 .. Len(outbox) : outbox[k].id # e.id
  BY <1>5, <1>7, <1>13, <1>14
<1>19. LeftEnded' BY <1>7, <1>12, LeftGrows
<1> QED BY <1>5, <1>12, <1>16, <1>17, <1>18, <1>19, WorkerKept

\* The worker answers, and waits for the next call.
LEMMA RepliesAnswer ==
  ASSUME CallsInv, CallsInv', NEW own, Kept(own), worker \notin {NoWork, Dead},
         UNCHANGED <<main, inbox, closed>>, NEW a, NEW late, Replies(a, late),
         NEW d, CallEnds(d), call' = [call EXCEPT ![worker.id] = d], Carries(own, own),
         NEW m, m = [id |-> worker.id, late |-> late, answer |-> a], MessageFits(own, m)',
         PendingKnown', store'.left = store.left
  PROVE  Kept(own)'
<1>1. \A k \in 1 .. Len(outbox) : outbox[k].id \in 1 .. Len(call) /\ outbox[k].id # worker.id
  BY WorkFacts
<1>2. WorkerGoes(own, own) BY WorkGoes
<1>3. outbox' = Append(outbox, m) /\ worker' = NoWork /\ m.id = worker.id BY DEF Replies, Reply
<1>4. \E e : /\ outbox' = Append(outbox, e) /\ MessageFits(own, e)'
             /\ \A k \in 1 .. Len(outbox) : outbox[k].id # e.id
  BY <1>1, <1>3
<1>5. WorkerFits(own)' BY <1>3 DEF WorkerFits, NoWork
<1> QED BY <1>1, <1>2, <1>4, <1>5, LeftStays, WorkerKept

\* What a publication that is taken back leaves.
LEMMA UnpublishedFalls ==
  ASSUME NEW own, Kept(own), NEW gen, store.published = gen, store.pending # None,
         store' = Unpublished(gen)
  PROVE  Falls /\ store'.pending = store.prior
<1>1. DOMAIN store = StoreFields BY DEF Kept, StoreTrue, StoreFields
<1>2. store' = [store EXCEPT !.pending = store.prior, !.published = None, !.prior = None]
  BY DEF Unpublished, LastIs
<1>3. store.prior # None => store.published # None BY DEF Kept, StoreTrue
<1> QED BY <1>1, <1>2, <1>3 DEF Falls, StoreFields

\* What a change leaves that is not taken back: it is all that is not known.
LEMMA LeftBehindLeaves ==
  ASSUME NEW own, Kept(own), main' = main, NEW gen, NEW r, Published(gen, r),
         r \in 1 .. Len(main.req), store' = LeftBehind(gen)
  PROVE  /\ Leaves /\ \A q \in store'.left : q \in store.left \/ q = r
         /\ (store.prior # None => Known(store.prior)) => Known(store.pending)'
<1>1. StoreTrue(own, Ok(main)) /\ DOMAIN store = StoreFields BY DEF Kept, StoreTrue, StoreFields
<1>2. PICK p : p = store.pending OBVIOUS
<1>3. PICK q : q = store.prior OBVIOUS
<1>4. /\ p # None /\ p.reqs # {} /\ p.reqs \subseteq {r} \cup Prior
      /\ Prior = IF q = None THEN {} ELSE q.reqs
      /\ q # None => q.batch = p.batch /\ q.reqs \subseteq p.reqs
      /\ store.left \subseteq Nat
  BY <1>1, <1>2, <1>3 DEF Published, Prior, StoreTrue, PendingTrue
<1>5. store' = [store EXCEPT !.left = @ \cup (p.reqs \ Prior)]
  BY <1>2 DEF LeftBehind, LastIs, Published
<1>6. PICK left : left = store.left \cup (p.reqs \ Prior) OBVIOUS
<1>7. /\ store'.left = left /\ store'.pending = p /\ store'.prior = q
      /\ store'.gen = store.gen /\ store'.applied = store.applied
      /\ store'.published = store.published /\ DOMAIN store' = StoreFields
  BY <1>1, <1>2, <1>3, <1>5, <1>6 DEF StoreFields
<1>8. r \in Nat BY SequenceFacts DEF Kept, MainTrue, Shape
<1>9. Leaves BY <1>2, <1>3, <1>4, <1>6, <1>7, <1>8 DEF Leaves
<1>10. \A t \in store'.left : t \in store.left \/ t = r BY <1>4, <1>6, <1>7
<1>11. ASSUME q # None => Known(q)
       PROVE  Known(p)'
 <2>1. PICK then : then = Ok(main)' OBVIOUS
 <2>2. left \subseteq then /\ Ok(main) \subseteq then BY <1>6, <1>7, <2>1 DEF Ok
 <2>3. CASE q = None BY <1>4, <1>6, <1>7, <2>1, <2>2, <2>3 DEF Known
 <2>4. CASE q # None
  <3>1. p.reqs \subseteq then BY <1>4, <1>6, <1>11, <2>2, <2>4 DEF Known
  <3>2. p.batch \in DOMAIN main.record \/ p.reqs \cap left # {}
    BY <1>4, <1>6, <1>11, <2>4 DEF Known
  <3> QED BY <1>7, <2>1, <3>1, <3>2 DEF Known
 <2> QED BY <2>3, <2>4
<1>12. (q # None => Known(q)) => Known(store.pending)' BY <1>7, <1>11 DEF Known
<1> QED BY <1>3, <1>9, <1>10, <1>12

\* A step may be said to change the call it leaves alone.
LEMMA CallItself ==
  ASSUME CallsInv, NEW id, NEW d, d = call[id], call' = call
  PROVE  call' = [call EXCEPT ![id] = d]
<1>1. PICK T : call \in Seq(T) BY DEF CallsInv, IsSequence
<1>2. call \in [1 .. Len(call) -> T] BY <1>1, LenProperties
<1> QED BY <1>2

\* The worker takes back the last publication (rejectStage).
LEMMA RejectAnswers ==
  ASSUME CallsInv, CallsInv', NEW own, Kept(own), Reject
  PROVE  Kept(own)'
<1>1. PICK id : id = worker.id OBVIOUS
<1>2. PICK gen : gen = call[id].arg.gen OBVIOUS
<1>3. /\ worker.at = "work" /\ call[worker.id].method = "reject"
      /\ UNCHANGED <<main, inbox, closed>>
      /\ \/ store' = LeftBehind(gen) /\ Fails("not-committed", None)
         \/ store' = Unpublished(gen) /\ Fails("not-committed", None)
         \/ /\ store' = Unpublished(gen) /\ Replies(Error(None), FALSE)
            /\ call' = [call EXCEPT ![worker.id].exec = FINISHED]
  BY <1>1, <1>2 DEF Reject, In
<1>4. worker \notin {NoWork, Dead} BY <1>3 DEF NoWork, Dead
<1>5. /\ id \in 1 .. Len(call) /\ call[id].open /\ Linked(own, id) /\ Unfinished(id) /\ main.failed = FALSE
  BY <1>1, <1>4, WorkFacts
<1>6. PICK p : p = id - 1 OBVIOUS
<1>7. PICK r : r = call[p].arg.r OBVIOUS
<1>8. /\ Published(gen, r) /\ p \in 1 .. Len(call) /\ call[p].method = "stage" /\ ~Unfinished(p)
  BY <1>1, <1>2, <1>3, <1>5, <1>6, <1>7 DEF Linked, Rejection
<1>9. r \in 1 .. Len(main.req) BY <1>7, <1>8 DEF Kept, Linked, Stage
<1>10. ~closed => (store.prior # None => Known(store.prior))
  BY <1>3, <1>4, <1>8, WasKnown DEF Published
<1>11. CASE store' = LeftBehind(gen) /\ Fails("not-committed", None)
 <2>1. /\ Leaves /\ \A q \in store'.left : q \in store.left \/ q = r
       /\ ~closed => Known(store.pending)'
   BY <1>3, <1>8, <1>9, <1>10, <1>11, LeftBehindLeaves
 <2>2. \A q \in store'.left : q \in store.left \/ LeftBy(q, worker.id)
   BY <1>7, <1>8, <2>1 DEF LeftBy
 <2> QED BY <1>3, <1>4, <1>11, <2>1, <2>2, FailsAnswer
<1>12. ASSUME store' = Unpublished(gen)
       PROVE  /\ Falls /\ store'.pending = store.prior /\ store'.left = store.left
              /\ ~closed /\ store'.pending # None => Known(store'.pending)
 <2>1. Falls /\ store'.pending = store.prior BY <1>8, <1>12, UnpublishedFalls DEF Published
 <2> QED BY <1>10, <2>1 DEF Falls
<1>13. CASE store' = Unpublished(gen) /\ Fails("not-committed", None)
  BY <1>3, <1>4, <1>12, <1>13, KnownThen, FailsAnswer
<1>14. CASE /\ store' = Unpublished(gen) /\ Replies(Error(None), FALSE)
            /\ call' = [call EXCEPT ![worker.id].exec = FINISHED]
 <2>1. PICK a : a = Error(None) OBVIOUS
 <2>2. PICK m : m = [id |-> id, late |-> FALSE, answer |-> a] OBVIOUS
 <2>3. PICK d : d = [call[id] EXCEPT !.exec = FINISHED] OBVIOUS
 <2>4. Carries(own, own) BY <1>3, <1>12, <1>14, FallsCarries
 <2>5. DOMAIN call[id] = Fields BY <1>5, CallFields
 <2>6. CallEnds(d) /\ call' = [call EXCEPT ![worker.id] = d] /\ worker' = NoWork
   BY <1>1, <1>14, <2>3, <2>5 DEF CallEnds, Replies, Fields
 <2>7. /\ a.error = None /\ a.cancelled = None /\ a.accepted = FALSE
       /\ m.id = id /\ m.answer = a
   BY <2>1, <2>2 DEF Error
 <2>8. WorkerGoes(own, own) /\ Begun' = Begun BY <1>3, <1>4, <2>4, <2>6, WorkGoes
 <2>9. MessageFits(own, m)'
  <3>1. call'[id].method = "reject" /\ call'[id].open
    BY <1>1, <1>3, <1>5, <2>8 DEF WorkerGoes, CallWorks
  <3> QED BY <2>7, <3>1 DEF MessageFits
 <2>10. ~Limbo'
  <3>1. worker'.at # "staged" BY <2>6 DEF NoWork
  <3>2. \E e : /\ outbox' = Append(outbox, e) /\ e.id = worker.id
               /\ ~ (call[worker.id].method = "stage" /\ e.answer.error = None /\ e.answer.accepted)
    BY <1>1, <1>14, <2>1, <2>2, <2>7 DEF Replies, Reply
  <3> QED BY <1>4, <2>6, <2>8, <3>1, <3>2, NoLimbo
 <2>11. PendingKnown' BY <1>3, <1>12, <1>14, <2>10, QuietStays
 <2> QED BY <1>1, <1>3, <1>4, <1>12, <1>14, <2>1, <2>2, <2>4, <2>6, <2>9, <2>11, RepliesAnswer
<1> QED BY <1>3, <1>11, <1>13, <1>14

\* The worker refuses a stage, and forgets the last publication.
LEMMA StageRefusedAnswers ==
  ASSUME CallsInv, CallsInv', NEW own, Kept(own), StageRefused
  PROVE  Kept(own)'
<1>1. /\ worker.at = "work" /\ call[worker.id].method = "stage"
      /\ store' = [store EXCEPT !.published = None, !.prior = None]
      /\ Fails("not-committed", None) /\ UNCHANGED <<main, inbox, closed>>
  BY DEF StageRefused, In
<1>2. worker \notin {NoWork, Dead} BY <1>1 DEF NoWork, Dead
<1>3. DOMAIN store = StoreFields BY DEF Kept, StoreTrue, StoreFields
<1>4. Falls /\ store'.pending = store.pending BY <1>1, <1>3 DEF Falls, StoreFields
<1>5. ~closed /\ store'.pending # None => Known(store'.pending) BY <1>1, <1>2, <1>4, WasKnown
<1>6. store'.left = store.left BY <1>4 DEF Falls
<1> QED BY <1>1, <1>2, <1>4, <1>5, <1>6, KnownThen, FailsAnswer

\* The worker refuses a commit: nothing of it is applied.
LEMMA CommitRefusedAnswers ==
  ASSUME CallsInv, CallsInv', NEW own, Kept(own), CommitRefused
  PROVE  Kept(own)'
<1>1. /\ worker.at = "work" /\ call[worker.id].method = "commit"
      /\ \E p : /\ store' = [store EXCEPT !.published = None, !.prior = None, !.pending = p]
               /\ p \in {None, store.pending}
      /\ Fails("not-committed", None) /\ UNCHANGED <<main, inbox, closed>>
  BY DEF CommitRefused, In
<1>2. worker \notin {NoWork, Dead} BY <1>1 DEF NoWork, Dead
<1>3. DOMAIN store = StoreFields BY DEF Kept, StoreTrue, StoreFields
<1>4. Falls /\ store'.pending \in {None, store.pending} BY <1>1, <1>3 DEF Falls, StoreFields
<1>5. ~closed /\ store'.pending # None => Known(store'.pending) BY <1>1, <1>2, <1>4, WasKnown
<1>6. store'.left = store.left BY <1>4 DEF Falls
<1> QED BY <1>1, <1>2, <1>4, <1>5, <1>6, KnownThen, FailsAnswer

\* A call that was given up is stopped.
LEMMA GivenUpStops ==
  ASSUME NEW c, c.exec \in {CANCELLED, EXPIRED}
  PROVE  Stopped(c)
<1>1. Checked(c) = c BY DEF Checked, ACTIVE, CANCELLED, EXPIRED
<1> QED BY <1>1 DEF Stopped

\* A stage that is given up while it is in the store is taken out of it.
LEMMA StageUndone ==
  ASSUME CallsInv, CallsInv', NEW own, Kept(own), StageComplete, Stopped(call[worker.id])
  PROVE  Kept(own)'
<1>1. PICK a : a = worker.result OBVIOUS
<1>2. PICK k : k = a.cancelled OBVIOUS
<1>3. /\ worker.at = "staged" /\ call[worker.id].method = "stage"
      /\ IF a.pending /\ a.accepted THEN store' \in {Unpublished(a.gen), LeftBehind(a.gen)}
         ELSE store' = store
      /\ Fails("not-committed", k) /\ UNCHANGED <<main, inbox, closed>>
  BY <1>1, <1>2 DEF StageComplete, In
<1>4. worker \notin {NoWork, Dead} BY <1>3 DEF NoWork, Dead
<1>5. Receipt(a, call[worker.id].arg.r) /\ (k # None => Token(own, k))
  BY <1>1, <1>2, <1>3 DEF Kept, WorkerFits
<1>6. CASE a.pending /\ a.accepted
 <2>1. PICK gen : gen = a.gen OBVIOUS
 <2>2. PICK id : id = worker.id OBVIOUS
 <2>3. PICK r : r = call[id].arg.r OBVIOUS
 <2>4. /\ Published(gen, r) /\ store.published = gen /\ store.pending # None
       /\ store' \in {Unpublished(gen), LeftBehind(gen)}
   BY <1>3, <1>5, <1>6, <2>1, <2>2, <2>3 DEF Receipt, Published
 <2>5. ~closed => (store.prior # None => Known(store.prior))
   BY <1>1, <1>3, <1>4, <1>6, <2>4, WasKnown
 <2>6. CASE store' = Unpublished(gen)
  <3>1. Falls /\ store'.pending = store.prior /\ store'.left = store.left
    BY <2>4, <2>6, UnpublishedFalls DEF Falls
  <3>2. ~closed /\ store'.pending # None => Known(store.pending)' BY <1>3, <2>5, <3>1, KnownThen
  <3> QED BY <1>3, <1>4, <1>5, <3>1, <3>2, FailsAnswer
 <2>7. CASE store' = LeftBehind(gen)
  <3>1. /\ id \in 1 .. Len(call) /\ call[id].method = "stage" /\ Linked(own, id)
    BY <1>3, <1>4, <2>2, WorkFacts
  <3>2. r \in 1 .. Len(main.req) BY <2>3, <3>1 DEF Linked, Stage
  <3>3. /\ Leaves /\ \A q \in store'.left : q \in store.left \/ q = r
        /\ ~closed => Known(store.pending)'
    BY <1>3, <2>4, <2>5, <2>7, <3>2, LeftBehindLeaves
  <3>4. \A q \in store'.left : q \in store.left \/ LeftBy(q, worker.id)
    BY <2>2, <2>3, <3>1, <3>3 DEF LeftBy
  <3> QED BY <1>3, <1>4, <1>5, <3>3, <3>4, FailsAnswer
 <2> QED BY <2>4, <2>6, <2>7
<1>7. CASE ~(a.pending /\ a.accepted)
 <2>1. store' = store /\ ~(worker.at = "staged" /\ worker.result.accepted)
   BY <1>1, <1>3, <1>5, <1>7 DEF Receipt
 <2>2. ~closed /\ store'.pending # None => Known(store.pending)'
   BY <1>3, <1>4, <2>1, WasKnown, KnownThen
 <2> QED BY <1>3, <1>4, <1>5, <2>1, <2>2, FailsAnswer
<1> QED BY <1>6, <1>7

\* One that is not is answered with what is in the store.
LEMMA StageReported ==
  ASSUME CallsInv, CallsInv', NEW own, Kept(own), StageComplete, ~Stopped(call[worker.id])
  PROVE  Kept(own)'
<1>1. PICK a : a = worker.result OBVIOUS
<1>2. PICK id : id = worker.id OBVIOUS
<1>3. PICK d : d = [call[id] EXCEPT !.exec = FINISHED] OBVIOUS
<1>4. PICK m : m = [id |-> id, late |-> FALSE, answer |-> a] OBVIOUS
<1>5. /\ worker.at = "staged" /\ call[id].method = "stage" /\ store' = store
      /\ Replies(a, FALSE) /\ call' = [call EXCEPT ![worker.id] = d]
      /\ UNCHANGED <<main, inbox, closed>>
  BY <1>1, <1>2, <1>3 DEF StageComplete, In
<1>6. worker \notin {NoWork, Dead} BY <1>5 DEF NoWork, Dead
<1>7. /\ id \in 1 .. Len(call) /\ call[id].open /\ Linked(own, id) /\ Unfinished(id)
      /\ main.failed = FALSE
  BY <1>2, <1>6, WorkFacts
<1>8. ~call[id].settled BY <1>5, <1>7, <1>2, GivenUpStops DEF Linked, Stage
<1>9. DOMAIN call[id] = Fields BY <1>7, CallFields
<1>10. outbox' = Append(outbox, m) /\ worker' = NoWork /\ m.id = id /\ m.answer = a
  BY <1>2, <1>4, <1>5 DEF Replies, Reply
<1>11. CallEnds(d) BY <1>2, <1>3, <1>5, <1>9, <1>10 DEF CallEnds, Fields
<1>12. Carries(own, own) BY <1>5, FallsCarries
<1>13. WorkerGoes(own, own) /\ Begun' = Begun BY <1>5, <1>6, <1>11, <1>12, WorkGoes
<1>14. Receipt(a, call[id].arg.r) /\ (a.cancelled # None => Token(own, a.cancelled))
  BY <1>1, <1>2, <1>5 DEF Kept, WorkerFits
<1>15. /\ call'[id].method = "stage" /\ call'[id].open /\ ~call'[id].settled
       /\ call'[id].arg = call[id].arg
  BY <1>5, <1>7, <1>8, <1>13 DEF WorkerGoes, CallWorks
<1>16. MessageFits(own, m)'
  BY <1>5, <1>14, <1>15, <1>10 DEF Token, Gone, Untouched, Receipt, Published, Prior, MessageFits
<1>17. a.error = None BY <1>1, <1>5, <1>6 DEF CallsInv, AtWork
<1>18. PendingKnown'
 <2>1. CASE a.accepted
  <3>1. PICK n \in Nat : n = Len(outbox) BY SequenceFacts DEF CallsInv
  <3>2. Len(outbox') = n + 1 /\ outbox'[n + 1] = m BY <1>10, <3>1, AppendSequence DEF CallsInv
  <3>3. n + 1 \in 1 .. n + 1 BY <3>1
  <3>4. Limbo' BY <1>10, <1>15, <1>17, <2>1, <3>2, <3>3 DEF Limbo
  <3>5. ~closed /\ store.pending # None => (store.prior # None => Known(store.prior))
    BY <1>1, <1>5, <1>6, <2>1, WasKnown
  <3> QED BY <1>5, <3>4, <3>5 DEF PendingKnown, Known, Ok
 <2>2. CASE ~a.accepted
  <3>1. ~Limbo' BY <1>10, <1>2, <2>2, <1>6, <1>13, NoLimbo DEF NoWork
  <3>2. ~closed /\ store'.pending # None => Known(store'.pending)
    BY <1>1, <1>2, <1>5, <1>6, <2>2, WasKnown
  <3> QED BY <1>5, <3>1, <3>2, QuietStays
 <2> QED BY <2>1, <2>2
<1> QED BY <1>2, <1>4, <1>5, <1>6, <1>11, <1>12, <1>16, <1>18, RepliesAnswer

\* A stage that has been made, and is not complete yet.
LEMMA StagedKept ==
  ASSUME CallsInv, CallsInv', NEW own, NEW next, Kept(own),
         worker.at = "work", call[worker.id].method = "stage",
         UNCHANGED <<main, call, inbox, outbox, closed>>, NEW a,
         worker' = [worker EXCEPT !.at = "staged", !.result = a],
         Carries(own, next), NEW r, r = call[worker.id].arg.r, Receipt(a, r)',
         a.cancelled # None => Token(next, a.cancelled)',
         a.accepted /\ ~closed /\ store'.prior # None => Known(store'.prior),
         ~a.accepted /\ ~closed /\ store'.pending # None => Known(store'.pending),
         store'.left = store.left
  PROVE  Kept(next)'
<1>1. worker \notin {NoWork, Dead} BY DEF NoWork, Dead
<1>2. PICK d : d = call[worker.id] OBVIOUS
<1>3. AtWork /\ \A k \in 1 .. Len(outbox) : outbox[k].id \in 1 .. Len(call) BY <1>1, WorkFacts
<1>4. DOMAIN worker = {"id", "at", "result"} BY <1>3 DEF AtWork
<1>5. worker'.id = worker.id /\ worker'.at = "staged" /\ worker'.result = a BY <1>4
<1>6. CallEnds(d) /\ call' = [call EXCEPT ![worker.id] = d] BY <1>2, CallItself DEF CallEnds
<1>7. WorkerGoes(own, next) /\ Begun' = Begun BY <1>1, <1>6, WorkGoes
<1>8. WorkerFits(next)' BY <1>5 DEF Receipt, Published, Prior, WorkerFits, Token, Gone, Untouched
<1>9. PendingKnown'
 <2>1. CASE a.accepted BY <1>5, <2>1 DEF Limbo, PendingKnown, Known, Ok
 <2>2. CASE ~a.accepted BY <1>5, <2>2, <1>1, <1>7, NoLimbo, QuietStays
 <2> QED BY <2>1, <2>2
<1> QED BY <1>3, <1>7, <1>8, <1>9, LeftStays, WorkerKept

Reports(a, b, accepted) ==
    /\ a.error = None /\ a.cancelled = None /\ a.pending = TRUE /\ a.accepted = accepted
    /\ a.batch = b.batch /\ a.gen = b.gen /\ a.reqs = b.reqs

\* The answer of a stage names the batch that it leaves pending.
LEMMA ReportFields ==
  ASSUME NEW b, NEW accepted, NEW a,
         a = [Error(None) EXCEPT !.pending = TRUE, !.accepted = accepted,
                                 !.batch = b.batch, !.gen = b.gen, !.reqs = b.reqs]
  PROVE  Reports(a, b, accepted)
<1>1. PICK e : e = Error(None) OBVIOUS
<1>2. /\ DOMAIN e = {"error", "cancelled", "pending", "accepted", "batch", "gen", "reqs"}
      /\ e.error = None /\ e.cancelled = None
  BY <1>1 DEF Error
<1>3. a = [e EXCEPT !.pending = TRUE, !.accepted = accepted,
                    !.batch = b.batch, !.gen = b.gen, !.reqs = b.reqs]
  BY <1>1
<1> QED BY <1>2, <1>3 DEF Reports

\* The pending batch is cancelled.
LEMMA CancelledStaged ==
  ASSUME CallsInv, CallsInv', NEW own, Kept(own),
         worker.at = "work", call[worker.id].method = "stage",
         UNCHANGED <<main, call, inbox, outbox, closed>>, store.pending # None,
         store' = [[store EXCEPT !.published = None, !.prior = None] EXCEPT !.pending = None],
         NEW a, a = ErrorWith(None, store.pending.batch),
         worker' = [worker EXCEPT !.at = "staged", !.result = a]
  PROVE  Kept(own)'
<1>1. PICK b : b = store.pending.batch OBVIOUS
<1>2. NoReceipt(a, None, b) BY <1>1, ErrorFields
<1>3. DOMAIN store = StoreFields /\ PendingTrue(own, store.pending)
  BY DEF Kept, StoreTrue, StoreFields
<1>4. Falls /\ store'.pending = None /\ store'.left = store.left BY <1>3 DEF Falls, StoreFields
<1>5. Carries(own, own) BY <1>4, FallsCarries
<1>6. PICK r : r = call[worker.id].arg.r OBVIOUS
<1>7. Receipt(a, r)' BY <1>2 DEF NoReceipt, Receipt
<1>8. Token(own, b)' BY <1>1, <1>3, <1>4 DEF Token, Gone, Untouched, PendingTrue, Falls
<1>9. a.cancelled # None => Token(own, a.cancelled)'
  BY <1>2, <1>8 DEF NoReceipt, Token, Gone, Untouched
<1>10. ~a.accepted BY <1>2 DEF NoReceipt
<1> QED BY <1>4, <1>5, <1>6, <1>7, <1>9, <1>10, StagedKept

\* There is nothing to add.
LEMMA NothingStaged ==
  ASSUME CallsInv, CallsInv', NEW own, Kept(own),
         worker.at = "work", call[worker.id].method = "stage",
         UNCHANGED <<main, call, inbox, outbox, closed>>,
         store' = [store EXCEPT !.published = None, !.prior = None],
         NEW a, NoReceipt(a, None, None) \/ (store.pending # None /\ Reports(a, store.pending, FALSE)),
         worker' = [worker EXCEPT !.at = "staged", !.result = a]
  PROVE  Kept(own)'
<1>1. DOMAIN store = StoreFields BY DEF Kept, StoreTrue, StoreFields
<1>2. Falls /\ store'.pending = store.pending /\ store'.left = store.left
  BY <1>1 DEF Falls, StoreFields
<1>3. Carries(own, own) BY <1>2, FallsCarries
<1>4. PICK r : r = call[worker.id].arg.r OBVIOUS
<1>5. a.cancelled = None /\ ~a.accepted BY DEF NoReceipt, Reports
<1>6. Receipt(a, r)' BY <1>2 DEF NoReceipt, Reports, Receipt
<1>7. worker \notin {NoWork, Dead} BY DEF NoWork, Dead
<1>8. ~closed /\ store'.pending # None => Known(store'.pending) BY <1>2, <1>7, WasKnown
<1> QED BY <1>2, <1>3, <1>4, <1>5, <1>6, <1>8, StagedKept

\* The request that a stage is about is not answered.
LEMMA StillAsked ==
  ASSUME CallsInv, NEW own, Kept(own), worker \notin {NoWork, Dead},
         call[worker.id].method = "stage", ~Stopped(call[worker.id]),
         NEW r, r = call[worker.id].arg.r
  PROVE  r \in Nat /\ r \notin Ok(main)
<1>1. PICK id : id = worker.id OBVIOUS
<1>2. PICK c : c = call[id] OBVIOUS
<1>3. /\ id \in 1 .. Len(call) /\ c.open /\ Linked(own, id) /\ Unfinished(id)
      /\ main.failed = FALSE
  BY <1>1, <1>2, WorkFacts
<1>4. ~c.settled BY <1>1, <1>2, <1>3, GivenUpStops DEF Linked, Stage
<1>5. main.waiting = id BY <1>1, <1>2, <1>3, <1>4 DEF Linked
<1>6. main.waiting # None BY <1>3, <1>5, BatchesAssumption
<1>7. main.queue # <<>> /\ Head(main.queue).kind = "stage" /\ Head(main.queue).arg = r
  BY <1>1, <1>5, <1>6 DEF Kept, Waiting
<1>8. JobTrue(own, Ok(main), main, Head(main.queue)) BY <1>7, PopTrue DEF Kept
<1>9. r \in 1 .. Len(main.req) /\ main.req[r].answer = None BY <1>7, <1>8 DEF JobTrue
<1>10. r \in Nat BY <1>9
<1>11. r \notin store.left
 <2> SUFFICES ASSUME r \in store.left PROVE FALSE OBVIOUS
 <2>1. PICK j \in 1 .. Len(call) : call[j].method = "stage" /\ call[j].arg.r = r /\ ~Unfinished(j)
   BY DEF Kept, LeftEnded
 <2>2. j # id BY <1>3, <2>1
 <2>3. main.req[r].answer # None BY <1>5, <2>1, <2>2 DEF Kept, Linked, Stage
 <2> QED BY <1>9, <2>3
<1> QED BY <1>9, <1>10, <1>11, BatchesAssumption DEF Ok

\* A request is added to the pending batch.
LEMMA AddedStaged ==
  ASSUME CallsInv, CallsInv', NEW own \in [Nat -> Nat], Kept(own),
         worker.at = "work", call[worker.id].method = "stage", ~Stopped(call[worker.id]),
         UNCHANGED <<main, call, inbox, outbox, closed>>,
         NEW r, r = call[worker.id].arg.r, NEW added, Adds(r, added),
         added \in [batch : Nat, gen : Nat, reqs : SUBSET Nat], NEW a, Reports(a, added, TRUE),
         worker' = [worker EXCEPT !.at = "staged", !.result = a]
  PROVE  \E next \in [Nat -> Nat] : Kept(next)'
<1>1. worker \notin {NoWork, Dead} BY DEF NoWork, Dead
<1>2. r \in Nat /\ r \notin Ok(main) BY <1>1, StillAsked
<1>3. added # None BY BatchesAssumption
<1>4. PICK next : next = [own EXCEPT ![r] = added.batch] OBVIOUS
<1>5. Carries(own, next) /\ next \in [Nat -> Nat] BY <1>2, <1>3, <1>4, AddsCarries
<1>6. Receipt(a, r)' BY <1>3 DEF Adds, Reports, Receipt, Published, Prior
<1>7. a.cancelled = None /\ a.accepted = TRUE BY DEF Reports
<1>8. ~closed /\ store'.prior # None => Known(store'.prior) BY <1>1, WasKnown DEF Adds
<1>9. store'.left = store.left BY DEF Adds
<1>10. Kept(next)' BY <1>5, <1>6, <1>7, <1>8, <1>9, StagedKept
<1> QED BY <1>5, <1>10

\* A stage publishes the batch with its request, without it, or discards the batch.
LEMMA StageDoneAnswers ==
  ASSUME CallsInv, CallsInv', NEW own \in [Nat -> Nat], Kept(own), StageDone
  PROVE  \E next \in [Nat -> Nat] : Kept(next)'
<1>1. PICK r : r = call[worker.id].arg.r OBVIOUS
<1>2. PICK p : p = store.pending OBVIOUS
<1>3. PICK gen : gen = store.gen + 1 BY Zenon
<1>4. PICK added : added = [batch |-> IF p = None THEN gen ELSE p.batch, gen |-> gen,
                            reqs |-> {r} \cup IF p = None THEN {} ELSE p.reqs]
  BY Zenon
<1> DEFINE receipt(b, accepted) ==
               [Error(None) EXCEPT !.pending = TRUE, !.accepted = accepted,
                                   !.batch = b.batch, !.gen = b.gen, !.reqs = b.reqs]
           quiet == [store EXCEPT !.published = None, !.prior = None]
<1>5. /\ worker.at = "work" /\ call[worker.id].method = "stage" /\ ~Stopped(call[worker.id])
      /\ UNCHANGED <<main, call, inbox, outbox, closed>>
  BY DEF StageDone, In
<1>6. \/ /\ p # None /\ store' = [quiet EXCEPT !.pending = None]
         /\ worker' = [worker EXCEPT !.at = "staged", !.result = ErrorWith(None, p.batch)]
      \/ /\ store' = quiet
         /\ \/ worker' = [worker EXCEPT !.at = "staged", !.result = Error(None)]
            \/ p # None /\ worker' = [worker EXCEPT !.at = "staged", !.result = receipt(p, FALSE)]
      \/ /\ store' = [store EXCEPT !.pending = added, !.prior = p, !.published = gen, !.gen = gen]
         /\ worker' = [worker EXCEPT !.at = "staged", !.result = receipt(added, TRUE)]
  BY <1>1, <1>2, <1>3, <1>4, Zenon DEF StageDone, ErrorWith
<1>7. CASE /\ p # None /\ store' = [quiet EXCEPT !.pending = None]
           /\ worker' = [worker EXCEPT !.at = "staged", !.result = ErrorWith(None, p.batch)]
 <2>1. PICK a : a = ErrorWith(None, p.batch) OBVIOUS
 <2>2. Kept(own)' BY <1>2, <1>5, <1>7, <2>1, CancelledStaged
 <2> QED BY <2>2
<1>8. CASE store' = quiet /\ worker' = [worker EXCEPT !.at = "staged", !.result = Error(None)]
 <2>1. PICK a : a = Error(None) OBVIOUS
 <2>2. NoReceipt(a, None, None) BY <2>1 DEF Error, NoReceipt
 <2>3. Kept(own)' BY <1>5, <1>8, <2>1, <2>2, NothingStaged
 <2> QED BY <2>3
<1>9. CASE /\ store' = quiet /\ p # None
           /\ worker' = [worker EXCEPT !.at = "staged", !.result = receipt(p, FALSE)]
 <2>1. PICK a : a = receipt(p, FALSE) OBVIOUS
 <2>2. Reports(a, p, FALSE) BY <2>1, ReportFields
 <2>3. Kept(own)' BY <1>2, <1>5, <1>9, <2>1, <2>2, NothingStaged
 <2> QED BY <2>3
<1>10. CASE /\ store' = [store EXCEPT !.pending = added, !.prior = p, !.published = gen, !.gen = gen]
            /\ worker' = [worker EXCEPT !.at = "staged", !.result = receipt(added, TRUE)]
 <2>1. PICK a : a = receipt(added, TRUE) OBVIOUS
 <2>2. Reports(a, added, TRUE) BY <2>1, ReportFields
 <2>3. /\ DOMAIN store = StoreFields /\ store.gen \in Nat
       /\ p # None => p.batch \in 1 .. store.gen /\ p.reqs \subseteq Nat
   BY <1>2 DEF Kept, StoreTrue, StoreFields, PendingTrue
 <2>4. /\ added.batch = (IF p = None THEN gen ELSE p.batch) /\ added.gen = gen
       /\ added.reqs = {r} \cup IF p = None THEN {} ELSE p.reqs
   BY <1>4
 <2>5. Adds(r, added) BY <1>2, <1>3, <1>10, <2>3, <2>4 DEF Adds, StoreFields
 <2>6. r \in Nat BY <1>5, <1>1, StillAsked DEF NoWork, Dead
 <2>7. added \in [batch : Nat, gen : Nat, reqs : SUBSET Nat] BY <1>3, <2>3, <1>4, <2>6
 <2> QED BY <1>1, <1>5, <1>10, <2>1, <2>2, <2>5, <2>7, AddedStaged
<1> QED BY <1>6, <1>7, <1>8, <1>9, <1>10

\* A commit begins, and is about the batch that is in the store.
LEMMA CommitBeginsAnswers ==
  ASSUME CallsInv, CallsInv', NEW own, Kept(own), CommitBegins
  PROVE  Kept(own)'
<1>1. PICK d : d = [call[worker.id] EXCEPT !.exec = COMMITTING] OBVIOUS
<1>2. /\ worker.at = "work" /\ call[worker.id].method = "commit"
      /\ store.pending # None /\ store.pending.gen = call[worker.id].arg.gen
      /\ call' = [call EXCEPT ![worker.id] = d] /\ worker' = [worker EXCEPT !.at = "begun"]
      /\ UNCHANGED <<main, inbox, outbox, store, closed>>
  BY <1>1 DEF CommitBegins, In
<1>3. worker \notin {NoWork, Dead} BY <1>2 DEF NoWork, Dead
<1>4. /\ worker.id \in 1 .. Len(call) /\ AtWork
      /\ \A k \in 1 .. Len(outbox) : outbox[k].id \in 1 .. Len(call)
  BY <1>3, WorkFacts
<1>5. DOMAIN call[worker.id] = Fields /\ DOMAIN worker = {"id", "at", "result"}
  BY <1>4, CallFields DEF AtWork
<1>6. worker'.id = worker.id /\ worker'.at = "begun" BY <1>2, <1>5
<1>7. CallEnds(d) BY <1>1, <1>2, <1>5 DEF CallEnds, Fields
<1>8. Carries(own, own) BY <1>2, FallsCarries
<1>9. WorkerGoes(own, own) /\ Begun' = Begun BY <1>2, <1>3, <1>7, <1>8, WorkGoes
<1>10. call'[worker.id].arg = call[worker.id].arg BY <1>4, <1>9 DEF WorkerGoes, CallWorks
<1>11. WorkerFits(own)' BY <1>2, <1>6, <1>10 DEF WorkerFits
<1>12. ~Limbo' BY <1>2, <1>3, <1>6, <1>9, NoLimbo
<1>13. PendingKnown' BY <1>2, <1>3, WasKnown, <1>12, QuietStays
<1> QED BY <1>2, <1>4, <1>9, <1>11, <1>13, LeftStays, WorkerKept

\* Its last look at the clock.
LEMMA CommitEnteredAnswers ==
  ASSUME CallsInv, CallsInv', NEW own, Kept(own), CommitEntered
  PROVE  Kept(own)'
<1>1. /\ worker.at = "begun" /\ call[worker.id].method = "commit" /\ UNCHANGED <<main, inbox, closed>>
  BY DEF CommitEntered, In
<1>2. worker \notin {NoWork, Dead} BY <1>1 DEF NoWork, Dead
<1>3. CASE call[worker.id].due
 <2>1. Falls /\ store'.pending = None /\ store'.left = store.left
   BY <1>3 DEF CommitEntered, Kept, StoreTrue, StoreFields, Falls
 <2>2. Fails("not-committed", None) BY <1>3 DEF CommitEntered
 <2> QED BY <1>1, <1>2, <2>1, <2>2, FailsAnswer
<1>4. CASE ~call[worker.id].due
 <2>1. PICK d : d = call[worker.id] OBVIOUS
 <2>2. worker' = [worker EXCEPT !.at = "entered"] /\ UNCHANGED <<call, outbox, store>>
   BY <1>4 DEF CommitEntered
 <2>3. /\ AtWork /\ \A k \in 1 .. Len(outbox) : outbox[k].id \in 1 .. Len(call) BY <1>2, WorkFacts
 <2>4. worker'.id = worker.id /\ worker'.at = "entered" BY <2>2, <2>3 DEF AtWork
 <2>5. CallEnds(d) /\ call' = [call EXCEPT ![worker.id] = d]
   BY <1>1, <2>1, <2>2, CallItself DEF CallEnds
 <2>6. Carries(own, own) BY <1>1, <2>2, FallsCarries
 <2>7. WorkerGoes(own, own) /\ Begun' = Begun BY <1>1, <1>2, <2>5, <2>6, WorkGoes
 <2>8. WorkerFits(own)' BY <1>1, <2>2, <2>4 DEF Kept, WorkerFits
 <2>9. ~Limbo' BY <1>1, <1>2, <2>2, <2>4, <2>7, NoLimbo
 <2>10. PendingKnown' BY <1>1, <1>2, <2>2, WasKnown, <2>9, QuietStays
 <2> QED BY <2>2, <2>3, <2>7, <2>8, <2>10, LeftStays, WorkerKept
<1> QED BY <1>3, <1>4

\* A commit that has begun is of the batch in the store, and that is no more
\* than the main thread has told those who asked.
LEMMA CommitsPending ==
  ASSUME CallsInv, NEW own, Kept(own), worker.at \in {"begun", "entered"},
         call[worker.id].method = "commit", NEW p, p = store.pending
  PROVE  /\ p # None /\ DOMAIN store = StoreFields
         /\ call[worker.id].arg.batch = p.batch /\ call[worker.id].arg.reqs = p.reqs
         /\ p.reqs \subseteq Ok(main) /\ p.batch \in 1 .. store.gen
         /\ p.batch \in DOMAIN main.record => main.record[p.batch].status # "pending"
<1>1. worker \notin {NoWork, Dead} BY DEF NoWork, Dead
<1>2. Linked(own, worker.id) /\ Unfinished(worker.id) BY <1>1, WorkFacts
<1>3. Commit(own, worker.id) BY <1>2 DEF Linked
<1>4. p # None /\ p.gen = call[worker.id].arg.gen BY DEF Kept, WorkerFits
<1>5. BatchTrue(own, Ok(main), call[worker.id].arg) BY <1>3 DEF Commit
<1>6. call[worker.id].arg.batch = p.batch /\ call[worker.id].arg.reqs = p.reqs
  BY <1>4, <1>5 DEF BatchTrue, SameAs
<1>7. DOMAIN store = StoreFields BY DEF Kept, StoreTrue, StoreFields
<1>8. p.batch \in DOMAIN main.record => main.record[p.batch].status # "pending"
  BY <1>2, <1>3, <1>6 DEF Commit
<1>9. p.reqs \subseteq Ok(main) /\ p.batch \in 1 .. store.gen BY <1>5, <1>6 DEF BatchTrue
<1> QED BY <1>4, <1>6, <1>7, <1>8, <1>9

\* What a commit does to the store, and to its call.
LEMMA CommitMoves ==
  ASSUME CallsInv, NEW own, Kept(own), worker.at = "entered", call[worker.id].method = "commit",
         UNCHANGED main, NEW done \in BOOLEAN, DOMAIN store' = StoreFields, store'.gen = store.gen,
         store'.pending = None, store'.left = store.left,
         store'.applied = IF done THEN store.applied \cup store.pending.reqs ELSE store.applied,
         \/ store'.prior = None /\ store'.published = None
         \/ store'.prior = store.prior /\ store'.published = store.published /\ done,
         NEW d, d.method = "commit", d.arg = call[worker.id].arg, d.settled = call[worker.id].settled,
         d.open = call[worker.id].open, d.due = call[worker.id].due, d.done = done
  PROVE  Carries(own, own) /\ CallEnds(d)
<1>1. PICK p : p = store.pending OBVIOUS
<1>2. /\ p # None /\ call[worker.id].arg.batch = p.batch /\ call[worker.id].arg.reqs = p.reqs
      /\ p.reqs \subseteq Ok(main) /\ p.batch \in 1 .. store.gen
      /\ p.batch \in DOMAIN main.record => main.record[p.batch].status # "pending"
  BY <1>1, CommitsPending
<1>3. Carries(own, own)
 <2>1. CASE done BY <1>1, <1>2, <2>1, AppliesCarries DEF Applies
 <2>2. CASE ~done BY <2>2, FallsCarries DEF Falls
 <2> QED BY <2>1, <2>2
<1>4. ~call[worker.id].done BY DEF CallsInv, NoWork, Dead, AtWork
<1>5. done => \E b : b = call[worker.id].arg.batch /\ Gone(b)' /\ call[worker.id].arg.reqs \subseteq store'.applied
  BY <1>1, <1>2 DEF Gone
<1> QED BY <1>3, <1>4, <1>5 DEF CallEnds

\* The files have moved, or they have not.
LEMMA CommitDoneAnswers ==
  ASSUME CallsInv, CallsInv', NEW own, Kept(own), NEW done \in BOOLEAN,
         NEW state \in {"ok", "not-committed", "committed", "unknown"}, CommitDone(done, state)
  PROVE  Kept(own)'
<1>1. PICK id : id = worker.id OBVIOUS
<1>2. PICK e : e = [call[id] EXCEPT !.done = done] OBVIOUS
<1>3. PICK d : d = IF state = "ok" THEN Completed(e) ELSE FailTo(e, state) OBVIOUS
<1>4. PICK error : error = IF state = "ok" THEN None ELSE state OBVIOUS
<1>5. PICK a : a = Error(error) OBVIOUS
<1>6. PICK late : late = (state = "ok" /\ e.due) OBVIOUS
<1>7. PICK m : m = [id |-> id, late |-> late, answer |-> a] OBVIOUS
<1>8. /\ worker.at = "entered" /\ call[id].method = "commit" /\ UNCHANGED <<main, inbox, closed>>
      /\ store' = [store EXCEPT !.pending = None, !.published = None, !.prior = None,
                     !.applied = IF done THEN @ \cup store.pending.reqs ELSE @,
                     !.version = IF done THEN @ + 1 ELSE @]
      /\ call' = [call EXCEPT ![worker.id] = d] /\ Replies(a, late)
      /\ state = "ok" => done
  BY <1>1, <1>2, <1>3, <1>4, <1>5, <1>6 DEF CommitDone, In
<1>9. worker \notin {NoWork, Dead} BY <1>8 DEF NoWork, Dead
<1>10. id \in 1 .. Len(call) /\ call[id].open BY <1>1, <1>9, WorkFacts
<1>11. DOMAIN call[id] = Fields BY <1>10, CallFields
<1>12. /\ DOMAIN e = Fields /\ e.done = done /\ e.method = "commit" /\ e.arg = call[id].arg
       /\ e.settled = call[id].settled /\ e.open = call[id].open /\ e.due = call[id].due
  BY <1>2, <1>8, <1>11 DEF Fields
<1>13. PICK x : d = [e EXCEPT !.exec = x] BY <1>3 DEF Completed, FailTo
<1>14. /\ d.done = done /\ d.method = "commit" /\ d.arg = call[id].arg
       /\ d.settled = call[id].settled /\ d.open = call[id].open /\ d.due = call[id].due
  BY <1>12, <1>13 DEF Fields
<1>15. DOMAIN store = StoreFields BY DEF Kept, StoreTrue, StoreFields
<1>16. /\ DOMAIN store' = StoreFields /\ store'.gen = store.gen /\ store'.pending = None
       /\ store'.prior = None /\ store'.published = None /\ store'.left = store.left
       /\ store'.applied = IF done THEN store.applied \cup store.pending.reqs ELSE store.applied
  BY <1>8, <1>15 DEF StoreFields
<1>17. Carries(own, own) /\ CallEnds(d) BY <1>1, <1>8, <1>14, <1>16, CommitMoves
<1>18. WorkerGoes(own, own) /\ Begun' = Begun BY <1>8, <1>9, <1>17, WorkGoes
<1>19. call'[id] = d BY SequenceFacts, <1>1, <1>8, <1>10 DEF CallsInv
<1>20. m.id = id /\ m.answer = a /\ a.error = error /\ a.cancelled = None BY <1>5, <1>7 DEF Error
<1>21. error = None => done BY <1>4, <1>8, BatchesAssumption
<1>22. MessageFits(own, m)' BY <1>10, <1>14, <1>19, <1>20, <1>21 DEF MessageFits
<1>23. PendingKnown' BY <1>16 DEF PendingKnown
<1> QED BY <1>1, <1>7, <1>8, <1>9, <1>16, <1>17, <1>22, <1>23, RepliesAnswer

\* The worker dies in a commit that is done.
LEMMA DeathDone ==
  ASSUME CallsInv, CallsInv', NEW own, Kept(own), WorkerDies(TRUE)
  PROVE  Kept(own)'
<1>1. PICK id : id = worker.id OBVIOUS
<1>2. PICK d : d = [call[id] EXCEPT !.done = TRUE] OBVIOUS
<1>3. /\ worker.at = "entered" /\ call[id].method = "commit" /\ worker' = Dead
      /\ UNCHANGED <<main, inbox, outbox, closed>>
      /\ store' = [store EXCEPT !.applied = @ \cup store.pending.reqs,
                                !.version = @ + 1, !.pending = None]
      /\ call' = [call EXCEPT ![worker.id] = d]
  BY <1>1, <1>2 DEF WorkerDies, In
<1>4. worker \notin {NoWork, Dead} BY <1>3 DEF NoWork, Dead
<1>5. /\ id \in 1 .. Len(call) /\ \A k \in 1 .. Len(outbox) : outbox[k].id \in 1 .. Len(call)
  BY <1>1, <1>4, WorkFacts
<1>6. DOMAIN call[id] = Fields BY <1>5, CallFields
<1>7. /\ d.done = TRUE /\ d.method = "commit" /\ d.arg = call[id].arg
      /\ d.settled = call[id].settled /\ d.open = call[id].open /\ d.due = call[id].due
  BY <1>2, <1>3, <1>6 DEF Fields
<1>8. DOMAIN store = StoreFields BY DEF Kept, StoreTrue, StoreFields
<1>9. /\ DOMAIN store' = StoreFields /\ store'.gen = store.gen /\ store'.pending = None
      /\ store'.prior = store.prior /\ store'.published = store.published
      /\ store'.left = store.left
      /\ store'.applied = store.applied \cup store.pending.reqs
  BY <1>3, <1>8 DEF StoreFields
<1>10. PICK done \in BOOLEAN : done = TRUE OBVIOUS
<1>11. Carries(own, own) /\ CallEnds(d) BY <1>1, <1>3, <1>7, <1>9, <1>10, CommitMoves
<1>12. WorkerGoes(own, own) BY <1>3, <1>4, <1>11, WorkGoes
<1>13. WorkerFits(own)' BY <1>3 DEF WorkerFits, Dead
<1>14. PendingKnown' BY <1>9 DEF PendingKnown
<1> QED BY <1>3, <1>5, <1>9, <1>12, <1>13, <1>14, LeftStays, WorkerKept

\* Or in a call that is not, or in none.
LEMMA DeathElse ==
  ASSUME CallsInv, CallsInv', NEW own, Kept(own), WorkerDies(FALSE)
  PROVE  Kept(own)'
<1>1. worker # Dead /\ worker' = Dead /\ UNCHANGED <<main, call, inbox, outbox, store, closed>>
  BY DEF WorkerDies
<1>2. Carries(own, own) BY <1>1, FallsCarries
<1>3. WorkerFits(own)' BY <1>1 DEF WorkerFits, Dead
<1>4. PICK b : b = Begun OBVIOUS
<1>5. Begun' = b /\ b \in Int /\ b <= Len(call) /\ Len(call) \in Nat
  BY SequenceFacts, <1>1, <1>4 DEF CallsInv, Begun
<1>6. CASE worker # NoWork
 <2>1. worker \notin {NoWork, Dead} BY <1>1, <1>6
 <2>2. PICK d : d = call[worker.id] OBVIOUS
 <2>3. CallEnds(d) /\ call' = [call EXCEPT ![worker.id] = d] BY <1>1, <2>2, CallItself DEF CallEnds
 <2>4. WorkerGoes(own, own) BY <1>1, <1>2, <2>1, <2>3, WorkGoes
 <2>5. /\ worker.id \in 1 .. Len(call) /\ worker.id = b /\ call[worker.id].open
       /\ \A k \in 1 .. Len(outbox) : outbox[k].id \in 1 .. Len(call) /\ outbox[k].id # worker.id
   BY <1>4, <2>1, WorkFacts
 <2>6. Stuck' BY <1>1, <1>5, <2>5 DEF Stuck
 <2>7. PendingKnown' BY <2>6 DEF PendingKnown
 <2> QED BY <1>1, <1>3, <2>4, <2>5, <2>7, LeftStays, WorkerKept
<1>7. CASE worker = NoWork
 <2>1. \A i : Unfinished(i)' <=> Unfinished(i) BY <1>1, <1>4, <1>5, <1>7 DEF Unfinished
 <2>2. ASSUME NEW i \in 1 .. Len(call)
       PROVE  CallWorks(i)
   BY <1>1, <2>1 DEF CallWorks
 <2>3. WorkerGoes(own, own) BY <1>1, <1>2, <2>2 DEF WorkerGoes
 <2>4. \A k \in 1 .. Len(outbox) : outbox[k].id \in 1 .. Len(call)
  <3> TAKE k \in 1 .. Len(outbox)
  <3>1. outbox[k].id \in 1 .. b BY <1>4 DEF CallsInv, OutboxTrue, MessageTrue
  <3> QED BY <1>5, <3>1
 <2>5. Limbo' <=> Limbo BY <1>1, <1>7, <2>1 DEF Limbo, NoWork, Dead
 <2>6. ~Stuck BY <1>1 DEF Stuck
 <2>7. PendingKnown' BY <1>1, <2>5, <2>6 DEF Kept, PendingKnown, Known, Ok
 <2> QED BY <1>1, <1>3, <2>3, <2>4, <2>7, LeftStays, WorkerKept
<1> QED BY <1>6, <1>7

\* The next message is about call i, the one after the last that has begun.
Takes(own, b, i) ==
    /\ i = b + 1 /\ b \in Nat /\ i \in 1 .. Len(call) /\ Len(call) \in Nat /\ DOMAIN call = 1 .. Len(call)
    /\ worker = NoWork /\ main.failed = FALSE
    /\ main' = main /\ closed' = closed
    /\ store' = IF Stopped(call[i]) /\ call[i].method = "reject"
                THEN LeftBehind(call[i].arg.gen) ELSE store
    /\ \A j \in 1 .. Len(call) : Unfinished(j) <=> j > b
    /\ Linked(own, i) /\ call[i].open /\ DOMAIN call[i] = Fields
    /\ Len(call') = Len(call) => Begun' = i
    /\ \A k \in 1 .. Len(outbox) : outbox[k].id \in 1 .. Len(call) /\ outbox[k].id # i

\* The worker takes the calls in the order they were sent.
LEMMA TakeFacts ==
  ASSUME CallsInv, NEW own, Kept(own), Take, NEW b, b = Begun, NEW i, i = Head(inbox)
  PROVE  Takes(own, b, i)
<1> DEFINE n == Len(call)
<1>1. IsSequence(call) /\ n \in Nat /\ DOMAIN call = 1 .. n /\ Len(inbox) \in Nat
  BY SequenceFacts DEF CallsInv
<1>2. /\ worker = NoWork /\ UNCHANGED <<main, closed>> /\ inbox # <<>> /\ inbox' = Tail(inbox)
      /\ store' = IF Stopped(call[i]) /\ call[i].method = "reject"
                  THEN LeftBehind(call[i].arg.gen) ELSE store
  BY DEF Take
<1>3. Len(inbox') = Len(inbox) - 1 /\ Len(inbox) > 0 /\ i = inbox[1]
  BY <1>2, HeadTailProperties, EmptySeq DEF CallsInv
<1>4. i = b + 1 /\ i \in 1 .. n /\ b \in Nat BY <1>1, <1>3 DEF CallsInv, InOrder, Begun
<1>5. main.failed = FALSE BY <1>2 DEF Kept, NoWork, Dead
<1>6. \A j : Unfinished(j) <=> j > b BY <1>2 DEF Unfinished
<1>7. Unfinished(i) BY <1>4, <1>6
<1>8. Linked(own, i) /\ call[i].open BY <1>4, <1>5, <1>7 DEF Kept, Linked
<1>9. DOMAIN call[i] = Fields BY <1>4, CallFields
<1>10. Len(call') = n => Begun' = i BY <1>1, <1>3, <1>4 DEF Begun
<1>11. ASSUME NEW k \in 1 .. Len(outbox)
       PROVE  outbox[k].id \in 1 .. n /\ outbox[k].id # i
 <2>1. outbox[k].id \in 1 .. b BY DEF CallsInv, OutboxTrue, MessageTrue
 <2> HIDE DEF n
 <2> QED BY <1>1, <1>4, <2>1
<1> QED BY <1>1, <1>2, <1>4, <1>5, <1>6, <1>8, <1>9, <1>10, <1>11 DEF Takes

\* It is begun.
LEMMA TakeBegins ==
  ASSUME CallsInv, CallsInv', NEW own, Kept(own), Take, ~Stopped(call[Head(inbox)])
  PROVE  Kept(own)'
<1>1. PICK b : b = Begun OBVIOUS
<1>2. PICK i : i = Head(inbox) OBVIOUS
<1>3. worker' = [id |-> i, at |-> "work", result |-> None] /\ UNCHANGED <<outbox, call>>
  BY <1>2 DEF Take
<1>4. /\ i = b + 1 /\ b \in Nat /\ i \in 1 .. Len(call) /\ Len(call) \in Nat
      /\ worker = NoWork /\ main.failed = FALSE /\ UNCHANGED <<main, store, closed>>
      /\ \A j \in 1 .. Len(call) : Unfinished(j) <=> j > b
      /\ Begun' = i
      /\ \A k \in 1 .. Len(outbox) : outbox[k].id \in 1 .. Len(call)
 <2>1. Takes(own, b, i) BY <1>1, <1>2, TakeFacts
 <2> QED BY <1>2, <1>3, <2>1 DEF Takes
<1>5. worker'.at = "work" /\ worker' \notin {NoWork, Dead} BY <1>3 DEF NoWork, Dead
<1>6. ASSUME NEW j \in 1 .. Len(call)
      PROVE  Unfinished(j)' <=> Unfinished(j)
  BY <1>4, <1>5 DEF Unfinished
<1>7. Carries(own, own) BY <1>4, FallsCarries
<1>8. \A j \in 1 .. Len(call) : CallWorks(j) BY <1>3, <1>4, <1>6 DEF CallWorks
<1>9. WorkerGoes(own, own) BY <1>3, <1>4, <1>7, <1>8 DEF WorkerGoes, NoWork, Dead
<1>10. WorkerFits(own)' BY <1>5 DEF WorkerFits
<1>11. PendingKnown'
 <2>1. Limbo' <=> Limbo BY <1>3, <1>4, <1>5, <1>6 DEF Limbo, NoWork
 <2>2. ~Stuck BY <1>4 DEF Stuck, NoWork, Dead
 <2> QED BY <1>4, <2>1, <2>2 DEF Kept, PendingKnown, Known, Ok
<1> QED BY <1>3, <1>4, <1>9, <1>10, <1>11, LeftStays, WorkerKept

\* A rejection is the last call, and the stage it is about has been read.
LEMMA TakesRejection ==
  ASSUME CallsInv, NEW own, Kept(own), NEW b, b = Begun, NEW i, Takes(own, b, i)
  PROVE  /\ \A j \in 1 .. Len(call) : call[j].method = "reject" /\ j > b => j = i
         /\ call[i].method = "reject" => \A k \in 1 .. Len(outbox) :
              call[outbox[k].id].method = "stage" => outbox[k].answer.error # None
<1>1. /\ i = b + 1 /\ b \in Nat /\ i \in 1 .. Len(call) /\ Len(call) \in Nat
      /\ \A j \in 1 .. Len(call) : Unfinished(j) <=> j > b
      /\ \A k \in 1 .. Len(outbox) : outbox[k].id \in 1 .. Len(call) /\ outbox[k].id # i
  BY DEF Takes
<1>2. ASSUME NEW j \in 1 .. Len(call), call[j].method = "reject", j > b
      PROVE  j = i
 <2>1. j - 1 \in 1 .. Len(call) /\ ~Unfinished(j - 1) BY <1>2 DEF Kept, Linked, Rejection
 <2>2. ~(j - 1 > b) BY <1>1, <2>1
 <2> QED BY <1>1, <1>2, <2>2
<1>3. ASSUME call[i].method = "reject", NEW k \in 1 .. Len(outbox),
             call[outbox[k].id].method = "stage", outbox[k].answer.error = None
      PROVE  FALSE
 <2>1. PICK j : j = outbox[k].id OBVIOUS
 <2>2. j \in 1 .. Len(call) /\ call[j].open /\ ~call[j].settled /\ call[j].method = "stage"
   BY <1>1, <1>3, <2>1 DEF Kept, MessagesFit, MessageFits
 <2>3. main.waiting = j BY <2>2 DEF Kept, Linked
 <2>4. j = Len(call) BY <2>2, <2>3, <1>1, BatchesAssumption DEF Kept, Waiting
 <2>5. j \in 1 .. b BY <2>1 DEF CallsInv, OutboxTrue, MessageTrue
 <2> QED BY <1>1, <2>4, <2>5
<1> QED BY <1>2, <1>3

\* It was given up.
LEMMA TakeStops ==
  ASSUME CallsInv, CallsInv', NEW own, Kept(own), Take, Stopped(call[Head(inbox)])
  PROVE  Kept(own)'
<1>1. PICK b : b = Begun OBVIOUS
<1>2. PICK i : i = Head(inbox) OBVIOUS
<1>3. PICK a : a = Error("not-committed") OBVIOUS
<1>4. PICK m : m = [id |-> i, late |-> FALSE, answer |-> a] OBVIOUS
<1>5. PICK d : d = [call[i] EXCEPT !.exec = FINISHED] OBVIOUS
<1>6. /\ outbox' = Append(outbox, m) /\ worker' = worker /\ call' = [call EXCEPT ![i] = d]
      /\ Stopped(call[i])
  BY <1>2, <1>3, <1>4, <1>5 DEF Take, Reply
<1>7. Len(call') = Len(call) BY <1>6, MappedSequence DEF CallsInv
<1>8. /\ i = b + 1 /\ b \in Nat /\ i \in 1 .. Len(call) /\ Len(call) \in Nat /\ DOMAIN call = 1 .. Len(call)
      /\ worker = NoWork /\ main.failed = FALSE /\ UNCHANGED <<main, closed>>
      /\ \A j \in 1 .. Len(call) : Unfinished(j) <=> j > b
      /\ Linked(own, i) /\ call[i].open /\ DOMAIN call[i] = Fields
      /\ Begun' = i
      /\ \A k \in 1 .. Len(outbox) : outbox[k].id \in 1 .. Len(call) /\ outbox[k].id # i
 <2>1. Takes(own, b, i) BY <1>1, <1>2, TakeFacts
 <2> QED BY <1>7, <2>1 DEF Takes
<1>9. /\ \A j \in 1 .. Len(call) : call[j].method = "reject" /\ j > b => j = i
      /\ call[i].method = "reject" => \A k \in 1 .. Len(outbox) :
           call[outbox[k].id].method = "stage" => outbox[k].answer.error # None
  BY <1>1, <1>2, TakeFacts, TakesRejection
<1>10. /\ store' = store \/ Leaves
       /\ call[i].method # "reject" => store' = store
       /\ \A q \in store'.left : q \in store.left \/ LeftBy(q, i)
       /\ call[i].method = "reject" /\ ~closed => Limbo /\ Known(store.pending)'
 <2>1. store' = IF call[i].method = "reject" THEN LeftBehind(call[i].arg.gen) ELSE store
  <3>1. Takes(own, b, i) BY <1>1, <1>2, TakeFacts
  <3> QED BY <1>6, <3>1 DEF Takes
 <2>2. CASE call[i].method # "reject" BY <2>1, <2>2
 <2>3. CASE call[i].method = "reject"
  <3>1. PICK p : p = i - 1 OBVIOUS
  <3>2. PICK r : r = call[p].arg.r OBVIOUS
  <3>3. PICK gen : gen = call[i].arg.gen OBVIOUS
  <3>4. Unfinished(i) BY <1>8
  <3>5. /\ Published(gen, r) /\ p \in 1 .. Len(call) /\ call[p].method = "stage" /\ ~Unfinished(p)
    BY <1>8, <2>3, <3>1, <3>2, <3>3, <3>4 DEF Linked, Rejection
  <3>6. r \in 1 .. Len(main.req) BY <3>2, <3>5 DEF Kept, Linked, Stage
  <3>7. Limbo /\ ~Stuck BY <1>8, <2>3, <3>4 DEF Limbo, Stuck, NoWork, Dead
  <3>8. ~closed => (store.prior # None => Known(store.prior))
    BY <1>8, <3>5, <3>7 DEF Kept, PendingKnown, Published
  <3>9. /\ Leaves /\ \A q \in store'.left : q \in store.left \/ q = r
        /\ ~closed => Known(store.pending)'
    BY <1>8, <2>1, <2>3, <3>3, <3>5, <3>6, <3>8, LeftBehindLeaves
  <3>10. \A q \in store'.left : q \in store.left \/ LeftBy(q, i) BY <3>2, <3>5, <3>9 DEF LeftBy
  <3> QED BY <2>3, <3>7, <3>9, <3>10
 <2> QED BY <2>2, <2>3
<1>11. /\ d.method = call[i].method /\ d.arg = call[i].arg /\ d.exec = FINISHED
       /\ d.settled = call[i].settled /\ d.open = call[i].open /\ d.due = call[i].due
       /\ d.done = call[i].done
  BY <1>5, <1>8 DEF Fields
<1>12. ASSUME NEW j \in 1 .. Len(call)
       PROVE  /\ call'[j] = IF j = i THEN d ELSE call[j]
              /\ Unfinished(j)' <=> Unfinished(j) /\ j # i
              /\ Unfinished(j)' => call[j].method # "reject"
 <2>1. /\ call'[j] = IF j = i THEN d ELSE call[j]
       /\ Unfinished(j)' <=> Unfinished(j) /\ j # i
   BY <1>6, <1>8 DEF Unfinished
 <2> QED BY <1>8, <1>9, <2>1
<1>13. Carries(own, own) BY <1>8, <1>10, FallsCarries
<1>14. ASSUME NEW j \in 1 .. Len(call)
       PROVE  CallWorks(j)
  BY <1>8, <1>11, <1>12 DEF CallWorks
<1>15. WorkerGoes(own, own) BY <1>7, <1>8, <1>9, <1>13, <1>14, <1>10 DEF WorkerGoes, NoWork, Dead
<1>16. m.id = i /\ m.answer = a /\ a.error = "not-committed" /\ a.cancelled = None /\ a.error # None
  BY <1>3, <1>4, BatchesAssumption DEF Error
<1>17. MessageFits(own, m)' BY <1>8, <1>11, <1>12, <1>16 DEF MessageFits
<1>18. WorkerFits(own)' BY <1>6, <1>8 DEF WorkerFits, NoWork
<1>19. (Limbo' => Limbo) /\ (call[i].method # "reject" => (Limbo => Limbo'))
       /\ (call[i].method = "reject" => ~Limbo')
 <2>1. PICK n \in Nat : n = Len(outbox) BY SequenceFacts DEF CallsInv
 <2>2. /\ Len(outbox') = n + 1 /\ outbox'[n + 1] = m
       /\ \A k \in 1 .. n : outbox'[k] = outbox[k]
   BY <1>6, <2>1, AppendSequence DEF CallsInv
 <2>3. \A k \in 1 .. n : call'[outbox[k].id] = call[outbox[k].id] BY <1>8, <1>12, <2>1
 <2>4. \A k \in 1 .. n + 1 : k \in 1 .. n \/ k = n + 1 BY <2>1
 <2>5. \A k \in 1 .. n : k \in 1 .. n + 1 BY <2>1
 <2>6. (\E k \in 1 .. Len(outbox') :
           call'[outbox'[k].id].method = "stage" /\ outbox'[k].answer.error = None
           /\ outbox'[k].answer.accepted)
       <=> (\E k \in 1 .. Len(outbox) :
              call[outbox[k].id].method = "stage" /\ outbox[k].answer.error = None
              /\ outbox[k].answer.accepted)
   BY <1>16, <2>1, <2>2, <2>3, <2>4, <2>5
 <2>7. \A j \in 1 .. Len(call') : ~(call'[j].method = "reject" /\ Unfinished(j)')
   BY <1>7, <1>11, <1>12
 <2>8. ASSUME call[i].method # "reject", NEW j \in 1 .. Len(call)
       PROVE  ~(call[j].method = "reject" /\ Unfinished(j))
   BY <1>8, <1>9, <2>8
 <2>9. worker.at # "staged" /\ worker'.at # "staged" BY <1>6, <1>8 DEF NoWork
 <2>10. (\E k \in 1 .. Len(outbox) :
           call[outbox[k].id].method = "stage" /\ outbox[k].answer.error = None
           /\ outbox[k].answer.accepted)
        => call[i].method # "reject"
   BY <1>9
 <2> QED BY <2>6, <2>7, <2>8, <2>9, <2>10 DEF Limbo
<1>20. PendingKnown'
 <2>1. ~Stuck /\ ~Stuck' BY <1>6, <1>8 DEF Stuck, NoWork, Dead
 <2>2. CASE call[i].method = "reject" BY <1>8, <1>19, <1>10, <2>2 DEF PendingKnown
 <2>3. CASE call[i].method # "reject"
  <3>1. store' = store /\ (Limbo' <=> Limbo) BY <1>19, <1>10, <2>3
  <3> QED BY <1>8, <2>1, <3>1 DEF Kept, PendingKnown, Known, Ok
 <2> QED BY <2>2, <2>3
<1>21. \E e : /\ outbox' = Append(outbox, e) /\ MessageFits(own, e)'
              /\ \A k \in 1 .. Len(outbox) : outbox[k].id # e.id
  BY <1>6, <1>8, <1>16, <1>17
<1>22. LeftEnded'
 <2>1. ~Unfinished(i)' BY <1>12, <1>8
 <2> QED BY <1>15, <1>10, <2>1, LeftGrows
<1> QED BY <1>8, <1>15, <1>18, <1>20, <1>21, <1>22, WorkerKept

-----------------------------------------------------------------------------
(* Theorems. *)

\* Nothing has been asked.
LEMMA AnswersInit == Init => AnswersInv
<1> SUFFICES ASSUME Init PROVE AnswersInv OBVIOUS
<1>1. CallsInv BY CallsInit
<1>2. /\ main = [req |-> <<>>, queue |-> <<>>, waiting |-> None, pending |-> None,
                 applying |-> None, record |-> [b \in {} |-> None],
                 scheduled |-> None, running |-> None, failed |-> FALSE]
      /\ call = <<>> /\ inbox = <<>> /\ outbox = <<>> /\ worker = NoWork
      /\ store = [pending |-> None, prior |-> None, published |-> None, gen |-> 0,
                  applied |-> {}, version |-> 0, left |-> {}]
  BY DEF Init
<1>3. IsSequence(<<>>) /\ Len(<<>>) = 0 BY EmptySeq, OwnElements
<1>4. PICK own : own = [r \in Nat |-> 0] OBVIOUS
<1>5. own \in [Nat -> Nat] BY <1>4
<1>6. StoreTrue(own, Ok(main)) BY <1>2 DEF StoreTrue
<1>7. MainTrue(own, Ok(main), main)
  BY <1>2, <1>3 DEF Shape, MainFields, QueueTrue, OnceEach, RecordsKept, MainTrue
<1>8. Waiting /\ main.failed = FALSE BY <1>2 DEF Waiting
<1>9. \A i \in 1 .. Len(call) : Linked(own, i) BY <1>2, <1>3
<1>10. MessagesFit(own) BY <1>2, <1>3 DEF MessagesFit
<1>11. WorkerFits(own) BY <1>2 DEF WorkerFits, NoWork
<1>12. PendingKnown BY <1>2 DEF PendingKnown
<1>13. Kept(own) BY <1>2, <1>6, <1>7, <1>8, <1>9, <1>10, <1>11, <1>12 DEF Kept, LeftEnded
<1> QED BY <1>1, <1>5, <1>13 DEF AnswersInv

\* Nothing happens.
LEMMA StutterAnswers ==
  ASSUME NEW own, Kept(own), UNCHANGED vars
  PROVE  Kept(own)'
<1>1. UNCHANGED <<main, call, inbox, outbox, worker, store, closed>> BY DEF vars
<1>2. StoreTrue(own, Ok(main))' BY <1>1 DEF Kept, StoreTrue, PendingTrue, Ok, Of, Untouched
<1>3. MainTrue(own, Ok(main), main)' BY <1>1, FallsCarries, CarriedMain DEF Kept
<1>4. Waiting' BY <1>1 DEF Kept, Waiting
<1>5. ASSUME NEW i \in 1 .. Len(call')
      PROVE  Linked(own, i)'
 <2>1. Linked(own, i) /\ (Unfinished(i)' <=> Unfinished(i)) /\ (Unfinished(i - 1)' <=> Unfinished(i - 1))
   BY <1>1 DEF Kept, Unfinished, Begun
 <2> QED BY <1>1, <2>1 DEF Linked, Stage, Commit, Rejection, Published, Prior, BatchTrue, SameAs, Of, Gone, Ok
<1>6. MessagesFit(own)'
  BY <1>1 DEF Kept, MessagesFit, MessageFits, Receipt, Published, Prior, Token, Gone, Untouched
<1>7. WorkerFits(own)'
  BY <1>1 DEF Kept, WorkerFits, Receipt, Published, Prior, Token, Gone, Untouched
<1>8. PendingKnown'
 <2>1. Limbo' <=> Limbo BY <1>1 DEF Limbo, Unfinished, Begun
 <2>2. Stuck' <=> Stuck BY <1>1 DEF Stuck, Begun
 <2> QED BY <1>1, <2>1, <2>2 DEF Kept, PendingKnown, Known, Ok
<1>9. main'.failed \in BOOLEAN /\ (main'.failed => worker' = Dead /\ outbox' = <<>>)
  BY <1>1 DEF Kept
<1>10. LeftEnded' BY <1>1 DEF Kept, LeftEnded, Unfinished, Begun
<1> QED BY <1>2, <1>3, <1>4, <1>5, <1>6, <1>7, <1>8, <1>9, <1>10 DEF Kept

\* Each step keeps the invariant, with the same batches or one request more in them.
LEMMA AnswersNext == AnswersInv /\ [Next]_vars => AnswersInv'
<1> SUFFICES ASSUME AnswersInv, [Next]_vars PROVE AnswersInv' OBVIOUS
<1>1. CallsInv /\ CallsInv' BY CallsNext DEF AnswersInv
<1>2. PICK own \in [Nat -> Nat] : Kept(own) BY DEF AnswersInv
<1>3. CASE UNCHANGED vars BY <1>2, <1>3, StutterAnswers, <1>1 DEF AnswersInv
<1>4. CASE Jobs
  BY <1>1, <1>2, <1>4, StageJobAnswers, CommitJobAnswers, LateAnswers DEF Jobs, AnswersInv
<1>5. CASE Events
  BY <1>1, <1>2, <1>5, TimeOutAnswers, MessageAnswers, ExitAnswers DEF Events, AnswersInv
<1>6. CASE Work
 <2>1. CASE Take BY <1>1, <1>2, <2>1, TakeBegins, TakeStops DEF AnswersInv
 <2>2. CASE StageDone BY <1>1, <1>2, <2>2, StageDoneAnswers DEF AnswersInv
 <2>3. CASE StageComplete BY <1>1, <1>2, <2>3, StageUndone, StageReported DEF AnswersInv
 <2>4. CASE Reject \/ StageRefused \/ CommitRefused \/ CommitBegins \/ CommitEntered
   BY <1>1, <1>2, <2>4, RejectAnswers, StageRefusedAnswers, CommitRefusedAnswers, CommitBeginsAnswers,
     CommitEnteredAnswers DEF AnswersInv
 <2>5. CASE \E done \in BOOLEAN, state \in {"ok", "not-committed", "committed", "unknown"} :
              CommitDone(done, state)
   BY <1>1, <1>2, <2>5, CommitDoneAnswers DEF AnswersInv
 <2> QED BY <1>6, <2>1, <2>2, <2>3, <2>4, <2>5 DEF Work
<1>7. CASE StartReload \/ Close \/ \E what \in Settings \cup {Cancel} : Request(what)
  BY <1>1, <1>2, <1>7, ReloadAnswers, RequestAnswers DEF AnswersInv
<1>8. CASE \E i \in DOMAIN call : Due(i) BY <1>1, <1>2, <1>8, DueAnswers DEF AnswersInv
<1>9. CASE \E r \in DOMAIN main.req : Abort(r) BY <1>1, <1>2, <1>9, AbortAnswers DEF AnswersInv
<1>10. CASE \E done \in BOOLEAN : WorkerDies(done)
  BY <1>1, <1>2, <1>10, DeathDone, DeathElse DEF AnswersInv
<1> QED BY <1>3, <1>4, <1>5, <1>6, <1>7, <1>8, <1>9, <1>10 DEF Next

\* What the main thread has of batches, requests and calls agrees with the
\* store: of every request that was answered, which batch it is in, and whether
\* that is gone, pending or applied (PoolingBatches, pooling-writer).
THEOREM AnswersInvariance == Spec => []AnswersInv
BY AnswersInit, AnswersNext, PTL DEF Spec

\* The records say what became of each batch, a request that was answered with an
\* error is not applied with another batch, and when upgradeState is neither
\* busy nor unsafe nothing is on its way (#settle, #failedCommit, #lateCommit,
\* upgradeState).
THEOREM AnswersAreTrue == Spec => []AnswersTrue
<1>1. AnswersInv => AnswersTrue
 <2> SUFFICES ASSUME AnswersInv PROVE AnswersTrue OBVIOUS
 <2>1. PICK own \in [Nat -> Nat] : Kept(own) BY DEF AnswersInv
 <2>2. ASSUME NEW b \in DOMAIN main.record, NEW e, e = main.record[b]
       PROVE  RecordTrue(own, Ok(main), b, e)
   BY <2>1, <2>2 DEF Kept, MainTrue, RecordsKept
 <2>3. RecordsTrue
  <3>1. ASSUME NEW b \in DOMAIN main.record
        PROVE  LET m == main.record[b] IN
               /\ m.state = "committed" => m.reqs \subseteq store.applied
               /\ m.status \in {"pending", "cancelled"} => m.reqs \cap store.applied = {}
   <4>1. PICK e : e = main.record[b] OBVIOUS
   <4>2. RecordTrue(own, Ok(main), b, e) BY <2>2, <4>1
   <4> QED BY <4>1, <4>2 DEF RecordTrue, Of, Untouched
  <3>2. store.applied \subseteq Ok(main) BY <2>1 DEF Kept, StoreTrue
  <3>3. \A r \in DOMAIN main.req :
          main.req[r].answer = "failed" => r \notin store.applied \/ r \in store.left
    BY <3>2 DEF Ok
  <3> QED BY <3>1, <3>3 DEF RecordsTrue
 <2>4. SafeMeansQuiet
  <3> SUFFICES ASSUME ~closed, ~Busy, ~Unsafe
               PROVE  /\ worker \in {NoWork, Dead}
                      /\ store.pending = None \/ store.pending.reqs \cap store.left # {}
    BY DEF SafeMeansQuiet
  <3>1. CallsInv BY DEF AnswersInv
  <3>2. DOMAIN call = 1 .. Len(call) BY <3>1, SequenceFacts DEF CallsInv
  <3>3. ~main.failed /\ \A i \in 1 .. Len(call) : ~call[i].open BY <3>2 DEF Busy, Unsafe
  <3>4. worker \in {NoWork, Dead} BY <2>1, <3>1, WorkFacts, <3>3
  <3>5. ~Stuck BY <3>3 DEF Stuck
  <3>6. ~Limbo
   <4>1. worker.at # "staged" BY <3>4 DEF NoWork, Dead
   <4>2. \A i \in 1 .. Len(call) : ~Unfinished(i) BY <2>1, <3>3 DEF Kept, Linked
   <4>3. ASSUME NEW k \in 1 .. Len(outbox)
         PROVE  FALSE
    <5>1. outbox[k].id \in 1 .. Begun BY <3>1 DEF CallsInv, OutboxTrue, MessageTrue
    <5>2. Len(call) \in Nat /\ Len(inbox) \in Nat BY <3>1, SequenceFacts DEF CallsInv
    <5>3. outbox[k].id \in 1 .. Len(call)
     <6>1. PICK b : b = Begun OBVIOUS
     <6>2. PICK n \in Nat : n = Len(call) BY <5>2
     <6>3. b \in Int /\ b <= n BY <5>2, <6>1, <6>2 DEF Begun
     <6>4. PICK i : i = outbox[k].id OBVIOUS
     <6>5. i \in 1 .. b BY <5>1, <6>1, <6>4
     <6>6. i \in 1 .. n BY <6>3, <6>5
     <6> QED BY <6>2, <6>4, <6>6
    <5>4. call[outbox[k].id].open BY <2>1 DEF Kept, MessagesFit, MessageFits
    <5> QED BY <3>3, <5>3, <5>4
   <4> QED BY <4>1, <4>2, <4>3 DEF Limbo
  <3>7. store.pending = None \/ store.pending.reqs \cap store.left # {}
   <4> SUFFICES ASSUME store.pending # None, store.pending.reqs \cap store.left = {} PROVE FALSE
     OBVIOUS
   <4>1. PICK b : b = store.pending.batch OBVIOUS
   <4>2. b \in DOMAIN main.record BY <2>1, <3>3, <3>5, <3>6, <4>1 DEF Kept, PendingKnown, Known
   <4>3. PICK e : e = main.record[b] OBVIOUS
   <4>4. RecordTrue(own, Ok(main), b, e) BY <2>2, <4>2, <4>3
   <4>5. e.status \in {"applied", "cancelled"} BY <4>2, <4>3 DEF Unsafe
   <4>6. Gone(b) BY <4>4, <4>5 DEF RecordTrue
   <4> QED BY <4>1, <4>6 DEF Gone
  <3> QED BY <3>4, <3>7
 <2> QED BY <2>3, <2>4 DEF AnswersTrue
<1> QED BY <1>1, AnswersInvariance, PTL
=============================================================================

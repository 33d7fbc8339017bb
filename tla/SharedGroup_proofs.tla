------------------------- MODULE SharedGroup_proofs -------------------------
(***************************************************************************)
(* Proofs about SharedGroup, for every number of sessions and requests and *)
(* every value of the limits.                                              *)
(*                                                                         *)
(* The inductive invariant IInv follows an operation through the group: a   *)
(* queued one was never sent nor answered, a running one was sent, an open *)
(* one belongs to an attached session and has no answer yet, and a request *)
(* that was never asked has left no trace.  From it follow that no request *)
(* is answered twice, that "unsent" is true, and that the group implements *)
(* RequestContract.  From it follow, too, that no queued request waits     *)
(* beside a free slot, that no session costs another its work or its turn, *)
(* and that the group lives the life that the manager counts on            *)
(* (GroupLifecycle).                                                       *)
(***************************************************************************)
EXTENDS SharedGroup, SequenceTheorems, FiniteSetTheorems, TLAPS

-----------------------------------------------------------------------------
(* Sequences that hold an element at most once. *)

\* An empty sequence holds nothing.
LEMMA EmptyQueue == IsInjective(<<>>) /\ \A x : ~Contains(<<>>, x)
  BY DEF IsInjective, Contains

\* A sequence that is not empty holds its head.
LEMMA NonEmptyQueue ==
  ASSUME NEW S, NEW q \in Seq(S)
  PROVE  q # <<>> <=> \E x \in S : Contains(q, x)
<1>1. ASSUME q # <<>> PROVE \E x \in S : Contains(q, x)
  BY <1>1, EmptySeq, ElementOfSeq DEF Contains
<1>2. ASSUME NEW x \in S, Contains(q, x) PROVE q # <<>> BY <1>2, EmptySeq DEF Contains
<1> QED BY <1>1, <1>2

\* The elements of a sequence over S are in S.
LEMMA ContainsType ==
  ASSUME NEW S, NEW q \in Seq(S), NEW x, Contains(q, x)
  PROVE  x \in S
  BY ElementOfSeq DEF Contains

\* Appending a new element keeps a sequence injective and adds that element.
LEMMA AppendQueue ==
  ASSUME NEW S, NEW q \in Seq(S), NEW e \in S, IsInjective(q), ~Contains(q, e)
  PROVE  /\ Append(q, e) \in Seq(S)
         /\ IsInjective(Append(q, e))
         /\ Append(q, e) # <<>>
         /\ \A x : Contains(Append(q, e), x) <=> Contains(q, x) \/ x = e
<1> DEFINE w == Append(q, e)
<1>1. /\ w \in Seq(S) /\ w # <<>>
      /\ Len(w) = Len(q) + 1
      /\ \A i \in 1..Len(q) : w[i] = q[i]
      /\ w[Len(q) + 1] = e
  BY AppendProperties
<1>2. Len(q) \in Nat /\ DOMAIN q = 1..Len(q) /\ DOMAIN w = 1..Len(w) BY <1>1, LenProperties
<1> HIDE DEF w
<1>3. \A i \in 1..Len(w) : i \in 1..Len(q) \/ i = Len(q) + 1 BY <1>1, <1>2
<1>4. \A i \in 1..Len(q) : i \in 1..Len(w) /\ q[i] # e BY <1>1, <1>2 DEF Contains
<1>5. IsInjective(w)
 <2> SUFFICES ASSUME NEW a \in 1..Len(w), NEW b \in 1..Len(w), w[a] = w[b] PROVE a = b
   BY <1>2 DEF IsInjective
 <2> QED BY <1>1, <1>2, <1>3, <1>4 DEF IsInjective
<1>6. ASSUME NEW x PROVE Contains(w, x) <=> Contains(q, x) \/ x = e
  BY <1>1, <1>2, <1>3, <1>4 DEF Contains
<1> QED BY <1>1, <1>5, <1>6 DEF w

\* The tail of an injective sequence holds everything but the head.
LEMMA TailQueue ==
  ASSUME NEW S, NEW q \in Seq(S), IsInjective(q), q # <<>>
  PROVE  /\ Head(q) \in S /\ Contains(q, Head(q))
         /\ Tail(q) \in Seq(S)
         /\ IsInjective(Tail(q))
         /\ \A x : Contains(Tail(q), x) <=> Contains(q, x) /\ x # Head(q)
<1> DEFINE t == Tail(q)
<1>1. /\ Head(q) \in S /\ t \in Seq(S) /\ Len(t) = Len(q) - 1
      /\ \A i \in 1..Len(t) : t[i] = q[i + 1]
  BY HeadTailProperties
<1>2. Len(q) \in Nat \ {0} /\ DOMAIN q = 1..Len(q) /\ DOMAIN t = 1..Len(t)
  BY <1>1, LenProperties, EmptySeq
<1>3. Head(q) = q[1] OBVIOUS
<1> HIDE DEF t
<1>4. \A i \in 1..Len(t) : i + 1 \in 1..Len(q) /\ i + 1 # 1 BY <1>1, <1>2
<1>5. IsInjective(t)
 <2> SUFFICES ASSUME NEW a \in 1..Len(t), NEW b \in 1..Len(t), t[a] = t[b] PROVE a = b
   BY <1>2 DEF IsInjective
 <2>1. q[a + 1] = q[b + 1] BY <1>1
 <2>2. a + 1 = b + 1 BY <2>1, <1>2, <1>4 DEF IsInjective
 <2> QED BY <2>2
<1>6. ASSUME NEW x PROVE Contains(t, x) <=> Contains(q, x) /\ x # Head(q)
 <2>1. ASSUME Contains(t, x) PROVE Contains(q, x) /\ x # Head(q)
  <3>1. PICK i \in 1..Len(t) : t[i] = x BY <2>1 DEF Contains
  <3>2. q[i + 1] = x BY <3>1, <1>1
  <3>3. x # q[1] BY <3>2, <1>2, <1>4 DEF IsInjective
  <3> QED BY <3>2, <3>3, <1>3, <1>4 DEF Contains
 <2>2. ASSUME Contains(q, x), x # Head(q) PROVE Contains(t, x)
  <3>1. PICK k \in 1..Len(q) : q[k] = x BY <2>2 DEF Contains
  <3>2. k # 1 BY <3>1, <2>2, <1>3
  <3>3. k - 1 \in 1..Len(t) /\ (k - 1) + 1 = k BY <3>2, <1>1, <1>2
  <3>4. t[k - 1] = x BY <3>3, <3>1, <1>1
  <3> QED BY <3>3, <3>4 DEF Contains
 <2> QED BY <2>1, <2>2
<1>7. Contains(q, Head(q)) BY <1>2, <1>3 DEF Contains
<1> QED BY <1>1, <1>5, <1>6, <1>7 DEF t

\* An injective sequence whose length is not one holds no element alone.
LEMMA NotAlone ==
  ASSUME NEW S, NEW q \in Seq(S), IsInjective(q), NEW e, Contains(q, e), Len(q) # 1
  PROVE  \E x : Contains(q, x) /\ x # e
<1>1. Len(q) \in Nat /\ DOMAIN q = 1..Len(q) BY LenProperties
<1>2. PICK i \in 1..Len(q) : q[i] = e BY DEF Contains
<1>3. 1 \in 1..Len(q) /\ 2 \in 1..Len(q) BY <1>1, <1>2
<1>4. q[1] # q[2] BY <1>1, <1>3 DEF IsInjective
<1>5. Contains(q, q[1]) /\ Contains(q, q[2]) BY <1>3 DEF Contains
<1> QED BY <1>4, <1>5

\* Without() leaves out one place, and keeps the order of the others.
LEMMA WithoutShape ==
  ASSUME NEW S, NEW q \in Seq(S), NEW e, Contains(q, e)
  PROVE  /\ Without(q, e) \in Seq(S)
         /\ \E i \in 1..Len(q) :
              /\ q[i] = e
              /\ Len(Without(q, e)) = Len(q) - 1
              /\ \A j \in 1..Len(Without(q, e)) :
                    Without(q, e)[j] = IF j < i THEN q[j] ELSE q[j + 1]
<1>1. Len(q) \in Nat /\ DOMAIN q = 1..Len(q) BY LenProperties
<1> DEFINE i == CHOOSE i \in DOMAIN q : q[i] = e
           a == SubSeq(q, 1, i - 1)
           b == SubSeq(q, i + 1, Len(q))
           w == a \o b
<1>2. i \in 1..Len(q) /\ q[i] = e BY <1>1 DEF Contains
<1>a. Without(q, e) = RemoveAt(q, i) BY Zenon DEF Without
<1> HIDE DEF i
<1>3. w = Without(q, e) BY <1>a, Zenon DEF RemoveAt
<1>4. \A j \in 1..Len(q) : q[j] \in S BY ElementOfSeq
<1>5. /\ a \in Seq(S) /\ Len(a) = i - 1
      /\ \A j \in 1..i - 1 : a[j] = q[j]
  BY <1>1, <1>2, <1>4, SubSeqProperties
<1>6. /\ b \in Seq(S) /\ Len(b) = Len(q) - i
      /\ \A j \in 1..Len(q) - i : b[j] = q[i + j]
 <2>1. \A j \in i + 1..Len(q) : j \in 1..Len(q) BY <1>1, <1>2
 <2>2. \A j \in i + 1..Len(q) : q[j] \in S BY <2>1, <1>4
 <2>3. /\ b \in Seq(S) /\ Len(b) = IF i + 1 <= Len(q) THEN Len(q) - (i + 1) + 1 ELSE 0
       /\ \A j \in 1..Len(q) - (i + 1) + 1 : b[j] = q[(i + 1) + j - 1]
   BY <2>2, <1>1, <1>2, SubSeqProperties
 <2>4. /\ Len(q) - (i + 1) + 1 = Len(q) - i
       /\ i + 1 <= Len(q) \/ Len(q) - i = 0
       /\ \A j \in 1..Len(q) - i : (i + 1) + j - 1 = i + j
  <3>1. Len(q) \in Nat /\ i \in 1..Len(q) BY <1>1, <1>2
  <3> QED BY <3>1
 <2> HIDE DEF a, b
 <2>5. Len(b) = Len(q) - i BY <2>3, <2>4
 <2>6. \A j \in 1..Len(q) - i : b[j] = q[i + j] BY <2>3, <2>4
 <2> QED BY <2>3, <2>5, <2>6
<1> HIDE DEF a, b
<1>7. /\ w \in Seq(S) /\ Len(w) = Len(a) + Len(b)
      /\ \A j \in 1..Len(a) + Len(b) : w[j] = IF j <= Len(a) THEN a[j] ELSE b[j - Len(a)]
  BY <1>5, <1>6, ConcatProperties
<1> HIDE DEF w
<1>8. /\ Len(w) = Len(q) - 1 /\ DOMAIN w = 1..Len(w) BY <1>1, <1>2, <1>5, <1>6, <1>7, LenProperties
<1>9. \A j \in 1..Len(w) : w[j] = IF j < i THEN q[j] ELSE q[j + 1]
 <2> TAKE j \in 1..Len(w)
 <2>1. CASE j < i
  <3>1. j \in 1..i - 1 /\ j <= Len(a) BY <2>1, <1>2, <1>5
  <3> QED BY <3>1, <2>1, <1>5, <1>6, <1>7, <1>8, <1>1, <1>2
 <2>2. CASE ~(j < i)
  <3>1. /\ ~(j <= Len(a)) /\ j - Len(a) \in 1..Len(q) - i
        /\ i + (j - Len(a)) = j + 1
    BY <2>2, <1>1, <1>2, <1>5, <1>8
  <3>2. b[j - Len(a)] = q[j + 1] BY <3>1, <1>6
  <3> QED BY <3>1, <3>2, <2>2, <1>1, <1>2, <1>5, <1>6, <1>7, <1>8
 <2> QED BY <2>1, <2>2
<1> QED BY <1>2, <1>3, <1>7, <1>8, <1>9

\* Without() removes exactly the element it names.
LEMMA WithoutQueue ==
  ASSUME NEW S, NEW q \in Seq(S), NEW e, IsInjective(q)
  PROVE  /\ Without(q, e) \in Seq(S)
         /\ IsInjective(Without(q, e))
         /\ \A x : Contains(Without(q, e), x) <=> Contains(q, x) /\ x # e
<1>1. CASE ~Contains(q, e) BY <1>1 DEF Without
<1>2. CASE Contains(q, e)
 <2>1. Len(q) \in Nat /\ DOMAIN q = 1..Len(q) BY LenProperties
 <2> DEFINE w == Without(q, e)
 <2>2. PICK i \in 1..Len(q) :
            /\ q[i] = e /\ Len(w) = Len(q) - 1
            /\ \A j \in 1..Len(w) : w[j] = IF j < i THEN q[j] ELSE q[j + 1]
   BY <1>2, WithoutShape
 <2>7. w \in Seq(S) BY <1>2, WithoutShape
 <2> HIDE DEF w
 <2>8. Len(w) = Len(q) - 1 /\ DOMAIN w = 1..Len(w) BY <2>2, <2>7, LenProperties
 <2>9. \A j \in 1..Len(w) : w[j] = IF j < i THEN q[j] ELSE q[j + 1] BY <2>2
 <2>10. \A j \in 1..Len(w) : /\ j \in 1..Len(q) /\ j + 1 \in 1..Len(q)
                             /\ j < i => j # i
                             /\ ~(j < i) => j + 1 # i
   BY <2>1, <2>2, <2>8
 <2>11. IsInjective(w)
  <3> SUFFICES ASSUME NEW j \in 1..Len(w), NEW k \in 1..Len(w), w[j] = w[k] PROVE j = k
    BY <2>8 DEF IsInjective
  <3>1. CASE j < i /\ k < i BY <3>1, <2>1, <2>9, <2>10 DEF IsInjective
  <3>2. CASE j < i /\ ~(k < i)
   <4>1. j = k + 1 BY <3>2, <2>1, <2>9, <2>10 DEF IsInjective
   <4> QED BY <4>1, <3>2, <2>2
  <3>3. CASE ~(j < i) /\ k < i
   <4>1. k = j + 1 BY <3>3, <2>1, <2>9, <2>10 DEF IsInjective
   <4> QED BY <4>1, <3>3, <2>2
  <3>4. CASE ~(j < i) /\ ~(k < i)
   <4>1. j + 1 = k + 1 BY <3>4, <2>1, <2>9, <2>10 DEF IsInjective
   <4> QED BY <4>1
  <3> QED BY <3>1, <3>2, <3>3, <3>4
 <2>12. ASSUME NEW x PROVE Contains(w, x) <=> Contains(q, x) /\ x # e
  <3>1. ASSUME Contains(w, x) PROVE Contains(q, x) /\ x # e
   <4>1. PICK j \in 1..Len(w) : w[j] = x BY <3>1 DEF Contains
   <4>2. CASE j < i BY <4>1, <4>2, <2>1, <2>2, <2>9, <2>10 DEF Contains, IsInjective
   <4>3. CASE ~(j < i) BY <4>1, <4>3, <2>1, <2>2, <2>9, <2>10 DEF Contains, IsInjective
   <4> QED BY <4>2, <4>3
  <3>2. ASSUME Contains(q, x), x # e PROVE Contains(w, x)
   <4>1. PICK k \in 1..Len(q) : q[k] = x BY <3>2 DEF Contains
   <4>2. k # i BY <4>1, <3>2, <2>2
   <4>3. CASE k < i BY <4>3, <2>1, <2>2, <2>8, <4>1, <2>9 DEF Contains
   <4>4. CASE k > i
    <5>1. k - 1 \in 1..Len(w) /\ ~(k - 1 < i) /\ (k - 1) + 1 = k BY <4>4, <2>1, <2>2, <2>8
    <5>2. w[k - 1] = x BY <5>1, <4>1, <2>9
    <5> QED BY <5>1, <5>2 DEF Contains
   <4> QED BY <4>2, <4>3, <4>4, <2>2
  <3> QED BY <3>1, <3>2
 <2> QED BY <2>7, <2>11, <2>12 DEF w
<1> QED BY <1>1, <1>2

-----------------------------------------------------------------------------
(* Types. *)

USE DEF GroupTypes, SessionTypes, QueueTypes, OperationTypes, ChildTypes

\* The initial state is well typed.
LEMMA InitType == ASSUME SharedAssumption, Init PROVE TypeOK
<1>1. QueueTypes BY DEF Init
<1>2. OperationTypes BY DEF Init
<1>3. SessionTypes BY DEF Phases, Init
<1>4. GroupTypes BY DEF Init, States
<1>5. ChildTypes BY DEF Init, Children
<1> QED BY <1>1, <1>2, <1>3, <1>4, <1>5 DEF TypeOK

\* Answer() gives each request a sequence of answers again.
LEMMA AnswerType ==
  ASSUME TypeOK, NEW R PROVE Answer(R) \in [Requests -> Seq(Answers)]
  BY DEF TypeOK, Answer, Execution, Answers

\* The cancellations a session's end writes are a natural number of messages.
LEMMA CancelCount ==
  ASSUME SharedAssumption, TypeOK, NEW s \in Sessions
  PROVE  Cardinality(ToCancel(s)) \in Nat
<1>1. ToCancel(s) \subseteq Requests BY DEF ToCancel, Of
<1>2. IsFiniteSet(ToCancel(s)) BY <1>1, FS_Subset DEF SharedAssumption
<1> QED BY <1>2, FS_CardinalityType

\* stop() keeps the types.
LEMMA StopType ==
  ASSUME TypeOK, NEW open \in SUBSET Requests, NEW rep \in [Requests -> Seq(Answers)],
         NEW fail \in BOOLEAN, child' \in Children, Stop(open, rep, fail)
  PROVE  TypeOK'
<1>1. QueueTypes' BY DEF Stop
<1>2. SessionTypes' BY DEF Stop, TypeOK, Phases
<1>3. GroupTypes' BY DEF Stop, TypeOK, States
<1>4. OperationTypes' BY DEF Stop, TypeOK
<1>5. ChildTypes' BY DEF Stop, TypeOK
<1> QED BY <1>1, <1>2, <1>3, <1>4, <1>5 DEF TypeOK

\* So does stop() when its caller has settled nothing before,
LEMMA StopNowType ==
  ASSUME TypeOK, NEW fail \in BOOLEAN, child' \in Children, Stop(Open, Answer(Open), fail)
  PROVE  TypeOK'
<1>1. Open \in SUBSET Requests BY DEF Open, Queued, TypeOK
<1> QED BY <1>1, AnswerType, StopType

\* whether or not the child goes with it.
LEMMA StopNowTypeSame ==
  ASSUME TypeOK, NEW fail \in BOOLEAN, StopNow(fail)
  PROVE  TypeOK'
<1>1. child' \in Children BY DEF StopNow, TypeOK
<1> QED BY <1>1, StopNowType DEF StopNow

\* drain() keeps the types.
LEMMA DrainType ==
  ASSUME TypeOK, NEW done \in SUBSET Requests, NEW fail \in BOOLEAN, Drain(done, fail),
         cancelled' \in SUBSET Requests, buffered' \in Nat, blocked' \in BOOLEAN,
         UNCHANGED <<child, killRequested, pumping>>
  PROVE  TypeOK'
<1>1. replies' \in [Requests -> Seq(Answers)] BY AnswerType DEF Drain
<1>2. settled' \in SUBSET Requests BY DEF Drain, Queued, TypeOK
<1>3. QueueTypes' BY DEF Drain
<1>4. SessionTypes' BY DEF Drain, TypeOK, sessionVars
<1>5. OperationTypes' BY <1>1, <1>2 DEF Drain, TypeOK
<1>6. GroupTypes' BY DEF Drain, TypeOK, States
<1>7. ChildTypes' BY DEF TypeOK
<1> QED BY <1>3, <1>4, <1>5, <1>6, <1>7 DEF TypeOK

\* A write to the child keeps the types of its stdin buffer,
LEMMA WriteType ==
  ASSUME TypeOK, NEW n \in Nat, Write(n)
  PROVE  buffered' \in Nat /\ blocked' \in BOOLEAN
  BY DEF Write, TypeOK

\* pump() that of its flag,
LEMMA PumpType == ASSUME Pump PROVE pumping' \in BOOLEAN
  BY DEF Pump, CanPump

\* and idle() that of its timer.
LEMMA IdleType == ASSUME Idle PROVE linger' \in BOOLEAN
  BY DEF Idle, Unused

\* The end of a session keeps the types.
LEMMA DetachType ==
  ASSUME SharedAssumption, TypeOK, QueuesTraced, NEW s \in Sessions, Detach(s)
  PROVE  TypeOK'
<1>1. CASE Fits(Cardinality(ToCancel(s)))
 <2>1. QueueTypes'
  <3>1. <<>> \in Seq(Requests) BY EmptySeq
  <3>2. queue' \in [Sessions -> Seq(Requests)] BY <1>1, <3>1 DEF Detach, TypeOK
  <3>3. lanes' \in Seq(Sessions) BY <1>1, WithoutQueue DEF Detach, TypeOK, QueuesTraced
  <3>4. Len(queue[s]) \in Nat BY LenProperties DEF TypeOK
  <3>5. queued' \in Int BY <1>1, <3>4 DEF Detach, TypeOK
  <3> QED BY <3>2, <3>3, <3>5
 <2>2. OperationTypes' BY <1>1, AnswerType DEF Detach, TypeOK, Gone, ToCancel, Of
 <2>3. SessionTypes' BY <1>1 DEF Detach, TypeOK, Phases
 <2>4. ChildTypes' BY <1>1, CancelCount, WriteType DEF Detach, TypeOK
 <2>5. GroupTypes' BY <1>1, PumpType, IdleType DEF Detach, TypeOK, flagVars
 <2> QED BY <2>1, <2>2, <2>3, <2>4, <2>5 DEF TypeOK
<1>2. CASE ~Fits(Cardinality(ToCancel(s))) BY <1>2, StopNowTypeSame DEF Detach
<1> QED BY <1>1, <1>2

\* So do the drop of a queued request,
LEMMA DropQueuedType ==
  ASSUME SharedAssumption, TypeOK, QueuesTraced, NEW r \in Requests, DropQueued(r)
  PROVE  TypeOK'
<1> DEFINE s == OwnerOf[r]
<1>0. s \in Sessions BY DEF SharedAssumption
<1>1. QueueTypes' BY <1>0, WithoutQueue DEF TypeOK, QueuesTraced, DropQueued
<1>2. OperationTypes' BY AnswerType DEF DropQueued, TypeOK
<1>3. SessionTypes' BY DEF DropQueued, TypeOK, sessionVars
<1>4. ChildTypes' BY DEF DropQueued, TypeOK, childVars
<1>5. GroupTypes' BY PumpType DEF DropQueued, TypeOK, flagVars
<1> QED BY <1>1, <1>2, <1>3, <1>4, <1>5 DEF TypeOK

\* the dispatch of a request,
LEMMA DispatchType ==
  ASSUME SharedAssumption, TypeOK, NEW r \in Requests, Sent(r) \/ Overflows(r)
  PROVE  /\ dispatched' \in SUBSET Requests /\ operations' \in SUBSET Requests
         /\ settled' \in SUBSET Requests /\ replies' \in [Requests -> Seq(Answers)]
         /\ buffered' \in Nat /\ blocked' \in BOOLEAN
<1>0. SizeOf[r] \in Nat BY DEF SharedAssumption
<1>1. CASE Sent(r) BY <1>0, <1>1, WriteType DEF Sent, TypeOK
<1>2. CASE Overflows(r) BY <1>2, AnswerType DEF Overflows, TypeOK
<1> QED BY <1>1, <1>2

\* its arrival in the queue,
LEMMA EnqueueType ==
  ASSUME SharedAssumption, TypeOK, QueuesTraced, NEW r \in Requests, Enqueue(r)
  PROVE  TypeOK'
<1>1. QueueTypes' BY AppendProperties DEF SharedAssumption, TypeOK, Enqueue
<1>2. OperationTypes' BY DEF Enqueue, TypeOK
<1>3. SessionTypes' BY DEF Enqueue, TypeOK
<1>4. ChildTypes' BY DEF Enqueue, TypeOK, childVars
<1>5. GroupTypes' BY PumpType DEF Enqueue, TypeOK, flagVars
<1> QED BY <1>1, <1>2, <1>3, <1>4, <1>5 DEF TypeOK

\* and a turn of pump().
LEMMA PumpNextType ==
  ASSUME SharedAssumption, TypeOK, QueuesTraced, PumpNext
  PROVE  TypeOK'
<1> DEFINE s == Head(lanes)
           r == Head(queue[s])
<1>1. lanes # <<>> BY DEF PumpNext, QueuesTraced
<1>2. s \in Sessions /\ Contains(lanes, s) /\ Tail(lanes) \in Seq(Sessions)
  BY <1>1, TailQueue DEF TypeOK, QueuesTraced
<1>3. queue[s] \in Seq(Requests) /\ queue[s] # <<>> /\ IsInjective(queue[s])
  BY <1>2 DEF TypeOK, QueuesTraced
<1>4. r \in Requests /\ Tail(queue[s]) \in Seq(Requests) BY <1>3, TailQueue
<1>5. Sent(r) \/ Overflows(r) BY DEF PumpNext
<1>6. QueueTypes'
 <2>1. queue' = [queue EXCEPT ![s] = Tail(@)] BY DEF PumpNext
 <2>2. queue' \in [Sessions -> Seq(Requests)] BY <1>2, <1>4, <2>1 DEF TypeOK
 <2>3. Append(Tail(lanes), s) \in Seq(Sessions) BY <1>2, AppendProperties
 <2>4. lanes' \in Seq(Sessions) BY <1>2, <2>3 DEF PumpNext
 <2>5. queued' \in Int BY DEF PumpNext, TypeOK
 <2> QED BY <2>2, <2>4, <2>5
<1>7. pending' \in SUBSET Requests BY DEF PumpNext, TypeOK
<1> HIDE DEF s, r
<1>8. OperationTypes' BY <1>4, <1>5, <1>7, DispatchType DEF PumpNext, TypeOK
<1>9. SessionTypes' BY DEF PumpNext, TypeOK, sessionVars
<1>10. ChildTypes' BY <1>4, <1>5, DispatchType DEF PumpNext, TypeOK
<1>11. GroupTypes' BY PumpType DEF PumpNext, TypeOK, flagVars
<1> QED BY <1>6, <1>8, <1>9, <1>10, <1>11 DEF TypeOK

-----------------------------------------------------------------------------
(* The traces an operation leaves. *)

Inv == TypeOK /\ Traced

USE DEF Queued, Of

\* What one truthful answer to an open request looks like.
Truthful(r, answers) ==
    \/ r \in dispatched /\ answers \in {<<"result">>, <<"potentially-executed">>}
    \/ r \notin dispatched /\ answers = <<"unsent">>

\* rep gives every open request of R one truthful answer and changes nothing else.
Answers1(rep, R) ==
    \A r \in Requests : IF r \in R THEN Truthful(r, rep[r]) ELSE rep[r] = replies[r]

\* settle() answers open requests truthfully.
LEMMA AnswerOpen ==
  ASSUME Inv, NEW R, R \subseteq Open
  PROVE  Answers1(Answer(R), R)
<1> SUFFICES ASSUME NEW r \in Requests
             PROVE  IF r \in R THEN Truthful(r, Answer(R)[r]) ELSE Answer(R)[r] = replies[r]
  BY DEF Answers1
<1>1. CASE r \in R
 <2>1. OwnerOf[r] \in members /\ replies[r] = <<>> BY <1>1 DEF Inv, Traced, OperationsTraced
 <2>2. Answer(R)[r] = Append(<<>>, Execution(r)) BY <1>1, <2>1 DEF Answer
 <2>3. Append(<<>>, Execution(r)) = <<Execution(r)>> OBVIOUS
 <2> QED BY <1>1, <2>2, <2>3 DEF Truthful, Execution
<1>2. CASE r \notin R BY <1>2 DEF Answer
<1> QED BY <1>1, <1>2

\* An answered request has an answer.
LEMMA TruthfulAnswers ==
  ASSUME NEW r, NEW answers, Truthful(r, answers) PROVE answers # <<>>
  BY DEF Truthful

\* stop() leaves no operation behind, and what it calls settled has an answer.
LEMMA StopTraced ==
  ASSUME SharedAssumption, Inv, NEW R, R \subseteq Open, NEW open, open \subseteq R,
         NEW rep, Answers1(rep, R), NEW fail, Stop(open, rep, fail)
  PROVE  Traced'
<1>1. QueuesTraced' BY EmptyQueue DEF Stop, QueuesTraced
<1>2. SessionsTraced' BY DEF Stop, Inv, TypeOK, Traced, SessionsTraced
<1>3. Queued' = {} BY EmptyQueue DEF Stop, SharedAssumption
<1>4. OperationsTraced'
 <2>1. operations' = {} /\ replies' = rep /\ settled' = settled \cup open BY DEF Stop
 <2>2. \A r \in settled' : replies'[r] # <<>>
  <3> TAKE r \in settled'
  <3>1. r \in Requests BY <2>1 DEF Inv, TypeOK, Open
  <3>2. CASE r \in R BY <2>1, <3>1, <3>2, TruthfulAnswers DEF Answers1
  <3>3. CASE r \notin R BY <2>1, <3>1, <3>3 DEF Answers1, Inv, Traced, OperationsTraced
  <3> QED BY <3>2, <3>3
 <2> QED BY <1>3, <2>1, <2>2 DEF OperationsTraced, Open
<1>5. UnaskedTraced'
 <2> SUFFICES ASSUME NEW r \in Requests, Unasked(r)'
              PROVE  r \notin dispatched' /\ r \notin Queued' /\ replies'[r] = <<>>
   BY DEF UnaskedTraced
 <2>1. OwnerOf[r] \notin members /\ phase[OwnerOf[r]] = "none" /\ r \notin ids
   BY DEF Unasked, Stop, SharedAssumption
 <2>2. r \notin dispatched /\ replies[r] = <<>> BY <2>1 DEF Inv, Traced, UnaskedTraced, Unasked
 <2>3. r \notin Open BY <2>1 DEF Inv, Traced, OperationsTraced
 <2> QED BY <1>3, <2>2, <2>3 DEF Stop, Answers1
<1>6. RepliesTraced'
 <2> SUFFICES ASSUME NEW r \in Requests
              PROVE  replies'[r] = <<>> \/ Truthful(r, replies'[r])
   BY DEF RepliesTraced, Truthful, Stop
 <2>1. CASE r \in R BY <2>1 DEF Stop, Answers1
 <2>2. CASE r \notin R BY <2>2 DEF Stop, Answers1, Inv, Traced, RepliesTraced, Truthful
 <2> QED BY <2>1, <2>2
<1> QED BY <1>1, <1>2, <1>4, <1>5, <1>6 DEF Traced

\* Most callers of stop() let it answer every open request.
LEMMA StopNowTraced ==
  ASSUME SharedAssumption, Inv, NEW fail, Stop(Open, Answer(Open), fail)
  PROVE  Traced'
  BY AnswerOpen, StopTraced

\* drain() answers what is queued, and what its caller asks.
LEMMA DrainTraced ==
  ASSUME SharedAssumption, Inv, ~pumping, NEW done, done \subseteq Open, NEW fail,
         Drain(done, fail), UNCHANGED pumping
  PROVE  Traced'
<1> DEFINE R == (Queued \ settled) \cup done
<1>1. R \subseteq Open /\ replies' = Answer(R) BY DEF Drain, Open
<1>2. Answers1(replies', R) BY <1>1, AnswerOpen
<1>3. QueuesTraced' BY EmptyQueue DEF Drain, QueuesTraced
<1>4. SessionsTraced' BY DEF Drain, sessionVars, Inv, Traced, SessionsTraced
<1>5. Queued' = {} BY EmptyQueue DEF Drain, SharedAssumption
<1>6. settled' = settled \cup R /\ R \subseteq Requests BY DEF Drain, Inv, TypeOK, Open
<1>7. UNCHANGED <<ids, members, phase, dispatched, operations>> BY DEF Drain, sessionVars
<1> HIDE DEF R
<1>8. OperationsTraced'
 <2>1. \A r \in settled' : replies'[r] # <<>>
  <3> TAKE r \in settled'
  <3>1. r \in Requests BY <1>6 DEF Inv, TypeOK
  <3>2. CASE r \in R BY <1>2, <3>1, <3>2, TruthfulAnswers DEF Answers1
  <3>3. CASE r \notin R BY <1>2, <1>6, <3>1, <3>3 DEF Answers1, Inv, Traced, OperationsTraced
  <3> QED BY <3>2, <3>3
 <2>2. \A r \in Open' : OwnerOf[r] \in members' /\ replies'[r] = <<>>
  <3> TAKE r \in Open'
  <3>1. r \in operations /\ r \notin settled /\ r \notin R BY <1>5, <1>6, <1>7 DEF Open
  <3>2. r \in Open /\ r \in Requests BY <3>1 DEF Open, Inv, TypeOK
  <3>3. replies'[r] = replies[r] BY <1>2, <3>1, <3>2 DEF Answers1
  <3> QED BY <1>7, <3>2, <3>3 DEF Inv, Traced, OperationsTraced
 <2> QED BY <1>5, <1>7, <2>1, <2>2 DEF OperationsTraced, Inv, Traced
<1>9. UnaskedTraced'
 <2> SUFFICES ASSUME NEW r \in Requests, Unasked(r)'
              PROVE  r \notin dispatched' /\ r \notin Queued' /\ replies'[r] = <<>>
   BY DEF UnaskedTraced
 <2>1. r \notin dispatched /\ r \notin Queued /\ replies[r] = <<>>
   BY <1>7 DEF Unasked, Inv, Traced, UnaskedTraced
 <2>2. r \notin R BY <1>1, <2>1 DEF Open, Inv, Traced, OperationsTraced
 <2> QED BY <1>2, <1>5, <1>7, <2>1, <2>2 DEF Answers1
<1>10. RepliesTraced'
 <2> SUFFICES ASSUME NEW r \in Requests
              PROVE  replies'[r] = <<>> \/ Truthful(r, replies'[r])
   BY <1>7 DEF RepliesTraced, Truthful
 <2>1. CASE r \in R BY <1>2, <2>1 DEF Answers1
 <2>2. CASE r \notin R BY <1>2, <2>2 DEF Answers1, Inv, Traced, RepliesTraced, Truthful
 <2> QED BY <2>1, <2>2
<1> QED BY <1>3, <1>4, <1>8, <1>9, <1>10 DEF Traced

\* A step that answers some open requests, and takes operations away but adds
\* none, keeps the operations' traces; what it takes must be answered or gone.
LEMMA AnswersTraced ==
  ASSUME SharedAssumption, Inv, NEW R, R \subseteq Open, Answers1(replies', R),
         settled \subseteq settled', settled' \subseteq settled \cup R,
         operations' \subseteq operations, Queued' \subseteq Queued, dispatched' = dispatched,
         \A r \in Open' : r \notin R /\ OwnerOf[r] \in members', Queued' \cap R = {},
         \A r \in Requests : Unasked(r)' => Unasked(r)
  PROVE  OperationsTraced' /\ UnaskedTraced' /\ RepliesTraced'
<1>0. R \subseteq Requests BY DEF Open, Inv, TypeOK
<1>1. \A r \in settled' : replies'[r] # <<>>
 <2> TAKE r \in settled'
 <2>1. r \in Requests BY <1>0 DEF Inv, TypeOK
 <2>2. CASE r \in R BY <2>1, <2>2, TruthfulAnswers DEF Answers1
 <2>3. CASE r \notin R BY <2>1, <2>3 DEF Answers1, Inv, Traced, OperationsTraced
 <2> QED BY <2>2, <2>3
<1>2. \A r \in Open' : replies'[r] = <<>>
 <2> TAKE r \in Open'
 <2>1. r \in Open /\ r \notin R /\ r \in Requests BY DEF Open, Inv, TypeOK
 <2> QED BY <2>1 DEF Answers1, Inv, Traced, OperationsTraced
<1>3. Queued' \cap (dispatched' \cup settled') = {} BY DEF Inv, Traced, OperationsTraced
<1>4. OperationsTraced' BY <1>1, <1>2, <1>3 DEF OperationsTraced, Inv, Traced
<1>5. UnaskedTraced'
 <2> SUFFICES ASSUME NEW r \in Requests, Unasked(r)'
              PROVE  r \notin dispatched' /\ r \notin Queued' /\ replies'[r] = <<>>
   BY DEF UnaskedTraced
 <2>1. r \notin dispatched /\ r \notin Queued /\ replies[r] = <<>>
   BY DEF Inv, Traced, UnaskedTraced
 <2>2. r \notin R BY <2>1 DEF Open, Inv, Traced, OperationsTraced
 <2> QED BY <2>1, <2>2 DEF Answers1
<1>6. RepliesTraced'
 <2> SUFFICES ASSUME NEW r \in Requests
              PROVE  replies'[r] = <<>> \/ Truthful(r, replies'[r])
   BY DEF RepliesTraced, Truthful
 <2>1. CASE r \in R BY <2>1 DEF Answers1
 <2>2. CASE r \notin R BY <2>2 DEF Answers1, Inv, Traced, RepliesTraced, Truthful
 <2> QED BY <2>1, <2>2
<1> QED BY <1>4, <1>5, <1>6

\* The end of a session.
LEMMA DetachTraced ==
  ASSUME SharedAssumption, Inv, NEW s \in Sessions, s \in members, Detach(s)
  PROVE  Traced'
<1>1. CASE Fits(Cardinality(ToCancel(s)))
 <2>1. /\ queue' = [queue EXCEPT ![s] = <<>>] /\ lanes' = Without(lanes, s)
       /\ members' = members \ {s} /\ phase' = [phase EXCEPT ![s] = "closed"]
       /\ ids' = ids \ Of(s) /\ replies' = Answer(Gone(s)) /\ settled' = settled \cup Gone(s)
       /\ UNCHANGED <<waiters, operations, dispatched>> /\ Pump
   BY <1>1 DEF Detach
 <2>2. /\ Without(lanes, s) \in Seq(Sessions) /\ IsInjective(Without(lanes, s))
       /\ \A x : Contains(Without(lanes, s), x) <=> Contains(lanes, x) /\ x # s
   BY WithoutQueue DEF Inv, TypeOK, Traced, QueuesTraced
 <2>3. QueuesTraced' BY <2>1, <2>2, EmptyQueue DEF Pump, CanPump, Inv, TypeOK, QueuesTraced, Traced
 <2>4. SessionsTraced' BY <2>1 DEF SessionsTraced, Inv, TypeOK, Traced
 <2>5. \A r \in Requests : r \in Queued' <=> r \in Queued /\ OwnerOf[r] # s
   BY <2>1, EmptyQueue DEF Inv, TypeOK, SharedAssumption
 <2>6. Answers1(replies', Gone(s)) BY <2>1, AnswerOpen DEF Gone
 <2>7. \A r \in Open' : r \notin Gone(s) /\ OwnerOf[r] \in members'
  <3> TAKE r \in Open'
  <3>1. r \in Open /\ r \notin Gone(s) /\ r \in Requests BY <2>1, <2>5 DEF Open, Inv, TypeOK
  <3>2. OwnerOf[r] \in members /\ OwnerOf[r] # s BY <3>1 DEF Gone, Inv, Traced, OperationsTraced
  <3> QED BY <2>1, <3>1, <3>2
 <2>8. \A r \in Requests : Unasked(r)' => Unasked(r)
   BY <2>1 DEF Unasked, Inv, TypeOK, SharedAssumption
 <2>9. Queued' \cap Gone(s) = {} /\ Queued' \subseteq Queued BY <2>5 DEF Gone
 <2>10. OperationsTraced' /\ UnaskedTraced' /\ RepliesTraced'
   BY <2>1, <2>6, <2>7, <2>8, <2>9, AnswersTraced DEF Gone
 <2> QED BY <2>3, <2>4, <2>10 DEF Traced
<1>2. CASE ~Fits(Cardinality(ToCancel(s))) BY <1>2, StopNowTraced DEF Detach, StopNow
<1> QED BY <1>1, <1>2

\* A queued request that is cancelled or times out.
LEMMA DropQueuedTraced ==
  ASSUME SharedAssumption, Inv, ~pumping, NEW r \in Requests, r \in Queued, DropQueued(r)
  PROVE  Traced'
<1> DEFINE s == OwnerOf[r]
<1>0. s \in Sessions BY DEF SharedAssumption
<1>1. r \in Open /\ r \notin settled /\ {r} \settled = {r}
  BY DEF Open, Inv, Traced, OperationsTraced
<1>2. Answers1(replies', {r}) BY <1>1, AnswerOpen DEF DropQueued
<1>3. /\ Without(queue[s], r) \in Seq(Requests) /\ IsInjective(Without(queue[s], r))
      /\ \A x : Contains(Without(queue[s], r), x) <=> Contains(queue[s], x) /\ x # r
  BY <1>0, WithoutQueue DEF Inv, TypeOK, Traced, QueuesTraced
<1>4. \A x \in Sessions : queue'[x] = IF x = s THEN Without(queue[s], r) ELSE queue[x]
  BY <1>0 DEF DropQueued, Inv, TypeOK
<1>5. Queued' = Queued \ {r} BY <1>3, <1>4 DEF SharedAssumption
<1>6. UNCHANGED <<waiters, members, phase, ids, operations, dispatched>>
  BY DEF DropQueued, sessionVars
<1>7. QueuesTraced'
 <2>1. pumping' => lanes' # <<>> BY DEF DropQueued, Pump, CanPump
 <2>2. /\ IsInjective(Without(lanes, s))
       /\ \A x : Contains(Without(lanes, s), x) <=> Contains(lanes, x) /\ x # s
   BY WithoutQueue DEF Inv, TypeOK, Traced, QueuesTraced
 <2>3. /\ IsInjective(lanes')
       /\ \A x : Contains(lanes', x) => Contains(lanes, x)
       /\ Len(queue[s]) = 1 => ~Contains(lanes', s)
   BY <2>2 DEF DropQueued, Inv, Traced, QueuesTraced
 <2>4. Len(queue[s]) # 1 => Without(queue[s], r) # <<>>
  <3> SUFFICES ASSUME Len(queue[s]) # 1, Without(queue[s], r) = <<>> PROVE FALSE OBVIOUS
  <3>1. \A x : Contains(queue[s], x) => x = r BY <1>3, EmptyQueue
  <3>2. queue[s] \in Seq(Requests) /\ IsInjective(queue[s]) /\ Contains(queue[s], r)
    BY <1>0 DEF Inv, TypeOK, Traced, QueuesTraced
  <3> HIDE DEF s
  <3> QED BY <3>1, <3>2, NotAlone
 <2>5. \A x \in Sessions : Contains(lanes', x) => queue'[x] # <<>>
   BY <1>4, <2>3, <2>4 DEF Inv, Traced, QueuesTraced
 <2> HIDE DEF s
 <2> QED BY <1>3, <1>4, <2>1, <2>3, <2>5 DEF QueuesTraced, Inv, Traced
<1>8. SessionsTraced' BY <1>6 DEF SessionsTraced, Inv, Traced
<1>9. settled' = settled \cup {r} BY DEF DropQueued
<1>10. \A x \in Open' : x \notin {r} /\ OwnerOf[x] \in members'
  BY <1>5, <1>6, <1>9 DEF Open, Inv, Traced, OperationsTraced
<1>11. \A x \in Requests : Unasked(x)' => Unasked(x) BY <1>6 DEF Unasked
<1>12. OperationsTraced' /\ UnaskedTraced' /\ RepliesTraced'
  BY <1>1, <1>2, <1>5, <1>6, <1>9, <1>10, <1>11, AnswersTraced
<1> QED BY <1>7, <1>8, <1>12 DEF Traced

\* A request that nothing has answered gets its one answer.
LEMMA AnswerOne ==
  ASSUME Inv, NEW r \in Requests, OwnerOf[r] \in members, replies[r] = <<>>
  PROVE  Answers1(Answer({r}), {r})
<1> SUFFICES ASSUME NEW x \in Requests
             PROVE  IF x \in {r} THEN Truthful(x, Answer({r})[x])
                    ELSE Answer({r})[x] = replies[x]
  BY DEF Answers1
<1>1. CASE x = r
 <2>1. Answer({r})[x] = Append(<<>>, Execution(x)) BY <1>1 DEF Answer
 <2>2. Append(<<>>, Execution(x)) = <<Execution(x)>> OBVIOUS
 <2> QED BY <1>1, <2>1, <2>2 DEF Truthful, Execution
<1>2. CASE x # r BY <1>2 DEF Answer
<1> QED BY <1>1, <1>2

\* A request that may be asked has left no trace.
LEMMA MayAskFresh ==
  ASSUME Inv, NEW r \in Requests, MayAsk(r)
  PROVE  /\ OwnerOf[r] \in members /\ r \notin Queued /\ r \notin dispatched
         /\ r \notin operations /\ r \notin settled /\ r \notin Open /\ replies[r] = <<>>
<1>1. Unasked(r) BY DEF MayAsk, Unasked
<1>2. r \notin Queued /\ r \notin dispatched /\ replies[r] = <<>>
  BY <1>1 DEF Inv, Traced, UnaskedTraced
<1> QED BY <1>2 DEF MayAsk, Open, Inv, Traced, OperationsTraced

\* A refused request is answered and leaves no other trace.
LEMMA RejectTraced ==
  ASSUME SharedAssumption, Inv, NEW r \in Requests, Reject(r)
  PROVE  Traced'
<1>1. MayAsk(r) /\ replies' = Answer({r}) /\ ids' = ids \cup {r} BY DEF Reject
<1>2. UNCHANGED <<waiters, members, phase, queue, lanes, operations, dispatched, settled, pumping>>
  BY DEF Reject, queueVars
<1>3. Answers1(replies', {r}) BY <1>1, MayAskFresh, AnswerOne
<1>4. Queued' = Queued /\ Open' = Open BY <1>2 DEF Open
<1>5. QueuesTraced' /\ SessionsTraced' BY <1>2 DEF Inv, Traced, QueuesTraced, SessionsTraced
<1>6. OperationsTraced'
 <2>1. \A x \in Open' : OwnerOf[x] \in members' /\ replies'[x] = <<>>
  <3>1. SUFFICES ASSUME NEW x \in Open PROVE OwnerOf[x] \in members /\ replies'[x] = <<>>
    BY <1>2, <1>4
  <3>2. x # r BY <1>1, <3>1, MayAskFresh
  <3>3. OwnerOf[x] \in members /\ replies[x] = <<>> /\ x \in Requests
    BY <3>1 DEF Open, Inv, TypeOK, Traced, OperationsTraced
  <3> QED BY <1>3, <3>2, <3>3 DEF Answers1
 <2>2. \A x \in settled' : replies'[x] # <<>> BY <1>1, <1>2, <1>3, MayAskFresh DEF Answers1, Inv,
   TypeOK, Traced, OperationsTraced
 <2> QED BY <1>2, <1>4, <2>1, <2>2 DEF OperationsTraced, Inv, Traced
<1>7. UnaskedTraced' BY <1>1, <1>2, <1>3, <1>4 DEF UnaskedTraced, Unasked, Answers1, Inv, Traced
<1>8. RepliesTraced'
 <2> SUFFICES ASSUME NEW x \in Requests
              PROVE  replies'[x] = <<>> \/ Truthful(x, replies'[x])
   BY <1>2 DEF RepliesTraced, Truthful
 <2> QED BY <1>3 DEF Answers1, Inv, Traced, RepliesTraced, Truthful
<1> QED BY <1>5, <1>6, <1>7, <1>8 DEF Traced

\* dispatch() of a request that was never sent: it runs, or it is refused.
LEMMA DispatchTraced ==
  ASSUME SharedAssumption, Inv, NEW r \in Requests, OwnerOf[r] \in members, replies[r] = <<>>,
         r \notin dispatched, Sent(r) \/ Overflows(r), Queued' = Queued \ {r}, UNCHANGED members,
         \A x \in Requests : Unasked(x)' => Unasked(x) /\ x # r
  PROVE  OperationsTraced' /\ UnaskedTraced' /\ RepliesTraced'
<1>1. CASE Sent(r)
 <2>1. /\ dispatched' = dispatched \cup {r} /\ operations' = operations \cup {r}
       /\ UNCHANGED <<settled, replies>>
   BY <1>1 DEF Sent
 <2>2. Open' \subseteq Open \cup {r} BY <2>1 DEF Open
 <2>3. OperationsTraced' BY <2>1, <2>2 DEF OperationsTraced, Inv, Traced
 <2>4. UnaskedTraced' BY <2>1 DEF UnaskedTraced, Inv, Traced
 <2>5. RepliesTraced' BY <2>1 DEF RepliesTraced, Inv, Traced
 <2> QED BY <2>3, <2>4, <2>5
<1>2. CASE Overflows(r)
 <2>1. /\ settled' = settled \cup {r} /\ replies' = Answer({r})
       /\ UNCHANGED <<dispatched, operations>>
   BY <1>2 DEF Overflows
 <2>2. Answers1(replies', {r}) BY <2>1, AnswerOne
 <2>3. Open' = Open \ {r} BY <2>1 DEF Open
 <2>4. OperationsTraced'
   BY <2>2, <2>3, TruthfulAnswers, <2>1 DEF Answers1, Open, Inv, TypeOK, Traced, OperationsTraced
 <2>5. UnaskedTraced' BY <2>1, <2>2 DEF UnaskedTraced, Answers1, Inv, Traced
 <2>6. RepliesTraced'
  <3> SUFFICES ASSUME NEW x \in Requests
               PROVE  replies'[x] = <<>> \/ Truthful(x, replies'[x])
    BY <2>1 DEF RepliesTraced, Truthful
  <3> QED BY <2>2 DEF Answers1, Inv, Traced, RepliesTraced, Truthful
 <2> QED BY <2>4, <2>5, <2>6
<1> QED BY <1>1, <1>2

\* A request that finds a free slot goes to the child at once.
LEMMA SendNowTraced ==
  ASSUME SharedAssumption, Inv, NEW r \in Requests, SendNow(r)
  PROVE  Traced'
<1>1. MayAsk(r) /\ ids' = ids \cup {r} /\ (Sent(r) \/ Overflows(r)) BY DEF SendNow, Acceptable
<1>2. UNCHANGED <<waiters, members, phase, queue, lanes, pumping>> BY DEF SendNow, queueVars
<1>3. Queued' = Queued \ {r} BY <1>1, <1>2, MayAskFresh
<1>4. \A x \in Requests : Unasked(x)' => Unasked(x) /\ x # r BY <1>1, <1>2 DEF Unasked
<1>5. OperationsTraced' /\ UnaskedTraced' /\ RepliesTraced'
  BY <1>1, <1>2, <1>3, <1>4, MayAskFresh, DispatchTraced
<1>6. QueuesTraced' /\ SessionsTraced' BY <1>2 DEF Inv, Traced, QueuesTraced, SessionsTraced
<1> QED BY <1>5, <1>6 DEF Traced

\* One that finds none goes to the end of its queue.
LEMMA EnqueueTraced ==
  ASSUME SharedAssumption, Inv, ~pumping, NEW r \in Requests, Enqueue(r)
  PROVE  Traced'
<1> DEFINE s == OwnerOf[r]
<1>0. s \in Sessions BY DEF SharedAssumption
<1>1. MayAsk(r) /\ ids' = ids \cup {r} BY DEF Enqueue, Acceptable
<1>2. UNCHANGED <<waiters, members, phase, operations, dispatched, settled, replies>>
  BY DEF Enqueue
<1>3. queue[s] \in Seq(Requests) /\ IsInjective(queue[s]) /\ ~Contains(queue[s], r)
  BY <1>0, <1>1, MayAskFresh DEF Inv, TypeOK, Traced, QueuesTraced
<1>4. /\ IsInjective(Append(queue[s], r)) /\ Append(queue[s], r) # <<>>
      /\ \A x : Contains(Append(queue[s], r), x) <=> Contains(queue[s], x) \/ x = r
  BY <1>3, AppendQueue
<1>5. \A x \in Sessions : queue'[x] = IF x = s THEN Append(queue[s], r) ELSE queue[x]
  BY <1>0 DEF Enqueue, Inv, TypeOK
<1>6. Queued' = Queued \cup {r} BY <1>4, <1>5 DEF SharedAssumption
<1>7. QueuesTraced'
 <2>1. lanes \in Seq(Sessions) /\ IsInjective(lanes) BY DEF Inv, TypeOK, Traced, QueuesTraced
 <2>2. /\ IsInjective(lanes')
       /\ \A x : Contains(lanes', x) => Contains(lanes, x) \/ x = s
   BY <1>0, <2>1, AppendQueue DEF Enqueue
 <2>3. pumping' => lanes' # <<>> BY DEF Enqueue, Pump, CanPump
 <2> HIDE DEF s
 <2>4. \A x \in Sessions : \A y \in Requests : Contains(queue'[x], y) => OwnerOf[y] = x
   BY <1>4, <1>5 DEF Inv, Traced, QueuesTraced, s
 <2> QED BY <1>4, <1>5, <2>2, <2>3, <2>4 DEF QueuesTraced, Inv, Traced
<1>8. SessionsTraced' BY <1>2 DEF SessionsTraced, Inv, Traced
<1>9. Open' = Open \cup {r} BY <1>1, <1>2, <1>6, MayAskFresh DEF Open
<1>10. OperationsTraced' BY <1>1, <1>2, <1>6, <1>9, MayAskFresh DEF OperationsTraced, Inv, Traced
<1>11. UnaskedTraced' BY <1>1, <1>2, <1>6 DEF UnaskedTraced, Unasked, Inv, Traced
<1>12. RepliesTraced' BY <1>2 DEF RepliesTraced, Inv, Traced
<1> QED BY <1>7, <1>8, <1>10, <1>11, <1>12 DEF Traced

\* A queue of more than one is not emptied by a turn.
LEMMA LongTail ==
  ASSUME NEW S, NEW q \in Seq(S), Len(q) > 1
  PROVE  Tail(q) # <<>>
<1>1. q # <<>> BY EmptySeq
<1>2. Len(Tail(q)) = Len(q) - 1 BY <1>1, HeadTailProperties
<1>3. Len(q) \in Nat BY LenProperties
<1>4. Len(Tail(q)) # 0
 <2> DEFINE n == Len(q)
            m == Len(Tail(q))
 <2>1. m = n - 1 /\ n \in Nat /\ n > 1 BY <1>2, <1>3
 <2> HIDE DEF n, m
 <2>2. m # 0 BY <2>1
 <2> QED BY <2>2 DEF m
<1> QED BY <1>4, EmptySeq

\* The turn of a lane sends the head of its queue.
LEMMA PumpNextTraced ==
  ASSUME SharedAssumption, Inv, PumpNext
  PROVE  Traced'
<1> DEFINE s == Head(lanes)
           r == Head(queue[s])
<1>1. lanes # <<>> /\ lanes \in Seq(Sessions) /\ IsInjective(lanes)
  BY DEF PumpNext, Inv, TypeOK, Traced, QueuesTraced
<1>2. /\ s \in Sessions /\ Contains(lanes, s)
      /\ Tail(lanes) \in Seq(Sessions) /\ IsInjective(Tail(lanes))
      /\ \A x : Contains(Tail(lanes), x) <=> Contains(lanes, x) /\ x # s
  BY <1>1, TailQueue
<1>3. queue[s] \in Seq(Requests) /\ queue[s] # <<>> /\ IsInjective(queue[s])
  BY <1>2 DEF Inv, TypeOK, Traced, QueuesTraced
<1>4. /\ r \in Requests /\ Contains(queue[s], r) /\ IsInjective(Tail(queue[s]))
      /\ Tail(queue[s]) \in Seq(Requests)
      /\ \A x : Contains(Tail(queue[s]), x) <=> Contains(queue[s], x) /\ x # r
  BY <1>3, TailQueue
<1>5. /\ queue' = [queue EXCEPT ![s] = Tail(@)]
      /\ lanes' = IF Len(queue[s]) > 1 THEN Append(Tail(lanes), s) ELSE Tail(lanes)
      /\ Sent(r) \/ Overflows(r)
      /\ UNCHANGED <<waiters, members, phase, ids>>
      /\ Pump
  BY DEF PumpNext, sessionVars
<1>6. \A x \in Sessions : queue'[x] = IF x = s THEN Tail(queue[s]) ELSE queue[x]
  BY <1>2, <1>5 DEF Inv, TypeOK
<1>7. Len(queue[s]) > 1 => Tail(queue[s]) # <<>> BY <1>3, LongTail
<1>8. /\ Len(queue[s]) > 1 => IsInjective(Append(Tail(lanes), s))
      /\ \A x : Contains(Append(Tail(lanes), s), x) <=> Contains(Tail(lanes), x) \/ x = s
 <2> DEFINE q == Tail(lanes)
 <2>1. s \in Sessions /\ q \in Seq(Sessions) /\ IsInjective(q) /\ ~Contains(q, s) BY <1>2
 <2> HIDE DEF q, r, s
 <2>2. IsInjective(Append(q, s)) BY <2>1, AppendQueue
 <2>3. \A x : Contains(Append(q, s), x) <=> Contains(q, x) \/ x = s BY <2>1, AppendQueue
 <2> QED BY <2>2, <2>3 DEF q
<1>9. OwnerOf[r] = s BY <1>2, <1>4 DEF Inv, Traced, QueuesTraced
<1> HIDE DEF r, s
<1>10. QueuesTraced'
  BY <1>5, <1>2, <1>8, <1>6, <1>7, <1>4 DEF Pump, CanPump, Inv, Traced, QueuesTraced
<1>11. SessionsTraced' BY <1>5 DEF SessionsTraced, Inv, Traced
<1>12. Queued' = Queued \ {r} BY <1>4, <1>6, <1>9 DEF SharedAssumption
<1>13. r \in Queued /\ r \in Open /\ r \notin dispatched
  BY <1>4, <1>9 DEF Open, Inv, Traced, OperationsTraced
<1>14. OwnerOf[r] \in members /\ replies[r] = <<>> BY <1>13 DEF Inv, Traced, OperationsTraced
<1>15. ~Unasked(r) BY <1>4, <1>13 DEF Inv, Traced, UnaskedTraced
<1>16. \A x \in Requests : Unasked(x)' => Unasked(x) /\ x # r BY <1>5, <1>15 DEF Unasked
<1>17. OperationsTraced' /\ UnaskedTraced' /\ RepliesTraced'
  BY <1>4, <1>5, <1>12, <1>13, <1>14, <1>16, DispatchTraced
<1> QED BY <1>10, <1>11, <1>17 DEF Traced

\* A step that moves no operation and lets no session forget one.
LEMMA QuietTraced ==
  ASSUME Inv, UNCHANGED <<queue, lanes, operations, dispatched, settled, replies>>,
         members \subseteq members', pumping' => lanes # <<>>, SessionsTraced',
         \A r \in Requests : Unasked(r)' => Unasked(r)
  PROVE  Traced'
<1>1. Queued' = Queued /\ Open' = Open BY DEF Open
<1>2. QueuesTraced' BY DEF QueuesTraced, Inv, Traced
<1>3. OperationsTraced' BY <1>1 DEF OperationsTraced, Inv, Traced
<1>4. UnaskedTraced' BY <1>1 DEF UnaskedTraced, Inv, Traced
<1>5. RepliesTraced' BY DEF RepliesTraced, Inv, Traced
<1> QED BY <1>2, <1>3, <1>4, <1>5 DEF Traced

\* In particular a step of the child or of a timer that only writes to it.
LEMMA SameTraced ==
  ASSUME Inv, UNCHANGED <<sessionVars, queueVars, operations, dispatched, settled, replies>>,
         pumping' => lanes # <<>>
  PROVE  Traced'
<1>1. SessionsTraced' BY DEF sessionVars, SessionsTraced, Inv, Traced
<1>2. \A r \in Requests : Unasked(r)' => Unasked(r) BY DEF sessionVars, Unasked
<1> QED BY <1>1, <1>2, QuietTraced DEF sessionVars, queueVars

\* Nothing has happened in the initial state.
LEMMA InitTraced == ASSUME SharedAssumption, Init PROVE Traced
<1>1. \A s \in Sessions : queue[s] = <<>> /\ phase[s] = "none" BY DEF Init
<1>2. \A r \in Requests : replies[r] = <<>> BY DEF Init
<1>3. Queued = {} BY <1>1, EmptyQueue DEF SharedAssumption
<1>4. QueuesTraced BY <1>1, EmptyQueue DEF Init, QueuesTraced
<1>5. SessionsTraced BY <1>1 DEF Init, SessionsTraced
<1>6. OperationsTraced BY <1>3 DEF Init, OperationsTraced, Open
<1>7. UnaskedTraced BY <1>2, <1>3 DEF Init, UnaskedTraced
<1>8. RepliesTraced BY <1>2 DEF RepliesTraced
<1> QED BY <1>4, <1>5, <1>6, <1>7, <1>8 DEF Traced

\* A caller starts to wait for the group,
LEMMA AcquireStartTraced ==
  ASSUME Inv, NEW s \in Sessions, AcquireStart(s) PROVE Traced'
<1>1. UNCHANGED <<queue, lanes, operations, dispatched, settled, replies, ids, members, phase,
                  pumping>> /\ waiters' = waiters \cup {s} /\ phase[s] = "none" /\ ~pumping
  BY DEF AcquireStart, queueVars, opVars
<1>2. SessionsTraced' BY <1>1 DEF SessionsTraced, Inv, Traced
<1>3. \A r \in Requests : Unasked(r)' => Unasked(r) BY <1>1 DEF Unasked
<1> QED BY <1>1, <1>2, <1>3, QuietTraced

\* and becomes a session, or is refused.
LEMMA AcquireResumeTraced ==
  ASSUME SharedAssumption, Inv, NEW s \in Sessions, AcquireResume(s) PROVE Traced'
<1>1. /\ UNCHANGED <<queue, lanes, operations, dispatched, settled, replies, ids, pumping>>
      /\ waiters' = waiters \ {s} /\ s \in waiters /\ ~pumping
      /\ \/ members' = members \cup {s} /\ phase' = [phase EXCEPT ![s] = "attached"]
         \/ members' = members /\ phase' = [phase EXCEPT ![s] = "refused"]
  BY DEF AcquireResume, queueVars, opVars
<1>2. phase[s] = "none" BY <1>1 DEF SessionsTraced, Inv, Traced
<1>3. phase \in [Sessions -> Phases] BY DEF Inv, TypeOK
<1>4. SessionsTraced'
 <2>1. \A t \in Sessions : t # s => phase'[t] = phase[t] BY <1>1, <1>3
 <2>2. s \in members' => phase'[s] # "none" BY <1>1, <1>2, <1>3 DEF SessionsTraced, Inv, Traced
 <2>3. waiters \subseteq Sessions /\ members \subseteq Sessions BY DEF Inv, TypeOK
 <2>4. \A t \in waiters' : phase'[t] = "none" BY <1>1, <2>1, <2>3 DEF SessionsTraced, Inv, Traced
 <2>5. \A t \in members' : phase'[t] # "none"
  <3> SUFFICES ASSUME NEW t \in members', t # s PROVE phase'[t] # "none" BY <2>2
  <3>1. t \in members BY <1>1
  <3> QED BY <3>1, <2>1, <2>3 DEF SessionsTraced, Inv, Traced
 <2> QED BY <2>4, <2>5 DEF SessionsTraced
<1>5. \A r \in Requests : Unasked(r)' => Unasked(r)
  BY <1>1, <1>2, <1>3 DEF Unasked, SharedAssumption
<1> QED BY <1>1, <1>4, <1>5, QuietTraced

\* A session is initialized.
LEMMA ClientInitTraced ==
  ASSUME SharedAssumption, Inv, NEW s \in Sessions, ClientInitialize(s) \/ ClientInitialized(s)
  PROVE  Traced'
<1>1. /\ UNCHANGED <<queue, lanes, operations, dispatched, settled, replies, ids, pumping,
                     waiters, members>>
      /\ s \in members /\ ~pumping
      /\ \E p \in {"initialized", "ready"} : phase' = [phase EXCEPT ![s] = p]
  BY DEF ClientInitialize, ClientInitialized, queueVars, opVars
<1>2. phase \in [Sessions -> Phases] BY DEF Inv, TypeOK
<1>3. s \notin waiters /\ phase[s] # "none" BY <1>1 DEF SessionsTraced, Inv, Traced
<1>4. \A t \in Sessions : t # s => phase'[t] = phase[t] BY <1>1, <1>2
<1>5. phase'[s] # "none" BY <1>1, <1>2
<1>6. SessionsTraced' BY <1>1, <1>3, <1>4, <1>5 DEF SessionsTraced, Inv, Traced, TypeOK
<1>7. \A r \in Requests : Unasked(r)' => Unasked(r)
  BY <1>1, <1>4, <1>5 DEF Unasked, SharedAssumption
<1> QED BY <1>1, <1>6, <1>7, QuietTraced

\* A response answers its request unless the bridge already did, and gives
\* back its slot or ends a group that drains.
LEMMA ResponseCases ==
  ASSUME Inv, NEW r \in Requests, Response(r)
  PROVE  \E answered \in [Requests -> Seq(Answers)] :
           /\ Answers1(answered, {r} \ settled)
           /\ \/ state = "draining" /\ operations = {r} /\ UNCHANGED child
                 /\ Stop({}, answered, failed)
              \/ /\ replies' = answered
                 /\ operations' = operations \ {r} /\ pending' = pending \ {r}
                 /\ UNCHANGED <<state, sessionVars, queueVars, dispatched, settled,
                                cancelled, childVars, flagVars>>
                 /\ Pump /\ Idle
<1>1. PICK outcome \in {"result", "potentially-executed"} :
        LET answered == [replies EXCEPT ![r] =
                            IF r \notin settled /\ OwnerOf[r] \in members
                              THEN Append(@, outcome) ELSE @]
         IN  IF state = "draining" /\ operations = {r}
               THEN /\ UNCHANGED child
                    /\ Stop({}, answered, failed)
               ELSE /\ replies' = answered
                    /\ operations' = operations \ {r}
                    /\ pending' = pending \ {r}
                    /\ UNCHANGED <<state, sessionVars, queueVars, dispatched, settled,
                                   cancelled, childVars, flagVars>>
                    /\ Pump
                    /\ Idle
  BY DEF Response
<1> DEFINE answered == [replies EXCEPT ![r] =
                            IF r \notin settled /\ OwnerOf[r] \in members
                              THEN Append(@, outcome) ELSE @]
           R == {r} \ settled
<1>2. r \in dispatched BY DEF Response, Inv, Traced, OperationsTraced
<1>3. \A x \in R : OwnerOf[x] \in members /\ replies[x] = <<>>
  BY DEF Response, Open, Inv, Traced, OperationsTraced
<1>4. replies \in [Requests -> Seq(Answers)] /\ outcome \in Answers BY DEF Inv, TypeOK, Answers
<1>5. Answers1(answered, R)
 <2> SUFFICES ASSUME NEW x \in Requests
              PROVE  IF x \in R THEN Truthful(x, answered[x]) ELSE answered[x] = replies[x]
   BY DEF Answers1
 <2>1. CASE x \in R
  <3>1. answered[x] = Append(<<>>, outcome) BY <1>3, <1>4, <2>1
  <3>2. Append(<<>>, outcome) = <<outcome>> OBVIOUS
  <3> QED BY <1>2, <2>1, <3>1, <3>2 DEF Truthful
 <2>2. CASE x \notin R BY <1>4, <2>2
 <2> QED BY <2>1, <2>2
<1>6. answered \in [Requests -> Seq(Answers)] BY <1>4, AppendProperties
<1>7. \/ state = "draining" /\ operations = {r} /\ UNCHANGED child
         /\ Stop({}, answered, failed)
      \/ /\ replies' = answered
         /\ operations' = operations \ {r} /\ pending' = pending \ {r}
         /\ UNCHANGED <<state, sessionVars, queueVars, dispatched, settled,
                        cancelled, childVars, flagVars>>
         /\ Pump /\ Idle
  BY <1>1
<1> HIDE DEF answered
<1> QED BY <1>5, <1>6, <1>7

\* Whatever came first, a response leaves the right traces.
LEMMA ResponseTraced ==
  ASSUME SharedAssumption, Inv, NEW r \in Requests, Response(r) PROVE Traced'
<1> DEFINE R == {r} \ settled
<1>1. PICK answered \in [Requests -> Seq(Answers)] :
           /\ Answers1(answered, {r} \ settled)
           /\ \/ state = "draining" /\ operations = {r} /\ UNCHANGED child
                 /\ Stop({}, answered, failed)
              \/ /\ replies' = answered
                 /\ operations' = operations \ {r} /\ pending' = pending \ {r}
                 /\ UNCHANGED <<state, sessionVars, queueVars, dispatched, settled,
                                cancelled, childVars, flagVars>>
                 /\ Pump /\ Idle
  BY ResponseCases
<1>2. r \in operations /\ r \notin Queued /\ ~pumping
  BY DEF Response, Inv, Traced, OperationsTraced
<1>3. R \subseteq Open BY <1>2 DEF Open
<1>4. CASE Stop({}, answered, failed)
 <2>1. Answers1(answered, R) BY <1>1
 <2> HIDE DEF R
 <2> QED BY <1>2, <1>3, <1>4, <2>1, StopTraced
<1>5. CASE ~Stop({}, answered, failed)
 <2>1. /\ Answers1(replies', R) /\ operations' = operations \ {r}
       /\ UNCHANGED <<sessionVars, queueVars, dispatched, settled>> /\ Pump
   BY <1>1, <1>5
 <2>2. Queued' = Queued BY <2>1 DEF queueVars
 <2>3. \A x \in Open' : x \notin R /\ OwnerOf[x] \in members'
   BY <1>2, <2>1, <2>2 DEF Open, sessionVars, Inv, Traced, OperationsTraced
 <2>4. \A x \in Requests : Unasked(x)' => Unasked(x) BY <2>1 DEF Unasked, sessionVars
 <2>5. Queued' \cap R = {} BY <1>2, <2>2
 <2> HIDE DEF R
 <2>6. OperationsTraced' /\ UnaskedTraced' /\ RepliesTraced'
   BY <1>3, <2>1, <2>2, <2>3, <2>4, <2>5, AnswersTraced
 <2>7. QueuesTraced' BY <2>1 DEF QueuesTraced, queueVars, Pump, CanPump, Inv, Traced
 <2>8. SessionsTraced' BY <2>1 DEF SessionsTraced, sessionVars, Inv, Traced
 <2> QED BY <2>6, <2>7, <2>8 DEF Traced
<1> QED BY <1>4, <1>5

\* The child was told of the cancellation; the slot stays taken.
LEMMA SettleTraced ==
  ASSUME SharedAssumption, Inv, ~pumping, NEW r \in operations,
         replies' = Answer({r} \ settled), settled' = settled \cup {r},
         UNCHANGED <<sessionVars, queueVars, operations, dispatched, pumping>>
  PROVE  Traced'
<1> DEFINE R == {r} \ settled
<1>1. r \in dispatched /\ r \notin Queued BY DEF Inv, Traced, OperationsTraced
<1>2. R \subseteq Open BY <1>1 DEF Open
<1>3. Answers1(replies', R) BY <1>2, AnswerOpen
<1>4. Queued' = Queued BY DEF queueVars
<1>5. settled' = settled \cup R OBVIOUS
<1>6. \A x \in Open' : x \notin R /\ OwnerOf[x] \in members'
  BY <1>4, <1>5 DEF Open, sessionVars, Inv, Traced, OperationsTraced
<1>7. \A x \in Requests : Unasked(x)' => Unasked(x) BY DEF Unasked, sessionVars
<1>8. Queued' \cap R = {} BY <1>1, <1>4
<1> HIDE DEF R
<1>9. OperationsTraced' /\ UnaskedTraced' /\ RepliesTraced'
  BY <1>2, <1>3, <1>4, <1>5, <1>6, <1>7, <1>8, AnswersTraced
<1>10. QueuesTraced' BY DEF QueuesTraced, queueVars, Inv, Traced
<1>11. SessionsTraced' BY DEF SessionsTraced, sessionVars, Inv, Traced
<1> QED BY <1>9, <1>10, <1>11 DEF Traced

\* A client cancels its request.
LEMMA CancelTraced ==
  ASSUME SharedAssumption, Inv, PendingAccounted, NEW r \in Requests, Cancel(r)
  PROVE  Traced'
<1>1. ~pumping /\ r \in Queued \cup operations BY DEF Cancel, PendingAccounted
<1>2. CASE StopNow(TRUE) BY <1>1, <1>2, StopNowTraced DEF StopNow
<1>3. CASE /\ r \in dispatched
           /\ replies' = Answer({r} \ settled) /\ settled' = settled \cup {r}
           /\ UNCHANGED <<sessionVars, queueVars, operations, dispatched, pumping>>
  BY <1>1, <1>3, SettleTraced DEF Inv, Traced, OperationsTraced
<1>4. CASE r \notin dispatched /\ DropQueued(r)
  BY <1>1, <1>4, DropQueuedTraced DEF Inv, Traced, OperationsTraced
<1> QED BY <1>2, <1>3, <1>4 DEF Cancel

\* A request times out.
LEMMA RequestTimeoutTraced ==
  ASSUME SharedAssumption, Inv, NEW r \in Requests, RequestTimeout(r)
  PROVE  Traced'
<1>1. ~pumping BY DEF RequestTimeout
<1>2. CASE r \in Queued /\ DropQueued(r) BY <1>1, <1>2, DropQueuedTraced
<1>3. CASE StopNow(TRUE) BY <1>1, <1>3, StopNowTraced DEF StopNow
<1>4. CASE r \in operations /\ UNCHANGED pumping /\ Drain({r} \ settled, TRUE)
  BY <1>4, <1>1, DrainTraced DEF Open
<1>5. CASE /\ r \in operations
           /\ replies' = Answer({r} \ settled) /\ settled' = settled \cup {r}
           /\ UNCHANGED <<sessionVars, queueVars, operations, dispatched, pumping>>
  BY <1>1, <1>5, SettleTraced
<1> QED BY <1>2, <1>3, <1>4, <1>5 DEF RequestTimeout

-----------------------------------------------------------------------------
(* Types of the remaining steps. *)

\* A step that leaves the queues and the operations alone.
LEMMA SameType ==
  ASSUME TypeOK, UNCHANGED <<queueVars, opVars>>, GroupTypes', SessionTypes', ChildTypes'
  PROVE  TypeOK'
<1>1. QueueTypes' BY DEF TypeOK, queueVars
<1>2. OperationTypes' BY DEF TypeOK, opVars
<1> QED BY <1>1, <1>2 DEF TypeOK

\* The manager's steps keep the types.
LEMMA ManagerType ==
  ASSUME SharedAssumption, Inv, Manager PROVE TypeOK'
<1>1. ASSUME NEW s \in Sessions, AcquireStart(s) PROVE TypeOK'
  BY <1>1, SameType DEF AcquireStart, Inv, TypeOK, flagVars, childVars
<1>2. ASSUME NEW s \in Sessions, AcquireResume(s) PROVE TypeOK'
  BY <1>2, IdleType, SameType DEF AcquireResume, Inv, TypeOK, flagVars, Phases, childVars
<1>3. CASE Recycle
 <2>1. CASE StopNow(FALSE) BY <2>1, StopNowTypeSame DEF Inv
 <2>2. CASE Drain({}, FALSE) /\ UNCHANGED <<cancelled, childVars, pumping>>
   BY <2>2, DrainType DEF Inv, TypeOK, childVars
 <2> QED BY <1>3, <2>1, <2>2 DEF Recycle
<1>4. CASE RemoveGroup BY <1>4, StopNowTypeSame DEF RemoveGroup, Inv
<1> QED BY <1>1, <1>2, <1>3, <1>4 DEF Manager

\* So do the child's,
LEMMA ChildType ==
  ASSUME SharedAssumption, Inv, Child PROVE TypeOK'
<1>0. TypeOK BY DEF Inv
<1>1. ASSUME NEW fail \in BOOLEAN, StopNow(fail) PROVE TypeOK' BY <1>0, <1>1, StopNowTypeSame
<1>2. ASSUME child' \in Children, Stop(Open, Answer(Open), TRUE) PROVE TypeOK'
  BY <1>0, <1>2, StopNowType
<1>3. ASSUME UNCHANGED <<sessionVars, queueVars, opVars>>, state' \in States,
             pumping' \in BOOLEAN, linger' \in BOOLEAN, failed' \in BOOLEAN, reported' \in BOOLEAN,
             ChildTypes'
      PROVE  TypeOK'
  BY <1>0, <1>3, SameType DEF TypeOK, sessionVars
<1>4. ASSUME Write(1) PROVE buffered' \in Nat /\ blocked' \in BOOLEAN BY <1>0, <1>4, WriteType
<1>5. CASE SpawnResolves \/ SpawnUnavailable \/ SpawnRejects \/ ChildExits
 <2>1. child' \in Children
   BY <1>5 DEF SpawnResolves, SpawnUnavailable, SpawnRejects, ChildExits, Children
 <2>2. CASE Stop(Open, Answer(Open), TRUE) BY <1>2, <2>1, <2>2
 <2>3. CASE ~Stop(Open, Answer(Open), TRUE)
  <3>1. UNCHANGED <<sessionVars, queueVars, opVars, pumping, linger, flagVars>>
    BY <1>5, <2>3 DEF SpawnResolves, SpawnUnavailable, SpawnRejects, ChildExits
  <3>2. state' \in {state, "dead"} /\ killRequested' \in {killRequested, TRUE}
    BY <1>5, <2>3 DEF SpawnResolves, SpawnUnavailable, SpawnRejects, ChildExits
  <3>3. buffered' \in Nat /\ blocked' \in BOOLEAN BY <1>0, <1>4, <1>5, <2>3 DEF SpawnResolves,
    SpawnUnavailable, SpawnRejects, ChildExits, TypeOK
  <3>4. ChildTypes' BY <1>0, <2>1, <3>2, <3>3 DEF TypeOK
  <3>5. /\ state' \in States /\ pumping' \in BOOLEAN /\ linger' \in BOOLEAN
        /\ failed' \in BOOLEAN /\ reported' \in BOOLEAN
    BY <1>0, <3>1, <3>2 DEF TypeOK, States, flagVars
  <3> QED BY <1>3, <3>1, <3>4, <3>5
 <2> QED BY <2>2, <2>3
<1>6. CASE Initialized \/ Ping
 <2>1. CASE StopNow(TRUE) BY <1>1, <2>1
 <2>2. CASE ~StopNow(TRUE)
   BY <1>6, <2>2, <1>0, <1>4, IdleType, <1>3 DEF Initialized, Ping, TypeOK, States, flagVars
 <2> QED BY <2>1, <2>2
<1>7. CASE ChildFault BY <1>1, <1>7 DEF ChildFault
<1>8. CASE ChildReads BY <1>8, <1>0, PumpType, <1>3 DEF ChildReads, TypeOK, flagVars
<1>9. CASE KillReport BY <1>0, <1>9, <1>3 DEF KillReport, TypeOK, childVars
<1>10. ASSUME NEW r \in Requests, Response(r) PROVE TypeOK'
 <2>1. PICK answered \in [Requests -> Seq(Answers)] :
            /\ Answers1(answered, {r} \ settled)
            /\ \/ state = "draining" /\ operations = {r} /\ UNCHANGED child
                  /\ Stop({}, answered, failed)
               \/ /\ replies' = answered
                  /\ operations' = operations \ {r} /\ pending' = pending \ {r}
                  /\ UNCHANGED <<state, sessionVars, queueVars, dispatched, settled,
                                 cancelled, childVars, flagVars>>
                  /\ Pump /\ Idle
   BY <1>10, ResponseCases
 <2>2. CASE Stop({}, answered, failed) /\ UNCHANGED child
  <3>1. child' \in Children /\ failed \in BOOLEAN BY <1>0, <2>2 DEF TypeOK
  <3> QED BY <1>0, <2>2, <3>1, StopType
 <2>3. CASE /\ replies' = answered
            /\ operations' = operations \ {r} /\ pending' = pending \ {r}
            /\ UNCHANGED <<state, sessionVars, queueVars, dispatched, settled,
                           cancelled, childVars, flagVars>>
            /\ Pump /\ Idle
  <3>1. QueueTypes' BY <1>0, <2>3 DEF TypeOK, queueVars
  <3>2. SessionTypes' BY <1>0, <2>3 DEF TypeOK, sessionVars
  <3>3. OperationTypes' BY <1>0, <2>3 DEF TypeOK
  <3>4. ChildTypes' BY <1>0, <2>3 DEF TypeOK, childVars
  <3>5. GroupTypes' BY <1>0, <2>3, PumpType, IdleType DEF TypeOK, flagVars
  <3> QED BY <3>1, <3>2, <3>3, <3>4, <3>5 DEF TypeOK
 <2> QED BY <2>1, <2>2, <2>3
<1> QED BY <1>5, <1>6, <1>7, <1>8, <1>9, <1>10 DEF Child

\* A cancellation written to the child keeps the types.
LEMMA SettleType ==
  ASSUME TypeOK, NEW r \in Requests, NEW n \in Nat, Write(n),
         cancelled' = cancelled \cup {r}, replies' = Answer({r} \ settled),
         settled' = settled \cup {r},
         UNCHANGED <<state, sessionVars, queueVars, pending, operations, dispatched,
                     child, killRequested, pumping, linger, flagVars>>
  PROVE  TypeOK'
<1>1. QueueTypes' BY DEF TypeOK, queueVars
<1>2. SessionTypes' BY DEF TypeOK, sessionVars
<1>3. replies' \in [Requests -> Seq(Answers)] BY AnswerType
<1>4. OperationTypes' BY <1>3 DEF TypeOK
<1>5. ChildTypes' BY WriteType DEF TypeOK
<1>6. GroupTypes' BY DEF TypeOK, flagVars
<1> QED BY <1>1, <1>2, <1>4, <1>5, <1>6 DEF TypeOK

\* the clients',
LEMMA ClientType ==
  ASSUME SharedAssumption, Inv, Client PROVE TypeOK'
<1>0. TypeOK /\ QueuesTraced BY DEF Inv, Traced
<1>1. ASSUME NEW s \in Sessions, ClientInitialize(s) \/ ClientInitialized(s) PROVE TypeOK'
 <2>1. \/ phase' = [phase EXCEPT ![s] = "initialized"]
       \/ phase' = [phase EXCEPT ![s] = "ready"]
   BY <1>1 DEF ClientInitialize, ClientInitialized
 <2>2. UNCHANGED <<state, waiters, members, ids, queueVars, opVars, childVars, pumping,
                  linger, flagVars>>
   BY <1>1 DEF ClientInitialize, ClientInitialized
 <2>3. SessionTypes' BY <1>0, <2>1, <2>2 DEF TypeOK, Phases
 <2>4. GroupTypes' BY <1>0, <2>2 DEF TypeOK, flagVars
 <2>5. ChildTypes' BY <1>0, <2>2 DEF TypeOK, childVars
 <2> QED BY <1>0, <2>2, <2>3, <2>4, <2>5, SameType
<1>2. ASSUME NEW s \in Sessions, SessionEnds(s) PROVE TypeOK'
  BY <1>0, <1>2, DetachType DEF SessionEnds
<1>3. ASSUME NEW r \in Requests, Reject(r) PROVE TypeOK'
 <2>1. replies' \in [Requests -> Seq(Answers)] BY <1>0, <1>3, AnswerType DEF Reject
 <2>2. OperationTypes' BY <1>0, <1>3, <2>1 DEF Reject, TypeOK
 <2>3. QueueTypes' BY <1>0, <1>3 DEF Reject, TypeOK, queueVars
 <2>4. SessionTypes' BY <1>0, <1>3 DEF Reject, TypeOK
 <2>5. ChildTypes' BY <1>0, <1>3 DEF Reject, TypeOK, childVars
 <2>6. GroupTypes' BY <1>0, <1>3 DEF Reject, TypeOK, flagVars
 <2> QED BY <2>2, <2>3, <2>4, <2>5, <2>6 DEF TypeOK
<1>4. ASSUME NEW r \in Requests, SendNow(r) PROVE TypeOK'
 <2>1. Sent(r) \/ Overflows(r) BY <1>4 DEF SendNow
 <2>2. pending' \in SUBSET Requests BY <1>0, <1>4 DEF SendNow, TypeOK
 <2>3. OperationTypes' BY <1>0, <1>4, <2>1, <2>2, DispatchType DEF SendNow, TypeOK
 <2>4. QueueTypes' BY <1>0, <1>4 DEF SendNow, TypeOK, queueVars
 <2>5. SessionTypes' BY <1>0, <1>4 DEF SendNow, TypeOK
 <2>6. ChildTypes' BY <1>0, <1>4, <2>1, DispatchType DEF SendNow, TypeOK
 <2>7. GroupTypes' BY <1>0, <1>4 DEF SendNow, TypeOK, flagVars
 <2> QED BY <2>3, <2>4, <2>5, <2>6, <2>7 DEF TypeOK
<1>5. ASSUME NEW r \in Requests, Enqueue(r) PROVE TypeOK' BY <1>0, <1>5, EnqueueType
<1>6. ASSUME NEW r \in Requests, Cancel(r) PROVE TypeOK'
 <2>1. CASE StopNow(TRUE) BY <1>0, <2>1, StopNowTypeSame
 <2>2. CASE /\ cancelled' = cancelled \cup {r}
            /\ Write(IF r \in cancelled THEN 0 ELSE 1)
            /\ replies' = Answer({r} \ settled) /\ settled' = settled \cup {r}
            /\ UNCHANGED <<state, sessionVars, queueVars, pending, operations, dispatched,
                           child, killRequested, pumping, linger, flagVars>>
   BY <1>0, <2>2, SettleType
 <2>3. CASE DropQueued(r) BY <1>0, <2>3, DropQueuedType
 <2> QED BY <1>6, <2>1, <2>2, <2>3 DEF Cancel
<1> QED BY <1>1, <1>2, <1>3, <1>4, <1>5, <1>6 DEF Client

\* and the timers'.
LEMMA TimerType ==
  ASSUME SharedAssumption, Inv, Timer PROVE TypeOK'
<1>0. TypeOK /\ QueuesTraced BY DEF Inv, Traced
<1>1. ASSUME NEW fail \in BOOLEAN, StopNow(fail) PROVE TypeOK' BY <1>0, <1>1, StopNowTypeSame
<1>2. CASE InitTimeout \/ DrainTimeout \/ LingerExpires
  BY <1>1, <1>2 DEF InitTimeout, DrainTimeout, LingerExpires
<1>3. ASSUME NEW r \in Requests, RequestTimeout(r) PROVE TypeOK'
 <2> DEFINE n == IF r \in cancelled THEN 0 ELSE 1
 <2>1. n \in Nat OBVIOUS
 <2>2. CASE DropQueued(r) BY <1>0, <2>2, DropQueuedType
 <2>3. CASE StopNow(TRUE) BY <1>1, <2>3
 <2>4. CASE /\ cancelled' = cancelled \cup {r} /\ Write(n)
            /\ UNCHANGED <<child, killRequested, pumping>>
            /\ Drain({r} \ settled, TRUE)
   BY <1>0, <2>4, <2>1, WriteType, DrainType DEF TypeOK
 <2>5. CASE /\ cancelled' = cancelled \cup {r} /\ Write(n)
            /\ UNCHANGED <<child, killRequested, pumping>>
            /\ replies' = Answer({r} \ settled) /\ settled' = settled \cup {r}
            /\ UNCHANGED <<state, sessionVars, queueVars, pending, operations,
                           dispatched, linger, flagVars>>
  <3> HIDE DEF n
  <3> QED BY <1>0, <2>1, <2>5, SettleType
 <2> QED BY <1>3, <2>2, <2>3, <2>4, <2>5 DEF RequestTimeout
<1> QED BY <1>2, <1>3 DEF Timer

-----------------------------------------------------------------------------
(* The maps account for every request, and each request keeps its contract. *)

IInv == Inv /\ Accounted

Kept == Accounted' /\ Contract!Next

\* An open request is running and sent, or waiting and not sent.
LEMMA OpenLife ==
  ASSUME IInv, NEW r \in Requests
  PROVE  /\ r \in Open => replies[r] = <<>>
         /\ replies[r] = <<>> => (r \in Open <=> r \in Queued \cup operations)
         /\ r \in Queued => r \notin operations /\ r \notin dispatched
         /\ r \in operations => r \in dispatched
  BY DEF IInv, Inv, Traced, OperationsTraced, Open

\* A step that answers the open requests of R truthfully, sends nothing, and
\* moves no other unanswered request keeps every contract.
LEMMA AnswersContract ==
  ASSUME IInv, NEW R, R \subseteq Open, Answers1(replies', R), dispatched' = dispatched,
         \A r \in Requests \ R : replies[r] = <<>> =>
            (r \in operations <=> r \in operations') /\ (r \in Queued <=> r \in Queued')
  PROVE  Contract!Next
<1> SUFFICES ASSUME NEW r \in Requests
             PROVE  Contract!Step(r) \/ UNCHANGED Contract!request(r)
  BY DEF Contract!Next
<1>1. CASE r \in R
 <2>1. r \in Open /\ replies[r] = <<>> /\ r \in Queued \cup operations BY <1>1, OpenLife DEF Open
 <2>2. Truthful(r, replies'[r]) /\ replies'[r] # <<>> BY <1>1, TruthfulAnswers DEF Answers1
 <2>3. Life'[r] = "over" BY <2>2 DEF Life
 <2>4. CASE r \in operations
   BY <2>1, <2>4, OpenLife, <2>2, <2>3 DEF Life, Truthful, Contract!Step, Contract!Answered
 <2>5. CASE r \notin operations
   BY <2>1, <2>5, OpenLife, <2>2, <2>3 DEF Life, Truthful, Contract!Step, Contract!Refused
 <2> QED BY <2>4, <2>5
<1>2. CASE r \notin R BY <1>2 DEF Answers1, Life, Contract!request
<1> QED BY <1>1, <1>2

\* A step that answers R forgets no request of a session that stays.
LEMMA AskedKept ==
  ASSUME IInv, NEW R, Answers1(replies', R), ids' \subseteq ids,
         \A r \in ids' : OwnerOf[r] \in members',
         \A r \in ids' : r \in Open => r \in Open' \/ r \in R
  PROVE  AskedAccounted'
<1> SUFFICES ASSUME NEW r \in ids', replies'[r] = <<>> PROVE r \in Open' BY DEF AskedAccounted
<1>1. r \in ids /\ r \in Requests BY DEF IInv, Inv, TypeOK
<1>2. r \notin R BY <1>1, TruthfulAnswers DEF Answers1
<1>3. replies[r] = <<>> BY <1>1, <1>2 DEF Answers1
<1> QED BY <1>1, <1>2, <1>3 DEF IInv, Accounted, AskedAccounted

\* stop() answers every open request when its caller answers them all.
LEMMA StopKept ==
  ASSUME SharedAssumption, IInv, NEW rep, Answers1(rep, Open), NEW open, NEW fail,
         Stop(open, rep, fail)
  PROVE  Kept
<1>1. Queued' = {} /\ operations' = {} /\ dispatched' = dispatched /\ replies' = rep
  BY EmptyQueue DEF Stop, SharedAssumption
<1>2. pending' = {} BY DEF Stop, IInv, Accounted, PendingAccounted
<1>3. ids' = {} BY DEF Stop, IInv, Accounted, AskedAccounted
<1>4. Accounted'
  BY <1>1, <1>2, <1>3 DEF Accounted, PendingAccounted, AskedAccounted, QueuesAccounted, Stop
<1>5. \A r \in Requests \ Open : replies[r] = <<>> => r \notin operations /\ r \notin Queued
  BY OpenLife
<1> QED BY <1>1, <1>4, <1>5, AnswersContract DEF Kept

\* Most callers of stop() have answered nothing before.
LEMMA StopNowKept ==
  ASSUME SharedAssumption, IInv, NEW fail, Stop(Open, Answer(Open), fail)
  PROVE  Kept
<1>1. Answers1(Answer(Open), Open) BY AnswerOpen DEF IInv
<1> QED BY <1>1, StopKept

\* drain() answers the queue; the running requests stay accounted for.
LEMMA DrainKept ==
  ASSUME SharedAssumption, IInv, NEW done, done \subseteq Open, NEW fail, Drain(done, fail)
  PROVE  Kept
<1> DEFINE R == (Queued \ settled) \cup done
<1>1. R \subseteq Open /\ replies' = Answer(R) BY DEF Drain, Open
<1>2. Answers1(replies', R) BY <1>1, AnswerOpen DEF IInv
<1>3. UNCHANGED <<ids, members, dispatched, operations>> BY DEF Drain, sessionVars
<1>4. Queued' = {} BY EmptyQueue DEF Drain, SharedAssumption
<1>5. Queued \cap operations = {} /\ Queued \cap settled = {}
  BY DEF IInv, Inv, Traced, OperationsTraced
<1>6. settled' = settled \cup R BY DEF Drain
<1>7. \A r \in Open : r \in Open' \/ r \in R BY <1>3, <1>5, <1>6 DEF Open
<1>8. \A r \in Requests \ R : replies[r] = <<>> => r \notin Queued BY <1>5
<1> HIDE DEF R
<1>9. AskedAccounted' BY <1>2, <1>3, <1>7, AskedKept DEF IInv, Accounted, AskedAccounted
<1>10. PendingAccounted'
  BY <1>3, <1>4, <1>5 DEF PendingAccounted, IInv, Accounted, Drain, Inv, TypeOK
<1>11. QueuesAccounted' BY DEF QueuesAccounted, Drain
<1>12. Contract!Next BY <1>1, <1>2, <1>3, <1>4, <1>8, AnswersContract
<1> QED BY <1>9, <1>10, <1>11, <1>12 DEF Kept, Accounted

\* Steps that move no request.
LEMMA QuietKept ==
  ASSUME IInv, UNCHANGED <<queueVars, opVars, ids>>, members \subseteq members',
         \A r \in Requests : OwnerOf[r] \in members' \ members =>
            r \notin Queued \cup operations, state' # "ready" => state # "ready"
  PROVE  Kept
<1>1. UNCHANGED <<queue, pending, operations, dispatched, settled, replies>>
      /\ Queued' = Queued /\ Open' = Open
  BY DEF queueVars, opVars, Open
<1>2. Answers1(replies', {}) BY <1>1 DEF Answers1
<1>3. Contract!Next BY <1>1, <1>2, AnswersContract
<1>4. AskedAccounted' BY <1>1, <1>2, AskedKept DEF IInv, Accounted, AskedAccounted
<1>5. PendingAccounted' BY <1>1 DEF PendingAccounted, IInv, Accounted, Inv, TypeOK
<1>6. QueuesAccounted' BY <1>1 DEF QueuesAccounted, IInv, Accounted
<1> QED BY <1>3, <1>4, <1>5, <1>6 DEF Kept, Accounted

\* A session ends: its requests are answered and leave the maps.
LEMMA DetachKept ==
  ASSUME SharedAssumption, IInv, NEW s \in Sessions, Detach(s)
  PROVE  Kept
<1>1. CASE Fits(Cardinality(ToCancel(s)))
 <2>1. /\ queue' = [queue EXCEPT ![s] = <<>>] /\ members' = members \ {s}
       /\ ids' = ids \ Of(s) /\ pending' = pending \ Of(s)
       /\ replies' = Answer(Gone(s)) /\ settled' = settled \cup Gone(s)
       /\ UNCHANGED <<state, operations, dispatched>>
   BY <1>1 DEF Detach
 <2>2. Gone(s) \subseteq Open BY DEF Gone
 <2>3. Answers1(replies', Gone(s)) BY <2>1, <2>2, AnswerOpen DEF IInv
 <2>4. Queued' = Queued \ Of(s) BY <2>1, EmptyQueue DEF IInv, Inv, TypeOK, SharedAssumption
 <2>5. \A r \in Requests \ Gone(s) : replies[r] = <<>> =>
          (r \in operations <=> r \in operations') /\ (r \in Queued <=> r \in Queued')
   BY <2>1, <2>4, OpenLife DEF Gone
 <2>6. Contract!Next BY <2>1, <2>2, <2>3, <2>5, AnswersContract
 <2>7. AskedAccounted'
  <3>1. \A r \in ids' : OwnerOf[r] \in members'
    BY <2>1 DEF IInv, Accounted, AskedAccounted, Inv, TypeOK
  <3>2. \A r \in ids' : r \in Open => r \in Open' \/ r \in Gone(s) BY <2>1, <2>4 DEF Open, Gone
  <3> QED BY <2>1, <2>3, <3>1, <3>2, AskedKept
 <2>8. PendingAccounted' BY <2>1, <2>4 DEF PendingAccounted, IInv, Accounted, Inv, TypeOK
 <2>9. QueuesAccounted' BY <2>1 DEF QueuesAccounted, IInv, Accounted, Inv, TypeOK
 <2> QED BY <2>6, <2>7, <2>8, <2>9 DEF Kept, Accounted
<1>2. CASE ~Fits(Cardinality(ToCancel(s))) BY <1>2, StopNowKept DEF Detach, StopNow
<1> QED BY <1>1, <1>2

\* A queued request is answered and leaves the maps.
LEMMA DropQueuedKept ==
  ASSUME SharedAssumption, IInv, NEW r \in Requests, r \in Queued, DropQueued(r)
  PROVE  Kept
<1> DEFINE s == OwnerOf[r]
<1>0. s \in Sessions BY DEF SharedAssumption
<1>1. r \in Open /\ r \notin operations /\ {r} \settled = {r}
  BY DEF Open, IInv, Inv, Traced, OperationsTraced
<1>2. Answers1(replies', {r}) BY <1>1, AnswerOpen DEF DropQueued, IInv
<1>3. /\ \A x : Contains(Without(queue[s], r), x) <=> Contains(queue[s], x) /\ x # r
  BY <1>0, WithoutQueue DEF IInv, Inv, TypeOK, Traced, QueuesTraced
<1>4. \A x \in Sessions : queue'[x] = IF x = s THEN Without(queue[s], r) ELSE queue[x]
  BY <1>0 DEF DropQueued, IInv, Inv, TypeOK
<1>5. Queued' = Queued \ {r} BY <1>3, <1>4 DEF SharedAssumption
<1>6. UNCHANGED <<state, members, ids, operations, dispatched>>
      /\ settled' = settled \cup {r} /\ pending' = pending \ {r}
  BY DEF DropQueued, sessionVars
<1>7. Contract!Next BY <1>1, <1>2, <1>5, <1>6, AnswersContract
<1>8. AskedAccounted' BY <1>5, <1>6, <1>2, AskedKept DEF Open, IInv, Accounted, AskedAccounted
<1>9. PendingAccounted' BY <1>1, <1>5, <1>6 DEF PendingAccounted, IInv, Accounted
<1>10. QueuesAccounted' BY <1>0, EmptyQueue, <1>6 DEF IInv, Accounted, QueuesAccounted
<1> QED BY <1>7, <1>8, <1>9, <1>10 DEF Kept, Accounted

\* A running request is answered and keeps its slot.
LEMMA SettleKept ==
  ASSUME SharedAssumption, IInv, NEW r \in operations,
         replies' = Answer({r} \ settled), settled' = settled \cup {r},
         UNCHANGED <<state, sessionVars, queueVars, pending, operations, dispatched>>
  PROVE  Kept
<1> DEFINE R == {r} \ settled
<1>1. R \subseteq Open BY DEF Open
<1>2. Answers1(replies', R) BY <1>1, AnswerOpen DEF IInv
<1>3. Queued' = Queued BY DEF queueVars
<1>4. \A x \in ids' : x \in Open => x \in Open' \/ x \in R BY <1>3 DEF Open
<1> HIDE DEF R
<1>5. Contract!Next BY <1>1, <1>2, <1>3, AnswersContract
<1>6. AskedAccounted' BY <1>2, <1>4, AskedKept DEF sessionVars, IInv, Accounted, AskedAccounted
<1>7. PendingAccounted' BY <1>3 DEF PendingAccounted, IInv, Accounted, sessionVars
<1>8. QueuesAccounted' BY DEF QueuesAccounted, IInv, Accounted, queueVars
<1> QED BY <1>5, <1>6, <1>7, <1>8 DEF Kept, Accounted

\* A request that may be asked is new to the contract, too.
LEMMA MayAskNew ==
  ASSUME IInv, NEW r \in Requests, MayAsk(r)
  PROVE  /\ Life[r] = "new" /\ r \notin dispatched /\ r \notin operations
         /\ r \notin Queued /\ r \notin pending /\ replies[r] = <<>>
<1>1. /\ r \notin Queued /\ r \notin dispatched /\ r \notin operations /\ replies[r] = <<>>
  BY MayAskFresh DEF IInv
<1> QED BY <1>1 DEF Life, IInv, Accounted, PendingAccounted

\* A refused request is answered where it stands.
LEMMA RejectKept ==
  ASSUME SharedAssumption, IInv, NEW r \in Requests, Reject(r) PROVE Kept
<1>1. MayAsk(r) /\ replies' = Answer({r}) /\ ids' = ids \cup {r} BY DEF Reject
<1>2. UNCHANGED <<state, members, queue, pending, operations, dispatched, settled>>
  BY DEF Reject, queueVars
<1>3. OwnerOf[r] \in members BY <1>1 DEF MayAsk
<1>4. Answers1(replies', {r}) BY <1>1, <1>3, MayAskNew, AnswerOne DEF IInv
<1>5. Queued' = Queued /\ Open' = Open BY <1>2 DEF Open
<1>6. replies'[r] = <<"unsent">> /\ replies'[r] # <<>>
  BY <1>1, <1>4, MayAskNew, TruthfulAnswers DEF Answers1, Truthful
<1>7. Contract!Next
 <2> SUFFICES ASSUME NEW x \in Requests
              PROVE  Contract!Step(x) \/ UNCHANGED Contract!request(x)
   BY DEF Contract!Next
 <2>1. CASE x = r BY <1>6, <1>1, <1>2, <2>1, MayAskNew DEF Life, Contract!Step, Contract!Refused
 <2>2. CASE x # r BY <1>4, <2>2, <1>2, <1>5 DEF Answers1, Life, Contract!request
 <2> QED BY <2>1, <2>2
<1>8. AskedAccounted'
 <2> SUFFICES ASSUME NEW x \in ids'
              PROVE  OwnerOf[x] \in members' /\ (replies'[x] = <<>> => x \in Open')
   BY DEF AskedAccounted
 <2>1. CASE x = r BY <1>2, <1>3, <1>6, <2>1
 <2>2. CASE x # r
   BY <1>1, <2>2, <1>4, <1>2, <1>5 DEF IInv, Inv, TypeOK, Answers1, Accounted, AskedAccounted
 <2> QED BY <2>1, <2>2
<1>9. PendingAccounted' BY <1>2, <1>5 DEF PendingAccounted, IInv, Accounted
<1>10. QueuesAccounted' BY <1>2 DEF QueuesAccounted, IInv, Accounted
<1> QED BY <1>7, <1>8, <1>9, <1>10 DEF Kept, Accounted

\* dispatch() moves one request that was never sent: it runs, or it is refused.
LEMMA DispatchContract ==
  ASSUME IInv, NEW r \in Requests, OwnerOf[r] \in members, replies[r] = <<>>,
         r \notin dispatched, Life[r] \in {"new", "waiting"},
         Sent(r) \/ Overflows(r), Queued' = Queued \ {r}
  PROVE  Contract!Next
<1> SUFFICES ASSUME NEW x \in Requests
             PROVE  Contract!Step(x) \/ UNCHANGED Contract!request(x)
  BY DEF Contract!Next
<1>1. CASE Sent(r)
 <2>1. /\ dispatched' = dispatched \cup {r} /\ operations' = operations \cup {r}
       /\ replies' = replies
   BY <1>1 DEF Sent
 <2>2. CASE x = r BY <2>1, <2>2 DEF Life, Contract!Step, Contract!Runs
 <2>3. CASE x # r BY <2>1, <2>3 DEF Life, Contract!request
 <2> QED BY <2>2, <2>3
<1>2. CASE Overflows(r)
 <2>1. replies' = Answer({r}) /\ UNCHANGED <<dispatched, operations>> BY <1>2 DEF Overflows
 <2>2. Answers1(replies', {r}) BY <2>1, AnswerOne DEF IInv
 <2>3. CASE x = r
  <3>1. replies'[r] = <<"unsent">> BY <2>2 DEF Answers1, Truthful
  <3>2. Life'[r] = "over" BY <3>1 DEF Life
  <3> QED BY <2>1, <2>3, <3>1, <3>2 DEF Contract!Step, Contract!Refused
 <2>4. CASE x # r
  <3>1. replies'[x] = replies[x] BY <2>2, <2>4 DEF Answers1
  <3>2. Life'[x] = Life[x] BY <2>1, <2>4, <3>1 DEF Life
  <3> QED BY <2>1, <3>1, <3>2 DEF Contract!request
 <2> QED BY <2>3, <2>4
<1> QED BY <1>1, <1>2

\* dispatch() keeps the maps' account.
LEMMA DispatchAccounted ==
  ASSUME IInv, NEW r \in Requests, OwnerOf[r] \in members, replies[r] = <<>>,
         r \notin settled, r \notin operations,
         \/ Sent(r) /\ pending' = pending \cup {r}
         \/ Overflows(r) /\ pending' = pending \ {r},
         Queued' = Queued \ {r}, ids' \subseteq ids \cup {r}, UNCHANGED members
  PROVE  AskedAccounted' /\ PendingAccounted'
<1>1. CASE Sent(r) /\ pending' = pending \cup {r}
  BY <1>1 DEF Sent, Open, AskedAccounted, IInv, Accounted, PendingAccounted
<1>2. CASE Overflows(r) /\ pending' = pending \ {r}
 <2>1. /\ settled' = settled \cup {r} /\ replies' = Answer({r})
       /\ UNCHANGED operations
   BY <1>2 DEF Overflows
 <2>2. Answers1(replies', {r}) BY <2>1, AnswerOne DEF IInv
 <2>3. Open' = Open \ {r} BY <2>1 DEF Open
 <2>4. replies'[r] # <<>> BY <2>2, TruthfulAnswers DEF Answers1
 <2>5. AskedAccounted'
  <3> SUFFICES ASSUME NEW x \in ids'
               PROVE  OwnerOf[x] \in members' /\ (replies'[x] = <<>> => x \in Open')
    BY DEF AskedAccounted
  <3>1. CASE x = r BY <2>4, <3>1
  <3>2. CASE x # r BY <3>2, <2>2, <2>3 DEF IInv, Inv, TypeOK, Answers1, Accounted, AskedAccounted
  <3> QED BY <3>1, <3>2
 <2>6. PendingAccounted' BY <1>2, <2>1 DEF PendingAccounted, IInv, Accounted
 <2> QED BY <2>5, <2>6
<1> QED BY <1>1, <1>2

\* A request that finds a free slot,
LEMMA SendNowKept ==
  ASSUME SharedAssumption, IInv, NEW r \in Requests, SendNow(r) PROVE Kept
<1>1. MayAsk(r) /\ ids' = ids \cup {r} /\ state = "ready" BY DEF SendNow, Acceptable
<1>2. UNCHANGED <<state, members, queue>> BY DEF SendNow, queueVars
<1>3. OwnerOf[r] \in members BY <1>1 DEF MayAsk
<1>4. /\ Life[r] = "new" /\ r \notin dispatched /\ r \notin operations
      /\ r \notin Queued /\ r \notin pending /\ replies[r] = <<>>
  BY <1>1, MayAskNew
<1>5. Queued' = Queued \ {r} BY <1>2, <1>4
<1>6. r \notin settled BY <1>4 DEF IInv, Inv, Traced, OperationsTraced
<1>7. \/ Sent(r) /\ pending' = pending \cup {r}
      \/ Overflows(r) /\ pending' = pending \ {r}
  BY <1>4 DEF SendNow
<1>8. Contract!Next BY <1>3, <1>4, <1>5, <1>7, DispatchContract
<1>9. AskedAccounted' /\ PendingAccounted'
  BY <1>1, <1>2, <1>3, <1>4, <1>5, <1>6, <1>7, DispatchAccounted
<1>10. QueuesAccounted' BY <1>1, <1>2 DEF QueuesAccounted
<1> QED BY <1>8, <1>9, <1>10 DEF Kept, Accounted

\* one that has to wait,
LEMMA EnqueueKept ==
  ASSUME SharedAssumption, IInv, NEW r \in Requests, Enqueue(r) PROVE Kept
<1> DEFINE s == OwnerOf[r]
<1>0. s \in Sessions BY DEF SharedAssumption
<1>1. MayAsk(r) /\ ids' = ids \cup {r} /\ state = "ready" BY DEF Enqueue, Acceptable
<1>2. /\ UNCHANGED <<state, members, operations, dispatched, settled, replies>>
      /\ pending' = pending \cup {r}
  BY DEF Enqueue
<1>3. OwnerOf[r] \in members BY <1>1 DEF MayAsk
<1>4. /\ Life[r] = "new" /\ r \notin dispatched /\ r \notin operations
      /\ r \notin Queued /\ replies[r] = <<>>
  BY <1>1, MayAskNew
<1>5. queue[s] \in Seq(Requests) /\ IsInjective(queue[s]) /\ ~Contains(queue[s], r)
  BY <1>0, <1>4 DEF IInv, Inv, TypeOK, Traced, QueuesTraced
<1>6. \A x : Contains(Append(queue[s], r), x) <=> Contains(queue[s], x) \/ x = r
  BY <1>5, AppendQueue
<1>7. \A x \in Sessions : queue'[x] = IF x = s THEN Append(queue[s], r) ELSE queue[x]
  BY <1>0 DEF Enqueue, IInv, Inv, TypeOK
<1>8. Queued' = Queued \cup {r} BY <1>6, <1>7 DEF SharedAssumption
<1>9. r \notin settled BY <1>4 DEF IInv, Inv, Traced, OperationsTraced
<1>10. Open' = Open \cup {r} BY <1>2, <1>8, <1>9 DEF Open
<1>11. Contract!Next
 <2> SUFFICES ASSUME NEW x \in Requests
              PROVE  Contract!Step(x) \/ UNCHANGED Contract!request(x)
   BY DEF Contract!Next
 <2>1. CASE x = r BY <1>2, <1>4, <1>8, <2>1 DEF Life, Contract!Step, Contract!Waits
 <2>2. CASE x # r BY <1>2, <1>8, <2>2 DEF Life, Contract!request
 <2> QED BY <2>1, <2>2
<1>12. AskedAccounted' BY <1>1, <1>2, <1>3, <1>10 DEF AskedAccounted, IInv, Accounted
<1>13. PendingAccounted' BY <1>2, <1>3, <1>8 DEF PendingAccounted, IInv, Accounted
<1>14. QueuesAccounted' BY <1>1, <1>2 DEF QueuesAccounted
<1> QED BY <1>11, <1>12, <1>13, <1>14 DEF Kept, Accounted

\* and one whose turn has come.
LEMMA PumpNextKept ==
  ASSUME SharedAssumption, IInv, PumpNext PROVE Kept
<1> DEFINE s == Head(lanes)
           r == Head(queue[s])
<1>1. lanes # <<>> /\ lanes \in Seq(Sessions) /\ IsInjective(lanes)
  BY DEF PumpNext, IInv, Inv, TypeOK, Traced, QueuesTraced
<1>2. s \in Sessions /\ Contains(lanes, s) BY <1>1, TailQueue
<1>3. queue[s] \in Seq(Requests) /\ queue[s] # <<>> /\ IsInjective(queue[s])
  BY <1>2 DEF IInv, Inv, TypeOK, Traced, QueuesTraced
<1>4. /\ r \in Requests /\ Contains(queue[s], r)
      /\ \A x : Contains(Tail(queue[s]), x) <=> Contains(queue[s], x) /\ x # r
  BY <1>3, TailQueue
<1>5. /\ queue' = [queue EXCEPT ![s] = Tail(@)]
      /\ \/ Sent(r) /\ UNCHANGED pending
         \/ Overflows(r) /\ pending' = pending \ {r}
      /\ UNCHANGED <<state, members, ids>>
  BY DEF PumpNext, sessionVars
<1>6. \A x \in Sessions : queue'[x] = IF x = s THEN Tail(queue[s]) ELSE queue[x]
  BY <1>2, <1>5 DEF IInv, Inv, TypeOK
<1>7. OwnerOf[r] = s BY <1>2, <1>4 DEF IInv, Inv, Traced, QueuesTraced
<1>8. state = "ready" BY <1>2, <1>3 DEF IInv, Accounted, QueuesAccounted
<1> HIDE DEF r, s
<1>9. Queued' = Queued \ {r} BY <1>4, <1>6, <1>7 DEF SharedAssumption
<1>10. r \in Queued BY <1>4, <1>7
<1>11. r \in Open /\ r \notin dispatched /\ r \notin settled /\ r \notin operations
  BY <1>10 DEF Open, IInv, Inv, Traced, OperationsTraced
<1>12. OwnerOf[r] \in members /\ replies[r] = <<>> BY <1>11 DEF IInv, Inv, Traced, OperationsTraced
<1>13. r \in pending BY <1>4, <1>10, <1>12 DEF IInv, Accounted, PendingAccounted
<1>14. Life[r] = "waiting" BY <1>4, <1>10, <1>11, <1>12 DEF Life
<1>15. pending \cup {r} = pending BY <1>13
<1>16. Contract!Next BY <1>4, <1>5, <1>9, <1>11, <1>12, <1>14, DispatchContract
<1>17. AskedAccounted' /\ PendingAccounted'
  BY <1>4, <1>5, <1>9, <1>11, <1>12, <1>15, DispatchAccounted
<1>18. QueuesAccounted' BY <1>5, <1>8 DEF QueuesAccounted
<1> QED BY <1>16, <1>17, <1>18 DEF Kept, Accounted

\* A response answers its request, or only gives back its slot.
LEMMA ResponseKept ==
  ASSUME SharedAssumption, IInv, NEW r \in Requests, Response(r) PROVE Kept
<1> DEFINE R == {r} \ settled
<1>1. PICK answered \in [Requests -> Seq(Answers)] :
           /\ Answers1(answered, {r} \ settled)
           /\ \/ state = "draining" /\ operations = {r} /\ UNCHANGED child
                 /\ Stop({}, answered, failed)
              \/ /\ replies' = answered
                 /\ operations' = operations \ {r} /\ pending' = pending \ {r}
                 /\ UNCHANGED <<state, sessionVars, queueVars, dispatched, settled,
                                cancelled, childVars, flagVars>>
                 /\ Pump /\ Idle
  BY ResponseCases DEF IInv
<1>2. r \in operations /\ r \notin Queued BY DEF Response, IInv, Inv, Traced, OperationsTraced
<1>3. R \subseteq Open BY <1>2 DEF Open
<1>4. CASE state = "draining" /\ operations = {r} /\ Stop({}, answered, failed)
  BY <1>4, EmptyQueue, <1>1, StopKept DEF IInv, Accounted, QueuesAccounted, SharedAssumption, Open
<1>5. CASE /\ replies' = answered
           /\ operations' = operations \ {r} /\ pending' = pending \ {r}
           /\ UNCHANGED <<state, sessionVars, queueVars, dispatched, settled,
                          cancelled, childVars, flagVars>>
 <2>1. Answers1(replies', R) BY <1>1, <1>5
 <2>2. Queued' = Queued BY <1>5 DEF queueVars
 <2>3. \A x \in Requests \ R : replies[x] = <<>> =>
          (x \in operations <=> x \in operations') /\ (x \in Queued <=> x \in Queued')
   BY <1>5, <2>2 DEF IInv, Inv, Traced, OperationsTraced
 <2>4. \A x \in ids' : x \in Open => x \in Open' \/ x \in R BY <1>5, <2>2 DEF Open
 <2> HIDE DEF R
 <2>5. Contract!Next BY <1>3, <1>5, <2>1, <2>3, AnswersContract
 <2>6. AskedAccounted'
   BY <1>5, <2>1, <2>4, AskedKept DEF sessionVars, IInv, Accounted, AskedAccounted
 <2>7. PendingAccounted' BY <1>2, <1>5, <2>2 DEF PendingAccounted, IInv, Accounted, sessionVars
 <2>8. QueuesAccounted' BY <1>5 DEF QueuesAccounted, IInv, Accounted, queueVars
 <2> QED BY <2>5, <2>6, <2>7, <2>8 DEF Kept, Accounted
<1> QED BY <1>1, <1>4, <1>5

-----------------------------------------------------------------------------
(* Every step. *)

\* The manager's steps keep the invariant and the contracts.
LEMMA ManagerStep ==
  ASSUME SharedAssumption, IInv, Manager PROVE Traced' /\ Kept
<1>0. Inv BY DEF IInv
<1>1. ASSUME ~pumping, NEW fail, StopNow(fail) PROVE Traced' /\ Kept
  BY <1>0, <1>1, StopNowTraced, StopNowKept DEF StopNow
<1>2. ASSUME NEW s \in Sessions, AcquireStart(s) PROVE Traced' /\ Kept
  BY <1>2, <1>0, AcquireStartTraced, QuietKept DEF AcquireStart
<1>3. ASSUME NEW s \in Sessions, AcquireResume(s) PROVE Traced' /\ Kept
 <2>1. UNCHANGED <<queueVars, opVars, ids, state>> /\ s \in waiters
       /\ members' \in {members, members \cup {s}}
   BY <1>3 DEF AcquireResume
 <2>2. ASSUME NEW r \in Requests, OwnerOf[r] \in members' \ members
       PROVE  r \notin Queued \cup operations
  <3>1. OwnerOf[r] = s /\ OwnerOf[r] \notin members BY <2>1, <2>2
  <3>2. Unasked(r)
    BY <2>1, <3>1 DEF Unasked, IInv, Inv, Traced, SessionsTraced, Accounted, AskedAccounted
  <3> QED BY <3>2 DEF IInv, Inv, Traced, UnaskedTraced, OperationsTraced
 <2> QED BY <1>0, <1>3, <2>1, <2>2, AcquireResumeTraced, QuietKept
<1>4. CASE Recycle
 <2>1. CASE StopNow(FALSE) BY <1>1, <1>4, <2>1 DEF Recycle
 <2>2. CASE Drain({}, FALSE) /\ UNCHANGED pumping
   BY <1>0, <1>4, <2>2, DrainTraced, DrainKept DEF Recycle
 <2> QED BY <1>4, <2>1, <2>2 DEF Recycle
<1>5. CASE RemoveGroup BY <1>1, <1>5 DEF RemoveGroup
<1> QED BY <1>2, <1>3, <1>4, <1>5 DEF Manager

\* So do the child's,
LEMMA ChildStep ==
  ASSUME SharedAssumption, IInv, Child PROVE Traced' /\ Kept
<1>0. Inv BY DEF IInv
<1>1. ASSUME ~pumping, NEW fail, Stop(Open, Answer(Open), fail) PROVE Traced' /\ Kept
  BY <1>0, <1>1, StopNowTraced, StopNowKept
<1>2. ASSUME UNCHANGED <<sessionVars, queueVars, opVars>>,
             pumping' => lanes # <<>>, state' # "ready" => state # "ready"
      PROVE  Traced' /\ Kept
  BY <1>2, <1>0, SameTraced, QuietKept DEF opVars, sessionVars
<1>3. CASE SpawnResolves \/ SpawnUnavailable \/ SpawnRejects \/ ChildExits \/ Ping
           \/ Initialized \/ ChildFault \/ KillReport
 <2>1. ~pumping BY <1>3 DEF SpawnResolves, SpawnUnavailable, SpawnRejects, ChildExits, Ping,
   Initialized, ChildFault, KillReport
 <2>2. CASE \E fail : Stop(Open, Answer(Open), fail) BY <1>1, <2>1, <2>2
 <2>3. CASE ~\E fail : Stop(Open, Answer(Open), fail)
  <3>1. UNCHANGED <<sessionVars, queueVars, opVars, pumping>> BY <1>3, <2>3 DEF SpawnResolves,
    SpawnUnavailable, SpawnRejects, ChildExits, Ping, Initialized, ChildFault, KillReport, StopNow
  <3>2. state' # "ready" => state # "ready" BY <1>3, <2>3 DEF SpawnResolves, SpawnUnavailable,
    SpawnRejects, ChildExits, Ping, Initialized, ChildFault, KillReport, StopNow, Live
  <3> QED BY <1>2, <2>1, <3>1, <3>2
 <2> QED BY <2>2, <2>3
<1>4. CASE ChildReads BY <1>4, <1>2 DEF ChildReads, Pump, CanPump, queueVars
<1>5. ASSUME NEW r \in Requests, Response(r) PROVE Traced' /\ Kept
  BY <1>0, <1>5, ResponseTraced, ResponseKept
<1> QED BY <1>3, <1>4, <1>5 DEF Child

\* the clients',
LEMMA ClientStep ==
  ASSUME SharedAssumption, IInv, Client PROVE Traced' /\ Kept
<1>0. Inv /\ PendingAccounted BY DEF IInv, Accounted
<1>1. ASSUME NEW s \in Sessions, ClientInitialize(s) \/ ClientInitialized(s)
      PROVE  Traced' /\ Kept
  BY <1>1, <1>0, ClientInitTraced, QuietKept DEF ClientInitialize, ClientInitialized
<1>2. ASSUME NEW s \in Sessions, SessionEnds(s) PROVE Traced' /\ Kept
  BY <1>0, <1>2, DetachTraced, DetachKept DEF SessionEnds
<1>3. ASSUME NEW r \in Requests, Reject(r) PROVE Traced' /\ Kept
  BY <1>0, <1>3, RejectTraced, RejectKept
<1>4. ASSUME NEW r \in Requests, SendNow(r) PROVE Traced' /\ Kept
  BY <1>0, <1>4, SendNowTraced, SendNowKept
<1>5. ASSUME NEW r \in Requests, Enqueue(r) PROVE Traced' /\ Kept
  BY <1>5, <1>0, EnqueueTraced, EnqueueKept DEF Enqueue
<1>6. ASSUME NEW r \in Requests, Cancel(r) PROVE Traced' /\ Kept
 <2>1. Traced' BY <1>0, <1>6, CancelTraced
 <2>2. r \in Queued \cup operations BY <1>0, <1>6 DEF Cancel, PendingAccounted
 <2>3. CASE StopNow(TRUE) BY <2>1, <2>3, StopNowKept DEF StopNow
 <2>4. CASE /\ r \in dispatched
            /\ replies' = Answer({r} \ settled) /\ settled' = settled \cup {r}
            /\ UNCHANGED <<state, sessionVars, queueVars, pending, operations, dispatched>>
   BY <1>0, <2>2, <2>4, <2>1, SettleKept DEF Inv, Traced, OperationsTraced
 <2>5. CASE r \notin dispatched /\ DropQueued(r)
   BY <1>0, <2>2, <2>5, <2>1, DropQueuedKept DEF Inv, Traced, OperationsTraced
 <2> QED BY <1>6, <2>3, <2>4, <2>5 DEF Cancel
<1> QED BY <1>1, <1>2, <1>3, <1>4, <1>5, <1>6 DEF Client

\* and the timers'.
LEMMA TimerStep ==
  ASSUME SharedAssumption, IInv, Timer PROVE Traced' /\ Kept
<1>0. Inv BY DEF IInv
<1>1. ASSUME ~pumping, NEW fail, StopNow(fail) PROVE Traced' /\ Kept
  BY <1>0, <1>1, StopNowTraced, StopNowKept DEF StopNow
<1>2. CASE InitTimeout \/ DrainTimeout \/ LingerExpires
  BY <1>1, <1>2 DEF InitTimeout, DrainTimeout, LingerExpires
<1>3. ASSUME NEW r \in Requests, RequestTimeout(r) PROVE Traced' /\ Kept
 <2>1. Traced' BY <1>0, <1>3, RequestTimeoutTraced
 <2>2. CASE r \in Queued /\ DropQueued(r) BY <2>1, <2>2, DropQueuedKept
 <2>3. CASE StopNow(TRUE) BY <2>1, <2>3, StopNowKept DEF StopNow
 <2>4. CASE r \in operations /\ Drain({r} \ settled, TRUE) BY <2>4, <2>1, DrainKept DEF Open
 <2>5. CASE /\ r \in operations
            /\ replies' = Answer({r} \ settled) /\ settled' = settled \cup {r}
            /\ UNCHANGED <<state, sessionVars, queueVars, pending, operations, dispatched>>
   BY <2>1, <2>5, SettleKept
 <2> QED BY <1>3, <2>2, <2>3, <2>4, <2>5 DEF RequestTimeout
<1> QED BY <1>2, <1>3 DEF Timer

\* The invariant holds at first,
LEMMA InitIInv == ASSUME SharedAssumption, Init PROVE IInv
<1>1. Inv BY InitType, InitTraced DEF Inv
<1>2. \A s \in Sessions : queue[s] = <<>> BY DEF Init
<1>3. Queued = {} BY <1>2, EmptyQueue DEF SharedAssumption
<1>4. PendingAccounted /\ AskedAccounted /\ QueuesAccounted
  BY <1>2, <1>3 DEF Init, PendingAccounted, AskedAccounted, QueuesAccounted
<1> QED BY <1>1, <1>4 DEF IInv, Accounted

\* and every step keeps it, and every request's contract with it.
LEMMA NextIInv ==
  ASSUME SharedAssumption, IInv, [Next]_vars
  PROVE  IInv' /\ (Contract!Next \/ UNCHANGED <<Life, dispatched, replies>>)
<1>0. Inv BY DEF IInv
<1>1. CASE Manager BY <1>0, <1>1, ManagerType, ManagerStep DEF IInv, Inv, Kept
<1>2. CASE Child BY <1>0, <1>2, ChildType, ChildStep DEF IInv, Inv, Kept
<1>3. CASE Client BY <1>0, <1>3, ClientType, ClientStep DEF IInv, Inv, Kept
<1>4. CASE Timer BY <1>0, <1>4, TimerType, TimerStep DEF IInv, Inv, Kept
<1>5. CASE PumpNext
  BY <1>0, <1>5, PumpNextType, PumpNextTraced, PumpNextKept DEF Inv, Traced, IInv, Kept
<1>6. CASE UNCHANGED vars
 <2>1. UNCHANGED <<state, sessionVars, queueVars, opVars, childVars, pumping, linger, flagVars>>
   BY <1>6 DEF vars
 <2>2. GroupTypes' /\ SessionTypes' /\ ChildTypes'
   BY <1>0, <2>1 DEF Inv, TypeOK, sessionVars, childVars, flagVars
 <2>3. TypeOK' BY <1>0, <2>1, <2>2, SameType DEF Inv
 <2>4. Traced' BY <1>0, <2>1, SameTraced DEF Inv, Traced, QueuesTraced, opVars
 <2>5. Kept BY <2>1, QuietKept DEF sessionVars
 <2> QED BY <2>3, <2>4, <2>5 DEF IInv, Inv, Kept
<1> QED BY <1>1, <1>2, <1>3, <1>4, <1>5, <1>6 DEF Next

-----------------------------------------------------------------------------
(* The theorems. *)

\* The invariant holds throughout.
THEOREM Invariance == Spec => []IInv
<1>1. SharedAssumption => (Init => IInv) BY InitIInv
<1>2. SharedAssumption => (IInv /\ [Next]_vars => IInv') BY NextIInv
<1> QED BY <1>1, <1>2, SharedAssumption, PTL DEF Spec

\* Every variable keeps its type.
THEOREM TypeCorrect == Spec => []TypeOK
<1>1. IInv => TypeOK BY DEF IInv, Inv
<1> QED BY <1>1, Invariance, PTL

\* Every operation leaves exactly the traces of where it stands (dispatch,
\* settle, childMessage).
THEOREM TracesHold == Spec => []Traced
<1>1. IInv => Traced BY DEF IInv, Inv
<1> QED BY <1>1, Invariance, PTL

\* No request is answered twice, in any race of its response, its
\* cancellation, its timeout and the ends of its session and its group.
THEOREM NoSecondAnswer == Spec => []AnsweredOnce
<1>1. ASSUME IInv PROVE AnsweredOnce
 <2> SUFFICES ASSUME NEW r \in Requests PROVE Len(replies[r]) <= 1 BY DEF AnsweredOnce
 <2>1. \/ replies[r] = <<>> \/ replies[r] = <<"unsent">>
       \/ replies[r] = <<"result">> \/ replies[r] = <<"potentially-executed">>
   BY <1>1 DEF IInv, Inv, Traced, RepliesTraced
 <2>2. Len(<<>>) = 0 /\ \A x : Len(<<x>>) = 1 OBVIOUS
 <2>3. Len(replies[r]) = 0 \/ Len(replies[r]) = 1 BY <2>1, <2>2, Zenon
 <2>4. 0 <= 1 /\ 1 <= 1 OBVIOUS
 <2> QED BY <2>3, <2>4, Zenon
<1> QED BY <1>1, Invariance, PTL

\* A request reported unsent never reaches the child.
THEOREM UnsentIsTrue == Spec => []UnsentNeverRuns
<1>1. ASSUME IInv PROVE UnsentNeverRuns
 <2> SUFFICES ASSUME NEW r \in Requests, Contains(replies[r], "unsent")
              PROVE  r \notin dispatched
   BY DEF UnsentNeverRuns
 <2>1. ~Contains(<<>>, "unsent") /\ ~Contains(<<"result">>, "unsent")
       /\ ~Contains(<<"potentially-executed">>, "unsent")
   BY EmptyQueue DEF Contains
 <2> QED BY <1>1, <2>1 DEF IInv, Inv, Traced, RepliesTraced
<1> QED BY <1>1, Invariance, PTL

\* No request of an open session is forgotten by the maps that could answer,
\* cancel or time it out.
THEOREM NothingLost == Spec => []NoRequestLost
<1>1. ASSUME IInv PROVE NoRequestLost
 <2>1. \A r \in ids : replies[r] = <<>> => r \in Open BY <1>1 DEF IInv, Accounted, AskedAccounted
 <2>2. pending = {r \in Queued \cup operations : OwnerOf[r] \in members}
   BY <1>1 DEF IInv, Accounted, PendingAccounted
 <2>3. Open \subseteq pending BY <1>1, <2>2 DEF Open, IInv, Inv, Traced, OperationsTraced
 <2> QED BY <2>1, <2>2, <2>3 DEF NoRequestLost
<1> QED BY <1>1, Invariance, PTL

\* The group implements the contract of each request, for any number of
\* sessions and requests and any limits.
THEOREM Implements == Spec => KeepsContract
<1>1. ASSUME SharedAssumption, Init PROVE Contract!Init
  BY <1>1, EmptyQueue DEF Init, SharedAssumption, Life, Contract!Init, Contract!New
<1>2. ASSUME SharedAssumption, IInv, [Next]_vars
      PROVE  [Contract!Next]_<<Life, dispatched, replies>>
  BY <1>2, NextIInv
<1> QED BY <1>1, <1>2, SharedAssumption, Invariance, PTL DEF Spec, KeepsContract, Contract!Spec

-----------------------------------------------------------------------------
(* Every handler that frees a slot or the stdin buffer pumps. *)

\* A handler that only fills the buffer and leaves the pump where it was gives
\* nobody a reason to pump.
LEMMA SameWork ==
  ASSUME WorkConserving, UNCHANGED <<state, lanes, operations, pumping>>, blocked => blocked'
  PROVE  WorkConserving'
  BY DEF WorkConserving, CanPump

\* A group that is not ready has nothing to pump,
LEMMA UnreadyWork == ASSUME state' # "ready" PROVE WorkConserving'
  BY DEF WorkConserving, CanPump

\* nor has one that sends nothing because its lanes are empty.
LEMMA EmptyWork == ASSUME lanes' = <<>> PROVE WorkConserving'
  BY DEF WorkConserving, CanPump

LEMMA PumpWork == ASSUME Pump PROVE WorkConserving'
  BY DEF WorkConserving, Pump

LEMMA StopWork == ASSUME NEW open, NEW rep, NEW fail, Stop(open, rep, fail)
                  PROVE  WorkConserving'
  BY UnreadyWork DEF Stop

LEMMA DrainWork == ASSUME NEW done, NEW fail, Drain(done, fail) PROVE WorkConserving'
  BY UnreadyWork DEF Drain

\* While the group is not ready, no session is in the lanes.
LEMMA UnreadyLanes == ASSUME IInv, state # "ready" PROVE lanes = <<>>
<1>1. lanes \in Seq(Sessions) BY DEF IInv, Inv, TypeOK, QueueTypes
<1>2. ASSUME NEW s \in Sessions, Contains(lanes, s) PROVE FALSE
  BY <1>2 DEF IInv, Inv, Traced, QueuesTraced, Accounted, QueuesAccounted
<1> QED BY <1>1, <1>2, NonEmptyQueue

\* Every step leaves the pump running when it could do something.
LEMMA NextWork ==
  ASSUME SharedAssumption, IInv, WorkConserving, [Next]_vars
  PROVE  WorkConserving'
<1>1. ASSUME NEW fail, StopNow(fail) PROVE WorkConserving' BY <1>1, StopWork DEF StopNow
<1>2. ASSUME NEW n, Write(n) PROVE blocked => blocked' BY <1>2 DEF Write
<1>3. CASE Manager
 <2>1. ASSUME NEW s \in Sessions, AcquireStart(s) \/ AcquireResume(s) PROVE WorkConserving'
   BY <2>1, SameWork DEF AcquireStart, AcquireResume, queueVars, opVars, childVars
 <2>2. CASE Recycle BY <1>1, <2>2, DrainWork DEF Recycle
 <2>3. CASE RemoveGroup BY <1>1, <2>3 DEF RemoveGroup
 <2> QED BY <1>3, <2>1, <2>2, <2>3 DEF Manager
<1>4. CASE Child
 <2>1. CASE SpawnResolves \/ SpawnUnavailable \/ SpawnRejects \/ ChildExits
  <3>1. CASE Stop(Open, Answer(Open), TRUE) BY <3>1, StopWork
  <3>2. CASE ~Stop(Open, Answer(Open), TRUE)
    BY <2>1, <3>2, <1>2, SameWork, UnreadyWork DEF SpawnResolves, SpawnUnavailable, SpawnRejects, ChildExits,
      queueVars, opVars
  <3> QED BY <3>1, <3>2
 <2>2. CASE Initialized
  <3>1. CASE Fits(1) BY <2>2, UnreadyLanes, <3>1, EmptyWork DEF Initialized, queueVars
  <3>2. CASE ~Fits(1) BY <1>1, <2>2, <3>2 DEF Initialized
  <3> QED BY <3>1, <3>2
 <2>3. CASE Ping
  <3>1. CASE Fits(1) BY <1>2, <2>3, <3>1, SameWork DEF Ping, queueVars, opVars
  <3>2. CASE ~Fits(1) BY <1>1, <2>3, <3>2 DEF Ping
  <3> QED BY <3>1, <3>2
 <2>4. CASE ChildFault BY <1>1, <2>4 DEF ChildFault
 <2>5. CASE ChildReads
  <3>1. CASE blocked /\ ~blocked' BY <2>5, <3>1, PumpWork DEF ChildReads
  <3>2. CASE ~(blocked /\ ~blocked') BY <2>5, <3>2, SameWork DEF ChildReads, queueVars, opVars
  <3> QED BY <3>1, <3>2
 <2>6. CASE KillReport BY <2>6, SameWork DEF KillReport, queueVars, opVars, childVars
 <2>7. ASSUME NEW r \in Requests, Response(r) PROVE WorkConserving'
   BY <2>7, StopWork, PumpWork DEF Response
 <2> QED BY <1>4, <2>1, <2>2, <2>3, <2>4, <2>5, <2>6, <2>7 DEF Child
<1>5. CASE Client
 <2>1. ASSUME NEW s \in Sessions, ClientInitialize(s) \/ ClientInitialized(s)
       PROVE  WorkConserving'
   BY <2>1, SameWork DEF ClientInitialize, ClientInitialized, queueVars, opVars, childVars
 <2>2. ASSUME NEW s \in Sessions, SessionEnds(s) PROVE WorkConserving'
   BY <1>1, <2>2, PumpWork DEF SessionEnds, Detach
 <2>3. ASSUME NEW r \in Requests, Reject(r) PROVE WorkConserving'
   BY <2>3, SameWork DEF Reject, queueVars, childVars
 \* A request is sent at once only when the pump has nothing to do.
 <2>4. ASSUME NEW r \in Requests, SendNow(r) PROVE WorkConserving'
   BY <2>4, EmptyWork DEF SendNow, Acceptable, CanDispatch, WorkConserving, CanPump, queueVars
 <2>5. ASSUME NEW r \in Requests, Enqueue(r) PROVE WorkConserving' BY <2>5, PumpWork DEF Enqueue
 <2>6. ASSUME NEW r \in Requests, Cancel(r) PROVE WorkConserving'
  <3>1. CASE StopNow(TRUE) BY <1>1, <3>1
  <3>2. CASE DropQueued(r) BY <3>2, PumpWork DEF DropQueued
  <3>3. CASE UNCHANGED <<state, queueVars, operations, pumping>>
             /\ Write(IF r \in cancelled THEN 0 ELSE 1)
    BY <1>2, <3>3, SameWork DEF queueVars
  <3> QED BY <2>6, <3>1, <3>2, <3>3 DEF Cancel
 <2> QED BY <1>5, <2>1, <2>2, <2>3, <2>4, <2>5, <2>6 DEF Client
<1>6. CASE Timer
 <2>1. CASE InitTimeout \/ DrainTimeout \/ LingerExpires
   BY <1>1, <2>1 DEF InitTimeout, DrainTimeout, LingerExpires
 <2>2. ASSUME NEW r \in Requests, RequestTimeout(r) PROVE WorkConserving'
  <3>1. CASE StopNow(TRUE) BY <1>1, <3>1
  <3>2. CASE DropQueued(r) BY <3>2, PumpWork DEF DropQueued
  <3>3. CASE Drain({r} \ settled, TRUE) BY <3>3, DrainWork
  <3>4. CASE state # "ready" /\ UNCHANGED state BY <3>4, UnreadyWork
  <3> QED BY <2>2, <3>1, <3>2, <3>3, <3>4 DEF RequestTimeout
 <2> QED BY <1>6, <2>1, <2>2 DEF Timer
<1>7. CASE PumpNext BY <1>7, PumpWork DEF PumpNext
<1>8. CASE UNCHANGED vars BY <1>8, SameWork DEF vars, queueVars, opVars, childVars
<1> QED BY <1>3, <1>4, <1>5, <1>6, <1>7, <1>8 DEF Next

\* No queued request is ever left beside a free slot: the pump is running, or
\* it could do nothing (pump and its callers).
THEOREM WorkIsConserved == Spec => []WorkConserving
<1>1. Init => WorkConserving BY DEF Init, WorkConserving, CanPump
<1>2. SharedAssumption => (IInv /\ WorkConserving /\ [Next]_vars => WorkConserving') BY NextWork
<1> QED BY <1>1, <1>2, SharedAssumption, Invariance, PTL DEF Spec

-----------------------------------------------------------------------------
(* The order of a sequence, and what its operations leave of it. *)

Before(q, x, y) == \E i, j \in DOMAIN q : i < j /\ q[i] = x /\ q[j] = y

\* Appending an element changes the order of no two others,
LEMMA AppendOrder ==
  ASSUME NEW S, NEW q \in Seq(S), NEW e \in S, NEW x, NEW y, Before(q, x, y)
  PROVE  Before(Append(q, e), x, y)
<1> DEFINE w == Append(q, e)
<1>1. w \in Seq(S) /\ Len(w) = Len(q) + 1 /\ \A i \in 1..Len(q) : w[i] = q[i] BY AppendProperties
<1>2. Len(q) \in Nat /\ DOMAIN q = 1..Len(q) /\ DOMAIN w = 1..Len(w) BY <1>1, LenProperties
<1> HIDE DEF w
<1>3. PICK i \in 1..Len(q), j \in 1..Len(q) : i < j /\ q[i] = x /\ q[j] = y BY <1>2 DEF Before
<1>4. i \in 1..Len(w) /\ j \in 1..Len(w) BY <1>1, <1>2
<1> QED BY <1>1, <1>2, <1>3, <1>4 DEF Before, w

\* neither does taking the head,
LEMMA TailOrder ==
  ASSUME NEW S, NEW q \in Seq(S), q # <<>>, NEW x, NEW y, Before(q, x, y), x # Head(q)
  PROVE  Before(Tail(q), x, y)
<1> DEFINE t == Tail(q)
<1>1. t \in Seq(S) /\ Len(t) = Len(q) - 1 /\ \A i \in 1..Len(t) : t[i] = q[i + 1]
  BY HeadTailProperties
<1>2. Len(q) \in Nat \ {0} /\ DOMAIN q = 1..Len(q) /\ DOMAIN t = 1..Len(t)
  BY <1>1, LenProperties, EmptySeq
<1>3. Head(q) = q[1] OBVIOUS
<1> HIDE DEF t
<1>4. PICK i \in 1..Len(q), j \in 1..Len(q) : i < j /\ q[i] = x /\ q[j] = y BY <1>2 DEF Before
<1>5. i # 1 BY <1>3, <1>4
<1>6. /\ i - 1 \in 1..Len(t) /\ j - 1 \in 1..Len(t) /\ i - 1 < j - 1
      /\ (i - 1) + 1 = i /\ (j - 1) + 1 = j
  BY <1>1, <1>2, <1>4, <1>5
<1>7. t[i - 1] = x /\ t[j - 1] = y BY <1>1, <1>4, <1>6
<1> QED BY <1>2, <1>6, <1>7 DEF Before, t

\* nor removing an element.
LEMMA WithoutOrder ==
  ASSUME NEW S, NEW q \in Seq(S), NEW e, NEW x, NEW y, Before(q, x, y), x # e, y # e
  PROVE  Before(Without(q, e), x, y)
<1>1. CASE ~Contains(q, e) BY <1>1 DEF Without
<1>2. CASE Contains(q, e)
 <2> DEFINE w == Without(q, e)
 <2>1. PICK k \in 1..Len(q) :
            /\ q[k] = e /\ Len(w) = Len(q) - 1
            /\ \A j \in 1..Len(w) : w[j] = IF j < k THEN q[j] ELSE q[j + 1]
   BY <1>2, WithoutShape
 <2>2. w \in Seq(S) BY <1>2, WithoutShape
 <2> HIDE DEF w
 <2>3. Len(q) \in Nat /\ DOMAIN q = 1..Len(q) /\ DOMAIN w = 1..Len(w) BY <2>2, LenProperties
 <2>4. ASSUME NEW i \in 1..Len(q), i # k
       PROVE  /\ (IF i < k THEN i ELSE i - 1) \in 1..Len(w)
              /\ w[IF i < k THEN i ELSE i - 1] = q[i]
  <3>1. CASE i < k BY <2>1, <2>3, <3>1
  <3>2. CASE i > k BY <2>1, <2>3, <3>2
  <3> QED BY <2>3, <2>4, <3>1, <3>2
 <2>5. PICK i \in 1..Len(q), j \in 1..Len(q) : i < j /\ q[i] = x /\ q[j] = y BY <2>3 DEF Before
 <2>6. i # k /\ j # k BY <2>1, <2>5
 <2> DEFINE a == IF i < k THEN i ELSE i - 1
            b == IF j < k THEN j ELSE j - 1
 <2>7. a \in DOMAIN w /\ b \in DOMAIN w /\ w[a] = x /\ w[b] = y BY <2>3, <2>4, <2>5, <2>6
 <2>8. a < b BY <2>3, <2>5, <2>6
 <2> HIDE DEF a, b
 <2> QED BY <2>7, <2>8 DEF Before, w
<1> QED BY <1>1, <1>2

-----------------------------------------------------------------------------
(* No session costs another its work or its turn. *)

\* What a step may do to the round of the sessions that wait.
LanesMove ==
    \/ lanes' \in {lanes, <<>>}
    \/ \E s \in Sessions : lanes' \in {Without(lanes, s), Append(lanes, s)}
    \/ /\ pumping /\ lanes # <<>>
       /\ lanes' \in {Tail(lanes), Append(Tail(lanes), Head(lanes))}

LEMMA NextLanes == ASSUME SharedAssumption, IInv, [Next]_vars PROVE LanesMove
<1>1. ASSUME NEW open, NEW rep, NEW fail, Stop(open, rep, fail) PROVE LanesMove
  BY <1>1 DEF Stop, LanesMove
<1>2. ASSUME NEW fail, StopNow(fail) PROVE LanesMove BY <1>1, <1>2 DEF StopNow
<1>3. ASSUME NEW done, NEW fail, Drain(done, fail) PROVE LanesMove BY <1>3 DEF Drain, LanesMove
<1>4. ASSUME UNCHANGED lanes PROVE LanesMove BY <1>4 DEF LanesMove
<1>5. ASSUME NEW r \in Requests PROVE OwnerOf[r] \in Sessions BY DEF SharedAssumption
<1>6. CASE Manager BY <1>2, <1>3, <1>4, <1>6 DEF Manager, AcquireStart, AcquireResume, Recycle,
  RemoveGroup, queueVars
<1>7. CASE Child
 <2>1. ASSUME NEW r \in Requests, Response(r) PROVE LanesMove
   BY <1>1, <1>4, <2>1 DEF Response, queueVars
 <2>2. CASE SpawnResolves \/ SpawnUnavailable \/ SpawnRejects
   BY <1>1, <1>4, <2>2 DEF SpawnResolves, SpawnUnavailable, SpawnRejects, queueVars
 <2>3. CASE Initialized \/ ChildFault \/ Ping
   BY <1>2, <1>4, <2>3 DEF Initialized, ChildFault, Ping, queueVars
 <2>4. CASE ChildExits \/ ChildReads \/ KillReport
   BY <1>1, <1>4, <2>4 DEF ChildExits, ChildReads, KillReport, queueVars
 <2> QED BY <1>7, <2>1, <2>2, <2>3, <2>4 DEF Child
<1>8. ASSUME NEW r \in Requests, DropQueued(r) PROVE LanesMove
  BY <1>5, <1>8 DEF DropQueued, LanesMove
<1>9. CASE Client
 <2>1. ASSUME NEW s \in Sessions, ClientInitialize(s) \/ ClientInitialized(s) PROVE LanesMove
   BY <1>4, <2>1 DEF ClientInitialize, ClientInitialized, queueVars
 <2>2. ASSUME NEW s \in Sessions, SessionEnds(s) PROVE LanesMove
  <3>1. CASE lanes' = Without(lanes, s) BY <3>1 DEF LanesMove
  <3> QED BY <1>2, <2>2, <3>1 DEF SessionEnds, Detach
 <2>3. ASSUME NEW r \in Requests, Reject(r) \/ SendNow(r) PROVE LanesMove
   BY <1>4, <2>3 DEF Reject, SendNow, queueVars
 <2>4. ASSUME NEW r \in Requests, Enqueue(r) PROVE LanesMove BY <1>5, <2>4 DEF Enqueue, LanesMove
 <2>5. ASSUME NEW r \in Requests, Cancel(r) PROVE LanesMove
   BY <1>2, <1>4, <1>8, <2>5 DEF Cancel, queueVars
 <2> QED BY <1>9, <2>1, <2>2, <2>3, <2>4, <2>5 DEF Client
<1>10. CASE Timer
 <2>1. ASSUME NEW r \in Requests, RequestTimeout(r) PROVE LanesMove
   BY <1>2, <1>3, <1>4, <1>8, <2>1 DEF RequestTimeout, queueVars
 <2> QED BY <1>2, <1>10, <2>1 DEF Timer, InitTimeout, DrainTimeout, LingerExpires
<1>11. CASE PumpNext BY <1>11 DEF PumpNext, LanesMove, IInv, Inv, Traced, QueuesTraced
<1>12. CASE UNCHANGED vars BY <1>4, <1>12 DEF vars, queueVars
<1> QED BY <1>6, <1>7, <1>9, <1>10, <1>11, <1>12 DEF Next

\* However they move, a session behind another stays behind it until the pump
\* has served that one.
LEMMA LanesOrder == ASSUME SharedAssumption, IInv, LanesMove PROVE NoOvertaking
<1>1. lanes \in Seq(Sessions) /\ IsInjective(lanes)
  BY DEF IInv, Inv, TypeOK, QueueTypes, Traced, QueuesTraced
<1> SUFFICES ASSUME NEW s \in Sessions, NEW t \in Sessions, Before(lanes, s, t),
                    Contains(lanes', s), Contains(lanes', t),
                    ~(pumping /\ s = Head(lanes))
             PROVE  Before(lanes', s, t)
  BY DEF NoOvertaking, Ahead, Before
<1>2. CASE lanes' \in {lanes, <<>>} BY <1>2, EmptyQueue
<1>3. ASSUME NEW e \in Sessions, lanes' = Without(lanes, e) PROVE Before(lanes', s, t)
  BY <1>1, <1>3, WithoutQueue, WithoutOrder
<1>4. ASSUME NEW e \in Sessions, lanes' = Append(lanes, e) PROVE Before(lanes', s, t)
  BY <1>1, <1>4, AppendOrder
<1>5. CASE pumping /\ lanes # <<>>
           /\ lanes' \in {Tail(lanes), Append(Tail(lanes), Head(lanes))}
 <2>1. Before(Tail(lanes), s, t) BY <1>1, <1>5, TailOrder
 <2>2. Tail(lanes) \in Seq(Sessions) /\ Head(lanes) \in Sessions BY <1>1, <1>5, TailQueue
 <2>3. Before(Append(Tail(lanes), Head(lanes)), s, t) BY <2>1, <2>2, AppendOrder
 <2> QED BY <1>5, <2>1, <2>3
<1> QED BY <1>2, <1>3, <1>4, <1>5 DEF LanesMove

\* The end of a session answers, cancels and drops its own requests only.
LEMMA ApartStep == ASSUME SharedAssumption, IInv PROVE SessionsAreApart
<1> SUFFICES ASSUME NEW s \in Sessions, SessionEnds(s), Live', NEW r \in Requests \ Of(s)
             PROVE  /\ replies'[r] = replies[r]
                    /\ r \in Open <=> r \in Open'
                    /\ r \in cancelled <=> r \in cancelled'
  BY DEF SessionsAreApart
<1>1. Fits(Cardinality(ToCancel(s))) BY DEF SessionEnds, Detach, StopNow, Stop, Live
<1>2. /\ replies' = Answer(Gone(s)) /\ settled' = settled \cup Gone(s)
      /\ queue' = [queue EXCEPT ![s] = <<>>]
      /\ cancelled' = cancelled \cup ToCancel(s)
      /\ UNCHANGED operations
  BY <1>1 DEF SessionEnds, Detach
<1>3. r \notin Gone(s) /\ r \notin ToCancel(s) BY DEF Gone, ToCancel
<1>4. replies'[r] = replies[r] BY <1>2, <1>3 DEF Answer
<1>5. OwnerOf[r] # s /\ OwnerOf[r] \in Sessions BY DEF Of, SharedAssumption
<1>6. queue'[OwnerOf[r]] = queue[OwnerOf[r]] BY <1>2, <1>5 DEF IInv, Inv, TypeOK, QueueTypes
<1>7. r \in Queued <=> r \in Queued' BY <1>6 DEF Queued
<1> QED BY <1>2, <1>3, <1>4, <1>7 DEF Open

\* No session costs another its work or its turn: the end of one leaves the
\* requests of the others alone, and the pump serves the sessions in the order
\* in which they began to wait (detach, enqueue, pump).
THEOREM NobodyPaysForOthers == Spec => EachToItsOwn
<1>1. ASSUME SharedAssumption, IInv, [Next]_vars
      PROVE  [SessionsAreApart /\ NoOvertaking]_vars
  BY <1>1, NextLanes, LanesOrder, ApartStep
<1> QED BY <1>1, SharedAssumption, Invariance, PTL DEF Spec, EachToItsOwn

-----------------------------------------------------------------------------
(* The life of a generation. *)

Used == members \cup waiters # {}
Busy == operations # {}

\* Where the process stands in each state of the group, who may use it, and
\* what may be running.
ProcessOfState ==
    /\ state = "starting" => child \in {"spawning", "alive"} /\ ~killRequested
    /\ state \in {"ready", "draining"} => child = "alive"
    /\ state = "stopping" => child \in {"spawning", "alive"}
    /\ state = "dead" => child \in {"exited", "none"}

UsersOfState ==
    /\ state = "starting" => waiters # {}
    /\ state \notin {"ready", "draining"} => members = {} /\ operations = {}
    /\ state = "draining" => operations # {}

TimersOfState == pumping \/ linger => state = "ready"

LifeInv == ProcessOfState /\ UsersOfState /\ TimersOfState

Lives == LifeInv' /\ [Lifecycle!Next]_<<state, child, killRequested, failed, Used, Busy>>

\* The pump and the linger timer start only in a group that is ready.
LEMMA TimersStart ==
  ASSUME UNCHANGED linger \/ ~linger' \/ Idle, UNCHANGED pumping \/ Pump
  PROVE  pumping' \/ linger' => pumping \/ linger \/ state' = "ready"
  BY Zenon DEF Idle, Unused, Pump, CanPump

\* stop() ends the life of a group that is not stopped, with its child as it
\* was or gone in the same handler.
LEMMA StopLives ==
  ASSUME TypeOK, LifeInv, Live, NEW open, NEW rep, NEW fail \in BOOLEAN, Stop(open, rep, fail),
         \/ child' = child
         \/ child = "spawning" /\ child' \in {"alive", "exited", "none"}
         \/ child = "alive" /\ child' = "exited"
  PROVE  Lives
<1>1. state \in {"starting", "ready", "draining"} /\ failed \in BOOLEAN
  BY DEF TypeOK, GroupTypes, States, Live
<1>2. child' \in {"spawning", "alive", "exited", "none"} BY <1>1 DEF LifeInv, ProcessOfState
<1>3. LifeInv' BY <1>2 DEF Stop, LifeInv, ProcessOfState, UsersOfState, TimersOfState
<1>4. Used' \in {Used, FALSE} /\ Busy' = FALSE BY DEF Stop, Used, Busy
<1>5. Lifecycle!End BY <1>1, <1>4 DEF Stop, Lifecycle!End, Lifecycle!Gone, Used, Busy
<1> QED BY <1>3, <1>5 DEF Lives, Lifecycle!Next

LEMMA StopNowLives ==
  ASSUME TypeOK, LifeInv, Live, NEW fail \in BOOLEAN, StopNow(fail)
  PROVE  Lives
  BY StopLives DEF StopNow

\* drain() begins only with running work.
LEMMA DrainLives ==
  ASSUME LifeInv, state = "ready", operations # {}, NEW done, NEW fail \in BOOLEAN,
         Drain(done, fail), ~pumping, UNCHANGED <<child, killRequested, pumping>>
  PROVE  Lives
<1>1. LifeInv' BY DEF Drain, LifeInv, ProcessOfState, UsersOfState, TimersOfState, sessionVars
<1>2. Lifecycle!StartDrain BY DEF Drain, Lifecycle!StartDrain, Used, Busy, sessionVars
<1> QED BY <1>1, <1>2 DEF Lives, Lifecycle!Next

\* A handler that changes neither the group nor its process, where work and
\* users may come and go, serves;
LEMMA ServeLives ==
  ASSUME LifeInv, state \in {"ready", "draining"},
         UNCHANGED <<state, child, killRequested, failed>>, state = "draining" => operations' # {},
         UNCHANGED linger \/ ~linger' \/ Idle, UNCHANGED pumping \/ Pump
  PROVE  Lives
<1>1. LifeInv' BY TimersStart DEF LifeInv, TimersOfState, ProcessOfState, UsersOfState
<1>2. Lifecycle!Serve BY DEF Lifecycle!Serve, Used, Busy
<1> QED BY <1>1, <1>2 DEF Lives, Lifecycle!Next

\* one that leaves users and work alone, too, is not seen at all.
LEMMA StillLives ==
  ASSUME LifeInv, UNCHANGED <<state, child, killRequested, failed, members, waiters, operations>>,
         UNCHANGED linger \/ ~linger' \/ Idle, UNCHANGED pumping \/ Pump
  PROVE  Lives
<1>1. LifeInv' BY TimersStart DEF LifeInv, TimersOfState, ProcessOfState, UsersOfState
<1> QED BY <1>1 DEF Lives, Used, Busy

\* acquire() asks for a place while the group starts or serves.
LEMMA AcquireStartLives ==
  ASSUME LifeInv, NEW s \in Sessions, AcquireStart(s) PROVE Lives
<1>1. LifeInv'
  BY DEF AcquireStart, LifeInv, ProcessOfState, UsersOfState, TimersOfState, opVars, childVars
<1>2. Lifecycle!Serve
  BY DEF AcquireStart, Lifecycle!Serve, LifeInv, UsersOfState, Used, Busy, opVars, childVars,
    flagVars
<1> QED BY <1>1, <1>2 DEF Lives, Lifecycle!Next

\* Whoever waited gets it, or learns that the group has ended.
LEMMA AcquireResumeLives ==
  ASSUME TypeOK, LifeInv, NEW s \in Sessions, AcquireResume(s) PROVE Lives
<1>1. UNCHANGED <<state, child, killRequested, failed, operations, pumping>> /\ Idle
      /\ state # "starting"
  BY DEF AcquireResume, opVars, childVars, flagVars
<1>2. CASE state \in {"ready", "draining"} BY <1>1, <1>2, ServeLives DEF LifeInv, UsersOfState
<1>3. CASE state \in {"stopping", "dead"}
 <2>1. LifeInv'
   BY <1>1, TimersStart, <1>3 DEF LifeInv, TimersOfState, AcquireResume, ProcessOfState, UsersOfState
 <2>2. Used /\ (Used' \/ ~Used') BY <1>3 DEF AcquireResume, Used
 <2>3. CASE Used' BY <1>1, <2>1, <2>2, <2>3 DEF Lives, Used, Busy
 <2>4. CASE ~Used'
   BY <1>1, <1>3, <2>2, <2>4, <2>1 DEF Lifecycle!Leave, Used, Busy, Lives, Lifecycle!Next
 <2> QED BY <2>2, <2>3, <2>4
<1> QED BY <1>1, <1>2, <1>3 DEF TypeOK, GroupTypes, States

\* The manager's steps move the life of the group forward, or leave it.
LEMMA ManagerLives == ASSUME SharedAssumption, IInv, LifeInv, Manager PROVE Lives
<1>0. TypeOK BY DEF IInv, Inv
<1>1. ASSUME NEW s \in Sessions, AcquireStart(s) \/ AcquireResume(s) PROVE Lives
  BY <1>0, <1>1, AcquireStartLives, AcquireResumeLives
<1>2. CASE Recycle
 <2>1. CASE Drain({}, FALSE) /\ operations # {} /\ state = "ready"
            /\ ~pumping /\ UNCHANGED <<childVars, pumping>>
   BY <2>1, DrainLives DEF childVars
 <2>2. CASE StopNow(FALSE) /\ state \in {"starting", "ready"} BY <1>0, <2>2, StopNowLives DEF Live
 <2> QED BY <1>2, <2>1, <2>2 DEF Recycle
<1>3. CASE RemoveGroup BY <1>0, <1>3, StopNowLives DEF RemoveGroup
<1> QED BY <1>1, <1>2, <1>3 DEF Manager

\* So do the child's: a process that arrives, or is gone, after the end of its
\* group,
LEMMA LateChildLives ==
  ASSUME IInv, LifeInv, ~Live,
         SpawnResolves \/ SpawnUnavailable \/ SpawnRejects \/ ChildExits
  PROVE  Lives
<1>1. /\ UNCHANGED <<members, waiters, operations, pumping, linger, failed>>
      /\ ~pumping /\ ~linger
  BY DEF SpawnResolves, SpawnUnavailable, SpawnRejects, ChildExits, sessionVars, opVars, flagVars,
    LifeInv, TimersOfState, Live
<1>2. state = "stopping"
  BY DEF SpawnResolves, SpawnUnavailable, SpawnRejects, ChildExits, Live, LifeInv, ProcessOfState,
    IInv, Inv, TypeOK, GroupTypes, States
<1>3. UNCHANGED <<Used, Busy>> BY <1>1 DEF Used, Busy
<1>4. CASE child' = "alive"
 <2>1. child = "spawning" /\ killRequested' = TRUE /\ state' = state
   BY <1>2, <1>4 DEF SpawnResolves, SpawnUnavailable, SpawnRejects, ChildExits, Live
 <2>2. Lifecycle!Spawned BY <1>1, <1>2, <1>3, <1>4, <2>1 DEF Lifecycle!Spawned, Used, Busy
 <2>3. LifeInv' BY <1>1, <1>2, <1>4, <2>1 DEF LifeInv, ProcessOfState, UsersOfState, TimersOfState
 <2> QED BY <2>2, <2>3 DEF Lives, Lifecycle!Next
<1>5. CASE child' # "alive"
 <2>1. /\ state' = "dead"
       /\ \/ child = "spawning" /\ child' = "exited" /\ killRequested' = TRUE
          \/ child = "spawning" /\ child' = "none" /\ UNCHANGED killRequested
          \/ child = "alive" /\ child' = "exited" /\ UNCHANGED killRequested
   BY <1>2, <1>5 DEF SpawnResolves, SpawnUnavailable, SpawnRejects, ChildExits, Live
 <2>2. Lifecycle!Retire BY <1>1, <1>2, <1>3, <2>1 DEF Lifecycle!Retire, Used, Busy
 <2>3. LifeInv' BY <1>1, <1>2, <2>1 DEF LifeInv, ProcessOfState, UsersOfState, TimersOfState
 <2> QED BY <2>2, <2>3 DEF Lives, Lifecycle!Next
<1> QED BY <1>4, <1>5

\* the arrival of a process in time,
LEMMA SpawnLives ==
  ASSUME IInv, LifeInv, Live, SpawnResolves \/ SpawnUnavailable \/ SpawnRejects \/ ChildExits
  PROVE  Lives
<1>0. TypeOK BY DEF IInv, Inv
<1>1. CASE Stop(Open, Answer(Open), TRUE)
  BY <1>0, <1>1, StopLives DEF SpawnResolves, SpawnUnavailable, SpawnRejects, ChildExits
<1>2. CASE ~Stop(Open, Answer(Open), TRUE)
 <2>1. /\ child = "spawning" /\ child' = "alive"
       /\ UNCHANGED <<state, sessionVars, opVars, killRequested, pumping, linger, flagVars>>
   BY <1>2 DEF SpawnResolves, SpawnUnavailable, SpawnRejects, ChildExits
 <2>2. state = "starting" /\ ~killRequested
   BY <1>0, <2>1 DEF Live, LifeInv, ProcessOfState, TypeOK, GroupTypes, States
 <2>3. LifeInv'
   BY <2>1, <2>2 DEF LifeInv, ProcessOfState, UsersOfState, TimersOfState, sessionVars, opVars
 <2>4. Lifecycle!Spawned
  <3>1. killRequested = FALSE BY <1>0, <2>2 DEF TypeOK, ChildTypes
  <3> QED BY <2>1, <2>2, <3>1 DEF Lifecycle!Spawned, Used, Busy, sessionVars, opVars, flagVars
 <2> QED BY <2>3, <2>4 DEF Lives, Lifecycle!Next
<1> QED BY <1>1, <1>2

\* and whatever it does while it lives.
LEMMA ChildLives == ASSUME SharedAssumption, IInv, LifeInv, Child PROVE Lives
<1>0. TypeOK BY DEF IInv, Inv
<1>1. ASSUME NEW fail \in BOOLEAN, Live, StopNow(fail) PROVE Lives BY <1>0, <1>1, StopNowLives
<1>2. CASE SpawnResolves \/ SpawnUnavailable \/ SpawnRejects \/ ChildExits
  BY <1>2, SpawnLives, LateChildLives
<1>3. CASE Initialized
 <2>1. CASE Fits(1)
  <3>1. /\ state = "starting" /\ child = "alive" /\ state' = "ready"
        /\ UNCHANGED <<sessionVars, opVars, child, killRequested, flagVars>>
    BY <1>3, <2>1 DEF Initialized
  <3>2. LifeInv' BY <3>1 DEF LifeInv, ProcessOfState, UsersOfState, TimersOfState
  <3>3. Lifecycle!BecomeReady
    BY <3>1 DEF Lifecycle!BecomeReady, Used, Busy, sessionVars, opVars, flagVars
  <3> QED BY <3>2, <3>3 DEF Lives, Lifecycle!Next
 <2>2. CASE ~Fits(1) BY <1>1, <1>3, <2>2 DEF Initialized, Live
 <2> QED BY <2>1, <2>2
<1>4. CASE ChildFault BY <1>1, <1>4 DEF ChildFault
<1>5. CASE Ping
 <2>1. CASE Fits(1) BY <1>5, <2>1, StillLives DEF Ping, sessionVars, opVars, flagVars
 <2>2. CASE ~Fits(1) BY <1>1, <1>5, <2>2 DEF Ping
 <2> QED BY <2>1, <2>2
<1>6. CASE ChildReads BY <1>6, StillLives DEF ChildReads, sessionVars, opVars, flagVars
<1>7. CASE KillReport
 <2>1. /\ state = "stopping" /\ killRequested /\ failed' = TRUE
       /\ UNCHANGED <<state, sessionVars, opVars, childVars, pumping, linger>>
   BY <1>7 DEF KillReport
 <2>2. LifeInv'
   BY <2>1 DEF LifeInv, ProcessOfState, UsersOfState, TimersOfState, sessionVars, opVars, childVars
 <2>3. Lifecycle!KillFails
   BY <2>1 DEF Lifecycle!KillFails, Used, Busy, sessionVars, opVars, childVars
 <2> QED BY <2>2, <2>3 DEF Lives, Lifecycle!Next
<1>8. ASSUME NEW r \in Requests, Response(r) PROVE Lives
 <2>1. PICK answered :
         \/ state = "draining" /\ operations = {r} /\ UNCHANGED child
               /\ Stop({}, answered, failed)
         \/ /\ ~(state = "draining" /\ operations = {r})
            /\ operations' = operations \ {r}
            /\ UNCHANGED <<state, sessionVars, childVars, flagVars>>
            /\ Pump /\ Idle
   BY <1>8 DEF Response
 <2>2. state \in {"ready", "draining"} /\ r \in operations BY <1>8 DEF Response
 <2>3. CASE UNCHANGED child /\ Stop({}, answered, failed)
   BY <1>0, <2>2, <2>3, StopLives DEF TypeOK, GroupTypes, Live
 <2>4. CASE /\ ~(state = "draining" /\ operations = {r})
            /\ operations' = operations \ {r}
            /\ UNCHANGED <<state, sessionVars, childVars, flagVars>>
            /\ Pump /\ Idle
   BY <2>2, <2>4, ServeLives DEF childVars, flagVars
 <2> QED BY <2>1, <2>3, <2>4
<1> QED BY <1>2, <1>3, <1>4, <1>5, <1>6, <1>7, <1>8 DEF Child

\* Clients do work in a ready group,
LEMMA ClientLives == ASSUME SharedAssumption, IInv, LifeInv, Client PROVE Lives
<1>0. TypeOK BY DEF IInv, Inv
<1>1. ASSUME members # {}, StopNow(TRUE) PROVE Lives
  BY <1>0, <1>1, StopNowLives DEF Live, LifeInv, UsersOfState
<1>2. ASSUME NEW s \in Sessions, ClientInitialize(s) \/ ClientInitialized(s) PROVE Lives
  BY <1>2, StillLives DEF ClientInitialize, ClientInitialized, opVars, childVars, flagVars
<1>3. ASSUME NEW s \in Sessions, SessionEnds(s) PROVE Lives
 <2>1. members # {} BY <1>3 DEF SessionEnds
 <2>2. CASE /\ UNCHANGED <<state, operations, child, killRequested, flagVars>>
            /\ Pump /\ Idle
   BY <2>1, <2>2, ServeLives DEF LifeInv, UsersOfState, flagVars
 <2> QED BY <1>1, <1>3, <2>1, <2>2 DEF SessionEnds, Detach
<1>4. ASSUME NEW r \in Requests, Reject(r) PROVE Lives
  BY <1>4, StillLives DEF Reject, childVars, flagVars
<1>5. ASSUME NEW r \in Requests, SendNow(r) \/ Enqueue(r) PROVE Lives
  BY <1>5, ServeLives DEF SendNow, Enqueue, Acceptable, childVars, flagVars
<1>6. ASSUME NEW r \in Requests, Cancel(r) PROVE Lives
 <2>1. members # {} BY <1>6 DEF Cancel
 <2>2. CASE DropQueued(r) BY <2>2, StillLives DEF DropQueued, sessionVars, childVars, flagVars
 <2>3. CASE UNCHANGED <<state, sessionVars, operations, child, killRequested, pumping, linger,
                        flagVars>>
   BY <2>3, StillLives DEF sessionVars, flagVars
 <2> QED BY <1>1, <1>6, <2>1, <2>2, <2>3 DEF Cancel
<1> QED BY <1>2, <1>3, <1>4, <1>5, <1>6 DEF Client

\* and timers end it, or make it drain.
LEMMA TimerLives == ASSUME SharedAssumption, IInv, LifeInv, Timer PROVE Lives
<1>0. TypeOK BY DEF IInv, Inv
<1>1. ASSUME NEW fail \in BOOLEAN, Live, StopNow(fail) PROVE Lives BY <1>0, <1>1, StopNowLives
<1>2. CASE InitTimeout \/ DrainTimeout BY <1>1, <1>2 DEF InitTimeout, DrainTimeout, Live
<1>3. CASE LingerExpires BY <1>1, <1>3 DEF LingerExpires, LifeInv, TimersOfState, Live
<1>4. ASSUME NEW r \in Requests, RequestTimeout(r) PROVE Lives
 <2>1. CASE DropQueued(r) BY <2>1, StillLives DEF DropQueued, sessionVars, childVars, flagVars
 <2>2. CASE r \in operations /\ StopNow(TRUE) BY <1>1, <2>2 DEF LifeInv, UsersOfState, Live
 <2>3. CASE /\ r \in operations /\ ~pumping /\ UNCHANGED <<child, killRequested, pumping>>
            /\ state = "ready" /\ Drain({r} \ settled, TRUE)
   BY <2>3, DrainLives
 <2>4. CASE UNCHANGED <<state, sessionVars, operations, child, killRequested, pumping, linger,
                        flagVars>>
   BY <2>4, StillLives DEF sessionVars, flagVars
 <2> QED BY <1>4, <2>1, <2>2, <2>3, <2>4 DEF RequestTimeout
<1> QED BY <1>2, <1>3, <1>4 DEF Timer

LEMMA NextLives == ASSUME SharedAssumption, IInv, LifeInv, [Next]_vars PROVE Lives
<1>1. CASE PumpNext BY <1>1, ServeLives DEF PumpNext, LifeInv, TimersOfState, flagVars
<1>2. CASE UNCHANGED vars BY <1>2, StillLives DEF vars, sessionVars, opVars, childVars, flagVars
<1> QED BY <1>1, <1>2, ManagerLives, ChildLives, ClientLives, TimerLives DEF Next

\* A generation moves forward only, drains only with work left, and dies with
\* its process: the group implements the life the manager counts on.
THEOREM LifeImplemented == Spec => LivesOnce
<1>1. ASSUME SharedAssumption, Init PROVE LifeInv /\ Lifecycle!Init
  BY <1>1 DEF Init, LifeInv, ProcessOfState, UsersOfState, TimersOfState, Lifecycle!Init
<1>2. ASSUME SharedAssumption, IInv, LifeInv, [Next]_vars
      PROVE  LifeInv' /\ [Lifecycle!Next]_<<state, child, killRequested, failed, Used, Busy>>
  BY <1>2, NextLives DEF Lives
<1> QED BY <1>1, <1>2, SharedAssumption, Invariance, PTL DEF Spec, LivesOnce, Lifecycle!Spec,
  Lifecycle!vars, Used, Busy
=============================================================================

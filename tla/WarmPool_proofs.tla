---------------------------- MODULE WarmPool_proofs ----------------------------
(***************************************************************************)
(* Proofs about WarmPool, for any cold starts, processes and limits: the   *)
(* permits of the gate are conserved, nobody waits beside a free one, and  *)
(* the pool stays within its target.                                       *)
(***************************************************************************)
EXTENDS WarmPool, FiniteSetTheorems, SequenceTheorems, TLAPS

-----------------------------------------------------------------------------
(* The invariant. *)

Names == Starts \cup {Refill}
Answers == [who : Names, permit : BOOLEAN]
Processes == [state : ChildStates, permit : BOOLEAN, taken : BOOLEAN]
Phases == {"idle", "waiting", "spawned"}

\* A cold start is at the gate once, while it waits for its answer.
Awaited(asking, answered, starts) ==
    /\ \A i \in DOMAIN asking : asking[i] # Refill => starts[asking[i]] = "waiting"
    /\ \A i \in DOMAIN answered :
         answered[i].who # Refill => starts[answered[i].who] = "waiting"
    /\ \A i, j \in DOMAIN asking : asking[i] = asking[j] /\ asking[i] # Refill => i = j
    /\ \A i, j \in DOMAIN answered :
         answered[i].who = answered[j].who /\ answered[i].who # Refill => i = j
    /\ \A i \in DOMAIN asking, j \in DOMAIN answered :
         asking[i] = answered[j].who => asking[i] = Refill

\* Where the permits are: with answers, with cold starts, with warm children.
PermitsIn(answered) == Cardinality({i \in DOMAIN answered : answered[i].permit})
Spawned(starts) == Cardinality({s \in Starts : starts[s] = "spawned"})
Holding(children) == Cardinality({c \in Children : children[c].permit})

Num(b) == IF b THEN 1 ELSE 0

GateFits ==
    /\ active \in Nat /\ queue \in Seq(Names) /\ settled \in Seq(Answers)
    /\ active <= MaxSpawns
    /\ queue # <<>> => active = MaxSpawns

GateInv ==
    /\ GateFits
    /\ start \in [Starts -> Phases]
    /\ Awaited(queue, settled, start)
    /\ active = PermitsIn(settled) + Spawned(start) + Holding(child)

\* The pool holds a process once, and neither one that is gone nor one that
\* a session has taken.
Fits(children, kept) ==
    /\ \A i, j \in DOMAIN kept : kept[i] = kept[j] => i = j
    /\ \A i \in DOMAIN kept : children[kept[i]].state # "free" /\ ~children[kept[i]].taken
    /\ \A c \in Children : children[c].state = "free" => ~children[c].permit

RoomInv ==
    /\ child \in [Children -> Processes] /\ pool \in Seq(Children)
    /\ Fits(child, pool)
    /\ target \in 0..MaxWarm /\ Len(pool) <= target

RestInv ==
    /\ warmPending \in Nat /\ pooled \in BOOLEAN /\ refillDue \in BOOLEAN
    /\ upgradeHeld \in BOOLEAN /\ shuttingDown \in BOOLEAN

PoolInv == GateInv /\ RoomInv /\ RestInv

-----------------------------------------------------------------------------
(* Sequences. *)

LEMMA Repeated ==
  ASSUME NEW S, NEW x \in S, NEW n \in Nat
  PROVE  /\ Repeat(x, n) \in Seq(S)
         /\ Len(Repeat(x, n)) = n
         /\ \A i \in 1..n : Repeat(x, n)[i] = x
<1>1. Repeat(x, n) \in [1..n -> S] BY DEF Repeat
<1>2. Repeat(x, n) \in Seq(S) BY <1>1, SeqDef
<1>3. DOMAIN Repeat(x, n) = 1..n BY DEF Repeat
<1>4. Len(Repeat(x, n)) = n BY <1>2, <1>3, LenProperties
<1> QED BY <1>2, <1>4 DEF Repeat

\* What n more entries of x make of a sequence.
Extension(r, q, x, n) ==
    /\ Len(r) = Len(q) + n
    /\ \A i \in 1..Len(q) : r[i] = q[i]
    /\ \A i \in (Len(q) + 1)..(Len(q) + n) : r[i] = x

LEMMA Extended ==
  ASSUME NEW S, NEW q \in Seq(S), NEW x \in S, NEW n \in Nat
  PROVE  q \o Repeat(x, n) \in Seq(S) /\ Extension(q \o Repeat(x, n), q, x, n)
<1>1. Repeat(x, n) \in Seq(S) /\ Len(Repeat(x, n)) = n BY Repeated
<1>2. \A i \in 1..n : Repeat(x, n)[i] = x BY Repeated
<1>3. Len(q) \in Nat BY LenProperties
<1> DEFINE R == Repeat(x, n)
           r == q \o R
<1>4. R \in Seq(S) /\ Len(R) = n BY <1>1
<1>5. \A i \in 1..n : R[i] = x BY <1>2
<1> HIDE DEF R
<1>7. r \in Seq(S) /\ Len(r) = Len(q) + n BY <1>4, ConcatProperties
<1>8. \A i \in 1..(Len(q) + n) : r[i] = IF i <= Len(q) THEN q[i] ELSE R[i - Len(q)]
  BY <1>4, ConcatProperties
<1> HIDE DEF r
<1>9. \A i \in 1..Len(q) : r[i] = q[i] BY <1>3, <1>8
<1>10. ASSUME NEW i \in (Len(q) + 1)..(Len(q) + n) PROVE r[i] = x
 <2>1. i \in 1..(Len(q) + n) /\ ~(i <= Len(q)) /\ i - Len(q) \in 1..n BY <1>3, <1>10
 <2> QED BY <2>1, <1>8, <1>5
<1>11. r \in Seq(S) /\ Extension(r, q, x, n) BY <1>7, <1>9, <1>10 DEF Extension
<1> QED BY <1>11 DEF r, R

-----------------------------------------------------------------------------
(* Counting permits. *)

LEMMA PermitsFinite ==
  ASSUME NEW q \in Seq(Answers)
  PROVE  /\ IsFiniteSet({i \in DOMAIN q : q[i].permit})
         /\ PermitsIn(q) \in Nat
<1>1. DOMAIN q = 1..Len(q) /\ Len(q) \in Nat BY LenProperties
<1>2. IsFiniteSet(1..Len(q)) BY <1>1, FS_Interval
<1>3. {i \in DOMAIN q : q[i].permit} \in SUBSET (1..Len(q)) BY <1>1
<1>4. IsFiniteSet({i \in DOMAIN q : q[i].permit}) BY <1>2, <1>3, FS_Subset
<1> QED BY <1>4, FS_CardinalityType DEF PermitsIn

LEMMA PermitsExtended ==
  ASSUME NEW q \in Seq(Answers), NEW x \in Answers, NEW n \in Nat
  PROVE  PermitsIn(q \o Repeat(x, n)) = PermitsIn(q) + (IF x.permit THEN n ELSE 0)
<1> DEFINE r == q \o Repeat(x, n)
           A == {i \in DOMAIN q : q[i].permit}
           B == IF x.permit THEN (Len(q) + 1)..(Len(q) + n) ELSE {}
           C == {i \in DOMAIN r : r[i].permit}
<1>1. /\ r \in Seq(Answers) /\ Len(r) = Len(q) + n
      /\ \A i \in 1..Len(q) : r[i] = q[i]
      /\ \A i \in (Len(q) + 1)..(Len(q) + n) : r[i] = x
 <2>1. r \in Seq(Answers) /\ Extension(r, q, x, n) BY Extended
 <2> HIDE DEF r
 <2> QED BY <2>1 DEF Extension
<1>2. Len(q) \in Nat /\ DOMAIN q = 1..Len(q) /\ DOMAIN r = 1..(Len(q) + n) BY <1>1, LenProperties
<1>3. IsFiniteSet(A) /\ Cardinality(A) \in Nat BY PermitsFinite DEF PermitsIn
<1>4. IsFiniteSet(B) /\ Cardinality(B) = IF x.permit THEN n ELSE 0
 <2> DEFINE a == Len(q) + 1
            b == Len(q) + n
            I == a..b
 <2>0. a \in Int /\ b \in Int /\ b = a + n - 1 BY <1>2
 <2> HIDE DEF a, b
 <2>1. IsFiniteSet(I) /\ Cardinality(I) = IF a > b THEN 0 ELSE b - a + 1 BY <2>0, FS_Interval
 <2>2. IsFiniteSet(I) /\ Cardinality(I) = n BY <2>0, <2>1
 <2>3. IsFiniteSet({}) /\ Cardinality({}) = 0 BY FS_EmptySet
 <2> HIDE DEF I
 <2> QED BY <2>2, <2>3 DEF I, a, b
<1> HIDE DEF r
<1>5. C = A \cup B
 <2>1. ASSUME NEW i PROVE i \in C <=> i \in A \cup B
  <3>1. CASE i \in 1..Len(q)
   <4>1. i \in DOMAIN q /\ i \in DOMAIN r /\ i \notin B BY <3>1, <1>2
   <4>2. r[i] = q[i] BY <3>1, <1>1
   <4> QED BY <4>1, <4>2
  <3>2. CASE i \in (Len(q) + 1)..(Len(q) + n)
   <4>1. i \notin DOMAIN q /\ i \in DOMAIN r BY <3>2, <1>2
   <4>2. r[i] = x BY <3>2, <1>1
   <4> QED BY <4>1, <4>2, <3>2
  <3>3. CASE i \notin 1..Len(q) /\ i \notin (Len(q) + 1)..(Len(q) + n)
   <4>1. i \notin DOMAIN q /\ i \notin DOMAIN r /\ i \notin B BY <3>3, <1>2
   <4> QED BY <4>1
  <3> QED BY <3>1, <3>2, <3>3
 <2> QED BY <2>1
<1>6. A \cap B = {} BY <1>2
<1> HIDE DEF A, B, C
<1>7. Cardinality(A \cup B) = Cardinality(A) + Cardinality(B) - Cardinality(A \cap B)
  BY <1>3, <1>4, FS_Union
<1>8. Cardinality(A \cap B) = 0 BY <1>6, FS_EmptySet
<1>9. Cardinality(C) = Cardinality(A) + Cardinality(B) - 0 BY <1>5, <1>7, <1>8
<1>10. Cardinality(C) = Cardinality(A) + (IF x.permit THEN n ELSE 0) BY <1>3, <1>4, <1>9
<1> QED BY <1>10 DEF PermitsIn, A, C, r

LEMMA PermitsAppended ==
  ASSUME NEW q \in Seq(Answers), NEW x \in Answers
  PROVE  PermitsIn(Append(q, x)) = PermitsIn(q) + Num(x.permit)
<1> DEFINE r == Append(q, x)
           A == {i \in DOMAIN q : q[i].permit}
           C == {i \in DOMAIN r : r[i].permit}
<1>1. /\ Len(r) = Len(q) + 1 /\ r \in Seq(Answers)
      /\ \A i \in 1..Len(q) : r[i] = q[i]
      /\ r[Len(q) + 1] = x
  BY AppendProperties
<1>2. Len(q) \in Nat /\ DOMAIN q = 1..Len(q) /\ DOMAIN r = 1..(Len(q) + 1) BY <1>1, LenProperties
<1>3. IsFiniteSet(A) /\ Cardinality(A) \in Nat BY PermitsFinite DEF PermitsIn
<1> HIDE DEF r
<1>4. C = IF x.permit THEN A \cup {Len(q) + 1} ELSE A
 <2>1. ASSUME NEW i \in 1..Len(q) PROVE i \in C <=> i \in A BY <1>1, <1>2
 <2>2. Len(q) + 1 \in C <=> x.permit BY <1>1, <1>2
 <2>3. Len(q) + 1 \notin A BY <1>2
 <2>4. A \subseteq 1..Len(q) /\ C \subseteq 1..(Len(q) + 1) BY <1>2
 <2>5. 1..(Len(q) + 1) = (1..Len(q)) \cup {Len(q) + 1} BY <1>2
 <2> HIDE DEF A, C
 <2>6. ASSUME NEW i PROVE i \in C <=> i \in A \/ (x.permit /\ i = Len(q) + 1)
  <3>1. CASE i \in 1..Len(q) BY <3>1, <2>1, <1>2
  <3>2. CASE i = Len(q) + 1 BY <3>2, <2>2, <2>3
  <3>3. CASE i \notin 1..(Len(q) + 1) BY <3>3, <2>4, <2>5
  <3> QED BY <3>1, <3>2, <3>3, <2>5
 <2> QED BY <2>6
<1>5. Len(q) + 1 \notin A BY <1>2
<1> HIDE DEF A, C
<1>6. Cardinality(A \cup {Len(q) + 1}) = Cardinality(A) + 1 BY <1>3, <1>5, FS_AddElement
<1>7. Cardinality(C) = Cardinality(A) + Num(x.permit) BY <1>3, <1>4, <1>6 DEF Num
<1> QED BY <1>7 DEF PermitsIn, A, C, r

LEMMA PermitsTailed ==
  ASSUME NEW q \in Seq(Answers), q # <<>>
  PROVE  PermitsIn(q) = PermitsIn(Tail(q)) + Num(Head(q).permit)
<1> DEFINE r == Tail(q)
           A == {i \in DOMAIN q : q[i].permit}
           C == {i \in DOMAIN r : r[i].permit}
           f == [i \in A \ {1} |-> i - 1]
<1>1. /\ r \in Seq(Answers) /\ Len(r) = Len(q) - 1
      /\ \A i \in 1..Len(r) : r[i] = q[i + 1]
  BY HeadTailProperties
<1>2. Len(q) \in Nat \ {0} /\ DOMAIN q = 1..Len(q) /\ DOMAIN r = 1..(Len(q) - 1)
  BY <1>1, LenProperties, EmptySeq
<1>3. IsFiniteSet(A) /\ Cardinality(A) \in Nat BY PermitsFinite DEF PermitsIn
<1>4. Head(q) = q[1] OBVIOUS
<1> HIDE DEF r
<1>5. \A i \in A \ {1} : i - 1 \in C
 <2> SUFFICES ASSUME NEW i \in A \ {1} PROVE i - 1 \in C OBVIOUS
 <2>1. i \in 2..Len(q) /\ q[i].permit BY <1>2
 <2>2. i - 1 \in 1..Len(r) /\ (i - 1) + 1 = i BY <2>1, <1>1, <1>2
 <2>3. r[i - 1] = q[i] BY <2>2, <1>1
 <2> QED BY <2>1, <2>2, <2>3, <1>1, <1>2
<1>6. \A j \in C : j + 1 \in A \ {1} /\ (j + 1) - 1 = j
 <2> SUFFICES ASSUME NEW j \in C PROVE j + 1 \in A \ {1} /\ (j + 1) - 1 = j OBVIOUS
 <2>1. j \in 1..Len(r) /\ r[j].permit BY <1>1, <1>2
 <2>2. r[j] = q[j + 1] BY <2>1, <1>1
 <2>3. j + 1 \in 2..Len(q) BY <2>1, <1>1, <1>2
 <2> QED BY <2>1, <2>2, <2>3, <1>2
<1>7. \A i, j \in A \ {1} : i - 1 = j - 1 => i = j BY <1>2
<1> HIDE DEF A, C
<1>8. f \in Bijection(A \ {1}, C)
 <2>1. f \in [A \ {1} -> C] BY <1>5
 <2>2. \A i, j \in A \ {1} : f[i] = f[j] => i = j BY <1>7
 <2>3. \A j \in C : \E i \in A \ {1} : f[i] = j BY <1>6
 <2> HIDE DEF f
 <2> QED BY <2>1, <2>2, <2>3 DEF Bijection, Injection, Surjection, IsInjective
<1>9. IsFiniteSet(A \ {1}) /\ Cardinality(A \ {1}) = IF 1 \in A THEN Cardinality(A) - 1
                                                   ELSE Cardinality(A)
  BY <1>3, FS_RemoveElement
<1>10. Cardinality(C) = Cardinality(A \ {1}) BY <1>8, <1>9, FS_Bijection DEF ExistsBijection
<1>11. 1 \in A <=> q[1].permit BY <1>2 DEF A
<1>12. Cardinality(A) = Cardinality(C) + Num(q[1].permit) BY <1>3, <1>9, <1>10, <1>11 DEF Num
<1> QED BY <1>12, <1>4 DEF PermitsIn, A, C, r

\* A cold start that moves, a child that changes.
LEMMA SpawnedMoves ==
  ASSUME NEW old \in [Starts -> Phases], NEW s \in Starts, NEW v \in Phases
  PROVE  /\ Spawned(old) \in Nat /\ Spawned([old EXCEPT ![s] = v]) \in Nat
         /\ Spawned([old EXCEPT ![s] = v]) =
              Spawned(old) - Num(old[s] = "spawned") + Num(v = "spawned")
<1> DEFINE A == {t \in Starts : old[t] = "spawned"}
           C == {t \in Starts : [old EXCEPT ![s] = v][t] = "spawned"}
           R == A \ {s}
<1>1. IsFiniteSet(A) /\ IsFiniteSet(C) BY WarmPoolAssumption, FS_Subset
<1>2. IsFiniteSet(R) /\ s \notin R BY <1>1, FS_RemoveElement
<1>3. A = IF old[s] = "spawned" THEN R \cup {s} ELSE R OBVIOUS
<1>4. C = IF v = "spawned" THEN R \cup {s} ELSE R OBVIOUS
<1> HIDE DEF A, C, R
<1>5. Cardinality(R) \in Nat /\ Cardinality(R \cup {s}) = Cardinality(R) + 1
  BY <1>2, FS_AddElement, FS_CardinalityType
<1>6. Cardinality(A) = Cardinality(R) + Num(old[s] = "spawned") BY <1>3, <1>5 DEF Num
<1>7. Cardinality(C) = Cardinality(R) + Num(v = "spawned") BY <1>4, <1>5 DEF Num
<1> QED BY <1>5, <1>6, <1>7 DEF Spawned, A, C, Num

LEMMA HoldingMoves ==
  ASSUME NEW old \in [Children -> Processes], NEW c \in Children, NEW r \in Processes
  PROVE  /\ Holding(old) \in Nat /\ Holding([old EXCEPT ![c] = r]) \in Nat
         /\ Holding([old EXCEPT ![c] = r]) =
              Holding(old) - Num(old[c].permit) + Num(r.permit)
<1> DEFINE A == {t \in Children : old[t].permit}
           C == {t \in Children : [old EXCEPT ![c] = r][t].permit}
           R == A \ {c}
<1>1. IsFiniteSet(A) /\ IsFiniteSet(C) BY WarmPoolAssumption, FS_Subset
<1>2. IsFiniteSet(R) /\ c \notin R BY <1>1, FS_RemoveElement
<1>3. A = IF old[c].permit THEN R \cup {c} ELSE R OBVIOUS
<1>4. C = IF r.permit THEN R \cup {c} ELSE R OBVIOUS
<1> HIDE DEF A, C, R
<1>5. Cardinality(R) \in Nat /\ Cardinality(R \cup {c}) = Cardinality(R) + 1
  BY <1>2, FS_AddElement, FS_CardinalityType
<1>6. Cardinality(A) = Cardinality(R) + Num(old[c].permit) BY <1>3, <1>5 DEF Num
<1>7. Cardinality(C) = Cardinality(R) + Num(r.permit) BY <1>4, <1>5 DEF Num
<1> QED BY <1>5, <1>6, <1>7 DEF Holding, A, C, Num

LEMMA HoldingStays ==
  ASSUME NEW old, NEW new, \A c \in Children : new[c].permit = old[c].permit
  PROVE  Holding(new) = Holding(old)
<1>1. {c \in Children : new[c].permit} = {c \in Children : old[c].permit} OBVIOUS
<1> QED BY <1>1 DEF Holding

-----------------------------------------------------------------------------
(* The gate. *)

LEMMA NameOf ==
  ASSUME NEW r \in Seq(Answers), NEW i \in DOMAIN r
  PROVE  r[i] \in Answers /\ r[i].who \in Names /\ r[i].permit \in BOOLEAN
<1>1. r[i] \in Answers BY LenProperties, ElementOfSeq
<1> QED BY <1>1 DEF Answers

\* New callers at the gate: refills, or one cold start that was not there.
LEMMA AwaitedExtended ==
  ASSUME NEW q \in Seq(Names), NEW r \in Seq(Answers), NEW q2 \in Seq(Names),
         NEW r2 \in Seq(Answers), NEW m \in Nat, NEW k \in Nat, NEW who, NEW p,
         NEW X, NEW Y, Awaited(q, r, X),
         Extension(q2, q, who, m), Extension(r2, r, [who |-> who, permit |-> p], k),
         \/ who = Refill
         \/ /\ m + k = 1 /\ Y[who] = "waiting"
            /\ \A i \in DOMAIN q : q[i] # who
            /\ \A i \in DOMAIN r : r[i].who # who,
         \A s \in Starts : s # who => Y[s] = X[s]
  PROVE  Awaited(q2, r2, Y)
<1>1. /\ Len(q) \in Nat /\ DOMAIN q = 1..Len(q) /\ DOMAIN q2 = 1..(Len(q) + m)
      /\ Len(r) \in Nat /\ DOMAIN r = 1..Len(r) /\ DOMAIN r2 = 1..(Len(r) + k)
  BY LenProperties DEF Extension
<1>2. \A i \in DOMAIN q2 : \/ i \in DOMAIN q /\ q2[i] = q[i]
                           \/ i \in (Len(q) + 1)..(Len(q) + m) /\ q2[i] = who
  BY <1>1 DEF Extension
<1>3. \A i \in DOMAIN r2 : \/ i \in DOMAIN r /\ r2[i].who = r[i].who
                           \/ i \in (Len(r) + 1)..(Len(r) + k) /\ r2[i].who = who
 <2> SUFFICES ASSUME NEW i \in DOMAIN r2
              PROVE  \/ i \in DOMAIN r /\ r2[i].who = r[i].who
                     \/ i \in (Len(r) + 1)..(Len(r) + k) /\ r2[i].who = who
   OBVIOUS
 <2>1. i \in 1..Len(r) \/ i \in (Len(r) + 1)..(Len(r) + k) BY <1>1
 <2>2. CASE i \in 1..Len(r)
  <3>1. r2[i] = r[i] BY <2>2 DEF Extension
  <3> QED BY <3>1, <2>2, <1>1
 <2>3. CASE i \in (Len(r) + 1)..(Len(r) + k)
  <3>1. r2[i] = [who |-> who, permit |-> p] BY <2>3 DEF Extension
  <3> QED BY <3>1, <2>3
 <2> QED BY <2>1, <2>2, <2>3
<1>4. \A i \in DOMAIN q : q[i] \in Names BY <1>1
<1>5. \A i \in DOMAIN r : r[i].who \in Names BY <1>1, NameOf
<1>6. ASSUME NEW i \in DOMAIN q2, q2[i] # Refill PROVE Y[q2[i]] = "waiting"
  BY <1>2, <1>4, <1>6 DEF Awaited, Names
<1>7. ASSUME NEW i \in DOMAIN r2, r2[i].who # Refill PROVE Y[r2[i].who] = "waiting"
  BY <1>3, <1>5, <1>7 DEF Awaited, Names
<1>8. ASSUME NEW i \in DOMAIN q2, NEW j \in DOMAIN q2, q2[i] = q2[j], q2[i] # Refill
      PROVE  i = j
 <2>1. CASE i \in DOMAIN q /\ j \in DOMAIN q /\ q2[i] = q[i] /\ q2[j] = q[j]
   BY <2>1, <1>8 DEF Awaited
 <2>2. CASE q2[i] = who BY <2>2, <1>1, <1>2, <1>8
 <2> QED BY <2>1, <2>2, <1>2, <1>8
<1>9. ASSUME NEW i \in DOMAIN r2, NEW j \in DOMAIN r2, r2[i].who = r2[j].who, r2[i].who # Refill
      PROVE  i = j
 <2>1. CASE i \in DOMAIN r /\ j \in DOMAIN r /\ r2[i].who = r[i].who /\ r2[j].who = r[j].who
   BY <2>1, <1>9 DEF Awaited
 <2>2. CASE r2[i].who = who BY <2>2, <1>1, <1>3, <1>9, SMTT(30), ZenonT(30)
 <2> QED BY <2>1, <2>2, <1>3, <1>9
<1>10. ASSUME NEW i \in DOMAIN q2, NEW j \in DOMAIN r2, q2[i] = r2[j].who
       PROVE  q2[i] = Refill
 <2>1. CASE i \in DOMAIN q /\ j \in DOMAIN r /\ q2[i] = q[i] /\ r2[j].who = r[j].who
   BY <2>1, <1>10 DEF Awaited
 <2>2. CASE q2[i] = who /\ who # Refill
  <3>1. /\ m + k = 1
        /\ \A l \in DOMAIN q : q[l] # who
        /\ \A l \in DOMAIN r : r[l].who # who
    BY <2>2
  <3>2. i \in (Len(q) + 1)..(Len(q) + m) BY <2>2, <3>1, <1>2
  <3>3. j \in (Len(r) + 1)..(Len(r) + k) BY <2>2, <3>1, <1>3, <1>10
  <3>4. Len(q) \in Nat /\ Len(r) \in Nat BY <1>1
  <3>5. m >= 1 BY <3>2, <3>4
  <3>6. k >= 1 BY <3>3, <3>4
  <3>7. m + k = 1 BY <3>1
  <3> QED BY <3>5, <3>6, <3>7
 <2> QED BY <2>1, <2>2, <1>2, <1>3, <1>10
<1> QED BY <1>6, <1>7, <1>8, <1>9, <1>10 DEF Awaited

\* The oldest waiter gets its answer.
LEMMA AwaitedHanded ==
  ASSUME NEW q \in Seq(Names), q # <<>>, NEW r \in Seq(Answers), NEW p \in BOOLEAN,
         NEW X, Awaited(q, r, X)
  PROVE  Awaited(Tail(q), Append(r, [who |-> Head(q), permit |-> p]), X)
<1> DEFINE t == Tail(q)
           e == [who |-> Head(q), permit |-> p]
           r2 == Append(r, e)
<1>1. /\ Head(q) \in Names /\ t \in Seq(Names) /\ Len(t) = Len(q) - 1
      /\ \A i \in 1..Len(t) : t[i] = q[i + 1]
  BY HeadTailProperties
<1>2. e \in Answers /\ e.who = Head(q) BY <1>1 DEF Answers
<1> HIDE DEF e
<1>3. /\ Len(r2) = Len(r) + 1 /\ r2 \in Seq(Answers)
      /\ \A i \in 1..Len(r) : r2[i] = r[i]
      /\ r2[Len(r) + 1] = e
  BY <1>2, AppendProperties
<1> HIDE DEF t, r2
<1>4. /\ Len(q) \in Nat \ {0} /\ DOMAIN q = 1..Len(q) /\ DOMAIN t = 1..(Len(q) - 1)
      /\ Len(r) \in Nat /\ DOMAIN r = 1..Len(r) /\ DOMAIN r2 = 1..(Len(r) + 1)
  BY <1>1, <1>3, LenProperties, EmptySeq
<1>5. Head(q) = q[1] /\ 1 \in DOMAIN q BY <1>4
<1>6. \A i \in DOMAIN t : i + 1 \in DOMAIN q /\ i + 1 # 1 /\ t[i] = q[i + 1] BY <1>1, <1>4
<1>7. \A i \in DOMAIN r2 : \/ i \in DOMAIN r /\ r2[i].who = r[i].who
                           \/ i = Len(r) + 1 /\ r2[i].who = q[1]
 <2> SUFFICES ASSUME NEW i \in DOMAIN r2
              PROVE  \/ i \in DOMAIN r /\ r2[i].who = r[i].who
                     \/ i = Len(r) + 1 /\ r2[i].who = q[1]
   OBVIOUS
 <2>1. CASE i \in 1..Len(r)
  <3>1. r2[i] = r[i] BY <2>1, <1>3
  <3> QED BY <3>1, <2>1, <1>4
 <2>2. CASE i = Len(r) + 1 BY <2>2, <1>2, <1>3, <1>5
 <2> QED BY <2>1, <2>2, <1>4
<1>8. \A i \in DOMAIN t : t[i] # Refill => X[t[i]] = "waiting" BY <1>6 DEF Awaited
<1>9. \A i \in DOMAIN r2 : r2[i].who # Refill => X[r2[i].who] = "waiting" BY <1>5, <1>7 DEF Awaited
<1>10. ASSUME NEW i \in DOMAIN t, NEW j \in DOMAIN t, t[i] = t[j], t[i] # Refill
       PROVE  i = j
 <2>1. i + 1 = j + 1 BY <1>6, <1>10 DEF Awaited
 <2> QED BY <2>1, <1>4
<1>11. ASSUME NEW i \in DOMAIN r2, NEW j \in DOMAIN r2, r2[i].who = r2[j].who, r2[i].who # Refill
       PROVE  i = j
 <2>1. CASE i \in DOMAIN r /\ j \in DOMAIN r /\ r2[i].who = r[i].who /\ r2[j].who = r[j].who
   BY <2>1, <1>11 DEF Awaited
 <2>2. CASE i = Len(r) + 1 /\ j = Len(r) + 1 BY <2>2
 <2>3. ASSUME NEW l \in DOMAIN r PROVE ~(r[l].who = q[1] /\ q[1] # Refill)
   BY <1>5, <2>3 DEF Awaited
 <2> QED BY <2>1, <2>2, <2>3, <1>7, <1>11
<1>12. ASSUME NEW i \in DOMAIN t, NEW j \in DOMAIN r2, t[i] = r2[j].who
       PROVE  t[i] = Refill
 <2>1. CASE j \in DOMAIN r /\ r2[j].who = r[j].who BY <2>1, <1>6, <1>12 DEF Awaited
 <2>2. CASE r2[j].who = q[1]
  <3>1. q[i + 1] = q[1] /\ i + 1 # 1 /\ i + 1 \in DOMAIN q BY <2>2, <1>6, <1>12
  <3> QED BY <3>1, <1>5, <1>6 DEF Awaited
 <2> QED BY <2>1, <2>2, <1>7
<1>13. Awaited(t, r2, X) BY <1>8, <1>9, <1>10, <1>11, <1>12 DEF Awaited
<1> QED BY <1>13 DEF t, r2, e

\* A caller goes on with its answer; then it may do anything.
LEMMA AwaitedTailed ==
  ASSUME NEW q \in Seq(Names), NEW r \in Seq(Answers), r # <<>>, NEW X, NEW Y, Awaited(q, r, X),
         \A s \in Starts : s # Head(r).who => Y[s] = X[s]
  PROVE  Awaited(q, Tail(r), Y)
<1> DEFINE t == Tail(r)
<1>1. /\ Head(r) \in Answers /\ t \in Seq(Answers) /\ Len(t) = Len(r) - 1
      /\ \A i \in 1..Len(t) : t[i] = r[i + 1]
  BY HeadTailProperties
<1>2. /\ Len(r) \in Nat \ {0} /\ DOMAIN r = 1..Len(r) /\ DOMAIN t = 1..(Len(r) - 1)
  BY <1>1, LenProperties, EmptySeq
<1>3. Head(r) = r[1] /\ 1 \in DOMAIN r BY <1>2
<1> HIDE DEF t
<1>4. \A i \in DOMAIN t : i + 1 \in DOMAIN r /\ i + 1 # 1 /\ t[i] = r[i + 1] BY <1>1, <1>2
<1>5. \A i \in DOMAIN r : r[i].who \in Names BY <1>2, NameOf
<1>6. \A i \in DOMAIN q : q[i] \in Names BY LenProperties
<1>7. \A i \in DOMAIN q : q[i] # Refill => q[i] # r[1].who /\ Y[q[i]] = "waiting"
  BY <1>3, <1>6 DEF Awaited, Names
<1>8. \A i \in DOMAIN t : t[i].who # Refill => t[i].who # r[1].who BY <1>3, <1>4 DEF Awaited
<1>9. \A i \in DOMAIN t : t[i].who # Refill => Y[t[i].who] = "waiting"
 <2> SUFFICES ASSUME NEW i \in DOMAIN t, t[i].who # Refill PROVE Y[t[i].who] = "waiting" OBVIOUS
 <2>1. i + 1 \in DOMAIN r /\ t[i].who = r[i + 1].who BY <1>4
 <2>2. t[i].who \in Starts BY <2>1, <1>5 DEF Names
 <2>3. X[t[i].who] = "waiting" BY <2>1 DEF Awaited
 <2> QED BY <2>2, <2>3, <1>3, <1>8
<1>10. ASSUME NEW i \in DOMAIN t, NEW j \in DOMAIN t, t[i].who = t[j].who, t[i].who # Refill
       PROVE  i = j
 <2>1. /\ i + 1 \in DOMAIN r /\ t[i].who = r[i + 1].who
       /\ j + 1 \in DOMAIN r /\ t[j].who = r[j + 1].who
   BY <1>4
 <2>2. i + 1 = j + 1 BY <2>1, <1>10 DEF Awaited
 <2> QED BY <2>2, <1>2
<1>11. ASSUME NEW i \in DOMAIN q, NEW j \in DOMAIN t, q[i] = t[j].who
       PROVE  q[i] = Refill
 <2>1. j + 1 \in DOMAIN r /\ t[j].who = r[j + 1].who BY <1>4
 <2> QED BY <2>1, <1>11 DEF Awaited
<1>12. \A i, j \in DOMAIN q : q[i] = q[j] /\ q[i] # Refill => i = j BY DEF Awaited
<1>13. Awaited(q, t, Y) BY <1>7, <1>9, <1>10, <1>11, <1>12 DEF Awaited
<1> QED BY <1>13 DEF t

\* acquireSpawn() gives a permit out or makes its caller wait.
LEMMA Acquired ==
  ASSUME GateFits, NEW who \in Names, NEW n \in Nat, Acquire(who, n)
  PROVE  /\ GateFits'
         /\ active' - PermitsIn(settled') = active - PermitsIn(settled)
         /\ \E m, k \in Nat :
              /\ m + k = n
              /\ Extension(queue', queue, who, m)
              /\ Extension(settled', settled, [who |-> who, permit |-> TRUE], k)
<1> DEFINE k == Least(n, MaxSpawns - active)
           e == [who |-> who, permit |-> TRUE]
<1>1. /\ active \in Nat /\ queue \in Seq(Names) /\ settled \in Seq(Answers)
      /\ active <= MaxSpawns /\ MaxSpawns \in Nat
      /\ queue # <<>> => active = MaxSpawns
  BY WarmPoolAssumption DEF GateFits
<1>2. /\ k \in Nat /\ n - k \in Nat /\ active + k <= MaxSpawns
      /\ n - k # 0 => active + k = MaxSpawns
  BY <1>1 DEF Least
<1>3. /\ active' = active + k
      /\ settled' = settled \o Repeat(e, k)
      /\ queue' = queue \o Repeat(who, n - k)
  BY DEF Acquire
<1>4. e \in Answers /\ e.permit BY DEF Answers
<1> HIDE DEF k, e
<1>5. queue' \in Seq(Names) /\ Extension(queue', queue, who, n - k) BY <1>1, <1>2, <1>3, Extended
<1>6. settled' \in Seq(Answers) /\ Extension(settled', settled, e, k)
  BY <1>1, <1>2, <1>3, <1>4, Extended
<1>7. PermitsIn(settled') = PermitsIn(settled) + k BY <1>1, <1>2, <1>3, <1>4, PermitsExtended
<1>8. PermitsIn(settled) \in Nat BY <1>1, PermitsFinite
<1>9. queue' # <<>> => active' = MaxSpawns
 <2>1. CASE queue = <<>> /\ n - k = 0
  <3>1. Len(queue') = 0 BY <2>1, <1>5, EmptySeq DEF Extension
  <3> QED BY <3>1, <1>5, EmptySeq
 <2>2. CASE queue # <<>> BY <2>2, <1>1, <1>2, <1>3
 <2>3. CASE n - k # 0 BY <2>3, <1>2, <1>3
 <2> QED BY <2>1, <2>2, <2>3
<1>10. GateFits' BY <1>1, <1>2, <1>3, <1>5, <1>6, <1>9 DEF GateFits
<1>11. active' - PermitsIn(settled') = active - PermitsIn(settled)
 <2> DEFINE P == PermitsIn(settled)
 <2>1. P \in Nat /\ PermitsIn(settled') = P + k BY <1>7, <1>8
 <2>2. active \in Nat /\ k \in Nat /\ active' = active + k BY <1>1, <1>2, <1>3
 <2> HIDE DEF P
 <2>3. active' - PermitsIn(settled') = active - P BY <2>1, <2>2
 <2> QED BY <2>3 DEF P
<1>12. (n - k) + k = n BY <1>2
<1> QED BY <1>2, <1>5, <1>6, <1>10, <1>11, <1>12 DEF e

\* release() hands a permit on or takes it back.
LEMMA Released ==
  ASSUME GateFits, NEW rest \in Seq(Answers), NEW permit \in BOOLEAN,
         permit => active > 0, Release(permit, rest)
  PROVE  /\ GateFits'
         /\ active' - PermitsIn(settled') = active - PermitsIn(rest) - Num(permit)
         /\ \A X : Awaited(queue, rest, X) => Awaited(queue', settled', X)
<1>1. /\ active \in Nat /\ queue \in Seq(Names) /\ settled \in Seq(Answers)
      /\ active <= MaxSpawns /\ MaxSpawns \in Nat
      /\ queue # <<>> => active = MaxSpawns
  BY WarmPoolAssumption DEF GateFits
<1>2. PermitsIn(rest) \in Nat BY PermitsFinite
<1>3. CASE permit /\ queue # <<>>
 <2> DEFINE e == [who |-> Head(queue), permit |-> TRUE]
 <2>1. settled' = Append(rest, e) /\ queue' = Tail(queue) /\ active' = active BY <1>3 DEF Release
 <2>2. Head(queue) \in Names /\ Tail(queue) \in Seq(Names) BY <1>1, <1>3, HeadTailProperties
 <2>3. e \in Answers /\ e.permit BY <2>2 DEF Answers
 <2>4. \A X : Awaited(queue, rest, X) => Awaited(Tail(queue), Append(rest, e), X)
   BY <1>1, <1>3, AwaitedHanded
 <2> HIDE DEF e
 <2>5. settled' \in Seq(Answers) BY <2>1, <2>3, AppendProperties
 <2>6. PermitsIn(settled') = PermitsIn(rest) + 1 BY <2>1, <2>3, PermitsAppended DEF Num
 <2>7. GateFits' BY <1>1, <1>3, <2>1, <2>2, <2>5 DEF GateFits
 <2>8. active' - PermitsIn(settled') = active - PermitsIn(rest) - Num(permit)
   BY <1>1, <1>2, <1>3, <2>1, <2>6 DEF Num
 <2> QED BY <2>1, <2>4, <2>7, <2>8
<1>4. CASE ~(permit /\ queue # <<>>)
 <2>1. /\ active' = (IF permit THEN active - 1 ELSE active)
       /\ settled' = rest /\ queue' = queue
   BY <1>4 DEF Release
 <2>2. active' \in Nat /\ active' <= MaxSpawns /\ (queue' # <<>> => active' = MaxSpawns)
   BY <1>1, <1>4, <2>1
 <2>3. GateFits' BY <1>1, <2>1, <2>2 DEF GateFits
 <2>4. active' - PermitsIn(settled') = active - PermitsIn(rest) - Num(permit)
   BY <1>1, <1>2, <2>1 DEF Num
 <2> QED BY <2>1, <2>3, <2>4
<1> QED BY <1>3, <1>4

\* Steps that leave the cold starts alone keep the gate's books if the permits
\* that processes have change as those of the gate do.
LEMMA GateKept ==
  ASSUME GateInv, GateFits', UNCHANGED start, Awaited(queue', settled', start),
         active' - PermitsIn(settled') - Holding(child')
           = active - PermitsIn(settled) - Holding(child),
         Holding(child) \in Nat, Holding(child') \in Nat
  PROVE  GateInv'
<1>1. active \in Nat /\ active' \in Nat BY DEF GateInv, GateFits
<1>2. PermitsIn(settled) \in Nat /\ PermitsIn(settled') \in Nat
  BY PermitsFinite DEF GateInv, GateFits
<1>3. Spawned(start) \in Nat BY WarmPoolAssumption, FS_Subset, FS_CardinalityType DEF Spawned
<1>4. active = PermitsIn(settled) + Spawned(start) + Holding(child) BY DEF GateInv
<1>5. active' = PermitsIn(settled') + Spawned(start) + Holding(child') BY <1>1, <1>2, <1>3, <1>4
<1> QED BY <1>5 DEF GateInv

LEMMA HoldingNat ==
  ASSUME NEW children
  PROVE  Holding(children) \in Nat
BY WarmPoolAssumption, FS_Subset, FS_CardinalityType DEF Holding

\* Who has a permit has one that is counted.
LEMMA PermitCounted ==
  ASSUME GateInv
  PROVE  /\ \A c \in Children : child[c].permit => active > 0
         /\ \A s \in Starts : start[s] = "spawned" => active > 0
         /\ settled # <<>> /\ Head(settled).permit => active > 0
<1>1. /\ PermitsIn(settled) \in Nat /\ Holding(child) \in Nat /\ Spawned(start) \in Nat
      /\ active = PermitsIn(settled) + Spawned(start) + Holding(child) /\ active \in Nat
  BY PermitsFinite, HoldingNat, WarmPoolAssumption, FS_Subset, FS_CardinalityType DEF GateInv,
    GateFits, Spawned
<1>2. ASSUME NEW c \in Children, child[c].permit PROVE Holding(child) # 0
 <2>1. IsFiniteSet({d \in Children : child[d].permit}) BY WarmPoolAssumption, FS_Subset
 <2>2. c \in {d \in Children : child[d].permit} BY <1>2
 <2> QED BY <2>1, <2>2, FS_EmptySet DEF Holding
<1>3. ASSUME NEW s \in Starts, start[s] = "spawned" PROVE Spawned(start) # 0
 <2>1. IsFiniteSet({t \in Starts : start[t] = "spawned"}) BY WarmPoolAssumption, FS_Subset
 <2>2. s \in {t \in Starts : start[t] = "spawned"} BY <1>3
 <2> QED BY <2>1, <2>2, FS_EmptySet DEF Spawned
<1>4. ASSUME settled # <<>>, Head(settled).permit PROVE PermitsIn(settled) # 0
 <2>1. settled \in Seq(Answers) BY DEF GateInv, GateFits
 <2>2. Tail(settled) \in Seq(Answers) BY <1>4, <2>1, HeadTailProperties
 <2>3. PermitsIn(Tail(settled)) \in Nat BY <2>2, PermitsFinite
 <2>4. PermitsIn(settled) = PermitsIn(Tail(settled)) + 1 BY <1>4, <2>1, PermitsTailed DEF Num
 <2> QED BY <2>3, <2>4
<1>5. ASSUME NEW c \in Children, child[c].permit PROVE active > 0
 <2>1. Holding(child) # 0 BY <1>2, <1>5
 <2> QED BY <1>1, <2>1
<1>6. ASSUME NEW s \in Starts, start[s] = "spawned" PROVE active > 0
 <2>1. Spawned(start) # 0 BY <1>3, <1>6
 <2> QED BY <1>1, <2>1
<1>7. ASSUME settled # <<>>, Head(settled).permit PROVE active > 0
 <2>1. PermitsIn(settled) # 0 BY <1>4, <1>7
 <2> QED BY <1>1, <2>1
<1> QED BY <1>5, <1>6, <1>7

-----------------------------------------------------------------------------
(* The steps of the gate. *)

RoomStays == UNCHANGED <<child, pool, target>>
RestStays == UNCHANGED <<warmPending, pooled, refillDue, upgradeHeld, shuttingDown>>

LEMMA RoomKept == ASSUME RoomInv, RoomStays PROVE RoomInv'
BY DEF RoomInv, RoomStays, Fits

LEMMA RestKept == ASSUME RestInv, RestStays PROVE RestInv'
BY DEF RestInv, RestStays

LEMMA GateTimeoutKeeps ==
  ASSUME PoolInv, GateTimeout
  PROVE  PoolInv'
<1> DEFINE e == [who |-> Head(queue), permit |-> FALSE]
<1>1. /\ GateInv /\ RoomInv /\ RestInv /\ queue # <<>>
      /\ queue \in Seq(Names) /\ settled \in Seq(Answers)
      /\ Awaited(queue, settled, start)
  BY DEF PoolInv, GateInv, GateFits, GateTimeout
<1>2. /\ queue' = Tail(queue) /\ settled' = Append(settled, e)
      /\ active' = active /\ start' = start /\ child' = child
  BY DEF GateTimeout
<1>3. Awaited(Tail(queue), Append(settled, e), start) BY <1>1, AwaitedHanded
<1>4. Head(queue) \in Names /\ Tail(queue) \in Seq(Names) BY <1>1, HeadTailProperties
<1>5. e \in Answers /\ ~e.permit BY <1>4 DEF Answers
<1> HIDE DEF e
<1>6. settled' \in Seq(Answers) BY <1>1, <1>2, <1>5, AppendProperties
<1>7. PermitsIn(settled') = PermitsIn(settled) + 0 BY <1>1, <1>2, <1>5, PermitsAppended DEF Num
<1>8. PermitsIn(settled) \in Nat BY <1>1, PermitsFinite
<1>9. PermitsIn(settled') = PermitsIn(settled) BY <1>7, <1>8
<1>10. GateFits' BY <1>1, <1>2, <1>4, <1>6 DEF GateFits, GateInv
<1>11. GateInv' BY <1>1, <1>2, <1>3, <1>9, <1>10 DEF GateInv
<1>12. RoomInv' BY <1>1, RoomKept DEF RoomStays, GateTimeout
<1>13. RestInv' BY <1>1, RestKept DEF RestStays, GateTimeout, flags
<1> QED BY <1>11, <1>12, <1>13 DEF PoolInv

LEMMA ColdStartKeeps ==
  ASSUME PoolInv, NEW s \in Starts, ColdStart(s)
  PROVE  PoolInv'
<1>1. /\ GateInv /\ RoomInv /\ RestInv /\ GateFits
      /\ queue \in Seq(Names) /\ settled \in Seq(Answers) /\ start \in [Starts -> Phases]
      /\ Awaited(queue, settled, start)
  BY DEF PoolInv, GateInv, GateFits
<1>2. /\ start[s] = "idle" /\ start' = [start EXCEPT ![s] = "waiting"]
      /\ Acquire(s, 1) /\ child' = child
  BY DEF ColdStart
<1>3. s \in Names /\ s # Refill BY WarmPoolAssumption DEF Names
<1>4. /\ GateFits'
      /\ active' - PermitsIn(settled') = active - PermitsIn(settled)
      /\ \E m, k \in Nat :
           /\ m + k = 1
           /\ Extension(queue', queue, s, m)
           /\ Extension(settled', settled, [who |-> s, permit |-> TRUE], k)
  BY <1>1, <1>2, <1>3, Acquired
<1>5. queue' \in Seq(Names) /\ settled' \in Seq(Answers) BY <1>4 DEF GateFits
<1>6. /\ \A i \in DOMAIN queue : queue[i] # s
      /\ \A i \in DOMAIN settled : settled[i].who # s
  BY <1>1, <1>2, <1>3 DEF Awaited
<1>7. start' \in [Starts -> Phases] /\ start'[s] = "waiting" BY <1>1, <1>2 DEF Phases
<1>8. \A t \in Starts : t # s => start'[t] = start[t] BY <1>1, <1>2
<1>9. Awaited(queue', settled', start')
 <2>1. PICK m \in Nat, k \in Nat :
          /\ m + k = 1
          /\ Extension(queue', queue, s, m)
          /\ Extension(settled', settled, [who |-> s, permit |-> TRUE], k)
   BY <1>4
 <2> QED BY <2>1, <1>1, <1>5, <1>6, <1>7, <1>8, AwaitedExtended
<1>10. Spawned(start') = Spawned(start) - 0 + 0 /\ Spawned(start) \in Nat
  BY <1>1, <1>2, SpawnedMoves DEF Num, Phases
<1>11. active' = PermitsIn(settled') + Spawned(start') + Holding(child')
 <2>1. /\ active \in Nat /\ active' \in Nat
       /\ active = PermitsIn(settled) + Spawned(start) + Holding(child)
   BY <1>1, <1>4 DEF GateInv, GateFits
 <2>2. /\ PermitsIn(settled) \in Nat /\ PermitsIn(settled') \in Nat
       /\ Holding(child) \in Nat
   BY <1>1, <1>5, PermitsFinite, HoldingNat
 <2>3. Spawned(start') = Spawned(start) /\ Holding(child') = Holding(child) BY <1>10, <1>2
 <2> QED BY <2>1, <2>2, <2>3, <1>4, <1>10
<1>12. GateInv' BY <1>4, <1>7, <1>9, <1>11 DEF GateInv
<1>13. RoomInv' BY <1>1, RoomKept DEF RoomStays, ColdStart
<1>14. RestInv' BY <1>1, RestKept DEF RestStays, ColdStart, flags
<1> QED BY <1>12, <1>13, <1>14 DEF PoolInv

\* What the caller at the head of settled knows.
LEMMA HeadKnows ==
  ASSUME GateInv, settled # <<>>
  PROVE  /\ Head(settled).who \in Names /\ Head(settled).permit \in BOOLEAN
         /\ Tail(settled) \in Seq(Answers)
         /\ Head(settled).who # Refill => start[Head(settled).who] = "waiting"
         /\ PermitsIn(settled) = PermitsIn(Tail(settled)) + Num(Head(settled).permit)
         /\ PermitsIn(Tail(settled)) \in Nat
<1>1. settled \in Seq(Answers) BY DEF GateInv, GateFits
<1>2. 1 \in DOMAIN settled /\ Head(settled) = settled[1] BY <1>1, LenProperties, EmptySeq
<1>3. Head(settled).who # Refill => start[Head(settled).who] = "waiting"
  BY <1>2 DEF GateInv, Awaited
<1>4. Tail(settled) \in Seq(Answers) BY <1>1, HeadTailProperties
<1>5. Head(settled).who \in Names /\ Head(settled).permit \in BOOLEAN BY <1>1, <1>2, NameOf
<1>6. PermitsIn(settled) = PermitsIn(Tail(settled)) + Num(Head(settled).permit)
  BY <1>1, PermitsTailed
<1>7. PermitsIn(Tail(settled)) \in Nat BY <1>4, PermitsFinite
<1> QED BY <1>3, <1>4, <1>5, <1>6, <1>7

LEMMA ColdStartedKeeps ==
  ASSUME PoolInv, settled # <<>>, Head(settled).who # Refill,
         ColdStarted(Head(settled).who, Head(settled).permit)
  PROVE  PoolInv'
<1> DEFINE s == Head(settled).who
           permit == Head(settled).permit
           rest == Tail(settled)
<1>1. /\ GateInv /\ RoomInv /\ RestInv /\ GateFits
      /\ queue \in Seq(Names) /\ settled \in Seq(Answers) /\ start \in [Starts -> Phases]
      /\ Awaited(queue, settled, start) /\ active \in Nat
      /\ active = PermitsIn(settled) + Spawned(start) + Holding(child)
  BY DEF PoolInv, GateInv, GateFits
<1>2. /\ s \in Starts /\ permit \in BOOLEAN /\ rest \in Seq(Answers)
      /\ start[s] = "waiting"
      /\ PermitsIn(settled) = PermitsIn(rest) + Num(permit)
      /\ PermitsIn(rest) \in Nat
  BY <1>1, HeadKnows DEF Names
<1>3. permit => active > 0 BY <1>1, PermitCounted
<1>4. PICK v \in Phases, give \in BOOLEAN :
        /\ start' = [start EXCEPT ![s] = v] /\ Release(give, rest)
        /\ Num(permit) = Num(give) + Num(v = "spawned")
        /\ give => permit
 <2>1. CASE start' = [start EXCEPT ![s] = "idle"] /\ Release(permit, rest)
  <3>1. Num(permit) = Num(permit) + Num("idle" = "spawned") BY <1>2 DEF Num
  <3> QED BY <3>1, <2>1, <1>2 DEF Phases
 <2>2. CASE /\ start' = [start EXCEPT ![s] = IF permit THEN "spawned" ELSE "idle"]
            /\ Release(FALSE, rest)
  <3> DEFINE v == IF permit THEN "spawned" ELSE "idle"
  <3>1. v \in Phases /\ Num(permit) = Num(FALSE) + Num(v = "spawned") BY <1>2 DEF Num, Phases
  <3>2. start' = [start EXCEPT ![s] = v] /\ Release(FALSE, rest) BY <2>2
  <3> HIDE DEF v
  <3> QED BY <3>1, <3>2
 <2> QED BY <2>1, <2>2 DEF ColdStarted
<1>5. start' \in [Starts -> Phases] /\ \A t \in Starts : t # s => start'[t] = start[t]
  BY <1>1, <1>2, <1>4
<1>6. child' = child BY DEF ColdStarted
<1>7. Awaited(queue, rest, start') BY <1>1, <1>5, AwaitedTailed
<1>8. RoomInv' BY <1>1, RoomKept DEF RoomStays, ColdStarted
<1>9. RestInv' BY <1>1, RestKept DEF RestStays, ColdStarted, flags
<1> HIDE DEF s, permit, rest
<1>10. /\ GateFits'
       /\ active' - PermitsIn(settled') = active - PermitsIn(rest) - Num(give)
       /\ \A X : Awaited(queue, rest, X) => Awaited(queue', settled', X)
  BY <1>1, <1>2, <1>3, <1>4, Released
<1>11. Awaited(queue', settled', start') BY <1>7, <1>10
<1>12. Spawned(start') = Spawned(start) - 0 + Num(v = "spawned") /\ Spawned(start) \in Nat
       /\ Spawned(start') \in Nat
 <2>1. Num(start[s] = "spawned") = 0 BY <1>2 DEF Num
 <2> QED BY <2>1, <1>1, <1>2, <1>4, SpawnedMoves
<1>13. active' = PermitsIn(settled') + Spawned(start') + Holding(child')
 <2>1. active' \in Nat /\ settled' \in Seq(Answers) BY <1>10 DEF GateFits
 <2>2. PermitsIn(settled') \in Nat /\ Holding(child) \in Nat BY <2>1, PermitsFinite, HoldingNat
 <2> DEFINE g == Num(give)
            h == Num(permit)
            w == Num(v = "spawned")
 <2>3. g \in Nat /\ h \in Nat /\ w \in Nat BY DEF Num
 <2>4. Holding(child') = Holding(child) BY <1>6
 <2>5. active = PermitsIn(rest) + h + Spawned(start) + Holding(child) BY <1>1, <1>2
 <2>6. active' - PermitsIn(settled') = active - PermitsIn(rest) - g BY <1>10
 <2>7. h = g + w BY <1>4
 <2>8. Spawned(start') = Spawned(start) - 0 + w BY <1>12
 <2>9. Spawned(start) \in Nat /\ PermitsIn(rest) \in Nat /\ active \in Nat BY <1>1, <1>2, <1>12
 <2> DEFINE a == active
            p == PermitsIn(rest)
            k == Spawned(start)
            c == Holding(child)
            a2 == active'
            p2 == PermitsIn(settled')
            k2 == Spawned(start')
 <2>10. /\ a \in Nat /\ p \in Nat /\ k \in Nat /\ c \in Nat /\ a2 \in Nat /\ p2 \in Nat
        /\ a = p + h + k + c /\ a2 - p2 = a - p - g /\ k2 = k - 0 + w
   BY <2>1, <2>2, <2>5, <2>6, <2>8, <2>9
 <2> HIDE DEF g, h, w, a, p, k, c, a2, p2, k2
 <2>11. a2 = p2 + k2 + c BY <2>3, <2>7, <2>10
 <2> QED BY <2>4, <2>11 DEF a2, p2, k2, c
<1>14. GateInv' BY <1>5, <1>10, <1>11, <1>13 DEF GateInv
<1> QED BY <1>8, <1>9, <1>14 DEF PoolInv

LEMMA ColdReadyKeeps ==
  ASSUME PoolInv, NEW s \in Starts, ColdReady(s)
  PROVE  PoolInv'
<1>1. /\ GateInv /\ RoomInv /\ RestInv /\ GateFits
      /\ settled \in Seq(Answers) /\ start \in [Starts -> Phases]
      /\ Awaited(queue, settled, start) /\ active \in Nat
      /\ active = PermitsIn(settled) + Spawned(start) + Holding(child)
  BY DEF PoolInv, GateInv, GateFits
<1>2. /\ start[s] = "spawned" /\ start' = [start EXCEPT ![s] = "idle"]
      /\ Release(TRUE, settled) /\ child' = child
  BY DEF ColdReady
<1>3. active > 0 BY <1>1, <1>2, PermitCounted
<1>4. /\ GateFits'
      /\ active' - PermitsIn(settled') = active - PermitsIn(settled) - Num(TRUE)
      /\ \A X : Awaited(queue, settled, X) => Awaited(queue', settled', X)
  BY <1>1, <1>2, <1>3, Released
<1>5. start' \in [Starts -> Phases] BY <1>1, <1>2 DEF Phases
<1>6. Awaited(queue, settled, start') BY <1>1, <1>2 DEF Awaited
<1>7. Spawned(start') = Spawned(start) - 1 + 0 /\ Spawned(start) \in Nat
      /\ Spawned(start') \in Nat
  BY <1>1, <1>2, SpawnedMoves DEF Num, Phases
<1>8. active' = PermitsIn(settled') + Spawned(start') + Holding(child')
 <2>1. active' \in Nat /\ settled' \in Seq(Answers) BY <1>4 DEF GateFits
 <2>2. PermitsIn(settled') \in Nat /\ PermitsIn(settled) \in Nat /\ Holding(child) \in Nat
   BY <1>1, <2>1, PermitsFinite, HoldingNat
 <2>3. Holding(child') = Holding(child) BY <1>2
 <2>4. active' - PermitsIn(settled') = active - PermitsIn(settled) - 1 BY <1>4 DEF Num
 <2>5. active' = active - PermitsIn(settled) - 1 + PermitsIn(settled') BY <1>1, <2>1, <2>2, <2>4
 <2>6. active = PermitsIn(settled) + Spawned(start) + Holding(child) BY <1>1
 <2>7. Spawned(start') = Spawned(start) - 1 /\ Spawned(start) \in Nat BY <1>7
 <2> QED BY <2>2, <2>3, <2>5, <2>6, <2>7
<1>9. GateInv' BY <1>4, <1>5, <1>6, <1>8 DEF GateInv
<1>10. RoomInv' BY <1>1, RoomKept DEF RoomStays, ColdReady
<1>11. RestInv' BY <1>1, RestKept DEF RestStays, ColdReady, flags
<1> QED BY <1>9, <1>10, <1>11 DEF PoolInv

-----------------------------------------------------------------------------
(* What several steps do to the gate. *)

LEMMA GateSame ==
  ASSUME GateInv, UNCHANGED <<gate, start>>, Holding(child') = Holding(child)
  PROVE  GateInv'
BY DEF GateInv, GateFits, gate

\* refillPool() orders what is missing.
LEMMA RefillPoolOrders ==
  ASSUME PoolInv, NEW held \in BOOLEAN, NEW t \in Nat, NEW kept \in Seq(Children),
         NEW has \in BOOLEAN, RefillPool(held, t, kept, has), UNCHANGED start,
         Holding(child') = Holding(child)
  PROVE  GateInv' /\ warmPending' \in Nat /\ pooled' \in BOOLEAN
<1>1. /\ GateInv /\ GateFits /\ queue \in Seq(Names) /\ settled \in Seq(Answers)
      /\ Awaited(queue, settled, start) /\ warmPending \in Nat /\ active \in Nat
  BY DEF PoolInv, GateInv, GateFits, RestInv
<1>2. CASE held \/ shuttingDown \/ t = 0 BY <1>1, <1>2, GateSame DEF RefillPool, gate
<1>3. CASE ~(held \/ shuttingDown \/ t = 0)
 <2> DEFINE n == IF Missing(t, kept) > 0 THEN Missing(t, kept) ELSE 0
            e == [who |-> Refill, permit |-> FALSE]
 <2>1. n \in Nat
  <3>1. Missing(t, kept) \in Int BY <1>1, LenProperties DEF Missing
  <3> QED BY <3>1
 <2>2. /\ pooled' = TRUE /\ warmPending' = warmPending + n
       /\ \/ Acquire(Refill, n)
          \/ settled' = settled \o Repeat(e, n) /\ UNCHANGED <<active, queue>>
   BY <1>3 DEF RefillPool
 <2> HIDE DEF n
 <2>3. Refill \in Names /\ e \in Answers /\ ~e.permit BY DEF Names, Answers
 <2>4. /\ GateFits' /\ active' - PermitsIn(settled') = active - PermitsIn(settled)
       /\ Awaited(queue', settled', start)
  <3>1. CASE Acquire(Refill, n)
   <4>1. /\ GateFits'
         /\ active' - PermitsIn(settled') = active - PermitsIn(settled)
         /\ \E m, k \in Nat :
              /\ m + k = n
              /\ Extension(queue', queue, Refill, m)
              /\ Extension(settled', settled, [who |-> Refill, permit |-> TRUE], k)
     BY <1>1, <2>1, <2>3, <3>1, Acquired
   <4>2. PICK m \in Nat, k \in Nat :
              /\ m + k = n
              /\ Extension(queue', queue, Refill, m)
              /\ Extension(settled', settled, [who |-> Refill, permit |-> TRUE], k)
     BY <4>1
   <4>3. queue' \in Seq(Names) /\ settled' \in Seq(Answers) BY <4>1 DEF GateFits
   <4>4. Awaited(queue', settled', start) BY <1>1, <4>2, <4>3, AwaitedExtended
   <4> QED BY <4>1, <4>4
  <3>2. CASE settled' = settled \o Repeat(e, n) /\ UNCHANGED <<active, queue>>
   <4> HIDE DEF e
   <4>1. settled' \in Seq(Answers) /\ Extension(settled', settled, e, n)
     BY <1>1, <2>1, <2>3, <3>2, Extended
   <4>2. PermitsIn(settled') = PermitsIn(settled) + 0 BY <1>1, <2>1, <2>3, <3>2, PermitsExtended
   <4>3. PermitsIn(settled) \in Nat BY <1>1, PermitsFinite
   <4>4. PermitsIn(settled') = PermitsIn(settled) BY <4>2, <4>3
   <4>5. GateFits' BY <1>1, <3>2, <4>1 DEF GateFits
   <4>6. \E m \in Nat : Extension(queue', queue, Refill, m)
    <5>1. Len(queue) \in Nat /\ queue' = queue BY <1>1, <3>2, LenProperties
    <5>2. (Len(queue) + 1)..(Len(queue) + 0) = {} BY <5>1
    <5>3. Len(queue) = Len(queue) + 0 BY <5>1
    <5>4. Extension(queue', queue, Refill, 0) BY <5>1, <5>2, <5>3 DEF Extension
    <5>5. 0 \in Nat OBVIOUS
    <5> QED BY <5>4, <5>5, Zenon
   <4>7. Awaited(queue', settled', start)
    <5>1. PICK m \in Nat : Extension(queue', queue, Refill, m) BY <4>6
    <5>2. Extension(settled', settled, [who |-> Refill, permit |-> FALSE], n) BY <4>1 DEF e
    <5>3. queue' \in Seq(Names) BY <1>1, <3>2
    <5> QED BY <1>1, <2>1, <4>1, <5>1, <5>2, <5>3, AwaitedExtended
   <4> QED BY <3>2, <4>4, <4>5, <4>7
  <3> QED BY <2>2, <3>1, <3>2
 <2>5. active' \in Nat /\ settled' \in Seq(Answers) BY <2>4 DEF GateFits
 <2> DEFINE a == active
            a2 == active'
            p == PermitsIn(settled)
            p2 == PermitsIn(settled')
            h == Holding(child)
 <2>6. /\ a \in Nat /\ a2 \in Nat /\ p \in Nat /\ p2 \in Nat /\ h \in Nat
       /\ a2 - p2 = a - p
   BY <1>1, <2>4, <2>5, PermitsFinite, HoldingNat
 <2> HIDE DEF a, a2, p, p2, h
 <2>7. a2 - p2 - h = a - p - h BY <2>6
 <2>8. active' - PermitsIn(settled') - Holding(child') = active - PermitsIn(settled) - Holding(child)
   BY <2>7 DEF a, a2, p, p2, h
 <2>9. GateInv' BY <1>1, <2>4, <2>8, GateKept, HoldingNat
 <2> QED BY <1>1, <2>1, <2>2, <2>9
<1> QED BY <1>2, <1>3

\* A process gives its permit back.
LEMMA PermitBack ==
  ASSUME GateInv, child \in [Children -> Processes], NEW c \in Children,
         NEW r \in Processes, ~r.permit, child' = [child EXCEPT ![c] = r],
         Release(child[c].permit, settled), UNCHANGED start
  PROVE  GateInv'
<1> DEFINE b == child[c].permit
<1>1. /\ GateFits /\ settled \in Seq(Answers) /\ active \in Nat
      /\ Awaited(queue, settled, start) /\ b \in BOOLEAN
  BY DEF GateInv, GateFits, Processes
<1>2. b => active > 0 BY PermitCounted
<1> HIDE DEF b
<1>3. Release(b, settled) BY DEF b
<1>4. /\ GateFits'
      /\ active' - PermitsIn(settled') = active - PermitsIn(settled) - Num(b)
      /\ \A X : Awaited(queue, settled, X) => Awaited(queue', settled', X)
  BY <1>1, <1>2, <1>3, Released
<1>5. /\ Holding(child) \in Nat /\ Holding(child') \in Nat
      /\ Holding(child') = Holding(child) - Num(b) + 0
  BY HoldingMoves DEF Num, b
<1>6. active' \in Nat /\ settled' \in Seq(Answers) BY <1>4 DEF GateFits
<1> DEFINE a == active
           a2 == active'
           p == PermitsIn(settled)
           p2 == PermitsIn(settled')
           h == Holding(child)
           h2 == Holding(child')
           g == Num(b)
<1>7. /\ a \in Nat /\ a2 \in Nat /\ p \in Nat /\ p2 \in Nat /\ h \in Nat /\ g \in Nat
      /\ a2 - p2 = a - p - g /\ h2 = h - g + 0
  BY <1>1, <1>4, <1>5, <1>6, PermitsFinite DEF Num
<1> HIDE DEF a, a2, p, p2, h, h2, g
<1>8. a2 - p2 - h2 = a - p - h BY <1>7
<1>9. active' - PermitsIn(settled') - Holding(child') = active - PermitsIn(settled) - Holding(child)
  BY <1>8 DEF a, a2, p, p2, h, h2
<1> QED BY <1>1, <1>4, <1>5, <1>9, GateKept

-----------------------------------------------------------------------------
(* The steps of the pool. *)

\* What is known of a process, and what it may become where it is.
LEMMA Processed ==
  ASSUME RoomInv, NEW c \in Children
  PROVE  /\ child[c] \in Processes
         /\ child[c].state \in ChildStates /\ child[c].permit \in BOOLEAN
         /\ child[c].taken \in BOOLEAN
         /\ child[c].state = "free" => ~child[c].permit
         /\ c \in Pooled => child[c].state # "free" /\ ~child[c].taken
<1>1. child[c] \in Processes BY DEF RoomInv
<1>2. child[c].state = "free" => ~child[c].permit BY DEF RoomInv, Fits
<1>3. c \in Pooled => child[c].state # "free" /\ ~child[c].taken BY DEF RoomInv, Fits, Pooled
<1> QED BY <1>1, <1>2, <1>3 DEF Processes

LEMMA Becomes ==
  ASSUME RoomInv, NEW c \in Children, NEW r \in Processes,
         child' = [child EXCEPT ![c] = r], UNCHANGED <<pool, target>>,
         r.state = "free" => ~r.permit,
         c \in Pooled => r.state # "free" /\ ~r.taken
  PROVE  RoomInv'
<1>1. child' \in [Children -> Processes] BY DEF RoomInv
<1>2. ASSUME NEW i \in DOMAIN pool
      PROVE  child'[pool[i]].state # "free" /\ ~child'[pool[i]].taken
 <2>1. pool[i] \in Children BY LenProperties, ElementOfSeq DEF RoomInv
 <2>2. CASE pool[i] = c
  <3>1. c \in Pooled /\ child'[c] = r BY <2>2 DEF Pooled, RoomInv
  <3> QED BY <2>2, <3>1
 <2>3. CASE pool[i] # c
  <3>1. child'[pool[i]] = child[pool[i]] BY <2>1, <2>3 DEF RoomInv
  <3> QED BY <3>1 DEF RoomInv, Fits
 <2> QED BY <2>2, <2>3
<1>3. ASSUME NEW d \in Children, child'[d].state = "free" PROVE ~child'[d].permit
 <2>1. CASE d = c
  <3>1. child'[d] = r BY <2>1 DEF RoomInv
  <3> QED BY <1>3, <3>1
 <2>2. CASE d # c
  <3>1. child'[d] = child[d] BY <2>2 DEF RoomInv
  <3> QED BY <1>3, <3>1 DEF RoomInv, Fits
 <2> QED BY <2>1, <2>2
<1>4. Fits(child', pool') BY <1>2, <1>3 DEF RoomInv, Fits
<1> QED BY <1>1, <1>4 DEF RoomInv

LEMMA NoChildIsProcess == NoChild \in Processes /\ NoChild.state = "free" /\ ~NoChild.permit
BY DEF NoChild, Processes, ChildStates

LEMMA SpeaksKeeps ==
  ASSUME PoolInv, NEW c \in Children, Speaks(c)
  PROVE  PoolInv'
<1> DEFINE r == IF child[c].taken THEN NoChild ELSE [NoChild EXCEPT !.state = "ready"]
<1>1. /\ GateInv /\ RoomInv /\ RestInv /\ child \in [Children -> Processes] BY DEF PoolInv, RoomInv
<1>2. /\ child' = [child EXCEPT ![c] = r]
      /\ Release(child[c].permit, settled) /\ UNCHANGED start /\ UNCHANGED <<pool, target>>
  BY DEF Speaks
<1>3. /\ r \in Processes /\ ~r.permit
      /\ ~child[c].taken => r.state # "free" /\ ~r.taken
  BY DEF NoChild, Processes, ChildStates
<1>4. c \in Pooled => ~child[c].taken BY <1>1, Processed
<1> HIDE DEF r
<1>5. GateInv' BY <1>1, <1>2, <1>3, PermitBack
<1>6. RoomInv' BY <1>1, <1>2, <1>3, <1>4, Becomes
<1>7. RestInv' BY <1>1, RestKept DEF RestStays, Speaks, flags
<1> QED BY <1>5, <1>6, <1>7 DEF PoolInv

LEMMA ReadyTimeoutKeeps ==
  ASSUME PoolInv, NEW c \in Children, ReadyTimeout(c)
  PROVE  PoolInv'
<1> DEFINE r == Freed(c)
<1>1. /\ GateInv /\ RoomInv /\ RestInv /\ child \in [Children -> Processes] BY DEF PoolInv, RoomInv
<1>2. /\ child' = [child EXCEPT ![c] = r] /\ child[c].permit
      /\ Release(TRUE, settled) /\ UNCHANGED start /\ UNCHANGED <<pool, target>>
  BY DEF ReadyTimeout
<1>3. /\ child[c] \in Processes /\ child[c].state # "free" /\ child[c].permit = TRUE
      /\ c \in Pooled => ~child[c].taken
  BY <1>1, <1>2, Processed
<1>4. /\ r \in Processes /\ ~r.permit
      /\ ~child[c].taken => r.state # "free" /\ ~r.taken
  BY <1>3 DEF Freed, NoChild, Processes, ChildStates
<1>5. Release(child[c].permit, settled) BY <1>2, <1>3
<1> HIDE DEF r
<1>6. GateInv' BY <1>1, <1>2, <1>4, <1>5, PermitBack
<1>7. RoomInv' BY <1>1, <1>2, <1>3, <1>4, Becomes
<1>8. RestInv' BY <1>1, RestKept DEF RestStays, ReadyTimeout, flags
<1> QED BY <1>6, <1>7, <1>8 DEF PoolInv

LEMMA SpawnFailsKeeps ==
  ASSUME PoolInv, NEW c \in Children, SpawnFails(c)
  PROVE  PoolInv'
<1> DEFINE r == [child[c] EXCEPT !.state = "failed"]
<1>1. /\ GateInv /\ RoomInv /\ RestInv /\ child \in [Children -> Processes] BY DEF PoolInv, RoomInv
<1>2. /\ child' = [child EXCEPT ![c] = r]
      /\ UNCHANGED <<gate, start>> /\ UNCHANGED <<pool, target>>
  BY DEF SpawnFails
<1>3. child[c] \in Processes /\ (c \in Pooled => ~child[c].taken) BY <1>1, Processed
<1>4. /\ r \in Processes /\ r.permit = child[c].permit /\ r.taken = child[c].taken
      /\ r.state = "failed"
  BY <1>3 DEF Processes, ChildStates
<1> HIDE DEF r
<1>5. \A d \in Children : child'[d].permit = child[d].permit BY <1>1, <1>2, <1>4
<1>6. GateInv' BY <1>1, <1>2, <1>5, HoldingStays, GateSame
<1>7. RoomInv' BY <1>1, <1>2, <1>3, <1>4, Becomes
<1>8. RestInv' BY <1>1, RestKept DEF RestStays, SpawnFails, flags
<1> QED BY <1>6, <1>7, <1>8 DEF PoolInv

\* splice() at the place of a process.
LEMMA Spliced ==
  ASSUME NEW kept \in Seq(Children), NEW c \in Children,
         \A i, j \in DOMAIN kept : kept[i] = kept[j] => i = j
  PROVE  LET rest == RemoveFirst(kept, c)
         IN  /\ rest \in Seq(Children) /\ Len(rest) <= Len(kept)
             /\ \A i, j \in DOMAIN rest : rest[i] = rest[j] => i = j
             /\ \A i \in DOMAIN rest :
                  rest[i] # c /\ \E j \in DOMAIN kept : kept[j] = rest[i]
<1> DEFINE rest == RemoveFirst(kept, c)
<1>1. Len(kept) \in Nat /\ DOMAIN kept = 1..Len(kept) BY LenProperties
<1>2. CASE \A i \in 1..Len(kept) : kept[i] # c
 <2>1. rest = kept BY <1>2 DEF RemoveFirst
 <2> HIDE DEF rest
 <2>2. /\ rest \in Seq(Children) /\ Len(rest) <= Len(kept)
       /\ \A i, j \in DOMAIN rest : rest[i] = rest[j] => i = j
       /\ \A i \in DOMAIN rest :
            rest[i] # c /\ \E j \in DOMAIN kept : kept[j] = rest[i]
   BY <1>1, <1>2, <2>1
 <2> QED BY <2>2 DEF rest
<1>3. CASE \E i \in 1..Len(kept) : kept[i] = c
 <2>1. PICK k \in 1..Len(kept) : kept[k] = c BY <1>3
 <2>2. \A i \in 1..Len(kept) : kept[i] = c <=> i = k BY <1>1, <2>1
 <2>3. SelectInSeq(kept, LAMBDA v : v = c) = k
  <3>1. {i \in 1..Len(kept) : kept[i] = c} = {k} BY <2>1, <2>2
  <3>2. Min({k}) = k BY <1>1, <2>1 DEF Min
  <3> QED BY <3>1, <3>2 DEF SelectInSeq
 <2>4. rest = SubSeq(kept, 1, k - 1) \o SubSeq(kept, k + 1, Len(kept))
   BY <1>3, <2>3 DEF RemoveFirst, RemoveAt
 <2> DEFINE a == SubSeq(kept, 1, k - 1)
            b == SubSeq(kept, k + 1, Len(kept))
 <2>5. \A i \in 1..Len(kept) : kept[i] \in Children BY ElementOfSeq
 <2>6. /\ a \in Seq(Children) /\ Len(a) = k - 1
       /\ \A i \in 1..(k - 1) : a[i] = kept[i]
  <3>1. \A i \in 1..(k - 1) : kept[i] \in Children BY <1>1, <2>5
  <3>2. /\ a \in Seq(Children)
        /\ Len(a) = IF 1 <= k - 1 THEN (k - 1) - 1 + 1 ELSE 0
        /\ \A i \in 1..((k - 1) - 1 + 1) : a[i] = kept[1 + i - 1]
    BY <1>1, <3>1, SubSeqProperties
  <3>3. Len(a) = k - 1 BY <1>1, <3>2
  <3>4. ASSUME NEW i \in 1..(k - 1) PROVE a[i] = kept[i]
   <4>1. i \in 1..((k - 1) - 1 + 1) /\ 1 + i - 1 = i BY <1>1
   <4> HIDE DEF a
   <4> QED BY <3>2, <4>1
  <3> QED BY <3>2, <3>3, <3>4
 <2>7. /\ b \in Seq(Children) /\ Len(b) = Len(kept) - k
       /\ \A i \in 1..(Len(kept) - k) : b[i] = kept[k + i]
  <3>1. \A i \in (k + 1)..Len(kept) : kept[i] \in Children BY <1>1, <2>5
  <3>2. /\ b \in Seq(Children)
        /\ Len(b) = IF k + 1 <= Len(kept) THEN Len(kept) - (k + 1) + 1 ELSE 0
        /\ \A i \in 1..(Len(kept) - (k + 1) + 1) : b[i] = kept[(k + 1) + i - 1]
    BY <1>1, <3>1, SubSeqProperties
  <3>3. Len(b) = Len(kept) - k
   <4> HIDE DEF b
   <4>1. Len(b) = IF k + 1 <= Len(kept) THEN Len(kept) - (k + 1) + 1 ELSE 0 BY <3>2
   <4>2. k \in Nat /\ Len(kept) \in Nat /\ k <= Len(kept) BY <1>1
   <4>3. CASE k + 1 <= Len(kept) BY <4>1, <4>2, <4>3
   <4>4. CASE ~(k + 1 <= Len(kept))
    <5>1. Len(b) = 0 BY <4>1, <4>4
    <5>2. k = Len(kept) BY <4>2, <4>4
    <5> QED BY <4>2, <5>1, <5>2
   <4> QED BY <4>3, <4>4
  <3>4. ASSUME NEW i \in 1..(Len(kept) - k) PROVE b[i] = kept[k + i]
   <4>1. i \in 1..(Len(kept) - (k + 1) + 1) /\ (k + 1) + i - 1 = k + i BY <1>1
   <4> HIDE DEF b
   <4> QED BY <3>2, <4>1
  <3> QED BY <3>2, <3>3, <3>4
 <2> HIDE DEF a, b
 <2>8. rest = a \o b BY <2>4 DEF a, b
 <2> HIDE DEF rest
 <2>9. /\ rest \in Seq(Children) /\ Len(rest) = Len(kept) - 1
       /\ \A i \in 1..(Len(kept) - 1) : rest[i] = IF i < k THEN kept[i] ELSE kept[i + 1]
  <3>1. /\ rest \in Seq(Children) /\ Len(rest) = Len(a) + Len(b)
        /\ \A i \in 1..(Len(a) + Len(b)) : rest[i] = IF i <= Len(a) THEN a[i] ELSE b[i - Len(a)]
   <4>1. a \in Seq(Children) /\ b \in Seq(Children) BY <2>6, <2>7
   <4>2. /\ a \o b \in Seq(Children) /\ Len(a \o b) = Len(a) + Len(b)
         /\ \A i \in 1..(Len(a) + Len(b)) :
              (a \o b)[i] = IF i <= Len(a) THEN a[i] ELSE b[i - Len(a)]
     BY <4>1, ConcatProperties
   <4> QED BY <2>8, <4>2
  <3>2. Len(a) + Len(b) = Len(kept) - 1 BY <1>1, <2>6, <2>7
  <3>3. ASSUME NEW i \in 1..(Len(kept) - 1)
        PROVE  rest[i] = IF i < k THEN kept[i] ELSE kept[i + 1]
   <4>1. rest[i] = IF i <= k - 1 THEN a[i] ELSE b[i - (k - 1)]
    <5>1. i \in 1..(Len(a) + Len(b)) BY <3>2
    <5>2. rest[i] = IF i <= Len(a) THEN a[i] ELSE b[i - Len(a)] BY <3>1, <5>1
    <5>3. Len(a) = k - 1 BY <2>6
    <5> QED BY <5>2, <5>3
   <4>2. CASE i < k
    <5>1. i \in 1..(k - 1) /\ i <= k - 1 BY <1>1, <4>2
    <5> QED BY <4>1, <4>2, <5>1, <2>6
   <4>3. CASE ~(i < k)
    <5>1. i - (k - 1) \in 1..(Len(kept) - k) /\ k + (i - (k - 1)) = i + 1 /\ ~(i <= k - 1)
      BY <1>1, <4>3
    <5>2. b[i - (k - 1)] = kept[k + (i - (k - 1))] BY <2>7, <5>1
    <5> QED BY <4>1, <4>3, <5>1, <5>2
   <4> QED BY <4>2, <4>3
  <3> QED BY <3>1, <3>2, <3>3
 <2>10. DOMAIN rest = 1..(Len(kept) - 1) BY <2>9, LenProperties
 <2>11. \A i \in DOMAIN rest : \E j \in DOMAIN kept :
          kept[j] = rest[i] /\ j # k /\ j = IF i < k THEN i ELSE i + 1
  <3> SUFFICES ASSUME NEW i \in DOMAIN rest
               PROVE  \E j \in DOMAIN kept :
                        kept[j] = rest[i] /\ j # k /\ j = IF i < k THEN i ELSE i + 1
    OBVIOUS
  <3>1. i \in 1..(Len(kept) - 1) BY <2>10
  <3>2. rest[i] = IF i < k THEN kept[i] ELSE kept[i + 1] BY <2>9, <3>1
  <3>3. CASE i < k
   <4>1. i \in DOMAIN kept /\ i # k BY <1>1, <3>1, <3>3
   <4> QED BY <3>2, <3>3, <4>1
  <3>4. CASE ~(i < k)
   <4>1. i + 1 \in DOMAIN kept /\ i + 1 # k BY <1>1, <3>1, <3>4
   <4> QED BY <3>2, <3>4, <4>1
  <3> QED BY <3>3, <3>4
 <2>12. \A i, j \in DOMAIN rest : rest[i] = rest[j] => i = j
  <3> SUFFICES ASSUME NEW i \in DOMAIN rest, NEW j \in DOMAIN rest, rest[i] = rest[j]
               PROVE  i = j
    OBVIOUS
  <3>1. PICK m \in DOMAIN kept : kept[m] = rest[i] /\ m = IF i < k THEN i ELSE i + 1 BY <2>11
  <3>2. PICK n \in DOMAIN kept : kept[n] = rest[j] /\ n = IF j < k THEN j ELSE j + 1 BY <2>11
  <3>3. m = n BY <3>1, <3>2
  <3>4. i \in Int /\ j \in Int /\ k \in Int BY <1>1, <2>10
  <3> QED BY <3>1, <3>2, <3>3, <3>4
 <2>13. \A i \in DOMAIN rest : rest[i] # c /\ \E j \in DOMAIN kept : kept[j] = rest[i]
   BY <1>1, <2>2, <2>11
 <2>14. Len(rest) <= Len(kept) BY <1>1, <2>9
 <2> QED BY <2>9, <2>12, <2>13, <2>14 DEF rest
<1> QED BY <1>1, <1>2, <1>3

\* A pool that keeps some of its processes, none of which went or was taken.
LEMMA Shrinks ==
  ASSUME RoomInv, NEW rest \in Seq(Children), pool' = rest,
         child' \in [Children -> Processes], target' \in 0..MaxWarm, Len(rest) <= target',
         \A i, j \in DOMAIN rest : rest[i] = rest[j] => i = j,
         \A i \in DOMAIN rest : child'[rest[i]].state # "free" /\ ~child'[rest[i]].taken,
         \A c \in Children : child'[c].state = "free" => ~child'[c].permit
  PROVE  RoomInv'
BY DEF RoomInv, Fits

LEMMA ExitKeeps ==
  ASSUME PoolInv, NEW c \in Children, Exit(c)
  PROVE  PoolInv'
<1> DEFINE rest == RemoveFirst(pool, c)
<1>1. /\ GateInv /\ RoomInv /\ RestInv /\ child \in [Children -> Processes]
      /\ pool \in Seq(Children) /\ target \in 0..MaxWarm /\ Len(pool) <= target
      /\ \A i, j \in DOMAIN pool : pool[i] = pool[j] => i = j
  BY DEF PoolInv, RoomInv, Fits
<1>2. /\ child' = [child EXCEPT ![c] = NoChild] /\ pool' = rest
      /\ Release(child[c].permit, settled) /\ UNCHANGED start /\ target' = target
  BY DEF Exit
<1>3. GateInv' BY <1>1, <1>2, NoChildIsProcess, PermitBack
<1>4. /\ rest \in Seq(Children) /\ Len(rest) <= Len(pool)
      /\ \A i, j \in DOMAIN rest : rest[i] = rest[j] => i = j
      /\ \A i \in DOMAIN rest : rest[i] # c /\ \E j \in DOMAIN pool : pool[j] = rest[i]
  BY <1>1, Spliced
<1> HIDE DEF rest
<1>5. child' \in [Children -> Processes] BY <1>1, <1>2, NoChildIsProcess
<1>6. ASSUME NEW d \in Children, child'[d].state = "free" PROVE ~child'[d].permit
  BY <1>1, <1>2, <1>6, NoChildIsProcess, Processed
<1>7. ASSUME NEW i \in DOMAIN rest
      PROVE  child'[rest[i]].state # "free" /\ ~child'[rest[i]].taken
 <2>1. rest[i] # c /\ rest[i] \in Pooled BY <1>4 DEF Pooled
 <2>2. rest[i] \in Children BY <1>4, LenProperties, ElementOfSeq
 <2>3. child'[rest[i]] = child[rest[i]] BY <1>1, <1>2, <2>1, <2>2
 <2> QED BY <1>1, <2>1, <2>2, <2>3, Processed
<1>8. Len(rest) <= target'
 <2>1. Len(rest) \in Nat /\ Len(pool) \in Nat /\ target \in Int
   BY <1>1, <1>4, WarmPoolAssumption, LenProperties
 <2> QED BY <2>1, <1>1, <1>2, <1>4
<1>9. RoomInv' BY <1>1, <1>2, <1>4, <1>5, <1>6, <1>7, <1>8, Shrinks
<1>10. RestInv'
 <2>1. refillDue' \in BOOLEAN BY <1>1 DEF Exit, Replaced, RestInv
 <2> QED BY <1>1, <2>1 DEF RestInv, Exit, flags
<1> QED BY <1>3, <1>9, <1>10 DEF PoolInv

LEMMA LetGoKeeps ==
  ASSUME RoomInv, NEW c \in Children
  PROVE  /\ LetGo(c) \in Processes /\ LetGo(c).permit = child[c].permit
         /\ LetGo(c).state = "free" => ~LetGo(c).permit
<1>1. /\ child[c] \in Processes /\ (child[c].state = "free" => ~child[c].permit)
      /\ child[c].permit \in BOOLEAN
  BY Processed
<1>2. CASE child[c].permit
 <2>1. LetGo(c) = [child[c] EXCEPT !.taken = TRUE] BY <1>2 DEF LetGo
 <2>2. LetGo(c) \in Processes BY <1>1, <2>1 DEF Processes
 <2>3. LetGo(c).permit = child[c].permit /\ LetGo(c).state = child[c].state
   BY <1>1, <2>1 DEF Processes
 <2>4. child[c].state # "free" BY <1>1, <1>2
 <2> QED BY <2>2, <2>3, <2>4
<1>3. CASE ~child[c].permit
 <2>1. LetGo(c) = NoChild BY <1>3 DEF LetGo
 <2>2. NoChild.permit = FALSE BY DEF NoChild
 <2>3. child[c].permit = FALSE BY <1>1, <1>3
 <2> QED BY <2>1, <2>2, <2>3, NoChildIsProcess
<1> QED BY <1>2, <1>3

LEMMA TakeWarmKeeps ==
  ASSUME PoolInv, TakeWarm
  PROVE  PoolInv'
<1> DEFINE c == Head(pool)
           rest == Tail(pool)
<1>1. /\ GateInv /\ RoomInv /\ RestInv /\ child \in [Children -> Processes]
      /\ pool \in Seq(Children) /\ target \in 0..MaxWarm /\ Len(pool) <= target
      /\ \A i, j \in DOMAIN pool : pool[i] = pool[j] => i = j
  BY DEF PoolInv, RoomInv, Fits
<1>2. /\ pool # <<>> /\ child' = [child EXCEPT ![c] = LetGo(c)] /\ pool' = rest
      /\ target' = target
  BY DEF TakeWarm
<1>3. /\ c \in Children /\ rest \in Seq(Children) /\ Len(rest) = Len(pool) - 1
      /\ \A i \in 1..Len(rest) : rest[i] = pool[i + 1]
  BY <1>1, <1>2, HeadTailProperties
<1>4. /\ LetGo(c) \in Processes /\ LetGo(c).permit = child[c].permit
      /\ LetGo(c).state = "free" => ~LetGo(c).permit
  BY <1>1, <1>3, LetGoKeeps
<1>5. /\ DOMAIN rest = 1..Len(rest) /\ DOMAIN pool = 1..Len(pool) /\ Len(pool) \in Nat \ {0}
      /\ c = pool[1]
  BY <1>1, <1>2, <1>3, LenProperties, EmptySeq
<1> HIDE DEF c, rest
<1>6. child' \in [Children -> Processes] BY <1>1, <1>2, <1>4
<1>7. \A d \in Children : child'[d].permit = child[d].permit BY <1>1, <1>2, <1>4
<1>8. UNCHANGED <<gate, start>> BY DEF TakeWarm
<1>9. GateInv' BY <1>1, <1>7, <1>8, HoldingStays, GateSame
<1>10. ASSUME NEW d \in Children, child'[d].state = "free" PROVE ~child'[d].permit
  BY <1>1, <1>2, <1>4, <1>10, Processed
<1>11. \A i \in DOMAIN rest : i + 1 \in DOMAIN pool /\ rest[i] = pool[i + 1] /\ i + 1 # 1
  BY <1>3, <1>5
<1>12. ASSUME NEW i \in DOMAIN rest
       PROVE  child'[rest[i]].state # "free" /\ ~child'[rest[i]].taken
 <2>1. rest[i] # c /\ rest[i] \in Pooled BY <1>1, <1>5, <1>11 DEF Pooled
 <2>2. rest[i] \in Children BY <1>3, LenProperties, ElementOfSeq
 <2>3. child'[rest[i]] = child[rest[i]] BY <1>1, <1>2, <2>1, <2>2
 <2> QED BY <1>1, <2>1, <2>2, <2>3, Processed
<1>13. ASSUME NEW i \in DOMAIN rest, NEW j \in DOMAIN rest, rest[i] = rest[j]
       PROVE  i = j
 <2>1. i + 1 = j + 1 BY <1>1, <1>11, <1>13
 <2>2. i \in Int /\ j \in Int BY <1>3, <1>5
 <2> QED BY <2>1, <2>2
<1>14. Len(rest) <= target'
 <2>1. target \in Int BY <1>1, WarmPoolAssumption
 <2>2. Len(rest) = Len(pool) - 1 /\ Len(pool) \in Nat /\ Len(pool) <= target /\ target' = target
   BY <1>1, <1>2, <1>3, <1>5
 <2> QED BY <2>1, <2>2
<1>15. RoomInv' BY <1>1, <1>2, <1>3, <1>6, <1>10, <1>12, <1>13, <1>14, Shrinks
<1>16. RestInv' BY <1>1 DEF RestInv, TakeWarm, flags
<1> QED BY <1>9, <1>15, <1>16 DEF PoolInv

LEMMA RefilledKeeps ==
  ASSUME PoolInv, settled # <<>>, Head(settled).who = Refill, Refilled(Head(settled).permit)
  PROVE  PoolInv'
<1> DEFINE permit == Head(settled).permit
           rest == Tail(settled)
<1>1. /\ GateInv /\ GateFits /\ RoomInv /\ RestInv /\ child \in [Children -> Processes]
      /\ pool \in Seq(Children) /\ target \in 0..MaxWarm /\ Len(pool) <= target
      /\ \A i, j \in DOMAIN pool : pool[i] = pool[j] => i = j
      /\ queue \in Seq(Names) /\ settled \in Seq(Answers) /\ active \in Nat
      /\ Awaited(queue, settled, start) /\ warmPending \in Nat
  BY DEF PoolInv, RoomInv, Fits, GateInv, GateFits, RestInv
<1>2. /\ permit \in BOOLEAN /\ rest \in Seq(Answers)
      /\ PermitsIn(settled) = PermitsIn(rest) + Num(permit)
      /\ PermitsIn(rest) \in Nat
  BY <1>1, HeadKnows
<1>3. permit => active > 0 BY <1>1, PermitCounted
<1>4. Awaited(queue, rest, start) BY <1>1, AwaitedTailed
<1>5. RestInv'
 <2>1. warmPending' \in Nat BY <1>1 DEF Refilled, RefillsPending
 <2> QED BY <1>1, <2>1 DEF RestInv, Refilled, flags
<1>6. CASE Unwanted
 <2>1. /\ Release(permit, rest) /\ child' = child /\ pool' = pool
       /\ target' = target /\ start' = start
   BY <1>6 DEF Refilled
 <2> HIDE DEF permit, rest
 <2>2. /\ GateFits'
       /\ active' - PermitsIn(settled') = active - PermitsIn(rest) - Num(permit)
       /\ \A X : Awaited(queue, rest, X) => Awaited(queue', settled', X)
   BY <1>1, <1>2, <1>3, <2>1, Released
 <2>3. Awaited(queue', settled', start) BY <1>4, <2>2
 <2>4. active' \in Nat /\ settled' \in Seq(Answers) BY <2>2 DEF GateFits
 <2> DEFINE a == active
            a2 == active'
            p == PermitsIn(settled)
            p1 == PermitsIn(rest)
            p2 == PermitsIn(settled')
            h == Holding(child)
            g == Num(permit)
 <2>5. /\ a \in Nat /\ a2 \in Nat /\ p1 \in Nat /\ p2 \in Nat /\ h \in Nat /\ g \in Nat
       /\ p = p1 + g /\ a2 - p2 = a - p1 - g
   BY <1>1, <1>2, <2>2, <2>4, PermitsFinite, HoldingNat DEF Num
 <2> HIDE DEF a, a2, p, p1, p2, h, g
 <2>6. a2 - p2 - h = a - p - h BY <2>5
 <2>7. active' - PermitsIn(settled') - Holding(child') = active - PermitsIn(settled) - Holding(child)
   BY <2>1, <2>6 DEF a, a2, p, p2, h
 <2>8. GateInv' BY <1>1, <2>1, <2>2, <2>3, <2>7, GateKept, HoldingNat
 <2>9. RoomInv' BY <1>1, <2>1, RoomKept DEF RoomStays
 <2> QED BY <1>5, <2>8, <2>9 DEF PoolInv
<1>7. CASE ~Unwanted
 <2>1. PICK c \in Children :
         /\ child[c].state = "free"
         /\ child' = [child EXCEPT ![c] = [state |-> "silent", permit |-> permit,
                                          taken |-> FALSE]]
         /\ pool' = Append(pool, c)
         /\ Release(FALSE, rest)
   BY <1>7 DEF Refilled
 <2> DEFINE r == [state |-> "silent", permit |-> permit, taken |-> FALSE]
 <2>2. r \in Processes /\ r.permit = permit /\ r.state # "free" /\ ~r.taken
   BY <1>2 DEF Processes, ChildStates
 <2>3. child' = [child EXCEPT ![c] = r] BY <2>1
 <2>4. target' = target /\ start' = start /\ Len(pool) < target
  <3>1. target \in Int /\ Len(pool) \in Nat BY <1>1, WarmPoolAssumption, LenProperties
  <3>2. ~(Len(pool) >= target) BY <1>7 DEF Unwanted
  <3> QED BY <3>1, <3>2 DEF Refilled
 <2>5. ~child[c].permit /\ c \notin Pooled /\ child[c].permit \in BOOLEAN BY <1>1, <2>1, Processed
 <2> HIDE DEF permit, rest, r
 <2>6. /\ Holding(child) \in Nat /\ Holding(child') \in Nat
       /\ Holding(child') = Holding(child) - Num(child[c].permit) + Num(r.permit)
   BY <1>1, <2>2, <2>3, HoldingMoves
 <2>7. Holding(child') = Holding(child) - 0 + Num(permit) BY <2>2, <2>5, <2>6 DEF Num
 <2>8. /\ GateFits'
       /\ active' - PermitsIn(settled') = active - PermitsIn(rest) - Num(FALSE)
       /\ \A X : Awaited(queue, rest, X) => Awaited(queue', settled', X)
   BY <1>1, <1>2, <2>1, Released
 <2>9. Awaited(queue', settled', start) BY <1>4, <2>8
 <2>10. active' \in Nat /\ settled' \in Seq(Answers) BY <2>8 DEF GateFits
 <2> DEFINE a == active
            a2 == active'
            p == PermitsIn(settled)
            p1 == PermitsIn(rest)
            p2 == PermitsIn(settled')
            h == Holding(child)
            h2 == Holding(child')
            g == Num(permit)
 <2>11. /\ a \in Nat /\ a2 \in Nat /\ p1 \in Nat /\ p2 \in Nat /\ h \in Nat /\ g \in Nat
        /\ p = p1 + g /\ a2 - p2 = a - p1 - 0 /\ h2 = h - 0 + g
   BY <1>1, <1>2, <2>6, <2>7, <2>8, <2>10, PermitsFinite DEF Num
 <2> HIDE DEF a, a2, p, p1, p2, h, h2, g
 <2>12. a2 - p2 - h2 = a - p - h BY <2>11
 <2>13. active' - PermitsIn(settled') - Holding(child') = active - PermitsIn(settled) - Holding(child)
   BY <2>12 DEF a, a2, p, p2, h, h2
 <2>14. GateInv' BY <1>1, <2>4, <2>6, <2>8, <2>9, <2>13, GateKept
 <2>15. /\ pool' \in Seq(Children) /\ Len(pool') = Len(pool) + 1
        /\ \A i \in 1..Len(pool) : pool'[i] = pool[i]
        /\ pool'[Len(pool) + 1] = c
   BY <1>1, <2>1, AppendProperties
 <2>16. /\ Len(pool) \in Nat /\ DOMAIN pool = 1..Len(pool)
        /\ DOMAIN pool' = 1..(Len(pool) + 1)
   BY <1>1, <2>15, LenProperties
 <2>17. \A i \in DOMAIN pool' : \/ i \in DOMAIN pool /\ pool'[i] = pool[i] /\ pool[i] # c
                                \/ i = Len(pool) + 1 /\ pool'[i] = c
  <3> SUFFICES ASSUME NEW i \in DOMAIN pool'
               PROVE  \/ i \in DOMAIN pool /\ pool'[i] = pool[i] /\ pool[i] # c
                      \/ i = Len(pool) + 1 /\ pool'[i] = c
    OBVIOUS
  <3>1. i \in 1..Len(pool) \/ i = Len(pool) + 1 BY <2>16
  <3>2. ASSUME i \in 1..Len(pool) PROVE pool'[i] = pool[i] /\ i \in DOMAIN pool
    BY <2>15, <2>16, <3>2
  <3>3. ASSUME i \in DOMAIN pool PROVE pool[i] # c BY <2>5, <3>3 DEF Pooled
  <3>4. pool'[Len(pool) + 1] = c BY <2>15
  <3> QED BY <3>1, <3>2, <3>3, <3>4
 <2>18. ASSUME NEW i \in DOMAIN pool', NEW j \in DOMAIN pool', pool'[i] = pool'[j]
        PROVE  i = j
  <3>1. CASE i \in DOMAIN pool /\ pool'[i] = pool[i] /\ pool[i] # c
   <4>1. j \in DOMAIN pool /\ pool'[j] = pool[j] BY <2>17, <2>18, <3>1
   <4> QED BY <1>1, <2>18, <3>1, <4>1
  <3>2. CASE i = Len(pool) + 1 /\ pool'[i] = c BY <2>17, <2>18, <3>2
  <3> QED BY <2>17, <3>1, <3>2
 <2>19. child' \in [Children -> Processes] BY <1>1, <2>2, <2>3
 <2>20. ASSUME NEW i \in DOMAIN pool'
        PROVE  child'[pool'[i]].state # "free" /\ ~child'[pool'[i]].taken
  <3>1. CASE i \in DOMAIN pool /\ pool'[i] = pool[i] /\ pool[i] # c
   <4>1. pool[i] \in Pooled /\ pool[i] \in Children BY <1>1, <2>16, <3>1, ElementOfSeq DEF Pooled
   <4>2. child'[pool[i]] = child[pool[i]] BY <1>1, <2>3, <3>1, <4>1
   <4> QED BY <1>1, <3>1, <4>1, <4>2, Processed
  <3>2. CASE pool'[i] = c BY <1>1, <2>2, <2>3, <3>2
  <3> QED BY <2>17, <3>1, <3>2
 <2>21. ASSUME NEW d \in Children, child'[d].state = "free" PROVE ~child'[d].permit
   BY <1>1, <2>2, <2>3, <2>21, Processed
 <2>22. Len(pool') <= target' /\ target' \in 0..MaxWarm
  <3>1. target \in Int BY <1>1, WarmPoolAssumption
  <3> QED BY <1>1, <2>4, <2>15, <2>16, <3>1
 <2>23. RoomInv' BY <1>1, <2>15, <2>18, <2>19, <2>20, <2>21, <2>22, Shrinks
 <2> QED BY <1>5, <2>14, <2>23 DEF PoolInv
<1> QED BY <1>6, <1>7

-----------------------------------------------------------------------------
(* Configuration, upgrade and shutdown. *)

\* killTree() changes nobody's permit, and nobody's place.
LEMMA KilledKeeps ==
  ASSUME RoomInv, NEW cs, NEW c \in Children
  PROVE  /\ Killed(cs)[c] \in Processes /\ Killed(cs)[c].permit = child[c].permit
         /\ Killed(cs)[c].taken = child[c].taken
         /\ Killed(cs)[c].state = "free" <=> child[c].state = "free"
<1>1. child[c] \in Processes BY Processed
<1>2. CASE c \in cs /\ child[c].state \in {"silent", "ready"}
 <2>1. Killed(cs)[c] = [child[c] EXCEPT !.state = "killed"] BY <1>2 DEF Killed
 <2>2. child[c].state # "free" BY <1>2
 <2> QED BY <1>1, <2>1, <2>2 DEF Processes, ChildStates
<1>3. CASE ~(c \in cs /\ child[c].state \in {"silent", "ready"})
 <2>1. Killed(cs)[c] = child[c] BY <1>3 DEF Killed
 <2> QED BY <1>1, <2>1
<1> QED BY <1>2, <1>3

LEMMA RecycleKeeps ==
  ASSUME PoolInv, Recycle
  PROVE  PoolInv'
<1>1. GateInv /\ RoomInv /\ RestInv BY DEF PoolInv
<1>2. /\ child' = Killed(Pooled) /\ pool' = pool /\ target' = target
      /\ UNCHANGED <<gate, start>>
  BY DEF Recycle
<1>3. \A c \in Children :
        /\ child'[c] \in Processes /\ child'[c].permit = child[c].permit
        /\ child'[c].taken = child[c].taken
        /\ child'[c].state = "free" <=> child[c].state = "free"
  BY <1>1, <1>2, KilledKeeps
<1>4. GateInv' BY <1>1, <1>2, <1>3, HoldingStays, GateSame
<1>5. child' \in [Children -> Processes]
 <2>1. child' = [c \in Children |-> child'[c]] BY <1>2 DEF Killed
 <2> QED BY <1>3, <2>1
<1>6. Fits(child', pool)
 <2>1. \A i \in DOMAIN pool : pool[i] \in Children BY <1>1, LenProperties, ElementOfSeq DEF RoomInv
 <2> QED BY <1>1, <1>3, <2>1 DEF Fits, RoomInv
<1>7. RoomInv' BY <1>1, <1>2, <1>5, <1>6 DEF RoomInv
<1>8. RestInv' BY <1>1 DEF RestInv, Recycle, flags
<1> QED BY <1>4, <1>7, <1>8 DEF PoolInv

LEMMA RefillTimerKeeps ==
  ASSUME PoolInv, RefillTimer
  PROVE  PoolInv'
<1>1. /\ RoomInv /\ RestInv /\ pool \in Seq(Children) /\ target \in Nat
      /\ upgradeHeld \in BOOLEAN /\ pooled \in BOOLEAN
  BY WarmPoolAssumption DEF PoolInv, RoomInv, RestInv
<1>2. /\ RefillPool(upgradeHeld, target, pool, pooled) /\ UNCHANGED start
      /\ child' = child /\ pool' = pool /\ target' = target /\ refillDue' \in BOOLEAN
  BY DEF RefillTimer
<1>3. Holding(child') = Holding(child) BY <1>2
<1>4. GateInv' /\ warmPending' \in Nat /\ pooled' \in BOOLEAN BY <1>1, <1>2, <1>3, RefillPoolOrders
<1>5. RoomInv' BY <1>1, <1>2, RoomKept DEF RoomStays
<1>6. RestInv' BY <1>1, <1>2, <1>4 DEF RestInv, RefillTimer, flags
<1> QED BY <1>4, <1>5, <1>6 DEF PoolInv

LEMMA ResumeKeeps ==
  ASSUME PoolInv, Resume
  PROVE  PoolInv'
<1>1. /\ RoomInv /\ RestInv /\ pool \in Seq(Children) /\ target \in Nat
      /\ pooled \in BOOLEAN
  BY WarmPoolAssumption DEF PoolInv, RoomInv, RestInv
<1>2. /\ UNCHANGED start
      /\ child' = child /\ pool' = pool /\ target' = target
  BY DEF Resume
<1>3. Holding(child') = Holding(child) BY <1>2
<1>4. GateInv' /\ warmPending' \in Nat /\ pooled' \in BOOLEAN
 <2>1. PICK held \in BOOLEAN : RefillPool(held, target, pool, pooled) BY Zenon DEF Resume
 <2> QED BY <1>1, <1>2, <1>3, <2>1, RefillPoolOrders
<1>5. RoomInv' BY <1>1, <1>2, RoomKept DEF RoomStays
<1>6. RestInv' BY <1>1, <1>4 DEF RestInv, Resume
<1> QED BY <1>4, <1>5, <1>6 DEF PoolInv

\* Those that a reload drops or kills.
LEMMA Replaces ==
  ASSUME RoomInv, NEW gone, NEW cs, NEW new,
         new = [c \in Children |-> IF c \in gone /\ child[c].state = "failed"
                                     THEN LetGo(c) ELSE Killed(cs)[c]]
  PROVE  /\ new \in [Children -> Processes]
         /\ \A c \in Children : new[c].permit = child[c].permit
         /\ \A c \in Children : new[c].state = "free" => ~new[c].permit
         /\ \A c \in Children \ gone :
              /\ new[c].taken = child[c].taken
              /\ new[c].state = "free" <=> child[c].state = "free"
<1>1. ASSUME NEW c \in Children
      PROVE  /\ new[c] \in Processes /\ new[c].permit = child[c].permit
             /\ new[c].state = "free" => ~new[c].permit
 <2>1. CASE c \in gone /\ child[c].state = "failed"
  <3>1. new[c] = LetGo(c) BY <2>1
  <3> QED BY <3>1, LetGoKeeps
 <2>2. CASE ~(c \in gone /\ child[c].state = "failed")
  <3>1. new[c] = Killed(cs)[c] BY <2>2
  <3> QED BY <3>1, KilledKeeps, Processed
 <2> QED BY <2>1, <2>2
<1>2. ASSUME NEW c \in Children \ gone
      PROVE  /\ new[c].taken = child[c].taken
             /\ new[c].state = "free" <=> child[c].state = "free"
 <2>1. new[c] = Killed(cs)[c] BY <1>2
 <2> QED BY <2>1, KilledKeeps
<1>3. new \in [Children -> Processes] BY <1>1
<1> QED BY <1>1, <1>2, <1>3

LEMMA ReloadKeeps ==
  ASSUME PoolInv, NEW t \in 0..MaxWarm, NEW policyOnly \in BOOLEAN, Reload(t, policyOnly)
  PROVE  PoolInv'
<1> DEFINE kept == Trimmed(t)
           gone == {pool[i] : i \in (Len(kept) + 1)..Len(pool)}
           cs == IF policyOnly THEN gone ELSE Pooled
<1>1. /\ RoomInv /\ RestInv /\ pool \in Seq(Children) /\ child \in [Children -> Processes]
      /\ \A i, j \in DOMAIN pool : pool[i] = pool[j] => i = j
      /\ upgradeHeld \in BOOLEAN /\ pooled \in BOOLEAN /\ refillDue \in BOOLEAN
  BY DEF PoolInv, RoomInv, RestInv, Fits
<1>2. t \in Nat BY WarmPoolAssumption
<1>3. /\ target' = t /\ pool' = kept /\ UNCHANGED start
      /\ child' = [c \in Children |-> IF c \in gone /\ child[c].state = "failed"
                                        THEN LetGo(c) ELSE Killed(cs)[c]]
      /\ refillDue' = (refillDue \/ ~policyOnly)
      /\ RefillPool(upgradeHeld, t, kept, pooled)
      /\ UNCHANGED flags
  BY DEF Reload
<1>4. Len(pool) \in Nat /\ DOMAIN pool = 1..Len(pool) BY <1>1, LenProperties
<1>5. /\ kept \in Seq(Children) /\ Len(kept) <= Len(pool) /\ Len(kept) <= t
      /\ Len(kept) \in Nat /\ DOMAIN kept = 1..Len(kept)
      /\ \A i \in 1..Len(kept) : kept[i] = pool[i]
 <2> DEFINE n == Least(Len(pool), t)
 <2>1. n \in Nat /\ n <= Len(pool) /\ n <= t BY <1>2, <1>4 DEF Least
 <2> HIDE DEF n
 <2> DEFINE k == SubSeq(pool, 1, n)
 <2>2. \A i \in 1..n : pool[i] \in Children BY <1>1, <1>4, <2>1, ElementOfSeq
 <2>3. /\ k \in Seq(Children) /\ Len(k) = (IF 1 <= n THEN n - 1 + 1 ELSE 0)
       /\ \A i \in 1..(n - 1 + 1) : k[i] = pool[1 + i - 1]
   BY <2>1, <2>2, SubSeqProperties
 <2> HIDE DEF k
 <2>4. Len(k) = n BY <2>1, <2>3
 <2>5. ASSUME NEW i \in 1..n PROVE k[i] = pool[i]
  <3>1. i \in 1..(n - 1 + 1) /\ 1 + i - 1 = i BY <2>1
  <3> QED BY <2>3, <3>1
 <2>6. DOMAIN k = 1..n BY <2>3, <2>4, LenProperties
 <2>7. kept = k BY DEF k, n, Trimmed
 <2> QED BY <2>1, <2>3, <2>4, <2>5, <2>6, <2>7
<1>6. ASSUME NEW i \in DOMAIN kept
      PROVE  kept[i] \in Children \ gone /\ kept[i] \in Pooled
 <2>1. i \in DOMAIN pool /\ kept[i] = pool[i] /\ i <= Len(kept) BY <1>4, <1>5
 <2>2. pool[i] \in Children /\ pool[i] \in Pooled BY <1>1, <1>4, <2>1, ElementOfSeq DEF Pooled
 <2>3. ASSUME NEW j \in (Len(kept) + 1)..Len(pool) PROVE pool[j] # pool[i]
  <3>1. j \in DOMAIN pool /\ j # i BY <1>4, <1>5, <2>1
  <3> QED BY <1>1, <2>1, <3>1
 <2> QED BY <2>1, <2>2, <2>3
<1>7. \A i, j \in DOMAIN kept : kept[i] = kept[j] => i = j BY <1>1, <1>4, <1>5
<1> HIDE DEF kept, gone, cs
<1>8. /\ child' \in [Children -> Processes]
      /\ \A c \in Children : child'[c].permit = child[c].permit
      /\ \A c \in Children : child'[c].state = "free" => ~child'[c].permit
      /\ \A c \in Children \ gone :
           /\ child'[c].taken = child[c].taken
           /\ child'[c].state = "free" <=> child[c].state = "free"
  BY <1>1, <1>3, Replaces
<1>9. Holding(child') = Holding(child) BY <1>8, HoldingStays
<1>10. GateInv' /\ warmPending' \in Nat /\ pooled' \in BOOLEAN
  BY <1>1, <1>2, <1>3, <1>5, <1>9, RefillPoolOrders
<1>11. ASSUME NEW i \in DOMAIN kept
       PROVE  child'[kept[i]].state # "free" /\ ~child'[kept[i]].taken
  BY <1>1, <1>6, <1>8, Processed
<1>12. RoomInv' BY <1>1, <1>3, <1>5, <1>7, <1>8, <1>11, Shrinks
<1>13. RestInv' BY <1>1, <1>3, <1>10 DEF RestInv, flags
<1> QED BY <1>10, <1>12, <1>13 DEF PoolInv

LEMMA RemoveServerKeeps ==
  ASSUME PoolInv, RemoveServer
  PROVE  PoolInv'
<1>1. GateInv /\ RoomInv /\ RestInv BY DEF PoolInv
<1>2. /\ target' = 0 /\ pool' = <<>> /\ UNCHANGED <<gate, start>>
      /\ child' = [c \in Children |-> IF c \in Pooled /\ child[c].state = "failed"
                                        THEN LetGo(c) ELSE Killed(Pooled)[c]]
  BY DEF RemoveServer
<1>3. /\ child' \in [Children -> Processes]
      /\ \A c \in Children : child'[c].permit = child[c].permit
      /\ \A c \in Children : child'[c].state = "free" => ~child'[c].permit
  BY <1>1, <1>2, Replaces, SMTT(30), ZenonT(30)
<1>4. GateInv' BY <1>1, <1>2, <1>3, HoldingStays, GateSame
<1>5. pool' \in Seq(Children) /\ Len(pool') = 0 /\ DOMAIN pool' = {} BY <1>2, EmptySeq
<1>6. 0 \in 0..MaxWarm BY WarmPoolAssumption
<1>7. RoomInv'
 <2>1. Fits(child', pool') BY <1>3, <1>5 DEF Fits
 <2>2. target' \in 0..MaxWarm /\ Len(pool') <= target' BY <1>2, <1>5, <1>6
 <2> QED BY <1>3, <1>5, <2>1, <2>2 DEF RoomInv
<1>8. RestInv' BY <1>1 DEF RestInv, RemoveServer, flags
<1> QED BY <1>4, <1>7, <1>8 DEF PoolInv

\* Holds, shutdown and stuttering move flags only.
LEMMA FlagsKeep ==
  ASSUME PoolInv, Hold \/ BeginShutdown \/ UNCHANGED vars
  PROVE  PoolInv'
<1>1. GateInv /\ RoomInv /\ RestInv BY DEF PoolInv
<1>2. UNCHANGED <<gate, start>> /\ UNCHANGED <<child, pool, target>>
  BY DEF Hold, BeginShutdown, vars
<1>3. GateInv' BY <1>1, <1>2, GateSame
<1>4. RoomInv' BY <1>1, <1>2, RoomKept DEF RoomStays
<1>5. RestInv' BY <1>1 DEF RestInv, Hold, BeginShutdown, vars, flags
<1> QED BY <1>3, <1>4, <1>5 DEF PoolInv

-----------------------------------------------------------------------------
(* The theorems. *)

LEMMA PoolStarts == Init => PoolInv
<1> SUFFICES ASSUME Init PROVE PoolInv OBVIOUS
<1>1. /\ active = 0 /\ queue = <<>> /\ settled = <<>> /\ start = [s \in Starts |-> "idle"]
      /\ child = [c \in Children |-> NoChild] /\ pool = <<>>
      /\ target \in 1..MaxWarm
  BY DEF Init
<1>2. MaxSpawns \in Nat /\ MaxWarm \in Nat BY WarmPoolAssumption
<1>3. PermitsIn(settled) = 0 /\ Spawned(start) = 0 /\ Holding(child) = 0
 <2>1. {i \in DOMAIN settled : settled[i].permit} = {} BY <1>1
 <2>2. {s \in Starts : start[s] = "spawned"} = {} BY <1>1
 <2>3. {c \in Children : child[c].permit} = {} BY <1>1 DEF NoChild
 <2> QED BY <2>1, <2>2, <2>3, FS_EmptySet DEF PermitsIn, Spawned, Holding
<1>4. queue \in Seq(Names) /\ settled \in Seq(Answers) /\ pool \in Seq(Children)
      /\ DOMAIN queue = {} /\ DOMAIN settled = {} /\ DOMAIN pool = {} /\ Len(pool) = 0
  BY <1>1, EmptySeq
<1>5. GateFits BY <1>1, <1>2, <1>4 DEF GateFits
<1>6. start \in [Starts -> Phases] BY <1>1 DEF Phases
<1>7. Awaited(queue, settled, start) BY <1>4 DEF Awaited
<1>8. GateInv BY <1>1, <1>3, <1>5, <1>6, <1>7 DEF GateInv
<1>9. child \in [Children -> Processes] BY <1>1, NoChildIsProcess
<1>10. Fits(child, pool) BY <1>1, <1>4 DEF Fits, NoChild
<1>11. RoomInv BY <1>1, <1>2, <1>4, <1>9, <1>10 DEF RoomInv
<1>12. RestInv
 <2>1. /\ warmPending = 0 /\ pooled = FALSE /\ refillDue = TRUE
       /\ upgradeHeld \in BOOLEAN /\ shuttingDown = FALSE
   BY DEF Init
 <2> QED BY <2>1 DEF RestInv
<1> QED BY <1>8, <1>11, <1>12 DEF PoolInv

LEMMA PoolStays == PoolInv /\ [Next]_vars => PoolInv'
<1> SUFFICES ASSUME PoolInv, [Next]_vars PROVE PoolInv' OBVIOUS
<1>1. CASE Microtask
 <2>1. CASE Head(settled).who = Refill BY <1>1, <2>1, RefilledKeeps DEF Microtask
 <2>2. CASE Head(settled).who # Refill BY <1>1, <2>2, ColdStartedKeeps DEF Microtask
 <2> QED BY <2>1, <2>2
<1>2. CASE RefillTimer BY <1>2, RefillTimerKeeps
<1>3. CASE TakeWarm BY <1>3, TakeWarmKeeps
<1>4. CASE GateTimeout BY <1>4, GateTimeoutKeeps
<1>5. ASSUME NEW s \in Starts, ColdStart(s) PROVE PoolInv' BY <1>5, ColdStartKeeps
<1>6. ASSUME NEW s \in Starts, ColdReady(s) PROVE PoolInv' BY <1>6, ColdReadyKeeps
<1>7. ASSUME NEW c \in Children, Speaks(c) PROVE PoolInv' BY <1>7, SpeaksKeeps
<1>8. ASSUME NEW c \in Children, ReadyTimeout(c) PROVE PoolInv' BY <1>8, ReadyTimeoutKeeps
<1>9. ASSUME NEW c \in Children, SpawnFails(c) PROVE PoolInv' BY <1>9, SpawnFailsKeeps
<1>10. ASSUME NEW c \in Children, Exit(c) PROVE PoolInv' BY <1>10, ExitKeeps
<1>11. CASE Recycle BY <1>11, RecycleKeeps
<1>12. CASE RemoveServer BY <1>12, RemoveServerKeeps
<1>13. CASE Resume BY <1>13, ResumeKeeps
<1>14. ASSUME NEW t \in 0..MaxWarm, NEW policyOnly \in BOOLEAN, Reload(t, policyOnly)
       PROVE  PoolInv'
  BY <1>14, ReloadKeeps
<1>15. CASE Hold \/ BeginShutdown \/ UNCHANGED vars BY <1>15, FlagsKeep
<1> QED BY <1>1, <1>2, <1>3, <1>4, <1>5, <1>6, <1>7, <1>8, <1>9, <1>10, <1>11, <1>12,
<1>13, <1>14, <1>15 DEF Next, Callback, Warm, Bridge

\* The inductive invariant: the books of the gate, who waits at it, and what the
\* pool holds agree through every wait, timer, exit, reload and shutdown.
THEOREM PoolInvariance == Spec => []PoolInv
BY PoolStarts, PoolStays, PTL DEF Spec

\* For any cold starts, processes and limits: a permit is with one caller or one
\* process, nobody waits beside a free one, and the pool is within its target.
THEOREM PoolIsAccounted == Spec => []PoolAccounted
<1>1. PoolInv => PoolAccounted
  BY DEF PoolInv, GateInv, GateFits, RoomInv, PoolAccounted, PermitsCounted, PermitsOut, PermitsIn,
    Spawned, Holding, WaitsOnlyWhenTaken, WithinTarget
<1> QED BY PoolInvariance, <1>1, PTL
===============================================================================

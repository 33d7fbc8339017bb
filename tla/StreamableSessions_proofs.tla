---------------------- MODULE StreamableSessions_proofs ----------------------
(***************************************************************************)
(* Proofs about StreamableSessions, for any handlers, ids and processes    *)
(* and any limit: slots are accounted for, an id and its process stay      *)
(* together, one restore runs for an id at a time, and no caller waits     *)
(* beside a free slot.                                                     *)
(***************************************************************************)
EXTENDS StreamableSessions, FiniteSetTheorems, SequenceTheorems, TLAPS

-----------------------------------------------------------------------------
(* The invariant. *)

Handlers == [pc : Phases, init : BOOLEAN, sid : Sids \cup {None},
             child : Children \cup {None}, old : BOOLEAN]

Processes == [state : ChildStates, sid : Sids \cup {None}, by : Killers, spared : BOOLEAN]

\* What a handler refers to where it stands.
Refers(h) ==
    /\ h.pc \in {"joined", "handshake", "serve", "pending", "abandon"} => h.sid # None
    /\ h.pc \in {"handshake", "serve", "pending"} => h.child # None

\* The queue of awaitSlot() holds those who wait, each once.
QueueFits(queue, posts) ==
    /\ \A i \in DOMAIN queue : posts[queue[i]].pc = "waiting"
    /\ \A i, j \in DOMAIN queue : queue[i] = queue[j] => i = j
    /\ \A p \in Posts : posts[p].pc = "waiting" => \E i \in DOMAIN queue : queue[i] = p

\* The handlers that have a reservation.
Reserving(posts) == {p \in Posts : posts[p].pc \in {"admitted", "gate"}}

SlotsFit(sessions, starting, posts) ==
    Cap > 0 => /\ starting = Cardinality(Reserving(posts))
               /\ SessionCount(sessions) + starting <= Cap

\* An id and its process name each other, until one of them is given up.
Mapped(s) ==
    httpSessions[s] # None =>
      /\ child[httpSessions[s]].state # "free"
      /\ child[httpSessions[s]].state # "failed" => child[httpSessions[s]].sid = s
      /\ child[httpSessions[s]].by # "reap"

Reached(c) ==
    child[c].state \in {"new", "running"} =>
      child[c].sid # None /\ httpSessions[child[c].sid] = c

\* What is restored: by one handler, which finds its id without a process.
Early(p) == post[p].pc \in {"waiting", "admitted", "gate"}

Alone(p) ==
    Restoring(p) =>
      /\ resuming[post[p].sid] # 0
      /\ \A q \in Posts : Restoring(q) /\ post[q].sid = post[p].sid => q = p
      /\ Early(p) => httpSessions[post[p].sid] = None

Restored(s) == resuming[s] # 0 => \E p \in Posts : Restoring(p) /\ post[p].sid = s

Heard(q) == post[q].pc = "joined" => resuming[post[q].sid] # 0

\* The process of a handler was not taken by the reaper.
Unreaped(p) ==
    /\ post[p].pc \in {"pending", "handshake", "serve", "abandon"}
    /\ post[p].child # None
    => child[post[p].child].by # "reap"

StreamInv ==
    /\ TypeOK
    /\ \A p \in Posts : Refers(post[p])
    /\ QueueFits(waiters, post)
    /\ SlotsFit(httpSessions, startingSessions, post)
    /\ \A s \in Sids : Mapped(s) /\ Restored(s)
    /\ \A c \in Children : Reached(c)
    /\ \A p \in Posts : Alone(p) /\ Heard(p) /\ Unreaped(p)

-----------------------------------------------------------------------------
(* Counting. *)

LEMMA CountIsNat ==
  ASSUME NEW sessions
  PROVE  SessionCount(sessions) \in Nat
BY SessionsAssumption, FS_Subset, FS_CardinalityType DEF SessionCount

\* A map with no more ids has no more sessions.
LEMMA CountLess ==
  ASSUME NEW old, NEW new, \A s \in Sids : new[s] # None => old[s] # None
  PROVE  SessionCount(new) <= SessionCount(old)
<1> DEFINE S == {s \in Sids : old[s] # None}
           T == {s \in Sids : new[s] # None}
<1>1. IsFiniteSet(S) BY SessionsAssumption, FS_Subset
<1>2. T \in SUBSET S OBVIOUS
<1> QED BY <1>1, <1>2, FS_Subset DEF SessionCount

LEMMA CountPut ==
  ASSUME NEW old \in [Sids -> Children \cup {None}], NEW s \in Sids, NEW c \in Children,
         old[s] = None
  PROVE  SessionCount([old EXCEPT ![s] = c]) = SessionCount(old) + 1
<1> DEFINE S == {t \in Sids : old[t] # None}
           T == {t \in Sids : [old EXCEPT ![s] = c][t] # None}
<1>1. IsFiniteSet(S) BY SessionsAssumption, FS_Subset
<1>2. T = S \cup {s} /\ s \notin S BY SessionsAssumption
<1> HIDE DEF S, T
<1>3. Cardinality(T) = Cardinality(S) + 1 BY <1>1, <1>2, FS_AddElement
<1> QED BY <1>3 DEF SessionCount, S, T

LEMMA CountDrop ==
  ASSUME NEW old \in [Sids -> Children \cup {None}], NEW s \in Sids, old[s] # None
  PROVE  SessionCount([old EXCEPT ![s] = None]) = SessionCount(old) - 1
<1> DEFINE S == {t \in Sids : old[t] # None}
           T == {t \in Sids : [old EXCEPT ![s] = None][t] # None}
<1>1. IsFiniteSet(S) BY SessionsAssumption, FS_Subset
<1>2. T = S \ {s} /\ s \in S OBVIOUS
<1> HIDE DEF S, T
<1>3. Cardinality(T) = Cardinality(S) - 1 BY <1>1, <1>2, FS_RemoveElement
<1> QED BY <1>3 DEF SessionCount, S, T

LEMMA ReservingFinite ==
  ASSUME NEW posts
  PROVE  IsFiniteSet(Reserving(posts)) /\ Cardinality(Reserving(posts)) \in Nat
BY SessionsAssumption, FS_Subset, FS_CardinalityType DEF Reserving

LEMMA ReservingAdded ==
  ASSUME NEW old, NEW new, NEW p, Reserving(new) = Reserving(old) \cup {p}, p \notin Reserving(old)
  PROVE  Cardinality(Reserving(new)) = Cardinality(Reserving(old)) + 1
BY ReservingFinite, FS_AddElement

LEMMA ReservingRemoved ==
  ASSUME NEW old, NEW new, NEW p, Reserving(new) = Reserving(old) \ {p}, p \in Reserving(old)
  PROVE  Cardinality(Reserving(new)) = Cardinality(Reserving(old)) - 1
BY ReservingFinite, FS_RemoveElement

-----------------------------------------------------------------------------
(* The queue of awaitSlot(). *)

LEMMA QueueSame ==
  ASSUME NEW queue \in Seq(Posts), NEW old, NEW new, QueueFits(queue, old),
         \A p \in Posts : new[p].pc = "waiting" <=> old[p].pc = "waiting"
  PROVE  QueueFits(queue, new)
<1>1. \A i \in DOMAIN queue : queue[i] \in Posts BY ElementOfSeq
<1> QED BY <1>1 DEF QueueFits

LEMMA QueueJoined ==
  ASSUME NEW queue \in Seq(Posts), NEW old, NEW new, NEW p \in Posts, QueueFits(queue, old),
         old[p].pc # "waiting", new[p].pc = "waiting",
         \A q \in Posts \ {p} : new[q].pc = "waiting" <=> old[q].pc = "waiting"
  PROVE  QueueFits(Append(queue, p), new)
<1> DEFINE w == Append(queue, p)
           n == Len(queue)
<1>1. n \in Nat /\ DOMAIN queue = 1..n /\ \A i \in 1..n : queue[i] \in Posts
  BY ElementOfSeq, LenProperties
<1>2. DOMAIN w = 1..n + 1 /\ w[n + 1] = p /\ \A i \in 1..n : w[i] = queue[i]
  BY <1>1, AppendProperties
<1> HIDE DEF w, n
<1>3. \A i \in 1..n : old[queue[i]].pc = "waiting" BY <1>1 DEF QueueFits
<1>4. \A i \in 1..n : queue[i] # p BY <1>3
<1>5. \A i \in 1..n + 1 : i = n + 1 \/ i \in 1..n BY <1>1
<1>6. \A i \in DOMAIN w : new[w[i]].pc = "waiting" BY <1>1, <1>2, <1>3, <1>4, <1>5
<1>7. \A i, j \in DOMAIN w : w[i] = w[j] => i = j BY <1>1, <1>2, <1>4, <1>5 DEF QueueFits
<1>8. ASSUME NEW q \in Posts, new[q].pc = "waiting" PROVE \E i \in DOMAIN w : w[i] = q
 <2>1. CASE q = p BY <2>1, <1>1, <1>2
 <2>2. CASE q # p BY <2>2, <1>8, <1>1, <1>2 DEF QueueFits
 <2> QED BY <2>1, <2>2
<1> QED BY <1>6, <1>7, <1>8 DEF QueueFits, w

LEMMA QueueServed ==
  ASSUME NEW queue \in Seq(Posts), NEW old, NEW new, QueueFits(queue, old), queue # <<>>,
         new[Head(queue)].pc # "waiting",
         \A q \in Posts \ {Head(queue)} : new[q].pc = "waiting" <=> old[q].pc = "waiting"
  PROVE  QueueFits(Tail(queue), new) /\ Tail(queue) \in Seq(Posts)
<1> DEFINE w == Tail(queue)
           n == Len(queue)
<1>1. n \in Nat /\ DOMAIN queue = 1..n /\ \A i \in 1..n : queue[i] \in Posts
  BY ElementOfSeq, LenProperties
<1>2. /\ n >= 1 /\ Head(queue) = queue[1] /\ w \in Seq(Posts)
      /\ DOMAIN w = 1..n - 1 /\ \A i \in 1..n - 1 : w[i] = queue[i + 1]
 <2>1. /\ Head(queue) \in Posts /\ w \in Seq(Posts) /\ Len(w) = n - 1
       /\ \A i \in 1..Len(w) : w[i] = queue[i + 1]
   BY HeadTailProperties
 <2>2. n >= 1 /\ Head(queue) = queue[1] BY <1>1, EmptySeq
 <2> HIDE DEF w
 <2>3. DOMAIN w = 1..Len(w) BY <2>1, LenProperties
 <2>4. \A i \in 1..n - 1 : w[i] = queue[i + 1] BY <2>1
 <2> QED BY <2>1, <2>2, <2>3, <2>4
<1> HIDE DEF w, n
<1>3. \A i \in 1..n - 1 : i + 1 \in 1..n /\ i + 1 # 1 BY <1>1, <1>2
<1>4. 1 \in 1..n BY <1>1, <1>2
<1>5. \A i \in 1..n : i # 1 => queue[i] # Head(queue) BY <1>1, <1>2, <1>4, SMTT(30), ZenonT(30) DEF QueueFits
<1>6. \A i \in DOMAIN w : new[w[i]].pc = "waiting"
 <2> TAKE i \in DOMAIN w
 <2>1. w[i] = queue[i + 1] /\ i + 1 \in 1..n /\ i + 1 # 1 BY <1>2, <1>3
 <2>2. w[i] \in Posts /\ w[i] # Head(queue) BY <2>1, <1>1, <1>5
 <2>3. old[w[i]].pc = "waiting" BY <2>1, <1>1 DEF QueueFits
 <2> QED BY <2>2, <2>3
<1>7. ASSUME NEW i \in DOMAIN w, NEW j \in DOMAIN w, w[i] = w[j] PROVE i = j
 <2>1. queue[i + 1] = queue[j + 1] BY <1>2, <1>7
 <2>2. i + 1 = j + 1 BY <2>1, <1>1, <1>2, <1>3 DEF QueueFits
 <2> QED BY <2>2, <1>1, <1>2
<1>8. ASSUME NEW q \in Posts, new[q].pc = "waiting" PROVE \E i \in DOMAIN w : w[i] = q
 <2>1. q # Head(queue) /\ old[q].pc = "waiting" BY <1>8
 <2>2. PICK i \in 1..n : queue[i] = q BY <2>1, <1>1 DEF QueueFits
 <2>3. i # 1 BY <2>1, <2>2, <1>2
 <2>4. i - 1 \in 1..n - 1 /\ (i - 1) + 1 = i BY <2>3, <1>1
 <2> QED BY <2>2, <2>4, <1>2
<1> QED BY <1>2, <1>6, <1>7, <1>8 DEF QueueFits, w

LEMMA QueueLeft ==
  ASSUME NEW queue \in Seq(Posts), NEW old, NEW new, QueueFits(queue, old),
         NEW k \in DOMAIN queue, new[queue[k]].pc # "waiting",
         \A q \in Posts \ {queue[k]} : new[q].pc = "waiting" <=> old[q].pc = "waiting"
  PROVE  QueueFits(RemoveAt(queue, k), new) /\ RemoveAt(queue, k) \in Seq(Posts)
<1> DEFINE w == RemoveAt(queue, k)
           n == Len(queue)
           a == SubSeq(queue, 1, k - 1)
           b == SubSeq(queue, k + 1, n)
<1>1. n \in Nat /\ DOMAIN queue = 1..n /\ \A i \in 1..n : queue[i] \in Posts
  BY ElementOfSeq, LenProperties
<1>2. k \in 1..n BY <1>1
<1>3. /\ a \in Seq(Posts) /\ Len(a) = k - 1 /\ \A j \in 1..k - 1 : a[j] = queue[j]
  BY <1>1, <1>2, SubSeqProperties
<1>4. /\ b \in Seq(Posts) /\ Len(b) = n - k /\ \A j \in 1..n - k : b[j] = queue[k + j]
 <2>1. \A j \in k + 1..n : j \in 1..n BY <1>1, <1>2
 <2>2. \A j \in k + 1..n : queue[j] \in Posts BY <2>1, <1>1
 <2>3. /\ b \in Seq(Posts) /\ Len(b) = IF k + 1 <= n THEN n - (k + 1) + 1 ELSE 0
       /\ \A j \in 1..n - (k + 1) + 1 : b[j] = queue[(k + 1) + j - 1]
   BY <2>2, <1>1, <1>2, SubSeqProperties
 <2> HIDE DEF a, b, n
 <2>4. /\ n - (k + 1) + 1 = n - k /\ (k + 1 <= n \/ n - k = 0)
       /\ \A j \in 1..n - k : (k + 1) + j - 1 = k + j
   BY <1>1, <1>2
 <2>5. Len(b) = n - k BY <2>3, <2>4
 <2>6. \A j \in 1..n - k : b[j] = queue[k + j] BY <2>3, <2>4
 <2> QED BY <2>3, <2>5, <2>6
<1>5. w = a \o b BY Zenon DEF RemoveAt
<1> HIDE DEF a, b, w, n
<1>6. /\ w \in Seq(Posts) /\ Len(w) = Len(a) + Len(b)
      /\ \A j \in 1..Len(a) + Len(b) : w[j] = IF j <= Len(a) THEN a[j] ELSE b[j - Len(a)]
  BY <1>3, <1>4, <1>5, ConcatProperties
<1>7. DOMAIN w = 1..n - 1 BY <1>1, <1>2, <1>3, <1>4, <1>6, LenProperties
<1> DEFINE at(j) == IF j < k THEN j ELSE j + 1
<1>8. \A j \in 1..n - 1 : w[j] = queue[at(j)]
 <2> TAKE j \in 1..n - 1
 <2>1. CASE j < k BY <2>1, <1>1, <1>2, <1>3, <1>4, <1>6
 <2>2. CASE ~(j < k)
  <3>1. /\ ~(j <= Len(a)) /\ j - Len(a) \in 1..n - k /\ k + (j - Len(a)) = j + 1
        /\ j \in 1..Len(a) + Len(b)
    BY <2>2, <1>1, <1>2, <1>3, <1>4
  <3>2. w[j] = b[j - Len(a)] BY <3>1, <1>6
  <3>3. b[j - Len(a)] = queue[j + 1] BY <3>1, <1>4
  <3> QED BY <3>2, <3>3, <2>2
 <2> QED BY <2>1, <2>2
<1>9. \A j \in 1..n - 1 : at(j) \in 1..n /\ at(j) # k BY <1>1, <1>2
<1>10. \A i, j \in 1..n - 1 : at(i) = at(j) => i = j BY <1>1, <1>2
<1>11. \A i \in 1..n : i # k => \E j \in 1..n - 1 : at(j) = i
 <2> TAKE i \in 1..n
 <2>1. ASSUME i < k PROVE \E j \in 1..n - 1 : at(j) = i BY <2>1, <1>1, <1>2
 <2>2. ASSUME i > k PROVE \E j \in 1..n - 1 : at(j) = i BY <2>2, <1>1, <1>2
 <2> QED BY <2>1, <2>2, <1>1, <1>2
<1> HIDE DEF at
<1>12. \A i \in 1..n : i # k => queue[i] # queue[k] BY <1>1, <1>2 DEF QueueFits
<1>13. \A j \in DOMAIN w : new[w[j]].pc = "waiting" BY <1>1, <1>7, <1>8, <1>9, <1>12 DEF QueueFits
<1>14. ASSUME NEW i \in DOMAIN w, NEW j \in DOMAIN w, w[i] = w[j] PROVE i = j
  BY <1>7, <1>8, <1>14, <1>1, <1>9, <1>10 DEF QueueFits
<1>15. ASSUME NEW q \in Posts, new[q].pc = "waiting" PROVE \E j \in DOMAIN w : w[j] = q
 <2>1. q # queue[k] BY <1>15
 <2>2. PICK i \in 1..n : queue[i] = q BY <2>1, <1>15, <1>1 DEF QueueFits
 <2>3. i # k BY <2>1, <2>2
 <2> QED BY <2>2, <2>3, <1>7, <1>8, <1>11
<1> QED BY <1>6, <1>13, <1>14, <1>15 DEF QueueFits, w

\* Who is at the head of the queue takes the free slot.
Woken(old, new) ==
    \A p \in Posts : \/ new[p] = old[p]
                     \/ /\ old[p].pc = "waiting"
                        /\ new[p] = [old[p] EXCEPT !.pc = "admitted"]

LEMMA FreedFits ==
  ASSUME NEW sessions, NEW starting \in Nat, NEW posts \in [Posts -> Handlers],
         waiters \in Seq(Posts), QueueFits(waiters, posts), SlotsFit(sessions, starting, posts),
         SlotFreed(sessions, starting, posts)
  PROVE  /\ httpSessions' = sessions /\ startingSessions' \in Nat
         /\ waiters' \in Seq(Posts) /\ post' \in [Posts -> Handlers]
         /\ QueueFits(waiters', post') /\ SlotsFit(sessions, startingSessions', post')
         /\ Woken(posts, post')
<1> DEFINE h == Head(waiters)
<1>1. httpSessions' = sessions BY DEF SlotFreed
<1>2. CASE waiters # <<>> /\ HasSlot(sessions, starting)
 <2>1. /\ startingSessions' = starting + 1 /\ waiters' = Tail(waiters)
       /\ post' = [posts EXCEPT ![h].pc = "admitted"]
   BY <1>2 DEF SlotFreed
 <2>2. h \in Posts /\ h = waiters[1] /\ 1 \in DOMAIN waiters BY <1>2, HeadTailProperties, EmptySeq
 <2>3. posts[h].pc = "waiting" BY <2>2 DEF QueueFits
 <2> HIDE DEF h
 <2>4. /\ post' \in [Posts -> Handlers] /\ post'[h] = [posts[h] EXCEPT !.pc = "admitted"]
       /\ \A q \in Posts \ {h} : post'[q] = posts[q]
   BY <2>1, <2>2 DEF Handlers, Phases
 <2>5. post'[h].pc = "admitted" BY <2>2, <2>4 DEF Handlers
 <2>6. QueueFits(waiters', post') /\ waiters' \in Seq(Posts)
   BY <2>5, <2>4, <1>2, <2>1, QueueServed DEF h
 <2>7. SlotsFit(sessions, startingSessions', post')
  <3> SUFFICES ASSUME Cap > 0
               PROVE  /\ startingSessions' = Cardinality(Reserving(post'))
                      /\ SessionCount(sessions) + startingSessions' <= Cap
    BY DEF SlotsFit
  <3>1. Reserving(post') = Reserving(posts) \cup {h} /\ h \notin Reserving(posts)
    BY <2>2, <2>3, <2>4, <2>5 DEF Reserving
  <3>2. Cardinality(Reserving(post')) = Cardinality(Reserving(posts)) + 1 BY <3>1, ReservingAdded
  <3>3. SessionCount(sessions) + starting < Cap BY <1>2 DEF HasSlot
  <3> QED BY <3>2, <3>3, <2>1, CountIsNat, SessionsAssumption DEF SlotsFit
 <2>8. Woken(posts, post') BY <2>3, <2>4 DEF Woken
 <2> QED BY <1>1, <2>1, <2>4, <2>6, <2>7, <2>8
<1>3. CASE ~(waiters # <<>> /\ HasSlot(sessions, starting)) BY <1>3, <1>1 DEF SlotFreed, Woken
<1> QED BY <1>2, <1>3

\* Fewer sessions, and the same reservations.
LEMMA SlotsSame ==
  ASSUME NEW sessions, NEW fewer, NEW starting \in Nat, NEW old, NEW new,
         SlotsFit(sessions, starting, old), \A s \in Sids : fewer[s] # None => sessions[s] # None,
         \A p \in Posts : new[p].pc \in {"admitted", "gate"} <=> old[p].pc \in {"admitted", "gate"}
  PROVE  SlotsFit(fewer, starting, new)
<1>1. Reserving(new) = Reserving(old) BY DEF Reserving
<1>2. SessionCount(fewer) <= SessionCount(sessions) BY CountLess
<1> QED BY <1>1, <1>2, CountIsNat, SessionsAssumption DEF SlotsFit

-----------------------------------------------------------------------------
(* What one handler means to the restores and to its process. *)

Soon(h) == h.pc \in {"waiting", "admitted", "gate"}
Restorer(h) == (Soon(h) \/ h.pc \in {"handshake", "abandon"}) /\ h.sid # None

\* It restores if it did, and joins nobody anew.
SameAim(old, new) ==
    /\ Restorer(new) <=> Restorer(old)
    /\ Restorer(old) => new.sid = old.sid /\ (Soon(new) => Soon(old))
    /\ new.pc = "joined" => old.pc = "joined" /\ new.sid = old.sid

LEMMA Aims ==
  ASSUME NEW p
  PROVE  Restoring(p) <=> Restorer(post[p])
BY DEF Restoring, Restorer, Soon

LEMMA AimsLater ==
  ASSUME NEW p
  PROVE  Restoring(p)' <=> Restorer(post'[p])
BY DEF Restoring, Restorer, Soon

LEMMA WokenAims ==
  ASSUME NEW posts \in [Posts -> Handlers], NEW new, Woken(posts, new), NEW p \in Posts
  PROVE  /\ SameAim(posts[p], new[p])
         /\ Refers(posts[p]) => Refers(new[p])
         /\ Soon(posts[p]) <=> Soon(new[p])
         /\ ~Soon(posts[p]) => new[p] = posts[p]
<1>1. CASE new[p] = posts[p] BY <1>1 DEF SameAim
<1>2. CASE posts[p].pc = "waiting" /\ new[p] = [posts[p] EXCEPT !.pc = "admitted"]
  BY <1>2 DEF Handlers, SameAim, Restorer, Soon, Refers
<1> QED BY <1>1, <1>2 DEF Woken

\* Nobody begins or ends a restore, and no id that is to be restored gets a
\* process.
LEMMA RestoresAim ==
  ASSUME StreamInv, resuming' = resuming, \A p \in Posts : SameAim(post[p], post'[p]),
         \A p \in Posts : Restorer(post[p]) /\ Soon(post'[p]) => httpSessions'[post[p].sid] = None
  PROVE  (/\ \A s \in Sids : Restored(s)
          /\ \A p \in Posts : Alone(p) /\ Heard(p))'
<1>1. \A p \in Posts : /\ Restoring(p)' <=> Restoring(p)
                       /\ Restoring(p) => post'[p].sid = post[p].sid
                       /\ post'[p].pc = "joined" => post[p].pc = "joined" /\ post'[p].sid = post[p].sid
  BY Aims, AimsLater DEF SameAim
<1>2. ASSUME NEW s \in Sids PROVE Restored(s)' BY <1>1 DEF StreamInv, Restored
<1>3. ASSUME NEW p \in Posts PROVE Alone(p)'
 <2> SUFFICES ASSUME Restoring(p)'
              PROVE  /\ resuming'[post'[p].sid] # 0
                     /\ \A q \in Posts : Restoring(q)' /\ post'[q].sid = post'[p].sid => q = p
                     /\ Early(p)' => httpSessions'[post'[p].sid] = None
   BY DEF Alone
 <2>1. Restoring(p) /\ post'[p].sid = post[p].sid /\ Alone(p) BY <1>1 DEF StreamInv
 <2>2. \A q \in Posts : Restoring(q)' /\ post'[q].sid = post'[p].sid => q = p
   BY <1>1, <2>1 DEF Alone
 <2>3. Early(p)' => Soon(post'[p]) BY DEF Early, Soon
 <2>4. Early(p)' => httpSessions'[post'[p].sid] = None BY <2>1, <2>3, Aims
 <2> QED BY <2>1, <2>2, <2>4 DEF Alone
<1>4. ASSUME NEW p \in Posts PROVE Heard(p)' BY <1>1 DEF StreamInv, Heard
<1> QED BY <1>2, <1>3, <1>4

LEMMA RestoresSame ==
  ASSUME StreamInv, resuming' = resuming, \A p \in Posts : SameAim(post[p], post'[p]),
         \A s \in Sids : httpSessions'[s] # None => httpSessions[s] # None
  PROVE  (/\ \A s \in Sids : Restored(s)
          /\ \A p \in Posts : Alone(p) /\ Heard(p))'
<1>1. ASSUME NEW p \in Posts, Restorer(post[p]), Soon(post'[p])
      PROVE  httpSessions'[post[p].sid] = None
 <2>1. Soon(post[p]) BY <1>1 DEF SameAim
 <2>2. Restoring(p) /\ Early(p) BY <1>1, <2>1, Aims DEF Soon, Early
 <2>3. post[p].sid \in Sids BY <2>2 DEF StreamInv, TypeOK, Restoring
 <2> QED BY <2>2, <2>3 DEF StreamInv, Alone
<1> QED BY <1>1, RestoresAim

\* The restore of p, if it was one, is over, and so is the wait of those who
\* have joined it.
LEMMA RestoreOver ==
  ASSUME StreamInv, NEW p \in Posts, NoLongerResuming(p), ~Restorer(post'[p]),
         \A q \in Sharers(p) \cap Posts : ~Restorer(post'[q]) /\ post'[q].pc # "joined",
         \A q \in Posts \ Sharers(p) : SameAim(post[q], post'[q]),
         \A s \in Sids : httpSessions'[s] # None => httpSessions[s] # None
  PROVE  (/\ \A s \in Sids : Restored(s)
          /\ \A q \in Posts : Alone(q) /\ Heard(q))'
<1>1. CASE ~Restoring(p) BY <1>1, Aims, RestoresSame DEF NoLongerResuming, Sharers, SameAim
<1>2. CASE Restoring(p)
 <2> DEFINE t == post[p].sid
 <2>1. t \in Sids BY <1>2 DEF StreamInv, TypeOK, Restoring
 <2>2. /\ resuming' = [resuming EXCEPT ![t] = 0] /\ resuming \in [Sids -> 0..2]
   BY <1>2 DEF NoLongerResuming, StreamInv, TypeOK
 <2>3. resuming'[t] = 0 /\ \A s \in Sids \ {t} : resuming'[s] = resuming[s] BY <2>1, <2>2
 <2>4. Sharers(p) = {p} \cup {q \in Posts : post[q].pc = "joined" /\ post[q].sid = t}
   BY <1>2 DEF Sharers
 <2>5. \A q \in Posts : Restoring(q) /\ post[q].sid = t => q = p BY <1>2 DEF StreamInv, Alone
 <2> HIDE DEF t
 <2>6. ASSUME NEW q \in Posts
       PROVE  /\ Restoring(q)' => /\ q # p /\ Restoring(q) /\ post'[q].sid = post[q].sid
                                  /\ post[q].sid # t /\ (Early(q)' => Early(q))
              /\ q # p /\ Restoring(q) => Restoring(q)' /\ post'[q].sid = post[q].sid
              /\ post'[q].pc = "joined" => /\ post[q].pc = "joined" /\ post[q].sid # t
                                           /\ post'[q].sid = post[q].sid
  <3>1. CASE q \in Sharers(p) BY <3>1, AimsLater, <2>4 DEF Restoring
  <3>2. CASE q \notin Sharers(p) BY <3>2, <2>4, <2>5, Aims, AimsLater DEF SameAim, Early, Soon
  <3> QED BY <3>1, <3>2
 <2>7. \A q \in Posts : Restoring(q) \/ post[q].pc = "joined" => post[q].sid \in Sids
   BY DEF StreamInv, TypeOK, Restoring, Refers
 <2>8. ASSUME NEW s \in Sids PROVE Restored(s)'
  <3> SUFFICES ASSUME resuming'[s] # 0
               PROVE  \E q \in Posts : Restoring(q)' /\ post'[q].sid = s
    BY DEF Restored
  <3>1. s # t /\ resuming[s] # 0 BY <2>3
  <3>2. PICK q \in Posts : Restoring(q) /\ post[q].sid = s BY <3>1 DEF StreamInv, Restored
  <3> QED BY <3>1, <3>2, <2>6 DEF t
 <2>9. ASSUME NEW q \in Posts PROVE Alone(q)'
  <3> SUFFICES ASSUME Restoring(q)'
               PROVE  /\ resuming'[post'[q].sid] # 0
                      /\ \A r \in Posts : Restoring(r)' /\ post'[r].sid = post'[q].sid => r = q
                      /\ Early(q)' => httpSessions'[post'[q].sid] = None
    BY DEF Alone
  <3>1. Restoring(q) /\ post'[q].sid = post[q].sid /\ post[q].sid # t /\ Alone(q)
    BY <2>6 DEF StreamInv
  <3>2. \A r \in Posts : Restoring(r)' /\ post'[r].sid = post'[q].sid => r = q
    BY <2>6, <3>1 DEF Alone
  <3>3. Early(q)' => httpSessions'[post'[q].sid] = None BY <2>6, <2>7, <3>1 DEF Alone
  <3> QED BY <3>1, <3>2, <3>3, <2>3, <2>7 DEF Alone
 <2>10. ASSUME NEW q \in Posts PROVE Heard(q)' BY <2>3, <2>6, <2>7 DEF StreamInv, Heard
 <2> QED BY <2>8, <2>9, <2>10
<1> QED BY <1>1, <1>2

\* Nobody gets a process that the reaper has taken.
Uses(h) == h.pc \in {"pending", "handshake", "serve", "abandon"} /\ h.child # None

LEMMA UsersSafe ==
  ASSUME StreamInv,
         \A p \in Posts : Uses(post'[p]) =>
            \/ Uses(post[p]) /\ post'[p].child = post[p].child
            \/ child'[post'[p].child].by # "reap",
         \A p \in Posts : post[p].child # None /\ child'[post[p].child].by = "reap"
                            => child[post[p].child].by = "reap"
  PROVE  (\A p \in Posts : Unreaped(p))'
BY DEF StreamInv, Unreaped, Uses

\* Ids and processes stay as they are.
LEMMA MapSame ==
  ASSUME StreamInv, UNCHANGED <<httpSessions, child>>
  PROVE  (/\ \A s \in Sids : Mapped(s)
          /\ \A c \in Children : Reached(c))'
BY DEF StreamInv, Mapped, Reached

\* What the types are made of.
LEMMA TypesOf ==
  ASSUME StreamInv
  PROVE  /\ httpSessions \in [Sids -> Children \cup {None}]
         /\ child \in [Children -> Processes]
         /\ startingSessions \in Nat /\ waiters \in Seq(Posts)
         /\ resumable \in [Sids -> 0..2] /\ resuming \in [Sids -> 0..2]
         /\ post \in [Posts -> Handlers]
         /\ known \subseteq Sids /\ deleted \subseteq Sids
         /\ \A p \in Posts : post[p] \in Handlers /\ Refers(post[p])
BY DEF StreamInv, TypeOK, Handlers, Processes

LEMMA QueueNow ==
  ASSUME StreamInv
  PROVE  /\ QueueFits(waiters, post) /\ waiters \in Seq(Posts)
         /\ SlotsFit(httpSessions, startingSessions, post) /\ startingSessions \in Nat
BY TypesOf DEF StreamInv

LEMMA QueueStays ==
  ASSUME StreamInv, waiters' = waiters,
         \A p \in Posts : post'[p].pc = "waiting" <=> post[p].pc = "waiting"
  PROVE  QueueFits(waiters', post')
<1>1. QueueFits(waiters, post) /\ waiters \in Seq(Posts) BY TypesOf DEF StreamInv
<1>2. QueueFits(waiters, post') BY <1>1, QueueSame
<1> QED BY <1>2

LEMMA TypesAgain ==
  ASSUME httpSessions' \in [Sids -> Children \cup {None}], child' \in [Children -> Processes],
         startingSessions' \in Nat, waiters' \in Seq(Posts),
         resumable' \in [Sids -> 0..2], resuming' \in [Sids -> 0..2],
         post' \in [Posts -> Handlers], known' \subseteq Sids, deleted' \subseteq Sids
  PROVE  TypeOK'
BY DEF TypeOK, Handlers, Processes

-----------------------------------------------------------------------------
(* The beginning of a session or a restore. *)

LEMMA AdmitFits ==
  ASSUME StreamInv, NEW p \in Posts, NEW starts \in BOOLEAN, NEW s \in Sids \cup {None},
         post[p].pc \in {"idle", "nosession"}, Admit(p, starts, s)
  PROVE  /\ startingSessions' \in Nat /\ waiters' \in Seq(Posts)
         /\ post' \in [Posts -> Handlers]
         /\ QueueFits(waiters', post')
         /\ SlotsFit(httpSessions, startingSessions', post')
         /\ Soon(post'[p]) /\ post'[p].sid = s /\ Refers(post'[p])
         /\ \A q \in Posts \ {p} : post'[q] = post[q]
<1> DEFINE reserves == Cap > 0 /\ HasSlot(httpSessions, startingSessions)
           passes == Cap = 0 \/ reserves
           h == [post[p] EXCEPT !.pc = IF passes THEN "admitted" ELSE "waiting",
                                !.init = starts, !.sid = s, !.old = FALSE]
<1>1. /\ startingSessions' = startingSessions + (IF reserves THEN 1 ELSE 0)
      /\ waiters' = IF passes THEN waiters ELSE Append(waiters, p)
      /\ post' = [post EXCEPT ![p] = h]
  BY DEF Admit
<1>2. h \in Handlers /\ h.sid = s /\ h.pc = IF passes THEN "admitted" ELSE "waiting"
  BY TypesOf DEF Handlers, Phases
<1> HIDE DEF h
<1>3. /\ post' \in [Posts -> Handlers] /\ post'[p] = h
      /\ \A q \in Posts \ {p} : post'[q] = post[q]
  BY <1>1, <1>2, TypesOf
<1>4. startingSessions' \in Nat BY <1>1, TypesOf
<1>5. CASE passes
 <2>1. post'[p].pc = "admitted" /\ waiters' = waiters BY <1>1, <1>2, <1>3, <1>5
 <2>2. QueueFits(waiters', post') BY <2>1, <1>3, QueueSame, TypesOf DEF StreamInv
 <2>3. SlotsFit(httpSessions, startingSessions', post')
  <3> SUFFICES ASSUME Cap > 0
               PROVE  /\ startingSessions' = Cardinality(Reserving(post'))
                      /\ SessionCount(httpSessions) + startingSessions' <= Cap
    BY DEF SlotsFit
  <3>1. reserves BY <1>5, SessionsAssumption
  <3>2. Reserving(post') = Reserving(post) \cup {p} /\ p \notin Reserving(post)
    BY <2>1, <1>3 DEF Reserving
  <3>3. Cardinality(Reserving(post')) = Cardinality(Reserving(post)) + 1 BY <3>2, ReservingAdded
  <3>4. SessionCount(httpSessions) + startingSessions < Cap BY <3>1 DEF HasSlot
  <3> QED BY <3>1, <3>3, <3>4, <1>1, CountIsNat, SessionsAssumption, TypesOf DEF StreamInv, SlotsFit
 <2> QED BY <2>1, <2>2, <2>3, <1>2, <1>3, <1>4, TypesOf DEF Soon, Refers
<1>6. CASE ~passes
 <2>1. post'[p].pc = "waiting" /\ waiters' = Append(waiters, p) /\ startingSessions' = startingSessions
   BY <1>1, <1>2, <1>3, <1>6, TypesOf
 <2>2. QueueFits(waiters', post')
  <3>1. QueueFits(waiters, post) /\ waiters \in Seq(Posts) BY TypesOf DEF StreamInv
  <3>2. \A q \in Posts \ {p} : post'[q].pc = "waiting" <=> post[q].pc = "waiting" BY <1>3
  <3> QED BY <2>1, <3>1, <3>2, QueueJoined
 <2>3. waiters' \in Seq(Posts) BY <2>1, TypesOf, AppendProperties
 <2>4. SlotsFit(httpSessions, startingSessions', post')
   BY <2>1, <1>3, SlotsSame, TypesOf, SMTT(30), ZenonT(30) DEF StreamInv
 <2> QED BY <2>1, <2>2, <2>3, <2>4, <1>2, <1>3, <1>4 DEF Soon, Refers
<1> QED BY <1>5, <1>6

LEMMA NewKeeps ==
  ASSUME StreamInv, NEW p \in Posts, post[p].pc \in {"idle", "nosession"}, Admit(p, TRUE, None),
         UNCHANGED <<httpSessions, child, resumable, resuming, known, deleted>>
  PROVE  StreamInv'
<1>1. /\ startingSessions' \in Nat /\ waiters' \in Seq(Posts)
      /\ post' \in [Posts -> Handlers]
      /\ QueueFits(waiters', post')
      /\ SlotsFit(httpSessions, startingSessions', post')
      /\ Soon(post'[p]) /\ post'[p].sid = None /\ Refers(post'[p])
      /\ \A q \in Posts \ {p} : post'[q] = post[q]
  BY AdmitFits
<1>2. TypeOK' BY <1>1, TypesOf, TypesAgain
<1>3. \A q \in Posts : Refers(post'[q]) BY <1>1, TypesOf
<1>4. \A q \in Posts : SameAim(post[q], post'[q]) BY <1>1 DEF SameAim, Restorer, Soon
<1>5. (/\ \A s \in Sids : Restored(s)
       /\ \A q \in Posts : Alone(q) /\ Heard(q))'
  BY <1>4, RestoresSame
<1>6. (\A q \in Posts : Unreaped(q))' BY <1>1, UsersSafe DEF Uses, Soon
<1> QED BY <1>1, <1>2, <1>3, <1>5, <1>6, MapSame DEF StreamInv

LEMMA NewSessionKeeps ==
  ASSUME StreamInv, NEW p \in Posts, NewSession(p)
  PROVE  StreamInv'
BY NewKeeps DEF NewSession, Accepts

LEMMA NoSessionKeeps ==
  ASSUME StreamInv, NEW p \in Posts, NoSession(p)
  PROVE  StreamInv'
<1>1. CASE post[p].init BY <1>1, NewKeeps DEF NoSession
<1>2. CASE ~post[p].init
 <2>1. /\ post' = [post EXCEPT ![p] = NoPost] /\ post[p].pc = "nosession"
       /\ UNCHANGED <<httpSessions, child, startingSessions, waiters, resumable, resuming,
                      known, deleted>>
   BY <1>2 DEF NoSession
 <2>2. NoPost \in Handlers /\ NoPost.pc = "idle" BY DEF NoPost, Handlers, Phases
 <2>3. /\ post' \in [Posts -> Handlers] /\ post'[p] = NoPost
       /\ \A q \in Posts \ {p} : post'[q] = post[q]
   BY <2>1, <2>2, TypesOf
 <2>4. TypeOK' BY <2>1, <2>3, TypesOf, TypesAgain
 <2>5. \A q \in Posts : Refers(post'[q]) BY <2>2, <2>3, TypesOf DEF Refers
 <2>6. QueueFits(waiters', post') BY <2>1, <2>2, <2>3, QueueStays
 <2>7. SlotsFit(httpSessions', startingSessions', post')
   BY <2>1, <2>2, <2>3, SlotsSame, TypesOf DEF StreamInv
 <2>8. \A q \in Posts : SameAim(post[q], post'[q]) BY <2>1, <2>2, <2>3 DEF SameAim, Restorer, Soon
 <2>9. (/\ \A s \in Sids : Restored(s)
        /\ \A q \in Posts : Alone(q) /\ Heard(q))'
   BY <2>1, <2>8, RestoresSame
 <2>10. (\A q \in Posts : Unreaped(q))' BY <2>1, <2>2, <2>3, UsersSafe DEF Uses
 <2> QED BY <2>1, <2>4, <2>5, <2>6, <2>7, <2>9, <2>10, MapSame DEF StreamInv
<1> QED BY <1>1, <1>2

LEMMA RestoreKeeps ==
  ASSUME StreamInv, NEW p \in Posts, NEW starts \in BOOLEAN, NEW s \in Sids, Restore(p, starts, s)
  PROVE  StreamInv'
<1>1. /\ post[p].pc = "idle" /\ httpSessions[s] = None /\ resumable[s] # 0 /\ resuming[s] = 0
      /\ resuming' = [resuming EXCEPT ![s] = resumable[s]]
      /\ Admit(p, starts, s)
      /\ UNCHANGED <<httpSessions, child, resumable, known, deleted>>
  BY DEF Restore, Accepts
<1>2. /\ startingSessions' \in Nat /\ waiters' \in Seq(Posts)
      /\ post' \in [Posts -> Handlers]
      /\ QueueFits(waiters', post')
      /\ SlotsFit(httpSessions, startingSessions', post')
      /\ Soon(post'[p]) /\ post'[p].sid = s /\ Refers(post'[p])
      /\ \A q \in Posts \ {p} : post'[q] = post[q]
  BY <1>1, AdmitFits
<1>3. /\ resuming' \in [Sids -> 0..2] /\ resuming'[s] # 0
      /\ \A t \in Sids \ {s} : resuming'[t] = resuming[t]
  BY <1>1, TypesOf
<1>4. TypeOK' BY <1>1, <1>2, <1>3, TypesOf, TypesAgain
<1>5. \A q \in Posts : Refers(post'[q]) BY <1>2, TypesOf
<1>6. \A q \in Posts : Restoring(q) \/ post[q].pc = "joined" => post[q].sid \in Sids \ {s}
  BY <1>1, TypesOf DEF StreamInv, Alone, Heard, Restoring, Refers, Handlers
<1>7. Restorer(post'[p]) /\ ~Restoring(p)
  BY <1>1, <1>2, SessionsAssumption DEF Restorer, Soon, Restoring
<1>8. \A q \in Posts : Restoring(q)' <=> q = p \/ Restoring(q) BY <1>2, <1>7, Aims, AimsLater
<1>9. ASSUME NEW t \in Sids PROVE Restored(t)'
 <2>1. CASE t = s BY <2>1, <1>2, <1>8 DEF Restored
 <2>2. CASE t # s BY <2>2, <1>2, <1>3, <1>7, <1>8 DEF StreamInv, Restored
 <2> QED BY <2>1, <2>2
<1>10. ASSUME NEW q \in Posts PROVE Alone(q)'
 <2>1. CASE q = p BY <1>2, <1>6, <1>8, <2>1, <1>1, <1>3 DEF Alone
 <2>2. CASE q # p /\ Restoring(q) BY <2>2, <1>2, <1>6, <1>8, <1>1, <1>3 DEF StreamInv, Alone, Early
 <2>3. CASE q # p /\ ~Restoring(q) BY <2>3, <1>8 DEF Alone
 <2> QED BY <2>1, <2>2, <2>3
<1>11. ASSUME NEW q \in Posts PROVE Heard(q)' BY <1>2, <1>3, <1>6 DEF Heard, StreamInv, Soon
<1>12. (\A q \in Posts : Unreaped(q))' BY <1>1, <1>2, UsersSafe DEF Uses, Soon
<1> QED BY <1>1, <1>2, <1>4, <1>5, <1>9, <1>10, <1>11, <1>12, MapSame DEF StreamInv

-----------------------------------------------------------------------------
(* Requests that begin otherwise. *)

\* One handler that has no slot and restores nothing becomes another such one.
LEMMA OneMoves ==
  ASSUME StreamInv, NEW p \in Posts, NEW h \in Handlers, post' = [post EXCEPT ![p] = h],
         post[p].pc \in {"idle", "pending", "serve", "nosession"},
         h.pc \in {"idle", "pending", "nosession", "joined"}, Refers(h),
         h.pc = "joined" => resuming[h.sid] # 0, h.pc = "pending" => child[h.child].by # "reap",
         UNCHANGED <<httpSessions, child, startingSessions, waiters, resuming>>,
         resumable' \in [Sids -> 0..2], known' \subseteq Sids, deleted' \subseteq Sids
  PROVE  StreamInv'
<1>1. /\ post' \in [Posts -> Handlers] /\ post'[p] = h
      /\ \A q \in Posts \ {p} : post'[q] = post[q]
  BY TypesOf
<1>2. TypeOK' BY <1>1, TypesOf, TypesAgain
<1>3. \A q \in Posts : Refers(post'[q]) BY <1>1, TypesOf
<1>4. QueueFits(waiters', post') BY <1>1, QueueStays
<1>5. SlotsFit(httpSessions', startingSessions', post') BY <1>1, SlotsSame, TypesOf DEF StreamInv
<1>6. \A q \in Posts : Restoring(q)' <=> Restoring(q) BY <1>1, Aims, AimsLater DEF Restorer, Soon
<1>7. ~Restoring(p) BY DEF Restoring
<1>8. \A s \in Sids : Restored(s)' BY <1>1, <1>6, <1>7 DEF StreamInv, Restored
<1>9. \A q \in Posts : Alone(q)' BY <1>1, <1>6, <1>7 DEF StreamInv, Alone, Early
<1>10. \A q \in Posts : Heard(q)' BY <1>1 DEF StreamInv, Heard
<1>11. \A q \in Posts : Unreaped(q)' BY <1>1 DEF StreamInv, Unreaped
<1> QED BY <1>2, <1>3, <1>4, <1>5, <1>8, <1>9, <1>10, <1>11, MapSame DEF StreamInv

LEMMA RequestKeeps ==
  ASSUME StreamInv, NEW p \in Posts, NEW starts \in BOOLEAN, NEW s \in Sids, Request(p, starts, s)
  PROVE  StreamInv'
<1> DEFINE h == [post[p] EXCEPT !.pc = "pending", !.init = starts, !.sid = s,
                                !.child = httpSessions[s]]
<1>1. /\ post[p].pc = "idle" /\ httpSessions[s] # None /\ post' = [post EXCEPT ![p] = h]
      /\ UNCHANGED <<httpSessions, child, startingSessions, waiters, resumable, resuming,
                     known, deleted>>
  BY DEF Request, Accepts
<1>2. h \in Handlers /\ h.pc = "pending" /\ h.child = httpSessions[s] /\ Refers(h)
  BY <1>1, TypesOf, SessionsAssumption DEF Handlers, Phases, Refers
<1>3. child[h.child].by # "reap" BY <1>1, <1>2 DEF StreamInv, Mapped
<1> HIDE DEF h
<1> QED BY <1>1, <1>2, <1>3, OneMoves, TypesOf

LEMMA CannotResumeKeeps ==
  ASSUME StreamInv, NEW p \in Posts, NEW starts \in BOOLEAN, NEW s \in Sids,
         CannotResume(p, starts, s)
  PROVE  StreamInv'
<1> DEFINE h == [post[p] EXCEPT !.pc = "nosession", !.init = starts, !.sid = s]
<1>1. /\ post[p].pc = "idle" /\ post' = [post EXCEPT ![p] = h]
      /\ resumable' = [resumable EXCEPT ![s] = 0]
      /\ UNCHANGED <<httpSessions, child, startingSessions, waiters, resuming, known, deleted>>
  BY DEF CannotResume, Accepts
<1>2. h \in Handlers /\ h.pc = "nosession" /\ Refers(h) BY TypesOf DEF Handlers, Phases, Refers
<1>3. resumable' \in [Sids -> 0..2] BY <1>1, TypesOf
<1> HIDE DEF h
<1> QED BY <1>1, <1>2, <1>3, OneMoves, TypesOf

LEMMA JoinKeeps ==
  ASSUME StreamInv, NEW p \in Posts, NEW starts \in BOOLEAN, NEW s \in Sids, Join(p, starts, s)
  PROVE  StreamInv'
<1> DEFINE h == [post[p] EXCEPT !.pc = "joined", !.init = starts, !.sid = s]
<1>1. /\ post[p].pc = "idle" /\ post' = [post EXCEPT ![p] = h] /\ resuming[s] # 0
      /\ UNCHANGED <<httpSessions, child, startingSessions, waiters, resumable, resuming,
                     known, deleted>>
  BY DEF Join, Accepts
<1>2. h \in Handlers /\ h.pc = "joined" /\ h.sid = s /\ Refers(h)
  BY TypesOf, SessionsAssumption DEF Handlers, Phases, Refers
<1> HIDE DEF h
<1> QED BY <1>1, <1>2, OneMoves, TypesOf

LEMMA ServeKeeps ==
  ASSUME StreamInv, NEW p \in Posts, Serve(p)
  PROVE  StreamInv'
<1> DEFINE h == [post[p] EXCEPT !.pc = "pending"]
<1>1. /\ post[p].pc = "serve" /\ post' = [post EXCEPT ![p] = h]
      /\ UNCHANGED <<httpSessions, child, startingSessions, waiters, resumable, resuming,
                     known, deleted>>
  BY DEF Serve
<1>2. h \in Handlers /\ h.pc = "pending" /\ h.child = post[p].child /\ Refers(h)
  BY <1>1, TypesOf DEF Handlers, Phases, Refers
<1>3. child[h.child].by # "reap" BY <1>1, <1>2, TypesOf DEF StreamInv, Unreaped, Refers
<1> HIDE DEF h
<1> QED BY <1>1, <1>2, <1>3, OneMoves, TypesOf

-----------------------------------------------------------------------------
(* A reservation comes to its end. *)

LEMMA ReleasedFits ==
  ASSUME StreamInv, NEW p \in Posts, post[p].pc \in {"admitted", "gate"},
         NEW posts, posts[p].pc \notin {"admitted", "gate"}, \A q \in Posts \ {p} :
            posts[q].pc \in {"admitted", "gate"} <=> post[q].pc \in {"admitted", "gate"}
  PROVE  /\ Released \in Nat
         /\ Cap > 0 => Released = startingSessions - 1 /\ Released = Cardinality(Reserving(posts))
<1>1. CASE Cap > 0
 <2>1. Reserving(posts) = Reserving(post) \ {p} /\ p \in Reserving(post) BY DEF Reserving
 <2>2. Cardinality(Reserving(posts)) = Cardinality(Reserving(post)) - 1 BY <2>1, ReservingRemoved
 <2>3. Released = startingSessions - 1 /\ startingSessions = Cardinality(Reserving(post))
   BY <1>1 DEF Released, StreamInv, SlotsFit
 <2>4. Cardinality(Reserving(posts)) \in Nat BY ReservingFinite
 <2> QED BY <2>2, <2>3, <2>4
<1>2. CASE ~(Cap > 0) BY <1>2, TypesOf DEF Released
<1> QED BY <1>1, <1>2

LEMMA Forgets ==
  ASSUME NEW records \in [Sids -> 0..2], NEW s \in Sids
  PROVE  [records EXCEPT ![s] = 0] \in [Sids -> 0..2]
OBVIOUS

LEMMA ResumingAgain ==
  ASSUME StreamInv, NEW p \in Posts, NoLongerResuming(p)
  PROVE  resuming' \in [Sids -> 0..2]
<1>1. resuming \in [Sids -> 0..2] BY TypesOf
<1>2. CASE Restoring(p) BY <1>2, TypesOf, <1>1, Forgets DEF NoLongerResuming, Restoring, Handlers
<1>3. CASE ~Restoring(p) BY <1>3, <1>1 DEF NoLongerResuming
<1> QED BY <1>2, <1>3

LEMMA SharersAre ==
  ASSUME NEW p \in Posts
  PROVE  /\ p \in Sharers(p) /\ Sharers(p) \subseteq Posts
         /\ \A q \in Sharers(p) : q = p \/ post[q].pc = "joined"
BY DEF Sharers

\* startAdmittedSession() gives up, and whoever has joined goes too.
LEMMA LeavesKeeps ==
  ASSUME StreamInv, NEW p \in Posts, post[p].pc \in {"admitted", "gate"},
         NEW posts \in [Posts -> Handlers], \A q \in Posts \ Sharers(p) : posts[q] = post[q],
         \A q \in Sharers(p) : posts[q].pc \in {"idle", "nosession"},
         SlotFreed(httpSessions, Released, posts), NoLongerResuming(p),
         UNCHANGED <<child, resumable, known, deleted>>
  PROVE  StreamInv'
<1>1. \A q \in Posts \ {p} :
        /\ posts[q].pc \in {"admitted", "gate"} <=> post[q].pc \in {"admitted", "gate"}
        /\ posts[q].pc = "waiting" <=> post[q].pc = "waiting"
  BY SharersAre
<1>2. posts[p].pc \in {"idle", "nosession"} BY SharersAre
<1>3. QueueFits(waiters, posts) BY <1>1, <1>2, TypesOf, QueueSame DEF StreamInv
<1>4. Released \in Nat /\ SlotsFit(httpSessions, Released, posts)
  BY <1>1, <1>2, ReleasedFits, CountIsNat, SessionsAssumption, TypesOf DEF StreamInv, SlotsFit
<1>5. /\ httpSessions' = httpSessions /\ startingSessions' \in Nat
      /\ waiters' \in Seq(Posts) /\ post' \in [Posts -> Handlers]
      /\ QueueFits(waiters', post') /\ SlotsFit(httpSessions, startingSessions', post')
      /\ Woken(posts, post')
  BY <1>3, <1>4, TypesOf, FreedFits
<1>6. resuming' \in [Sids -> 0..2] BY ResumingAgain
<1>7. TypeOK' BY <1>5, <1>6, TypesOf, TypesAgain
<1>8. \A q \in Posts : Refers(posts[q]) BY TypesOf DEF Refers
<1>9. \A q \in Posts : /\ SameAim(posts[q], post'[q])
                       /\ Refers(posts[q]) => Refers(post'[q])
                       /\ Soon(posts[q]) <=> Soon(post'[q])
                       /\ ~Soon(posts[q]) => post'[q] = posts[q]
  BY <1>5, WokenAims
<1>10. \A q \in Posts : Refers(post'[q]) BY <1>8, <1>9
<1>11. \A q \in Sharers(p) \cap Posts : ~Restorer(post'[q]) /\ post'[q].pc # "joined"
  BY <1>9 DEF Soon, Restorer
<1>12. \A q \in Posts \ Sharers(p) : SameAim(post[q], post'[q]) BY <1>9
<1>13. ~Restorer(post'[p]) BY <1>11, SharersAre
<1>14. (/\ \A s \in Sids : Restored(s)
        /\ \A q \in Posts : Alone(q) /\ Heard(q))'
  BY <1>5, <1>11, <1>12, <1>13, RestoreOver
<1>15. (\A q \in Posts : Unreaped(q))'
 <2>1. \A q \in Posts : Uses(post'[q]) => post'[q] = post[q]
  <3> TAKE q \in Posts
  <3>1. CASE q \in Sharers(p) BY <3>1, <1>9 DEF Uses, Soon
  <3>2. CASE q \notin Sharers(p) BY <3>2, <1>9 DEF Soon, Uses
  <3> QED BY <3>1, <3>2
 <2> QED BY <2>1, UsersSafe
<1> QED BY <1>5, <1>7, <1>10, <1>14, <1>15, MapSame DEF StreamInv

LEMMA ThrowsKeeps ==
  ASSUME StreamInv, NEW p \in Posts, post[p].pc \in {"admitted", "gate"}, Throws(p)
  PROVE  StreamInv'
<1> DEFINE posts == [q \in Posts |-> IF q \in Sharers(p) THEN NoPost ELSE post[q]]
<1>1. NoPost \in Handlers /\ NoPost.pc = "idle" BY DEF NoPost, Handlers, Phases
<1>2. posts \in [Posts -> Handlers] BY <1>1, TypesOf
<1>3. /\ \A q \in Posts \ Sharers(p) : posts[q] = post[q]
      /\ \A q \in Sharers(p) : posts[q].pc \in {"idle", "nosession"}
  BY <1>1, SharersAre
<1>4. /\ SlotFreed(httpSessions, Released, posts)
      /\ NoLongerResuming(p) /\ UNCHANGED <<child, resumable, known, deleted>>
  BY DEF Throws
<1> HIDE DEF posts
<1> QED BY <1>2, <1>3, <1>4, LeavesKeeps

LEMMA ReturnsNullKeeps ==
  ASSUME StreamInv, NEW p \in Posts, post[p].pc \in {"admitted", "gate"}, ReturnsNull(p)
  PROVE  StreamInv'
<1> DEFINE posts == [q \in Posts |-> IF q \notin Sharers(p) THEN post[q]
                                     ELSE IF Restoring(p) THEN [post[q] EXCEPT !.pc = "nosession",
                                                                               !.old = FALSE]
                                     ELSE NoPost]
<1>1. NoPost \in Handlers /\ NoPost.pc = "idle" BY DEF NoPost, Handlers, Phases
<1>2. \A q \in Posts : LET h == [post[q] EXCEPT !.pc = "nosession", !.old = FALSE]
                       IN  h \in Handlers /\ h.pc = "nosession"
  BY TypesOf DEF Handlers, Phases
<1>3. posts \in [Posts -> Handlers] BY <1>1, <1>2, TypesOf
<1>4. /\ \A q \in Posts \ Sharers(p) : posts[q] = post[q]
      /\ \A q \in Sharers(p) : posts[q].pc \in {"idle", "nosession"}
  BY <1>1, <1>2, SharersAre
<1>5. /\ SlotFreed(httpSessions, Released, posts)
      /\ NoLongerResuming(p) /\ UNCHANGED <<child, resumable, known, deleted>>
  BY DEF ReturnsNull
<1> HIDE DEF posts
<1> QED BY <1>3, <1>4, <1>5, LeavesKeeps

\* startStreamableChild(): the id had no process, and the process no id.
LEMMA StartChildKeeps ==
  ASSUME StreamInv, NEW p \in Posts, post[p].pc \in {"admitted", "gate"}, StartChild(p)
  PROVE  StreamInv'
<1>1. PICK c \in Children, s \in Sids :
        /\ Available(c)
        /\ IF Restoring(p) THEN s = post[p].sid ELSE Fresh(s)
        /\ child' = [child EXCEPT ![c] = [NoChild EXCEPT !.state = "new", !.sid = s]]
        /\ SlotFreed([httpSessions EXCEPT ![s] = c], Released,
               [post EXCEPT ![p].pc = IF Restoring(p) THEN "handshake" ELSE "pending",
                            ![p].sid = s, ![p].child = c, ![p].old = FALSE])
        /\ known' = IF Restoring(p) THEN known ELSE known \ {s}
        /\ deleted' = IF Restoring(p) THEN deleted ELSE deleted \ {s}
        /\ resumable' = IF Restoring(p) THEN resumable ELSE [resumable EXCEPT ![s] = 0]
        /\ UNCHANGED resuming
  BY DEF StartChild
<1> DEFINE sessions == [httpSessions EXCEPT ![s] = c]
           h == [post[p] EXCEPT !.pc = IF Restoring(p) THEN "handshake" ELSE "pending",
                                !.sid = s, !.child = c, !.old = FALSE]
           posts == [post EXCEPT ![p] = h]
           new == [NoChild EXCEPT !.state = "new", !.sid = s]
<1>2. posts = [post EXCEPT ![p].pc = IF Restoring(p) THEN "handshake" ELSE "pending",
                           ![p].sid = s, ![p].child = c, ![p].old = FALSE]
  BY TypesOf
<1>3. /\ h \in Handlers /\ h.pc = (IF Restoring(p) THEN "handshake" ELSE "pending")
      /\ h.sid = s /\ h.child = c
  BY TypesOf DEF Handlers, Phases
<1>4. /\ new \in Processes /\ new.state = "new" /\ new.sid = s /\ new.by # "reap"
  BY DEF NoChild, Processes, ChildStates, Killers
<1>5. s # None /\ c # None BY SessionsAssumption
<1> HIDE DEF h, new
<1>6. posts \in [Posts -> Handlers] /\ posts[p] = h /\ \A q \in Posts \ {p} : posts[q] = post[q]
  BY <1>3, TypesOf
<1>7. /\ sessions \in [Sids -> Children \cup {None}] /\ sessions[s] = c
      /\ \A t \in Sids \ {s} : sessions[t] = httpSessions[t]
  BY TypesOf
<1>8. /\ child' \in [Children -> Processes] /\ child'[c] = new
      /\ \A d \in Children \ {c} : child'[d] = child[d]
  BY <1>1, <1>4, TypesOf DEF new
<1>9. httpSessions[s] = None
 <2>1. CASE Restoring(p) BY <2>1, <1>1 DEF Early, StreamInv, Alone
 <2>2. CASE ~Restoring(p) BY <2>2, <1>1 DEF Fresh
 <2> QED BY <2>1, <2>2
<1>10. \A q \in Posts \ {p} : Restoring(q) => post[q].sid # s
 <2>1. CASE Restoring(p) BY <2>1, <1>1 DEF StreamInv, Alone
 <2>2. CASE ~Restoring(p) BY <2>2, <1>1 DEF Fresh
 <2> QED BY <2>1, <2>2
<1>11. \A t \in Sids : httpSessions[t] # c
 <2>1. CASE child[c].state = "free" BY <2>1, <1>5 DEF StreamInv, Mapped
 <2>2. CASE child[c].state # "free" BY <2>2, <1>1 DEF Available
 <2> QED BY <2>1, <2>2
<1>12. QueueFits(waiters, posts)
 <2>1. \A q \in Posts : posts[q].pc = "waiting" <=> post[q].pc = "waiting" BY <1>3, <1>6
 <2>2. QueueFits(waiters, post) /\ waiters \in Seq(Posts) BY TypesOf DEF StreamInv
 <2> HIDE DEF posts
 <2> QED BY <2>1, <2>2, QueueSame
<1>13. Released \in Nat /\ SlotsFit(sessions, Released, posts)
 <2>1. posts[p].pc \notin {"admitted", "gate"} BY <1>3, <1>6
 <2>2. \A q \in Posts \ {p} :
          posts[q].pc \in {"admitted", "gate"} <=> post[q].pc \in {"admitted", "gate"}
   BY <1>6
 <2> HIDE DEF posts
 <2>3. /\ Released \in Nat
       /\ Cap > 0 => Released = startingSessions - 1 /\ Released = Cardinality(Reserving(posts))
   BY <2>1, <2>2, ReleasedFits
 <2>4. SessionCount(sessions) = SessionCount(httpSessions) + 1 BY <1>9, TypesOf, CountPut
 <2> HIDE DEF sessions
 <2> QED BY <2>3, <2>4, CountIsNat, SessionsAssumption, TypesOf DEF StreamInv, SlotsFit
<1>14. SlotFreed(sessions, Released, posts) BY <1>1, <1>2
<1> HIDE DEF posts, sessions
<1>15. /\ httpSessions' = sessions /\ startingSessions' \in Nat
       /\ waiters' \in Seq(Posts) /\ post' \in [Posts -> Handlers]
       /\ QueueFits(waiters', post') /\ SlotsFit(sessions, startingSessions', post')
       /\ Woken(posts, post')
  BY <1>6, <1>12, <1>13, <1>14, TypesOf, FreedFits
<1>16. /\ resumable' \in [Sids -> 0..2] /\ resuming' \in [Sids -> 0..2]
       /\ known' \subseteq Sids /\ deleted' \subseteq Sids
  BY <1>1, TypesOf
<1>17. TypeOK' BY <1>7, <1>8, <1>15, <1>16, TypesAgain
<1>18. \A q \in Posts : Refers(posts[q]) BY <1>3, <1>5, <1>6, TypesOf DEF Refers
<1>19. \A q \in Posts : /\ SameAim(posts[q], post'[q])
                        /\ Refers(posts[q]) => Refers(post'[q])
                        /\ Soon(posts[q]) <=> Soon(post'[q])
                        /\ ~Soon(posts[q]) => post'[q] = posts[q]
  BY <1>6, <1>15, WokenAims
<1>20. \A q \in Posts : Refers(post'[q]) BY <1>18, <1>19
<1>21. ~Soon(posts[p]) /\ post'[p] = h BY <1>3, <1>6, <1>19 DEF Soon
<1>22. \A q \in Posts : SameAim(post[q], post'[q])
 <2>1. SameAim(post[p], post'[p])
  <3>1. CASE Restoring(p) BY <3>1, Aims, <1>1, <1>3, <1>5, <1>21 DEF SameAim, Restorer, Soon
  <3>2. CASE ~Restoring(p) BY <3>2, Aims, <1>3, <1>21 DEF SameAim, Restorer, Soon
  <3> QED BY <3>1, <3>2
 <2>2. \A q \in Posts \ {p} : SameAim(post[q], post'[q]) BY <1>6, <1>19
 <2> QED BY <2>1, <2>2
<1>23. ASSUME NEW q \in Posts, Restorer(post[q]), Soon(post'[q])
       PROVE  httpSessions'[post[q].sid] = None
 <2>1. q # p BY <1>23, <1>3, <1>21 DEF Soon
 <2>2. Restoring(q) /\ Early(q) BY <2>1, <1>6, <1>19, <1>23, Aims DEF Soon, Early
 <2>3. post[q].sid \in Sids \ {s} BY <2>1, <2>2, <1>10 DEF StreamInv, TypeOK, Restoring
 <2> QED BY <2>2, <2>3, <1>7, <1>15 DEF StreamInv, Alone
<1>24. (/\ \A t \in Sids : Restored(t)
        /\ \A q \in Posts : Alone(q) /\ Heard(q))'
  BY <1>1, <1>22, <1>23, RestoresAim
<1>25. (\A q \in Posts : Unreaped(q))'
 <2>1. \A q \in Posts : Uses(post'[q]) =>
           \/ Uses(post[q]) /\ post'[q].child = post[q].child
           \/ child'[post'[q].child].by # "reap"
  <3> TAKE q \in Posts
  <3>1. CASE q = p BY <3>1, <1>3, <1>4, <1>8, <1>21
  <3>2. CASE q # p BY <3>2, <1>6, <1>19 DEF Soon, Uses
  <3> QED BY <3>1, <3>2
 <2>2. \A q \in Posts : post[q].child # None /\ child'[post[q].child].by = "reap"
                           => child[post[q].child].by = "reap"
   BY TypesOf, <1>4, <1>8 DEF Handlers
 <2> QED BY <2>1, <2>2, UsersSafe
<1>26. ASSUME NEW t \in Sids PROVE Mapped(t)'
 <2>1. CASE t = s BY <2>1, <1>4, <1>7, <1>8, <1>15 DEF Mapped
 <2>2. CASE t # s BY <2>2, <1>7, <1>11, <1>15, <1>8, TypesOf DEF StreamInv, Mapped
 <2> QED BY <2>1, <2>2
<1>27. ASSUME NEW d \in Children PROVE Reached(d)'
 <2>1. CASE d = c BY <2>1, <1>4, <1>5, <1>7, <1>8, <1>15 DEF Reached
 <2>2. CASE d # c
   BY <2>2, <1>8, <1>9, SessionsAssumption, TypesOf, <1>7, <1>15 DEF StreamInv, Reached, Processes
 <2> QED BY <2>1, <2>2
<1> QED BY <1>15, <1>17, <1>20, <1>24, <1>25, <1>26, <1>27 DEF StreamInv

LEMMA AdmittedKeeps ==
  ASSUME StreamInv, NEW p \in Posts, Admitted(p)
  PROVE  StreamInv'
<1>1. post[p].pc = "admitted" BY DEF Admitted
<1>2. CASE Throws(p) BY <1>1, <1>2, ThrowsKeeps
<1>3. CASE ReturnsNull(p) BY <1>1, <1>3, ReturnsNullKeeps
<1>4. CASE StartChild(p) BY <1>1, <1>4, StartChildKeeps
<1>5. CASE /\ post' = [post EXCEPT ![p].pc = "gate"]
           /\ UNCHANGED <<httpSessions, child, startingSessions, waiters, resumable,
                          resuming, known, deleted>>
 <2> DEFINE h == [post[p] EXCEPT !.pc = "gate"]
 <2>1. post' = [post EXCEPT ![p] = h] BY <1>5, TypesOf
 <2>2. h \in Handlers /\ h.pc = "gate" /\ h.sid = post[p].sid BY TypesOf DEF Handlers, Phases
 <2> HIDE DEF h
 <2>3. /\ post' \in [Posts -> Handlers] /\ post'[p] = h
       /\ \A q \in Posts \ {p} : post'[q] = post[q]
   BY <2>1, <2>2, TypesOf
 <2>4. TypeOK' BY <1>5, <2>3, TypesOf, TypesAgain
 <2>5. \A q \in Posts : Refers(post'[q]) BY <2>2, <2>3, TypesOf DEF Refers
 <2>6. QueueFits(waiters', post') BY <1>1, <2>2, <2>3, <1>5, QueueStays
 <2>7. SlotsFit(httpSessions', startingSessions', post')
   BY <1>1, <1>5, <2>2, <2>3, SlotsSame, TypesOf DEF StreamInv
 <2>8. \A q \in Posts : SameAim(post[q], post'[q]) BY <1>1, <2>2, <2>3 DEF SameAim, Restorer, Soon
 <2>9. (/\ \A s \in Sids : Restored(s)
        /\ \A q \in Posts : Alone(q) /\ Heard(q))'
   BY <1>5, <2>8, RestoresSame
 <2>10. (\A q \in Posts : Unreaped(q))' BY <1>5, <2>2, <2>3, UsersSafe DEF Uses
 <2> QED BY <1>5, <2>4, <2>5, <2>6, <2>7, <2>9, <2>10, MapSame DEF StreamInv
<1> QED BY <1>2, <1>3, <1>4, <1>5 DEF Admitted, Checked

LEMMA GateOpensKeeps ==
  ASSUME StreamInv, NEW p \in Posts, GateOpens(p)
  PROVE  StreamInv'
<1>1. post[p].pc = "gate" BY DEF GateOpens
<1>2. CASE Throws(p) BY <1>1, <1>2, ThrowsKeeps
<1>3. CASE ReturnsNull(p) BY <1>1, <1>3, ReturnsNullKeeps
<1>4. CASE StartChild(p) BY <1>1, <1>4, StartChildKeeps
<1> QED BY <1>2, <1>3, <1>4 DEF GateOpens, Checked

LEMMA WaitTimeoutKeeps ==
  ASSUME StreamInv, NEW p \in Posts, WaitTimeout(p)
  PROVE  StreamInv'
<1>1. PICK i \in DOMAIN waiters : waiters[i] = p /\ waiters' = RemoveAt(waiters, i)
  BY DEF WaitTimeout
<1>2. /\ post[p].pc = "waiting" /\ NoLongerResuming(p)
      /\ post' = [q \in Posts |-> IF q \in Sharers(p) THEN NoPost ELSE post[q]]
      /\ UNCHANGED <<httpSessions, child, startingSessions, resumable, known, deleted>>
  BY DEF WaitTimeout
<1>3. NoPost \in Handlers /\ NoPost.pc = "idle" BY DEF NoPost, Handlers, Phases
<1>4. /\ post' \in [Posts -> Handlers]
      /\ \A q \in Sharers(p) : post'[q] = NoPost
      /\ \A q \in Posts \ Sharers(p) : post'[q] = post[q]
  BY <1>2, <1>3, TypesOf, SharersAre
<1>5. \A q \in Posts \ {p} : post'[q].pc = "waiting" <=> post[q].pc = "waiting"
  BY <1>3, <1>4, SharersAre
<1>6. post'[p] = NoPost BY <1>4, SharersAre
<1>7. QueueFits(waiters', post') /\ waiters' \in Seq(Posts)
  BY TypesOf, <1>1, <1>3, <1>5, <1>6, QueueLeft DEF StreamInv
<1>8. SlotsFit(httpSessions', startingSessions', post')
  BY <1>2, <1>3, <1>4, SharersAre, SlotsSame, TypesOf DEF StreamInv
<1>9. resuming' \in [Sids -> 0..2] BY <1>2, ResumingAgain
<1>10. TypeOK' BY <1>2, <1>4, <1>7, <1>9, TypesOf, TypesAgain
<1>11. \A q \in Posts : Refers(post'[q]) BY <1>3, <1>4, TypesOf DEF Refers
<1>12. (/\ \A s \in Sids : Restored(s)
        /\ \A q \in Posts : Alone(q) /\ Heard(q))'
  BY <1>3, <1>4, SharersAre, <1>2, RestoreOver DEF Restorer, Soon, SameAim
<1>13. (\A q \in Posts : Unreaped(q))' BY <1>2, <1>3, <1>4, UsersSafe DEF Uses
<1> QED BY <1>2, <1>7, <1>8, <1>10, <1>11, <1>12, <1>13, MapSame DEF StreamInv

-----------------------------------------------------------------------------
(* Answers. *)

LEMMA ToldAreIds ==
  ASSUME StreamInv, NEW ps, ps \subseteq Posts, \A p \in ps : post[p].pc = "pending", Told(ps)
  PROVE  known' \subseteq Sids
<1>1. \A p \in ps : post[p].sid \in Sids BY TypesOf DEF Refers, Handlers
<1>2. PICK qs \in SUBSET ps : known' = known \cup {post[q].sid : q \in qs} BY DEF Told
<1> QED BY <1>1, <1>2, TypesOf

LEMMA AnswerKeeps ==
  ASSUME StreamInv, NEW p \in Posts, Answer(p)
  PROVE  StreamInv'
<1>1. /\ post[p].pc = "pending" /\ post' = [post EXCEPT ![p] = NoPost] /\ Told({p})
      /\ UNCHANGED <<httpSessions, child, startingSessions, waiters, resuming, deleted>>
  BY DEF Answer
<1>2. NoPost \in Handlers /\ NoPost.pc = "idle" /\ Refers(NoPost)
  BY DEF NoPost, Handlers, Phases, Refers
<1>3. resumable' \in [Sids -> 0..2]
 <2>1. CASE UNCHANGED resumable BY <2>1, TypesOf
 <2>2. CASE \E expired \in SUBSET Sids :
               resumable' = [s \in Sids |-> IF s = post[p].sid THEN NewRecord(s)
                                            ELSE IF s \in expired THEN 0 ELSE resumable[s]]
   BY <2>2, TypesOf DEF NewRecord
 <2> QED BY <2>1, <2>2 DEF Answer
<1>4. known' \subseteq Sids BY <1>1, ToldAreIds
<1> QED BY <1>1, <1>2, <1>3, <1>4, OneMoves, TypesOf

\* restoreSession() will give up.
LEMMA FailsKeeps ==
  ASSUME StreamInv, NEW p \in Posts, post[p].pc = "handshake",
         post' = [post EXCEPT ![p].pc = "abandon"],
         UNCHANGED <<httpSessions, child, startingSessions, waiters, resumable, resuming,
                     known, deleted>>
  PROVE  StreamInv'
<1> DEFINE h == [post[p] EXCEPT !.pc = "abandon"]
<1>1. post' = [post EXCEPT ![p] = h] BY TypesOf
<1>2. h \in Handlers /\ h.pc = "abandon" /\ h.sid = post[p].sid /\ h.child = post[p].child
  BY TypesOf DEF Handlers, Phases
<1> HIDE DEF h
<1>3. /\ post' \in [Posts -> Handlers] /\ post'[p] = h
      /\ \A q \in Posts \ {p} : post'[q] = post[q]
  BY <1>1, <1>2, TypesOf
<1>4. TypeOK' BY <1>3, TypesOf, TypesAgain
<1>5. \A q \in Posts : Refers(post'[q]) BY <1>2, <1>3, TypesOf DEF Refers
<1>6. QueueFits(waiters', post') BY <1>2, <1>3, QueueStays
<1>7. SlotsFit(httpSessions', startingSessions', post')
  BY <1>2, <1>3, SlotsSame, TypesOf DEF StreamInv
<1>8. \A q \in Posts : SameAim(post[q], post'[q]) BY <1>2, <1>3 DEF SameAim, Restorer, Soon
<1>9. (/\ \A s \in Sids : Restored(s)
       /\ \A q \in Posts : Alone(q) /\ Heard(q))'
  BY <1>8, RestoresSame
<1>10. (\A q \in Posts : Unreaped(q))' BY <1>2, <1>3, UsersSafe DEF Uses
<1> QED BY <1>4, <1>5, <1>6, <1>7, <1>9, <1>10, MapSame DEF StreamInv

LEMMA HandshakeKeeps ==
  ASSUME StreamInv, NEW p \in Posts, Handshake(p)
  PROVE  StreamInv'
<1>1. /\ post[p].pc = "handshake"
      /\ UNCHANGED <<httpSessions, child, startingSessions, waiters, resumable, known, deleted>>
  BY DEF Handshake
<1>2. CASE post' = [post EXCEPT ![p].pc = "abandon"] /\ UNCHANGED resuming
  BY <1>1, <1>2, FailsKeeps
<1>3. CASE /\ post' = [q \in Posts |->
                         IF q \in Sharers(p)
                           THEN [post[q] EXCEPT !.pc = "serve", !.child = post[p].child]
                           ELSE post[q]]
           /\ NoLongerResuming(p)
 <2> DEFINE h(q) == [post[q] EXCEPT !.pc = "serve", !.child = post[p].child]
 <2>1. post[p].child \in Children /\ post[p].child # None BY <1>1, TypesOf DEF Refers, Handlers
 <2>2. \A q \in Posts : /\ h(q) \in Handlers /\ h(q).pc = "serve"
                        /\ h(q).sid = post[q].sid /\ h(q).child = post[p].child
   BY <2>1, TypesOf DEF Handlers, Phases
 <2>3. \A q \in Posts : post'[q] = IF q \in Sharers(p) THEN h(q) ELSE post[q] BY <1>3
 <2>4. post' \in [Posts -> Handlers] BY <1>3, <2>2, TypesOf
 <2> HIDE DEF h
 <2>5. resuming' \in [Sids -> 0..2] BY <1>3, ResumingAgain
 <2>6. TypeOK' BY <1>1, <2>4, <2>5, TypesOf, TypesAgain
 <2>7. \A q \in Sharers(p) : post[q].pc \in {"handshake", "joined"} BY <1>1, SharersAre
 <2>8. \A q \in Posts : Refers(post'[q]) BY <2>1, <2>2, <2>3, <2>7, TypesOf DEF Refers
 <2>9. QueueFits(waiters', post') BY <2>2, <2>3, <2>7, <1>1, QueueStays
 <2>10. SlotsFit(httpSessions', startingSessions', post')
  <3>1. \A q \in Posts : post'[q].pc \in {"admitted", "gate"} <=> post[q].pc \in {"admitted", "gate"}
    BY <2>2, <2>3, <2>7
  <3> QED BY <1>1, <3>1, SlotsSame, TypesOf DEF StreamInv
 <2>11. (/\ \A s \in Sids : Restored(s)
         /\ \A q \in Posts : Alone(q) /\ Heard(q))'
   BY <2>2, <2>3, SharersAre, <1>1, <1>3, RestoreOver DEF Restorer, Soon, SameAim
 <2>12. (\A q \in Posts : Unreaped(q))'
   BY <1>1, <2>1, <2>2, <2>3, UsersSafe DEF StreamInv, Unreaped, Uses
 <2> QED BY <1>1, <2>6, <2>8, <2>9, <2>10, <2>11, <2>12, MapSame DEF StreamInv
<1> QED BY <1>2, <1>3 DEF Handshake

LEMMA TimeoutKeeps ==
  ASSUME StreamInv, NEW p \in Posts, Timeout(p)
  PROVE  StreamInv'
<1>1. /\ post[p].pc \in {"pending", "handshake"}
      /\ UNCHANGED <<httpSessions, child, startingSessions, waiters, resumable, resuming, deleted>>
  BY DEF Timeout
<1>2. CASE post[p].pc = "pending"
  BY <1>2, ToldAreIds, <1>1, OneMoves, TypesOf DEF Timeout, NoPost, Handlers, Phases, Refers
<1>3. CASE post[p].pc = "handshake" BY <1>3, <1>1, FailsKeeps DEF Timeout
<1> QED BY <1>1, <1>2, <1>3

-----------------------------------------------------------------------------
(* A session is given up. *)

\* The sessions that are kept keep their processes, and nobody begins or ends
\* a start: slotFreed() then keeps types, queue and slots.
LEMMA FreedKeeps ==
  ASSUME StreamInv, NEW sessions \in [Sids -> Children \cup {None}],
         NEW posts \in [Posts -> Handlers],
         \A s \in Sids : sessions[s] # None => sessions[s] = httpSessions[s],
         \A p \in Posts : /\ posts[p].pc = "waiting" <=> post[p].pc = "waiting"
                          /\ posts[p].pc \in {"admitted", "gate"} <=> post[p].pc \in {"admitted", "gate"}
                          /\ Refers(posts[p]),
         SlotFreed(sessions, startingSessions, posts), child' \in [Children -> Processes],
         resumable' \in [Sids -> 0..2], resuming' \in [Sids -> 0..2],
         known' \subseteq Sids, deleted' \subseteq Sids
  PROVE  /\ TypeOK' /\ httpSessions' = sessions
         /\ QueueFits(waiters', post') /\ SlotsFit(httpSessions', startingSessions', post')
         /\ \A p \in Posts : /\ Refers(post'[p])
                             /\ SameAim(posts[p], post'[p])
                             /\ Soon(posts[p]) <=> Soon(post'[p])
                             /\ ~Soon(posts[p]) => post'[p] = posts[p]
<1>1. QueueFits(waiters, posts) BY QueueNow, QueueSame
<1>2. SlotsFit(sessions, startingSessions, posts)
 <2>1. SlotsFit(httpSessions, startingSessions, post) /\ startingSessions \in Nat BY QueueNow
 <2>2. \A s \in Sids : sessions[s] # None => httpSessions[s] # None OBVIOUS
 <2>3. \A p \in Posts :
          posts[p].pc \in {"admitted", "gate"} <=> post[p].pc \in {"admitted", "gate"}
   OBVIOUS
 <2> QED BY <2>1, <2>2, <2>3, SlotsSame
<1>3. /\ httpSessions' = sessions /\ startingSessions' \in Nat
      /\ waiters' \in Seq(Posts) /\ post' \in [Posts -> Handlers]
      /\ QueueFits(waiters', post') /\ SlotsFit(sessions, startingSessions', post')
      /\ Woken(posts, post')
  BY <1>1, <1>2, TypesOf, FreedFits
<1>4. TypeOK' BY <1>3, TypesAgain
<1>5. \A p \in Posts : /\ SameAim(posts[p], post'[p])
                       /\ Refers(posts[p]) => Refers(post'[p])
                       /\ Soon(posts[p]) <=> Soon(post'[p])
                       /\ ~Soon(posts[p]) => post'[p] = posts[p]
  BY <1>3, WokenAims
<1> QED BY <1>3, <1>4, <1>5

\* Of all processes killTree() changes one, and that one is killed.
LEMMA KilledIs ==
  ASSUME StreamInv, NEW c \in Children \cup {None}, NEW who \in Killers
  PROVE  LET new == Killed(child, c, who)
         IN  /\ new \in [Children -> Processes]
             /\ \A d \in Children :
                  \/ new[d] = child[d] /\ (d = c => child[d].state \notin {"new", "running"})
                  \/ /\ d = c /\ new[d].state = "killed" /\ new[d].by = who
                     /\ child[d].state \in {"new", "running", "killed"}
                     /\ new[d].sid = child[d].sid
<1>1. child \in [Children -> Processes] BY TypesOf
<1>2. CASE c # None /\ child[c].state \in {"new", "running", "killed"}
 <2> DEFINE k == [child[c] EXCEPT !.state = "killed", !.by = who]
 <2>1. c \in Children BY <1>2
 <2>2. Killed(child, c, who) = [child EXCEPT ![c] = k] BY <1>1, <1>2, <2>1 DEF Killed
 <2>3. k \in Processes /\ k.state = "killed" /\ k.by = who /\ k.sid = child[c].sid
   BY <1>1, <2>1 DEF Processes, ChildStates
 <2> HIDE DEF k
 <2> QED BY <1>1, <1>2, <2>1, <2>2, <2>3
<1>3. CASE ~(c # None /\ child[c].state \in {"new", "running", "killed"})
  BY <1>3, SessionsAssumption, <1>1 DEF Killed
<1> QED BY <1>2, <1>3

\* Process c is killed and the ids of some of its sessions are dropped, or it
\* is gone: the other ids and processes stay together.
LEMMA MapAfter ==
  ASSUME StreamInv, NEW c \in Children \cup {None},
         \A s \in Sids : \/ httpSessions'[s] = httpSessions[s]
                         \/ httpSessions'[s] = None /\ httpSessions[s] = c,
         \A d \in Children : d # c => child'[d] = child[d],
         c \in Children =>
            /\ child'[c].state \notin {"new", "running"}
            /\ \A s \in Sids : httpSessions'[s] = c =>
                  /\ child'[c].state # "free"
                  /\ child'[c].state # "failed" => child'[c].sid = s
                  /\ child'[c].by # "reap"
  PROVE  (/\ \A s \in Sids : Mapped(s)
          /\ \A d \in Children : Reached(d))'
<1>1. ASSUME NEW s \in Sids PROVE Mapped(s)'
 <2>1. CASE httpSessions'[s] = None BY <2>1 DEF Mapped
 <2>2. CASE httpSessions'[s] # None BY <2>2, TypesOf DEF StreamInv, Mapped
 <2> QED BY <2>1, <2>2
<1>2. ASSUME NEW d \in Children PROVE Reached(d)'
 <2>1. CASE d = c BY <2>1 DEF Reached
 <2>2. CASE d # c BY <2>2, TypesOf DEF StreamInv, Processes, Reached
 <2> QED BY <2>1, <2>2
<1> QED BY <1>1, <1>2

LEMMA DroppedMap ==
  ASSUME NEW old \in [Sids -> Children \cup {None}], NEW s \in Sids, NEW c
  PROVE  LET new == IF c # None /\ old[s] = c THEN [old EXCEPT ![s] = None] ELSE old
         IN  \A t \in Sids : new[t] = old[t] \/ (new[t] = None /\ old[t] = c)
<1>1. CASE c # None /\ old[s] = c BY <1>1
<1>2. CASE ~(c # None /\ old[s] = c) BY <1>2
<1> QED BY <1>1, <1>2

LEMMA AbandonKeeps ==
  ASSUME StreamInv, NEW p \in Posts, Abandon(p)
  PROVE  StreamInv'
<1> DEFINE c == post[p].child
           s == post[p].sid
           sessions == IF c # None /\ httpSessions[s] = c
                         THEN [httpSessions EXCEPT ![s] = None] ELSE httpSessions
           posts == [q \in Posts |-> IF q \in Sharers(p) THEN GivenUp(p, q) ELSE post[q]]
<1>1. /\ post[p].pc = "abandon" /\ child' = Killed(child, c, "resume")
      /\ SlotFreed(sessions, startingSessions, posts)
      /\ NoLongerResuming(p) /\ UNCHANGED <<resumable, known, deleted>>
  BY DEF Abandon
<1>2. c \in Children \cup {None} /\ s \in Sids BY <1>1, TypesOf DEF Refers, Handlers
<1>3. sessions \in [Sids -> Children \cup {None}] BY TypesOf
<1>4. \A t \in Sids : sessions[t] = httpSessions[t] \/ (sessions[t] = None /\ httpSessions[t] = c)
  BY <1>2, TypesOf, DroppedMap
<1>5. ASSUME NEW q \in Posts
      PROVE  /\ GivenUp(p, q) \in Handlers /\ GivenUp(p, q).pc \in {"idle", "nosession"}
             /\ Refers(GivenUp(p, q))
  BY TypesOf DEF GivenUp, NoPost, Handlers, Phases, Refers
<1>6. posts \in [Posts -> Handlers] BY <1>5, TypesOf
<1>7. /\ \A q \in Sharers(p) : posts[q] = GivenUp(p, q)
      /\ \A q \in Posts \ Sharers(p) : posts[q] = post[q]
  BY SharersAre
<1> HIDE DEF posts, sessions, c, s
<1>8. \A q \in Posts : /\ posts[q].pc = "waiting" <=> post[q].pc = "waiting"
                       /\ posts[q].pc \in {"admitted", "gate"} <=> post[q].pc \in {"admitted", "gate"}
                       /\ Refers(posts[q])
 <2> TAKE q \in Posts
 <2>1. CASE q \in Sharers(p) BY <1>1, <2>1, SharersAre, <1>5, <1>7
 <2>2. CASE q \notin Sharers(p) BY <2>2, <1>7, TypesOf
 <2> QED BY <2>1, <2>2
<1>9. resuming' \in [Sids -> 0..2] BY <1>1, ResumingAgain
<1>10. "resume" \in Killers BY DEF Killers
<1>11. /\ child' \in [Children -> Processes]
       /\ \A d \in Children :
            \/ child'[d] = child[d] /\ (d = c => child[d].state \notin {"new", "running"})
            \/ /\ d = c /\ child'[d].state = "killed" /\ child'[d].by = "resume"
               /\ child[d].state \in {"new", "running", "killed"}
               /\ child'[d].sid = child[d].sid
  BY <1>1, <1>2, <1>10, KilledIs
<1>12. /\ TypeOK' /\ httpSessions' = sessions
       /\ QueueFits(waiters', post') /\ SlotsFit(httpSessions', startingSessions', post')
       /\ \A q \in Posts : /\ Refers(post'[q])
                           /\ SameAim(posts[q], post'[q])
                           /\ Soon(posts[q]) <=> Soon(post'[q])
                           /\ ~Soon(posts[q]) => post'[q] = posts[q]
 <2>1. \A t \in Sids : sessions[t] # None => sessions[t] = httpSessions[t] BY <1>4
 <2> QED BY <2>1, <1>1, <1>3, <1>6, <1>8, <1>9, <1>11, TypesOf, FreedKeeps
<1>13. (/\ \A t \in Sids : Restored(t)
        /\ \A q \in Posts : Alone(q) /\ Heard(q))'
  BY <1>5, <1>7, <1>12, SharersAre, <1>4, <1>1, RestoreOver DEF Soon, Restorer
<1>14. (\A q \in Posts : Unreaped(q))'
 <2>1. \A q \in Posts : Uses(post'[q]) => post'[q] = post[q]
   BY <1>5, <1>7, <1>12, SharersAre DEF Uses, Soon
 <2>2. \A q \in Posts : post[q].child # None /\ child'[post[q].child].by = "reap"
                           => child[post[q].child].by = "reap"
   BY <1>11, TypesOf DEF Handlers
 <2> QED BY <2>1, <2>2, UsersSafe
<1>15. (/\ \A t \in Sids : Mapped(t)
        /\ \A d \in Children : Reached(d))'
 <2>1. \A d \in Children : d # c => child'[d] = child[d] BY <1>11
 <2>2. ASSUME c \in Children
       PROVE  /\ child'[c].state \notin {"new", "running"}
              /\ \A t \in Sids : httpSessions'[t] = c =>
                    /\ child'[c].state # "free"
                    /\ child'[c].state # "failed" => child'[c].sid = t
                    /\ child'[c].by # "reap"
  <3>1. child'[c].state \notin {"new", "running"} BY <1>11, <2>2
  <3>2. ASSUME NEW t \in Sids, httpSessions'[t] = c
        PROVE  /\ child'[c].state # "free"
               /\ child'[c].state # "failed" => child'[c].sid = t
               /\ child'[c].by # "reap"
    BY <2>2, <3>2, <1>4, <1>12, SessionsAssumption, <1>11 DEF StreamInv, Mapped
  <3> QED BY <3>1, <3>2
 <2>3. \A t \in Sids : \/ httpSessions'[t] = httpSessions[t]
                       \/ httpSessions'[t] = None /\ httpSessions[t] = c
   BY <1>4, <1>12
 <2> QED BY <2>1, <2>2, <2>3, <1>2, MapAfter
<1> QED BY <1>12, <1>13, <1>14, <1>15 DEF StreamInv

-----------------------------------------------------------------------------
(* The life of a process. *)

\* Handlers and sessions stay as they are, and so do ids and processes.
LEMMA ChildrenKeep ==
  ASSUME StreamInv, child' \in [Children -> Processes],
         UNCHANGED <<httpSessions, startingSessions, waiters, resumable, resuming, post,
                     known, deleted>>,
         (/\ \A s \in Sids : Mapped(s)
          /\ \A c \in Children : Reached(c))',
         \A c \in Children : child'[c].by = "reap" => child[c].by = "reap"
  PROVE  StreamInv'
<1>1. TypeOK' BY TypesOf, TypesAgain
<1>2. \A p \in Posts : SameAim(post[p], post'[p]) BY DEF SameAim
<1>3. (/\ \A s \in Sids : Restored(s)
       /\ \A p \in Posts : Alone(p) /\ Heard(p))'
  BY <1>2, RestoresSame
<1>4. (\A p \in Posts : Unreaped(p))' BY TypesOf, UsersSafe DEF Handlers
<1>5. QueueFits(waiters', post') /\ SlotsFit(httpSessions', startingSessions', post') BY QueueNow
<1> QED BY <1>1, <1>3, <1>4, <1>5, TypesOf DEF StreamInv

LEMMA SpawnsKeeps ==
  ASSUME StreamInv, NEW c \in Children, Spawns(c)
  PROVE  StreamInv'
<1> DEFINE k == [child[c] EXCEPT !.state = "running"]
<1>1. /\ child[c].state = "new" /\ child' = [child EXCEPT ![c] = k]
      /\ UNCHANGED <<httpSessions, startingSessions, waiters, resumable, resuming, post,
                     known, deleted>>
  BY TypesOf DEF Spawns
<1>2. /\ k \in Processes /\ k.state = "running" /\ k.sid = child[c].sid /\ k.by = child[c].by
  BY TypesOf DEF Processes, ChildStates
<1> HIDE DEF k
<1>3. /\ child' \in [Children -> Processes] /\ child'[c] = k
      /\ \A d \in Children \ {c} : child'[d] = child[d]
  BY <1>1, <1>2, TypesOf
<1>4. ASSUME NEW s \in Sids PROVE Mapped(s)'
 <2>1. CASE httpSessions[s] = c BY <2>1, <1>1, <1>2, <1>3 DEF StreamInv, Mapped
 <2>2. CASE httpSessions[s] # c BY <2>2, <1>1, <1>3, TypesOf DEF StreamInv, Mapped
 <2> QED BY <2>1, <2>2
<1>5. ASSUME NEW d \in Children PROVE Reached(d)'
 <2>1. CASE d = c BY <2>1, <1>1, <1>2, <1>3 DEF StreamInv, Reached
 <2>2. CASE d # c BY <2>2, <1>1, <1>3 DEF StreamInv, Reached
 <2> QED BY <2>1, <2>2
<1>6. \A d \in Children : child'[d].by = "reap" => child[d].by = "reap" BY <1>2, <1>3
<1> QED BY <1>1, <1>3, <1>4, <1>5, <1>6, ChildrenKeep

LEMMA SpawnFailsKeeps ==
  ASSUME StreamInv, NEW c \in Children, SpawnFails(c)
  PROVE  StreamInv'
<1> DEFINE k == [child[c] EXCEPT !.state = "failed", !.sid = None, !.spared = FALSE]
<1>1. /\ child[c].state = "new" /\ child' = [child EXCEPT ![c] = k]
      /\ UNCHANGED <<httpSessions, startingSessions, waiters, resumable, resuming, post,
                     known, deleted>>
  BY TypesOf DEF SpawnFails
<1>2. /\ k \in Processes /\ k.state = "failed" /\ k.by = child[c].by
  BY TypesOf DEF Processes, ChildStates
<1> HIDE DEF k
<1>3. /\ child' \in [Children -> Processes] /\ child'[c] = k
      /\ \A d \in Children \ {c} : child'[d] = child[d]
  BY <1>1, <1>2, TypesOf
<1>4. ASSUME NEW s \in Sids PROVE Mapped(s)'
 <2>1. CASE httpSessions[s] = c BY <2>1, <1>1, <1>2, <1>3 DEF StreamInv, Mapped
 <2>2. CASE httpSessions[s] # c BY <2>2, <1>1, <1>3, TypesOf DEF StreamInv, Mapped
 <2> QED BY <2>1, <2>2
<1>5. ASSUME NEW d \in Children PROVE Reached(d)'
 <2>1. CASE d = c BY <2>1, <1>2, <1>3 DEF Reached
 <2>2. CASE d # c BY <2>2, <1>1, <1>3 DEF StreamInv, Reached
 <2> QED BY <2>1, <2>2
<1>6. \A d \in Children : child'[d].by = "reap" => child[d].by = "reap" BY <1>2, <1>3
<1> QED BY <1>1, <1>3, <1>4, <1>5, <1>6, ChildrenKeep

LEMMA ExitKeeps ==
  ASSUME StreamInv, NEW c \in Children, Exit(c)
  PROVE  StreamInv'
<1> DEFINE gone(p) == [post[p] EXCEPT !.pc = "abandon", !.child = None]
           posts == [p \in Posts |-> IF p \notin PendingOn(c) THEN post[p]
                                     ELSE IF post[p].pc = "pending" THEN NoPost
                                     ELSE [post[p] EXCEPT !.pc = "abandon", !.child = None]]
           sessions == Without(c)
<1> HIDE DEF gone
<1>1. /\ child' = [child EXCEPT ![c] = NoChild]
      /\ UNCHANGED <<resumable, resuming, deleted>>
      /\ Told({p \in PendingOn(c) : post[p].pc = "pending"})
  BY DEF Exit
<1>15. SlotFreed(sessions, startingSessions, posts) BY Zenon DEF Exit
<1>2. NoChild \in Processes /\ NoChild.state = "free" /\ NoChild.by = "none"
  BY DEF NoChild, Processes, ChildStates, Killers
<1>3. /\ child' \in [Children -> Processes] /\ child'[c] = NoChild
      /\ \A d \in Children \ {c} : child'[d] = child[d]
 <2>1. child \in [Children -> Processes] BY TypesOf
 <2> HIDE DEF posts, sessions
 <2>2. child' = [child EXCEPT ![c] = NoChild] BY <1>1
 <2> QED BY <1>2, <2>1, <2>2
<1>4. /\ sessions \in [Sids -> Children \cup {None}]
      /\ \A s \in Sids : IF httpSessions[s] = c THEN sessions[s] = None
                         ELSE sessions[s] = httpSessions[s]
  BY TypesOf DEF Without
<1>5. NoPost \in Handlers /\ NoPost.pc = "idle" BY DEF NoPost, Handlers, Phases
<1>6. \A p \in Posts : /\ gone(p) \in Handlers /\ gone(p).pc = "abandon"
                       /\ gone(p).sid = post[p].sid /\ gone(p).child = None
  BY TypesOf DEF gone, Handlers, Phases
<1>7. posts \in [Posts -> Handlers]
 <2>1. \A p \in Posts : post[p] \in Handlers BY TypesOf
 <2>2. posts = [p \in Posts |-> IF p \notin PendingOn(c) THEN post[p]
                                ELSE IF post[p].pc = "pending" THEN NoPost ELSE gone(p)]
   BY DEF gone
 <2> HIDE DEF posts
 <2> QED BY <1>5, <1>6, <2>1, <2>2
<1>8. ASSUME NEW p \in Posts
      PROVE  \/ posts[p] = post[p]
             \/ post[p].pc = "pending" /\ posts[p] = NoPost
             \/ post[p].pc = "handshake" /\ posts[p] = gone(p)
  BY DEF PendingOn, gone
<1> HIDE DEF posts, sessions
<1>9. \A p \in Posts : /\ posts[p].pc = "waiting" <=> post[p].pc = "waiting"
                       /\ posts[p].pc \in {"admitted", "gate"} <=> post[p].pc \in {"admitted", "gate"}
                       /\ Refers(posts[p]) /\ SameAim(post[p], posts[p])
 <2> TAKE p \in Posts
 <2>1. CASE posts[p] = post[p] BY <2>1, TypesOf DEF SameAim
 <2>2. CASE post[p].pc = "pending" /\ posts[p] = NoPost
   BY <2>2, <1>5 DEF Refers, SameAim, Restorer, Soon
 <2>3. CASE post[p].pc = "handshake" /\ posts[p] = gone(p)
   BY <2>3, <1>6, TypesOf DEF Refers, SameAim, Restorer, Soon
 <2> QED BY <2>1, <2>2, <2>3, <1>8
<1>10. known' \subseteq Sids BY <1>1, ToldAreIds DEF PendingOn
<1>11. /\ TypeOK' /\ httpSessions' = sessions
       /\ QueueFits(waiters', post') /\ SlotsFit(httpSessions', startingSessions', post')
       /\ \A p \in Posts : /\ Refers(post'[p])
                           /\ SameAim(posts[p], post'[p])
                           /\ Soon(posts[p]) <=> Soon(post'[p])
                           /\ ~Soon(posts[p]) => post'[p] = posts[p]
 <2>1. \A s \in Sids : sessions[s] # None => sessions[s] = httpSessions[s] BY <1>4
 <2>2. resumable' \in [Sids -> 0..2] /\ resuming' \in [Sids -> 0..2] /\ deleted' \subseteq Sids
   BY <1>1, TypesOf
 <2> QED BY <2>1, <2>2, <1>3, <1>4, <1>7, <1>9, <1>10, <1>15, FreedKeeps
<1>12. (/\ \A s \in Sids : Restored(s)
        /\ \A p \in Posts : Alone(p) /\ Heard(p))'
  BY <1>9, <1>11, <1>4, <1>1, RestoresSame DEF SameAim
<1>13. (\A p \in Posts : Unreaped(p))'
 <2>1. \A p \in Posts : Uses(post'[p]) => post'[p] = post[p]
  <3> TAKE p \in Posts
  <3>1. Soon(post'[p]) => ~Uses(post'[p]) BY DEF Soon, Uses
  <3>2. posts[p] # post[p] => ~Uses(posts[p]) BY <1>5, <1>6, <1>8 DEF Uses
  <3> QED BY <3>1, <3>2, <1>11
 <2>2. \A p \in Posts : post[p].child # None /\ child'[post[p].child].by = "reap"
                           => child[post[p].child].by = "reap"
   BY <1>2, <1>3, TypesOf DEF Handlers
 <2> QED BY <2>1, <2>2, UsersSafe
<1>14. (/\ \A s \in Sids : Mapped(s)
        /\ \A d \in Children : Reached(d))'
  BY <1>4, <1>11, SessionsAssumption, <1>2, <1>3, MapAfter
<1> QED BY <1>11, <1>12, <1>13, <1>14 DEF StreamInv

\* The session of an id is dropped and its process killed: the others stay
\* together with theirs.
LEMMA KilledMap ==
  ASSUME StreamInv, NEW s \in Sids, NEW who \in Killers,
         child' = Killed(child, httpSessions[s], who),
         httpSessions' = [httpSessions EXCEPT ![s] = None]
  PROVE  /\ child' \in [Children -> Processes]
         /\ \A d \in Children : \/ child'[d].by = child[d].by
                                \/ d = httpSessions[s] /\ child'[d].by = who
         /\ (/\ \A t \in Sids : Mapped(t)
             /\ \A d \in Children : Reached(d))'
<1> DEFINE c == httpSessions[s]
<1>1. c \in Children \cup {None} BY TypesOf
<1>2. /\ child' \in [Children -> Processes]
      /\ \A d \in Children :
            \/ child'[d] = child[d] /\ (d = c => child[d].state \notin {"new", "running"})
            \/ /\ d = c /\ child'[d].state = "killed" /\ child'[d].by = who
               /\ child[d].state \in {"new", "running", "killed"}
               /\ child'[d].sid = child[d].sid
  BY <1>1, KilledIs
<1>3. httpSessions'[s] = None /\ \A t \in Sids \ {s} : httpSessions'[t] = httpSessions[t]
  BY TypesOf
<1>4. ASSUME c \in Children
      PROVE  /\ child'[c].state \notin {"new", "running"}
             /\ \A t \in Sids : httpSessions'[t] = c =>
                   /\ child'[c].state # "free"
                   /\ child'[c].state # "failed" => child'[c].sid = t
                   /\ child'[c].by # "reap"
 <2>1. child'[c].state \notin {"new", "running"} BY <1>2, <1>4
 <2>2. ASSUME NEW t \in Sids, httpSessions'[t] = c
       PROVE  /\ child'[c].state # "free"
              /\ child'[c].state # "failed" => child'[c].sid = t
              /\ child'[c].by # "reap"
   BY <2>2, <1>3, <1>4, SessionsAssumption, <1>2 DEF StreamInv, Mapped
 <2> QED BY <2>1, <2>2
<1>5. \A d \in Children : d # c => child'[d] = child[d] BY <1>2
<1>6. \A t \in Sids : \/ httpSessions'[t] = httpSessions[t]
                      \/ httpSessions'[t] = None /\ httpSessions[t] = c
  BY <1>3
<1> HIDE DEF c
<1>7. (/\ \A t \in Sids : Mapped(t)
       /\ \A d \in Children : Reached(d))'
  BY <1>1, <1>4, <1>5, <1>6, MapAfter
<1>8. \A d \in Children : child'[d].by = child[d].by \/ (d = c /\ child'[d].by = who) BY <1>2
<1>9. child' \in [Children -> Processes] BY <1>2
<1> QED BY <1>7, <1>8, <1>9 DEF c

LEMMA ReapKeeps ==
  ASSUME StreamInv, NEW s \in Sids, Quiet, Reap(s)
  PROVE  StreamInv'
<1> DEFINE c == httpSessions[s]
<1>1. /\ c # None /\ ~Busy(c) /\ child' = Killed(child, c, "reap")
      /\ httpSessions' = [httpSessions EXCEPT ![s] = None]
      /\ UNCHANGED <<startingSessions, waiters, resumable, resuming, post, known, deleted>>
  BY DEF Reap
<1>2. "reap" \in Killers BY DEF Killers
<1>3. /\ child' \in [Children -> Processes]
      /\ \A d \in Children : child'[d].by = child[d].by \/ d = c
      /\ (/\ \A t \in Sids : Mapped(t)
          /\ \A d \in Children : Reached(d))'
  BY <1>1, <1>2, KilledMap
<1>4. /\ httpSessions' \in [Sids -> Children \cup {None}]
      /\ \A t \in Sids : httpSessions'[t] # None => httpSessions[t] # None
  BY <1>1, TypesOf
<1> HIDE DEF c
<1>5. TypeOK' BY <1>1, <1>3, <1>4, TypesOf, TypesAgain
<1>6. (/\ \A t \in Sids : Restored(t)
       /\ \A p \in Posts : Alone(p) /\ Heard(p))'
  BY <1>1, <1>4, RestoresSame DEF SameAim
<1>7. (\A p \in Posts : Unreaped(p))'
 <2> SUFFICES ASSUME NEW p \in Posts, post[p].pc \in {"pending", "handshake", "serve", "abandon"},
                     post[p].child # None
              PROVE  child'[post[p].child].by # "reap"
   BY <1>1 DEF Unreaped
 <2>1. post[p].pc \in {"pending", "handshake"} BY DEF Quiet, Settled
 <2>2. post[p].child # c BY <2>1, <1>1 DEF Busy, PendingOn
 <2>3. child[post[p].child].by # "reap" BY DEF StreamInv, Unreaped
 <2> QED BY <2>2, <2>3, <1>3, TypesOf DEF Handlers
<1>8. QueueFits(waiters', post') /\ SlotsFit(httpSessions', startingSessions', post')
  BY <1>1, <1>4, QueueNow, SlotsSame
<1> QED BY <1>1, <1>3, <1>5, <1>6, <1>7, <1>8, TypesOf DEF StreamInv

LEMMA DeleteKeeps ==
  ASSUME StreamInv, NEW s \in Sids, Delete(s)
  PROVE  StreamInv'
<1> DEFINE c == httpSessions[s]
           sessions == [httpSessions EXCEPT ![s] = None]
<1>1. /\ child' = Killed(child, c, "delete")
      /\ resumable' = [resumable EXCEPT ![s] = 0] /\ deleted' = deleted \cup {s}
      /\ UNCHANGED <<resuming, known>>
  BY DEF Delete
<1>2. "delete" \in Killers BY DEF Killers
<1>3. /\ resumable' \in [Sids -> 0..2] /\ resuming' \in [Sids -> 0..2]
      /\ known' \subseteq Sids /\ deleted' \subseteq Sids
  BY <1>1, TypesOf, Forgets
<1>4. CASE c # None
 <2>1. SlotFreed(sessions, startingSessions, post) BY <1>4 DEF Delete
 <2>2. httpSessions' = sessions BY <2>1 DEF SlotFreed
 <2>3. /\ child' \in [Children -> Processes]
       /\ \A d \in Children : child'[d].by = child[d].by \/ child'[d].by = "delete"
       /\ (/\ \A t \in Sids : Mapped(t)
           /\ \A d \in Children : Reached(d))'
   BY <2>2, <1>1, <1>2, KilledMap
 <2>4. /\ sessions \in [Sids -> Children \cup {None}]
       /\ \A t \in Sids : sessions[t] # None => sessions[t] = httpSessions[t]
   BY TypesOf
 <2> HIDE DEF sessions, c
 <2>5. /\ TypeOK' /\ httpSessions' = sessions
       /\ QueueFits(waiters', post') /\ SlotsFit(httpSessions', startingSessions', post')
       /\ \A p \in Posts : /\ Refers(post'[p])
                           /\ SameAim(post[p], post'[p])
                           /\ Soon(post[p]) <=> Soon(post'[p])
                           /\ ~Soon(post[p]) => post'[p] = post[p]
   BY <2>1, <2>3, <2>4, <1>3, TypesOf, FreedKeeps
 <2>6. (/\ \A t \in Sids : Restored(t)
        /\ \A p \in Posts : Alone(p) /\ Heard(p))'
   BY <2>4, <2>5, <1>1, RestoresSame
 <2>7. (\A p \in Posts : Unreaped(p))' BY <2>5, <2>3, TypesOf, UsersSafe DEF Soon, Uses, Handlers
 <2> QED BY <2>3, <2>5, <2>6, <2>7 DEF StreamInv
<1>5. CASE c = None
 <2>1. UNCHANGED <<httpSessions, startingSessions, waiters, post>> BY <1>5 DEF Delete
 <2>2. child' = child BY <1>1, <1>5 DEF Killed
 <2>3. TypeOK' BY <2>1, <2>2, <1>3, TypesOf, TypesAgain
 <2>4. \A p \in Posts : SameAim(post[p], post'[p]) BY <2>1 DEF SameAim
 <2>5. (/\ \A t \in Sids : Restored(t)
        /\ \A p \in Posts : Alone(p) /\ Heard(p))'
   BY <2>1, <2>4, <1>1, RestoresSame
 <2>6. (\A p \in Posts : Unreaped(p))' BY <2>1, <2>2, UsersSafe
 <2>7. QueueFits(waiters', post') /\ SlotsFit(httpSessions', startingSessions', post')
   BY <2>1, QueueNow
 <2> QED BY <2>1, <2>2, <2>3, <2>5, <2>6, <2>7, MapSame, TypesOf DEF StreamInv
<1> QED BY <1>4, <1>5

\* A recycle kills processes of ids, and leaves all of them with their ids.
LEMMA RecycledIs ==
  ASSUME StreamInv
  PROVE  /\ Recycled \in [Children -> Processes]
         /\ \A c \in Children : /\ Recycled[c].sid = child[c].sid
                                /\ Recycled[c].state = child[c].state
                                   \/ (child[c].state # "failed" /\ Recycled[c].state = "killed")
                                /\ Recycled[c].by = child[c].by \/ Recycled[c].by = "recycle"
<1>1. "recycle" \in Killers BY DEF Killers
<1> SUFFICES ASSUME NEW c \in Children
             PROVE  /\ Recycled[c] \in Processes
                    /\ Recycled[c].sid = child[c].sid
                    /\ Recycled[c].state = child[c].state
                       \/ (child[c].state # "failed" /\ Recycled[c].state = "killed")
                    /\ Recycled[c].by = child[c].by \/ Recycled[c].by = "recycle"
  BY Zenon DEF Recycled
<1>2. child[c] \in Processes BY TypesOf
<1>3. CASE \A s \in Sids : httpSessions[s] # c BY <1>3, <1>2 DEF Recycled
<1>4. CASE ~(\A s \in Sids : httpSessions[s] # c) /\ Busy(c)
 <2> DEFINE k == [child[c] EXCEPT !.spared = child[c].state \in {"new", "running"}]
 <2>1. Recycled[c] = k BY <1>4 DEF Recycled
 <2>2. (child[c].state \in {"new", "running"}) \in BOOLEAN OBVIOUS
 <2>3. k \in Processes /\ k.sid = child[c].sid /\ k.state = child[c].state /\ k.by = child[c].by
   BY <1>2, <2>2 DEF Processes
 <2> HIDE DEF k
 <2> QED BY <2>1, <2>3
<1>5. CASE ~(\A s \in Sids : httpSessions[s] # c) /\ ~Busy(c)
 <2> DEFINE new == Killed(child, c, "recycle")
 <2>1. Recycled[c] = new[c] BY <1>5 DEF Recycled
 <2>2. /\ new \in [Children -> Processes]
       /\ \A d \in Children :
            \/ new[d] = child[d] /\ (d = c => child[d].state \notin {"new", "running"})
            \/ /\ d = c /\ new[d].state = "killed" /\ new[d].by = "recycle"
               /\ child[d].state \in {"new", "running", "killed"}
               /\ new[d].sid = child[d].sid
   BY <1>1, KilledIs
 <2> HIDE DEF new
 <2> QED BY <2>1, <2>2
<1> QED BY <1>3, <1>4, <1>5

LEMMA RecycledMap ==
  ASSUME StreamInv, child' = Recycled \/ UNCHANGED child, UNCHANGED httpSessions
  PROVE  /\ child' \in [Children -> Processes]
         /\ \A c \in Children : child'[c].by = "reap" => child[c].by = "reap"
         /\ (/\ \A s \in Sids : Mapped(s)
             /\ \A c \in Children : Reached(c))'
<1>1. CASE UNCHANGED child BY <1>1, MapSame, TypesOf
<1>2. CASE child' = Recycled
 <2>1. /\ child' \in [Children -> Processes]
       /\ \A c \in Children : /\ child'[c].sid = child[c].sid
                              /\ child'[c].state = child[c].state
                                 \/ (child[c].state # "failed" /\ child'[c].state = "killed")
                              /\ child'[c].by = child[c].by \/ child'[c].by = "recycle"
   BY <1>2, RecycledIs
 <2>2. ASSUME NEW s \in Sids PROVE Mapped(s)'
  <3> SUFFICES ASSUME httpSessions[s] # None
               PROVE  /\ child'[httpSessions[s]].state # "free"
                      /\ child'[httpSessions[s]].state # "failed"
                           => child'[httpSessions[s]].sid = s
                      /\ child'[httpSessions[s]].by # "reap"
    BY DEF Mapped
  <3>1. httpSessions[s] \in Children BY TypesOf
  <3>2. Mapped(s) BY DEF StreamInv
  <3> QED BY <2>1, <3>1, <3>2 DEF Mapped
 <2>3. ASSUME NEW c \in Children PROVE Reached(c)' BY <2>1 DEF StreamInv, Reached
 <2> QED BY <2>1, <2>2, <2>3
<1> QED BY <1>1, <1>2

LEMMA RecycleKeeps ==
  ASSUME StreamInv, Recycle
  PROVE  StreamInv'
<1>1. /\ child' = Recycled
      /\ UNCHANGED <<httpSessions, startingSessions, waiters, resumable, resuming, post,
                     known, deleted>>
  BY DEF Recycle
<1> QED BY <1>1, RecycledMap, ChildrenKeep

LEMMA ReloadKeeps ==
  ASSUME StreamInv, Reload
  PROVE  StreamInv'
<1> DEFINE o(p) == post[p].old \/ post[p].pc \in {"waiting", "gate"}
           h(p) == [post[p] EXCEPT !.old = o(p)]
<1>1. /\ child' = Recycled \/ UNCHANGED child
      /\ UNCHANGED <<httpSessions, startingSessions, waiters, resumable, resuming, known, deleted>>
  BY DEF Reload
<1>2. \A p \in Posts : o(p) \in BOOLEAN BY Zenon
<1>3. post' = [p \in Posts |-> h(p)] BY Zenon DEF Reload
<1> HIDE DEF o
<1>4. \A p \in Posts : /\ h(p) \in Handlers /\ h(p).pc = post[p].pc /\ h(p).sid = post[p].sid
                       /\ h(p).child = post[p].child
  BY <1>2, TypesOf DEF Handlers
<1> HIDE DEF h
<1>5. /\ post' \in [Posts -> Handlers]
      /\ \A p \in Posts : /\ post'[p].pc = post[p].pc /\ post'[p].sid = post[p].sid
                          /\ post'[p].child = post[p].child
  BY <1>3, <1>4
<1>6. /\ child' \in [Children -> Processes]
      /\ \A c \in Children : child'[c].by = "reap" => child[c].by = "reap"
      /\ (/\ \A s \in Sids : Mapped(s)
          /\ \A c \in Children : Reached(c))'
  BY <1>1, RecycledMap
<1>7. TypeOK' BY <1>1, <1>5, <1>6, TypesOf, TypesAgain
<1>8. \A p \in Posts : Refers(post'[p]) BY <1>5, TypesOf DEF Refers
<1>9. QueueFits(waiters', post') BY <1>1, <1>5, QueueStays
<1>10. SlotsFit(httpSessions', startingSessions', post') BY <1>5, <1>1, QueueNow, SlotsSame
<1>11. (/\ \A s \in Sids : Restored(s)
        /\ \A p \in Posts : Alone(p) /\ Heard(p))'
  BY <1>5, <1>1, RestoresSame DEF SameAim, Restorer, Soon
<1>12. (\A p \in Posts : Unreaped(p))' BY <1>5, <1>6, TypesOf, UsersSafe DEF Uses, Handlers
<1> QED BY <1>6, <1>7, <1>8, <1>9, <1>10, <1>11, <1>12 DEF StreamInv

-----------------------------------------------------------------------------
(* From the start on. *)

\* Nothing runs: a bridge that has just been started.
Started ==
    /\ httpSessions = [s \in Sids |-> None]
    /\ child = [c \in Children |-> NoChild]
    /\ startingSessions = 0 /\ waiters = <<>>
    /\ resumable \in [Sids -> 0..2] /\ resuming = [s \in Sids |-> 0]
    /\ post = [p \in Posts |-> NoPost]
    /\ known \subseteq Sids /\ deleted \subseteq Sids

LEMMA JustStarted == Started => StreamInv
<1> SUFFICES ASSUME Started PROVE StreamInv OBVIOUS
<1> USE DEF Started
<1>1. /\ NoPost \in Handlers /\ NoPost.pc = "idle"
      /\ NoChild \in Processes /\ NoChild.state = "free"
  BY DEF NoPost, NoChild, Handlers, Phases, Processes, ChildStates, Killers
<1>2. TypeOK BY <1>1 DEF TypeOK, Handlers, Processes
<1>3. \A p \in Posts : post[p].pc = "idle" BY <1>1
<1>4. \A p \in Posts : Refers(post[p]) BY <1>3 DEF Refers
<1>5. QueueFits(waiters, post) BY <1>3 DEF QueueFits
<1>6. SlotsFit(httpSessions, startingSessions, post)
 <2>1. Reserving(post) = {} BY <1>3 DEF Reserving
 <2>2. {s \in Sids : httpSessions[s] # None} = {} OBVIOUS
 <2>3. Cardinality(Reserving(post)) = 0 BY <2>1, FS_EmptySet
 <2>4. SessionCount(httpSessions) = 0 BY <2>2, FS_EmptySet DEF SessionCount
 <2> QED BY <2>3, <2>4, SessionsAssumption DEF SlotsFit
<1>7. \A s \in Sids : Mapped(s) /\ Restored(s) BY DEF Mapped, Restored
<1>8. \A c \in Children : Reached(c) BY <1>1 DEF Reached
<1>9. \A p \in Posts : Alone(p) /\ Heard(p) /\ Unreaped(p)
  BY <1>3 DEF Alone, Restoring, Heard, Unreaped
<1> QED BY <1>2, <1>4, <1>5, <1>6, <1>7, <1>8, <1>9 DEF StreamInv

LEMMA Start == Init => StreamInv
<1>1. Init => Started BY DEF Init, Started
<1> QED BY <1>1, JustStarted

LEMMA RestartKeeps ==
  ASSUME StreamInv, Restart
  PROVE  StreamInv'
<1>1. Started'
 <2>1. PICK expired \in SUBSET Sids :
         resumable' = [s \in Sids |-> IF s \in expired THEN 0 ELSE resumable[s]]
   BY DEF Restart
 <2>2. resumable' \in [Sids -> 0..2] BY <2>1, TypesOf
 <2> QED BY <2>2, TypesOf DEF Restart, Started
<1>2. Started' => StreamInv' BY JustStarted, PTL
<1> QED BY <1>1, <1>2

LEMMA Step ==
  ASSUME StreamInv, [Next]_vars
  PROVE  StreamInv'
<1>1. CASE UNCHANGED vars BY <1>1, TypesOf, ChildrenKeep, MapSame DEF vars
<1>2. ASSUME NEW p \in Posts, Microtask(p) PROVE StreamInv'
  BY <1>2, AdmittedKeeps, ServeKeeps, NoSessionKeeps, AbandonKeeps DEF Microtask
<1>3. ASSUME NEW p \in Posts, Handler(p) PROVE StreamInv'
 <2>1. CASE Body(p)
  <3>1. known \subseteq Sids BY TypesOf
  <3>2. CASE NewSession(p) BY <3>2, NewSessionKeeps
  <3>3. ASSUME NEW s \in known, NEW starts \in BOOLEAN,
               Request(p, starts, s) \/ CannotResume(p, starts, s) \/ Join(p, starts, s)
                 \/ Restore(p, starts, s)
        PROVE  StreamInv'
    BY <3>1, <3>3, RequestKeeps, CannotResumeKeeps, JoinKeeps, RestoreKeeps
  <3> QED BY <2>1, <3>2, <3>3 DEF Body
 <2>2. CASE Answer(p) BY <2>2, AnswerKeeps
 <2>3. CASE Handshake(p) BY <2>3, HandshakeKeeps
 <2>4. CASE GateOpens(p) BY <2>4, GateOpensKeeps
 <2>5. CASE WaitTimeout(p) BY <2>5, WaitTimeoutKeeps
 <2>6. CASE Timeout(p) BY <2>6, TimeoutKeeps
 <2> QED BY <1>3, <2>1, <2>2, <2>3, <2>4, <2>5, <2>6 DEF Handler
<1>4. ASSUME NEW c \in Children, Process(c) PROVE StreamInv'
  BY <1>4, SpawnsKeeps, SpawnFailsKeeps, ExitKeeps DEF Process
<1>5. ASSUME Quiet, NEW s \in Sids, Reap(s) PROVE StreamInv' BY <1>5, ReapKeeps
<1>6. ASSUME NEW s \in known, Delete(s) PROVE StreamInv' BY TypesOf, <1>6, DeleteKeeps
<1>7. CASE Recycle BY <1>7, RecycleKeeps
<1>8. CASE Reload BY <1>8, ReloadKeeps
<1>9. CASE Restart BY <1>9, RestartKeeps
<1> QED BY <1>1, <1>2, <1>3, <1>4, <1>5, <1>6, <1>7, <1>8, <1>9 DEF Next, Callback

\* Types, the queue of waiters, the slots, ids and processes, and restores keep
\* together in every reachable state.
THEOREM StreamInvariance == Spec => []StreamInv
<1>1. StreamInv /\ [Next]_vars => StreamInv' BY Step
<1> QED BY <1>1, Start, PTL DEF Spec

-----------------------------------------------------------------------------
(* What it means. *)

LEMMA SlotsHold == StreamInv => SlotsAccountedFor
<1> SUFFICES ASSUME StreamInv PROVE SlotsAccountedFor OBVIOUS
<1>1. WithinCap BY DEF StreamInv, SlotsFit, WithinCap
<1>2. Cap > 0 =>
        startingSessions = Cardinality({p \in Posts : post[p].pc \in {"admitted", "gate"} })
  BY DEF StreamInv, SlotsFit, Reserving
<1>3. ASSUME NEW p \in Posts
      PROVE  Cardinality({i \in DOMAIN waiters : waiters[i] = p}) =
                IF post[p].pc = "waiting" THEN 1 ELSE 0
 <2> DEFINE at == {i \in DOMAIN waiters : waiters[i] = p}
 <2>1. QueueFits(waiters, post) BY QueueNow
 <2>2. CASE post[p].pc = "waiting"
  <3>1. PICK i \in DOMAIN waiters : waiters[i] = p BY <2>1, <2>2 DEF QueueFits
  <3>2. at = {i} BY <2>1, <3>1 DEF QueueFits
  <3>3. Cardinality(at) = 1 BY <3>2, FS_Singleton
  <3> QED BY <2>2, <3>3
 <2>3. CASE post[p].pc # "waiting"
  <3>1. at = {} BY <2>1, <2>3 DEF QueueFits
  <3>2. Cardinality(at) = 0 BY <3>1, FS_EmptySet
  <3> QED BY <2>3, <3>2
 <2> QED BY <2>2, <2>3
<1> QED BY <1>1, <1>2, <1>3 DEF SlotsAccountedFor

\* Slots are accounted for, no process is left behind, one restore runs for an
\* id at a time and the reaper takes no process away from under a request, for
\* any limit and any number of handlers, ids and processes.
THEOREM SessionsStayKept == Spec => []SessionsKept
<1>1. StreamInv => SessionsKept
 <2> SUFFICES ASSUME StreamInv PROVE SessionsKept OBVIOUS
 <2>1. SlotsAccountedFor BY SlotsHold
 <2>2. NoOrphans
  <3> SUFFICES ASSUME NEW c \in Children, child[c].state \in {"new", "running"}
               PROVE  {s \in Sids : httpSessions[s] = c} = {child[c].sid}
    BY DEF NoOrphans
  <3>1. child[c].sid \in Sids /\ httpSessions[child[c].sid] = c
    BY TypesOf DEF StreamInv, Reached, Processes
  <3>2. ASSUME NEW s \in Sids, httpSessions[s] = c PROVE s = child[c].sid
    BY SessionsAssumption, <3>2 DEF StreamInv, Mapped
  <3> QED BY <3>1, <3>2
 <2>3. OneRestore
  <3>1. \A p, q \in Posts :
          Restoring(p) /\ Restoring(q) /\ post[p].sid = post[q].sid => p = q
    BY DEF StreamInv, Alone
  <3>2. ASSUME NEW q \in Posts, post[q].pc = "joined"
        PROVE  \E p \in Posts : Restoring(p) /\ q \in Sharers(p)
   <4>1. post[q].sid \in Sids BY <3>2, TypesOf DEF Refers, Handlers
   <4>2. resuming[post[q].sid] # 0 BY <3>2 DEF StreamInv, Heard
   <4>3. PICK p \in Posts : Restoring(p) /\ post[p].sid = post[q].sid
     BY <4>1, <4>2 DEF StreamInv, Restored
   <4> QED BY <3>2, <4>3 DEF Sharers
  <3> QED BY <3>1, <3>2 DEF OneRestore
 <2>4. ReapIsHarmless
  <3> SUFFICES ASSUME NEW p \in Posts, post[p].pc \in {"pending", "handshake"}
               PROVE  child[post[p].child].by # "reap"
    BY DEF ReapIsHarmless
  <3>1. post[p].child # None BY TypesOf DEF Refers
  <3> QED BY <3>1 DEF StreamInv, Unreaped
 <2> QED BY <2>1, <2>2, <2>3, <2>4 DEF SessionsKept
<1> QED BY <1>1, StreamInvariance, PTL

-----------------------------------------------------------------------------
(* No wakeup is lost. *)

\* Processes that the reaper has killed and that are still to exit.
Reaped(processes) ==
    {c \in Children : processes[c].state = "killed" /\ processes[c].by = "reap"}

\* No process that the invariant counts on has failed to spawn.
AllSpawn == \A c \in Children : child[c].state # "failed"

WakeInv == ~SpawnMayFail => AllSpawn /\ QueuedOnlyWhenFull

\* What is taken, now or once a process is gone.
Taken(sessions, starting, processes) ==
    SessionCount(sessions) + starting + Cardinality(Reaped(processes))

LEMMA ReapedIsNat ==
  ASSUME NEW processes
  PROVE  IsFiniteSet(Reaped(processes)) /\ Cardinality(Reaped(processes)) \in Nat
BY SessionsAssumption, FS_Subset, FS_CardinalityType DEF Reaped

LEMMA WhenFull ==
  QueuedOnlyWhenFull <=>
     (waiters # <<>> => Cap <= Taken(httpSessions, startingSessions, child))
BY DEF QueuedOnlyWhenFull, Taken, Reaped

LEMMA WhenFullLater ==
  QueuedOnlyWhenFull' <=>
     (waiters' # <<>> => Cap <= Taken(httpSessions', startingSessions', child'))
BY DEF QueuedOnlyWhenFull, Taken, Reaped

\* Who leaves one slot wakes one waiter.
LEMMA OneForOne ==
  ASSUME StreamInv, QueuedOnlyWhenFull,
         NEW sessions, NEW starting \in Nat, NEW posts, SlotFreed(sessions, starting, posts),
         Taken(httpSessions, startingSessions, child) <= Taken(sessions, starting, child') + 1
  PROVE  QueuedOnlyWhenFull'
<1> SUFFICES ASSUME waiters' # <<>>
             PROVE  Cap <= Taken(httpSessions', startingSessions', child')
  BY WhenFullLater
<1> DEFINE n == SessionCount(sessions)
           r == Cardinality(Reaped(child'))
           k == Taken(httpSessions, startingSessions, child)
<1>1. n \in Nat /\ r \in Nat /\ k \in Nat /\ Cap \in Nat
  BY CountIsNat, ReapedIsNat, SessionsAssumption, TypesOf DEF Taken
<1>2. k <= n + starting + r + 1 BY <1>1 DEF Taken
<1>3. httpSessions' = sessions BY DEF SlotFreed
<1>4. Taken(httpSessions', startingSessions', child') = n + startingSessions' + r BY <1>3 DEF Taken
<1>5. CASE waiters # <<>> /\ HasSlot(sessions, starting)
 <2>1. startingSessions' = starting + 1 BY <1>5 DEF SlotFreed
 <2>2. Cap <= k BY <1>5, WhenFull
 <2> HIDE DEF n, r, k
 <2> QED BY <2>1, <2>2, <1>1, <1>2, <1>4
<1>6. CASE waiters # <<>> /\ ~HasSlot(sessions, starting)
 <2>1. startingSessions' = starting BY <1>6 DEF SlotFreed
 <2>2. ~(n + starting < Cap) BY <1>6 DEF HasSlot
 <2> HIDE DEF n, r, k
 <2> QED BY <2>1, <2>2, <1>1, <1>4
<1>7. CASE waiters = <<>> BY <1>7 DEF SlotFreed
<1> QED BY <1>5, <1>6, <1>7

LEMMA SameReaped ==
  ASSUME NEW old, NEW new,
         \A c \in Children : new[c] # old[c] => /\ old[c].state # "killed" \/ old[c].by # "reap"
                                                /\ new[c].state # "killed" \/ new[c].by # "reap"
  PROVE  Reaped(new) = Reaped(old)
BY DEF Reaped

\* A step that begins nothing and frees nothing.
LEMMA Unmoved ==
  ASSUME QueuedOnlyWhenFull, UNCHANGED <<httpSessions, startingSessions>>,
         waiters' # <<>> => waiters # <<>>, Reaped(child') = Reaped(child)
  PROVE  QueuedOnlyWhenFull'
BY WhenFull, WhenFullLater DEF Taken

LEMMA AdmitWakes ==
  ASSUME StreamInv, QueuedOnlyWhenFull, NEW p, NEW starts, NEW s, Admit(p, starts, s),
         UNCHANGED <<httpSessions, child>>
  PROVE  QueuedOnlyWhenFull'
<1> SUFFICES ASSUME waiters' # <<>>
             PROVE  Cap <= Taken(httpSessions', startingSessions', child')
  BY WhenFullLater
<1> DEFINE n == SessionCount(httpSessions)
           r == Cardinality(Reaped(child))
           reserves == Cap > 0 /\ HasSlot(httpSessions, startingSessions)
           passes == Cap = 0 \/ reserves
<1>1. n \in Nat /\ r \in Nat /\ startingSessions \in Nat /\ Cap \in Nat
  BY CountIsNat, ReapedIsNat, SessionsAssumption, TypesOf
<1>2. /\ startingSessions' = startingSessions + (IF reserves THEN 1 ELSE 0)
      /\ passes => waiters' = waiters
  BY DEF Admit
<1>3. Taken(httpSessions', startingSessions', child') = n + startingSessions' + r BY DEF Taken
<1>4. reserves <=> Cap > 0 /\ n + startingSessions < Cap BY DEF HasSlot
<1>5. waiters # <<>> => Cap <= n + startingSessions + r BY WhenFull DEF Taken
<1> HIDE DEF n, r, reserves
<1>6. CASE passes BY <1>1, <1>2, <1>3, <1>5, <1>6
<1>7. CASE ~passes BY <1>1, <1>2, <1>3, <1>4, <1>7
<1> QED BY <1>6, <1>7

\* The reservation of a start that is given up, or turned into a session.
LEMMA ReleaseWakes ==
  ASSUME StreamInv, QueuedOnlyWhenFull, NEW p \in Posts, post[p].pc \in {"admitted", "gate"},
         NEW sessions, NEW posts, SlotFreed(sessions, Released, posts),
         SessionCount(sessions) >= SessionCount(httpSessions), Reaped(child') = Reaped(child)
  PROVE  QueuedOnlyWhenFull'
<1> DEFINE rest == [post EXCEPT ![p] = NoPost]
<1>1. /\ Released \in Nat
      /\ Cap > 0 => Released = startingSessions - 1
 <2>1. rest[p].pc = "idle" /\ \A q \in Posts \ {p} : rest[q] = post[q] BY TypesOf DEF NoPost
 <2> HIDE DEF rest
 <2> QED BY <2>1, ReleasedFits
<1>2. Released >= startingSessions - 1 BY <1>1, SessionsAssumption, TypesOf DEF Released
<1>3. Taken(httpSessions, startingSessions, child) <= Taken(sessions, Released, child') + 1
  BY <1>1, <1>2, CountIsNat, ReapedIsNat, TypesOf DEF Taken
<1> QED BY <1>1, <1>3, OneForOne

Wakes == AllSpawn /\ QueuedOnlyWhenFull

LEMMA StillWakes ==
  ASSUME Wakes, UNCHANGED <<httpSessions, child, startingSessions>>,
         waiters' # <<>> => waiters # <<>>
  PROVE  Wakes'
<1>1. AllSpawn' BY DEF Wakes, AllSpawn
<1>2. QueuedOnlyWhenFull' BY Unmoved DEF Wakes
<1> QED BY <1>1, <1>2 DEF Wakes

LEMMA BodyWakes ==
  ASSUME StreamInv, Wakes, NEW p \in Posts, Body(p)
  PROVE  Wakes'
<1>1. ASSUME NEW s, NEW starts, Admit(p, starts, s), UNCHANGED <<httpSessions, child>>
      PROVE  Wakes'
  BY <1>1, AdmitWakes DEF Wakes, AllSpawn
<1>2. CASE NewSession(p) BY <1>1, <1>2 DEF NewSession
<1>3. ASSUME NEW s \in known, NEW starts \in BOOLEAN, Restore(p, starts, s) PROVE Wakes'
  BY <1>1, <1>3 DEF Restore
<1>4. ASSUME NEW s \in known, NEW starts \in BOOLEAN,
             Request(p, starts, s) \/ CannotResume(p, starts, s) \/ Join(p, starts, s)
      PROVE  Wakes'
  BY <1>4, StillWakes DEF Request, CannotResume, Join
<1> QED BY <1>2, <1>3, <1>4 DEF Body

\* A refusal or a start gives the reservation back.
LEMMA ThrowsWakes ==
  ASSUME StreamInv, Wakes, NEW p \in Posts, post[p].pc \in {"admitted", "gate"},
         Throws(p) \/ ReturnsNull(p)
  PROVE  Wakes'
<1>1. child' = child BY DEF Throws, ReturnsNull
<1>2. AllSpawn' BY <1>1 DEF Wakes, AllSpawn
<1>3. \E posts : SlotFreed(httpSessions, Released, posts) BY DEF Throws, ReturnsNull
<1>4. SessionCount(httpSessions) >= SessionCount(httpSessions) BY CountIsNat
<1>5. QueuedOnlyWhenFull' BY <1>1, <1>3, <1>4, ReleaseWakes DEF Wakes
<1> QED BY <1>2, <1>5 DEF Wakes

LEMMA StartChildWakes ==
  ASSUME StreamInv, Wakes, NEW p \in Posts, post[p].pc \in {"admitted", "gate"}, StartChild(p)
  PROVE  Wakes'
<1>1. PICK c \in Children, s \in Sids :
        /\ Available(c)
        /\ child' = [child EXCEPT ![c] = [NoChild EXCEPT !.state = "new", !.sid = s]]
        /\ \E posts : SlotFreed([httpSessions EXCEPT ![s] = c], Released, posts)
  BY DEF StartChild
<1> DEFINE sessions == [httpSessions EXCEPT ![s] = c]
           new == [NoChild EXCEPT !.state = "new", !.sid = s]
<1>2. new.state = "new" BY DEF NoChild
<1> HIDE DEF new
<1>3. child'[c] = new /\ \A d \in Children \ {c} : child'[d] = child[d] BY <1>1, TypesOf DEF new
<1>4. AllSpawn' BY <1>2, <1>3 DEF Wakes, AllSpawn
<1>5. child[c].state \in {"free", "failed"} BY <1>1 DEF Available
<1>6. Reaped(child') = Reaped(child) BY <1>2, <1>3, <1>5, SameReaped
<1>7. SessionCount(sessions) >= SessionCount(httpSessions)
 <2>1. \A t \in Sids : httpSessions[t] # None => sessions[t] # None BY TypesOf, SessionsAssumption
 <2> HIDE DEF sessions
 <2> QED BY <2>1, CountLess, CountIsNat
<1>8. QueuedOnlyWhenFull' BY <1>1, <1>6, <1>7, ReleaseWakes DEF Wakes
<1> QED BY <1>4, <1>8 DEF Wakes

LEMMA AdmittedWakes ==
  ASSUME StreamInv, Wakes, NEW p \in Posts, Admitted(p) \/ GateOpens(p)
  PROVE  Wakes'
<1>1. post[p].pc \in {"admitted", "gate"} BY DEF Admitted, GateOpens
<1>2. CASE Throws(p) \/ ReturnsNull(p) BY <1>1, <1>2, ThrowsWakes
<1>3. CASE StartChild(p) BY <1>1, <1>3, StartChildWakes
<1>4. CASE UNCHANGED <<httpSessions, child, startingSessions, waiters, resumable,
                       resuming, known, deleted>>
  BY <1>4, StillWakes
<1> QED BY <1>2, <1>3, <1>4 DEF Admitted, GateOpens, Checked

\* One session fewer, and no process of the reaper's less.
LEMMA DroppedWakes ==
  ASSUME StreamInv, QueuedOnlyWhenFull, NEW s \in Sids, NEW sessions, NEW posts,
         sessions = httpSessions \/ sessions = [httpSessions EXCEPT ![s] = None],
         SlotFreed(sessions, startingSessions, posts), Reaped(child') = Reaped(child)
  PROVE  QueuedOnlyWhenFull'
<1>1. SessionCount(httpSessions) <= SessionCount(sessions) + 1
 <2>1. CASE sessions = httpSessions BY <2>1, CountIsNat
 <2>2. CASE sessions = [httpSessions EXCEPT ![s] = None] /\ httpSessions[s] # None
  <3>1. httpSessions \in [Sids -> Children \cup {None}] BY TypesOf
  <3>2. SessionCount(sessions) = SessionCount(httpSessions) - 1 BY <2>2, <3>1, CountDrop
  <3> QED BY <3>2, CountIsNat
 <2>3. CASE sessions = [httpSessions EXCEPT ![s] = None] /\ httpSessions[s] = None
  <3>1. sessions = httpSessions BY <2>3, TypesOf
  <3> QED BY <3>1, CountIsNat
 <2> QED BY <2>1, <2>2, <2>3
<1>2. Taken(httpSessions, startingSessions, child) <= Taken(sessions, startingSessions, child') + 1
  BY <1>1, CountIsNat, ReapedIsNat, TypesOf DEF Taken
<1> QED BY <1>2, TypesOf, OneForOne

\* A process that is killed by somebody else was not the reaper's.
LEMMA KilledWakes ==
  ASSUME StreamInv, AllSpawn, NEW c \in Children \cup {None}, NEW who \in Killers \ {"reap"},
         c # None => child[c].by # "reap", child' = Killed(child, c, who)
  PROVE  AllSpawn' /\ Reaped(child') = Reaped(child)
<1>1. \A d \in Children :
         \/ child'[d] = child[d]
         \/ /\ d = c /\ child'[d].state = "killed" /\ child'[d].by = who
            /\ child[d].state \in {"new", "running", "killed"}
  BY KilledIs
<1>2. AllSpawn' BY <1>1 DEF AllSpawn
<1>3. Reaped(child') = Reaped(child) BY <1>1, SessionsAssumption, SameReaped
<1> QED BY <1>2, <1>3

LEMMA AbandonWakes ==
  ASSUME StreamInv, Wakes, NEW p \in Posts, Abandon(p)
  PROVE  Wakes'
<1> DEFINE c == post[p].child
           s == post[p].sid
           sessions == IF c # None /\ httpSessions[s] = c
                         THEN [httpSessions EXCEPT ![s] = None] ELSE httpSessions
<1>1. /\ post[p].pc = "abandon" /\ child' = Killed(child, c, "resume")
      /\ \E posts : SlotFreed(sessions, startingSessions, posts)
  BY DEF Abandon
<1>2. c \in Children \cup {None} /\ s \in Sids BY <1>1, TypesOf DEF Refers, Handlers
<1>3. c # None => child[c].by # "reap" BY <1>1 DEF StreamInv, Unreaped
<1>4. "resume" \in Killers \ {"reap"} BY DEF Killers
<1>5. sessions = httpSessions \/ sessions = [httpSessions EXCEPT ![s] = None] OBVIOUS
<1> HIDE DEF c, s, sessions
<1>6. AllSpawn' /\ Reaped(child') = Reaped(child) BY <1>1, <1>2, <1>3, <1>4, KilledWakes DEF Wakes
<1>7. QueuedOnlyWhenFull' BY <1>1, <1>2, <1>5, <1>6, DroppedWakes DEF Wakes
<1> QED BY <1>6, <1>7 DEF Wakes

LEMMA DeleteWakes ==
  ASSUME StreamInv, Wakes, NEW s \in Sids, Delete(s)
  PROVE  Wakes'
<1> DEFINE c == httpSessions[s]
<1>1. child' = Killed(child, c, "delete") BY DEF Delete
<1>2. c \in Children \cup {None} BY TypesOf
<1>3. c # None => child[c].by # "reap" BY DEF StreamInv, Mapped
<1>4. "delete" \in Killers \ {"reap"} BY DEF Killers
<1> HIDE DEF c
<1>5. AllSpawn' /\ Reaped(child') = Reaped(child) BY <1>1, <1>2, <1>3, <1>4, KilledWakes DEF Wakes
<1>6. QueuedOnlyWhenFull'
 <2>1. CASE httpSessions[s] # None BY <2>1, <1>5, DroppedWakes DEF Delete, Wakes
 <2>2. CASE httpSessions[s] = None BY <2>2, <1>5, Unmoved DEF Delete, Wakes
 <2> QED BY <2>1, <2>2
<1> QED BY <1>5, <1>6 DEF Wakes

\* What the reaper takes is counted until its process exits.
LEMMA ReapWakes ==
  ASSUME StreamInv, Wakes, NEW s \in Sids, Reap(s)
  PROVE  Wakes'
<1> DEFINE c == httpSessions[s]
<1>1. /\ c # None /\ child' = Killed(child, c, "reap")
      /\ httpSessions' = [httpSessions EXCEPT ![s] = None]
      /\ UNCHANGED <<startingSessions, waiters>>
  BY DEF Reap
<1>2. c \in Children BY <1>1, TypesOf
<1>3. Mapped(s) /\ child[c].state # "failed" BY <1>2 DEF StreamInv, Wakes, AllSpawn
<1>4. child[c].state \in {"new", "running", "killed"} /\ child[c].by # "reap"
  BY <1>1, <1>2, <1>3, TypesOf DEF Mapped, Processes, ChildStates
<1>5. child' = [child EXCEPT ![c].state = "killed", ![c].by = "reap"] BY <1>1, <1>4 DEF Killed
<1> HIDE DEF c
<1>6. /\ child'[c].state = "killed" /\ child'[c].by = "reap"
      /\ \A d \in Children \ {c} : child'[d] = child[d]
  BY <1>2, <1>5, TypesOf DEF Processes
<1>7. AllSpawn' BY <1>6 DEF Wakes, AllSpawn
<1>8. Reaped(child') = Reaped(child) \cup {c} /\ c \notin Reaped(child)
  BY <1>2, <1>4, <1>6 DEF Reaped
<1>9. Cardinality(Reaped(child')) = Cardinality(Reaped(child)) + 1
  BY <1>8, ReapedIsNat, FS_AddElement
<1>10. SessionCount(httpSessions') = SessionCount(httpSessions) - 1
  BY TypesOf, <1>1, CountDrop DEF c
<1>11. Taken(httpSessions', startingSessions', child') = Taken(httpSessions, startingSessions, child)
  BY <1>1, <1>9, <1>10, CountIsNat, ReapedIsNat, TypesOf DEF Taken
<1>12. QueuedOnlyWhenFull' BY <1>1, <1>11, WhenFull, WhenFullLater DEF Wakes
<1> QED BY <1>7, <1>12 DEF Wakes

\* The exit of a process frees the slot of its session, or tells of the slot
\* that the reaper has freed.
LEMMA ExitWakes ==
  ASSUME StreamInv, Wakes, NEW c \in Children, Exit(c)
  PROVE  Wakes'
<1>1. /\ child[c].state \in {"running", "killed"}
      /\ child' = [child EXCEPT ![c] = NoChild]
      /\ \E posts : SlotFreed(Without(c), startingSessions, posts)
  BY Zenon DEF Exit
<1>2. child'[c] = NoChild /\ NoChild.state = "free" /\ \A d \in Children \ {c} : child'[d] = child[d]
  BY <1>1, TypesOf DEF NoChild
<1>3. AllSpawn' BY <1>2 DEF Wakes, AllSpawn
<1>4. CASE \E s \in Sids : httpSessions[s] = c
 <2>1. PICK s \in Sids : httpSessions[s] = c BY <1>4
 <2>2. c # None BY SessionsAssumption
 <2>3. ASSUME NEW t \in Sids, httpSessions[t] = c PROVE child[c].sid = t /\ child[c].by # "reap"
   BY <2>2, <2>3, <1>1 DEF StreamInv, Mapped
 <2>4. Without(c) = [httpSessions EXCEPT ![s] = None] BY TypesOf, <2>1, <2>3 DEF Without
 <2>5. Reaped(child') = Reaped(child) BY <1>2, <2>1, <2>3, SameReaped
 <2>6. QueuedOnlyWhenFull' BY <1>1, <2>4, <2>5, DroppedWakes DEF Wakes
 <2> QED BY <1>3, <2>6 DEF Wakes
<1>5. CASE ~(\E s \in Sids : httpSessions[s] = c)
 <2>1. Without(c) = httpSessions BY <1>5, TypesOf DEF Without
 <2>2. Reaped(child') = Reaped(child) \ {c} BY <1>2 DEF Reaped
 <2>3. Cardinality(Reaped(child)) <= Cardinality(Reaped(child')) + 1
  <3>1. CASE c \in Reaped(child)
   <4>1. Cardinality(Reaped(child')) = Cardinality(Reaped(child)) - 1
     BY <2>2, <3>1, ReapedIsNat, FS_RemoveElement
   <4> QED BY <4>1, ReapedIsNat
  <3>2. CASE c \notin Reaped(child) BY <2>2, <3>2, ReapedIsNat
  <3> QED BY <3>1, <3>2
 <2>4. Taken(httpSessions, startingSessions, child)
         <= Taken(httpSessions, startingSessions, child') + 1
   BY <2>3, CountIsNat, ReapedIsNat, TypesOf DEF Taken
 <2>5. QueuedOnlyWhenFull' BY <1>1, <2>1, <2>4, TypesOf, OneForOne DEF Wakes
 <2> QED BY <1>3, <2>5 DEF Wakes
<1> QED BY <1>4, <1>5

LEMMA RecycleWakes ==
  ASSUME StreamInv, Wakes, child' = Recycled \/ UNCHANGED child,
         UNCHANGED <<httpSessions, startingSessions, waiters>>
  PROVE  Wakes'
<1>1. CASE UNCHANGED child BY <1>1, StillWakes
<1>2. CASE child' = Recycled
 <2>1. \A c \in Children : /\ Recycled[c].state = child[c].state
                              \/ (child[c].state # "failed" /\ Recycled[c].state = "killed")
                           /\ Recycled[c].by = child[c].by \/ Recycled[c].by = "recycle"
   BY RecycledIs
 <2>2. AllSpawn' BY <1>2, <2>1 DEF Wakes, AllSpawn
 <2>3. ASSUME NEW c \in Children, child'[c] # child[c]
       PROVE  /\ child[c].state # "killed" \/ child[c].by # "reap"
              /\ child'[c].state # "killed" \/ child'[c].by # "reap"
  <3>1. PICK s \in Sids : httpSessions[s] = c BY <1>2, <2>3 DEF Recycled
  <3>2. Mapped(s) BY DEF StreamInv
  <3>3. child[c].by # "reap" BY <3>1, <3>2, SessionsAssumption DEF Mapped
  <3> QED BY <3>3, <1>2, <2>1
 <2>4. Reaped(child') = Reaped(child) BY <2>3, SameReaped
 <2>5. QueuedOnlyWhenFull' BY <2>4, Unmoved DEF Wakes
 <2> QED BY <2>2, <2>5 DEF Wakes
<1> QED BY <1>1, <1>2

LEMMA WakeStep ==
  ASSUME StreamInv, WakeInv, [Next]_vars
  PROVE  WakeInv'
<1> SUFFICES ASSUME ~SpawnMayFail, Wakes PROVE Wakes' BY DEF WakeInv, Wakes
<1>1. CASE UNCHANGED vars BY <1>1, StillWakes DEF vars
<1>2. ASSUME NEW p \in Posts, Microtask(p) PROVE Wakes'
 <2>1. CASE Admitted(p) BY <2>1, AdmittedWakes
 <2>2. CASE Serve(p) BY <2>2, StillWakes DEF Serve
 <2>3. CASE NoSession(p)
  <3>1. UNCHANGED <<httpSessions, child>> BY <2>3 DEF NoSession
  <3>2. CASE post[p].init BY <2>3, <3>2, <3>1, AdmitWakes DEF NoSession, Wakes, AllSpawn
  <3>3. CASE ~post[p].init BY <2>3, <3>3, <3>1, StillWakes DEF NoSession
  <3> QED BY <3>2, <3>3
 <2>4. CASE Abandon(p) BY <2>4, AbandonWakes
 <2> QED BY <1>2, <2>1, <2>2, <2>3, <2>4 DEF Microtask
<1>3. ASSUME NEW p \in Posts, Handler(p) PROVE Wakes'
 <2>1. CASE Body(p) BY <2>1, BodyWakes
 <2>2. CASE Answer(p) \/ Handshake(p) \/ Timeout(p)
   BY <2>2, StillWakes DEF Answer, Handshake, Timeout
 <2>3. CASE GateOpens(p) BY <2>3, AdmittedWakes
 <2>4. CASE WaitTimeout(p) BY <2>4, StillWakes DEF WaitTimeout
 <2> QED BY <1>3, <2>1, <2>2, <2>3, <2>4 DEF Handler
<1>4. ASSUME NEW c \in Children, Process(c) PROVE Wakes'
 <2>1. CASE Spawns(c)
  <3>1. /\ child[c].state = "new" /\ child' = [child EXCEPT ![c].state = "running"]
        /\ UNCHANGED <<httpSessions, startingSessions, waiters>>
    BY <2>1 DEF Spawns
  <3>2. child'[c].state = "running" /\ \A d \in Children \ {c} : child'[d] = child[d]
    BY <3>1, TypesOf DEF Processes
  <3>3. AllSpawn' BY <3>2 DEF Wakes, AllSpawn
  <3>4. Reaped(child') = Reaped(child) BY <3>1, <3>2, SameReaped
  <3>5. QueuedOnlyWhenFull' BY <3>1, <3>4, Unmoved DEF Wakes
  <3> QED BY <3>3, <3>5 DEF Wakes
 <2>2. CASE SpawnFails(c) BY <2>2 DEF SpawnFails
 <2>3. CASE Exit(c) BY <2>3, ExitWakes
 <2> QED BY <1>4, <2>1, <2>2, <2>3 DEF Process
<1>5. ASSUME NEW s \in Sids, Reap(s) PROVE Wakes' BY <1>5, ReapWakes
<1>6. ASSUME NEW s \in known, Delete(s) PROVE Wakes' BY TypesOf, <1>6, DeleteWakes
<1>7. CASE Recycle \/ Reload BY <1>7, RecycleWakes DEF Recycle, Reload
<1>8. CASE Restart BY <1>8, WhenFullLater DEF Restart, AllSpawn, NoChild, Wakes
<1> QED BY <1>1, <1>2, <1>3, <1>4, <1>5, <1>6, <1>7, <1>8 DEF Next, Callback

\* When processes spawn, no wakeup is lost: a caller waits beside a free slot
\* only until the process of a reaped session exits.
THEOREM NoWakeupIsLost == Spec => [](~SpawnMayFail => QueuedOnlyWhenFull)
<1>1. Init => WakeInv
 <2> SUFFICES ASSUME Init PROVE Wakes BY DEF WakeInv, Wakes
 <2>1. AllSpawn BY DEF Init, AllSpawn, NoChild
 <2>2. QueuedOnlyWhenFull BY DEF Init, QueuedOnlyWhenFull
 <2> QED BY <2>1, <2>2 DEF Wakes
<1>2. StreamInv /\ WakeInv /\ [Next]_vars => WakeInv' BY WakeStep
<1>3. WakeInv => (~SpawnMayFail => QueuedOnlyWhenFull) BY DEF WakeInv
<1> QED BY <1>1, <1>2, <1>3, StreamInvariance, PTL DEF Spec
==============================================================================

---------------------- MODULE WindowsProcesses_proofs -----------------------
(***************************************************************************)
(* Proofs about the processes that a bridge and an upgrade have on         *)
(* Windows. About their lifetime (ProcessLifetime), for any set of         *)
(* children: nothing that a bridge has started is outside its job, and a   *)
(* receipt is given only when all of it is gone.  About the channel        *)
(* between the controller of an upgrade, its guard and a worker of another *)
(* account (TaskChannel), for any number of commands, frames, receives and *)
(* faults: what the controller is told is so.  And about the guard's look  *)
(* at the threads of its caller (CallerObservation), for any threads and   *)
(* reused numbers: nothing that lives is overlooked.                       *)
(***************************************************************************)
EXTENDS ProcessLifetime, TaskChannel, CallerObservation, SequenceTheorems, TLAPS

-----------------------------------------------------------------------------
(* The lifetime of a bridge and its children. *)

WithJob == {"assign", "ready", "wait", "drain", "count", "mark"}
Assigned == WithJob \ {"assign"}

\* Every variable has its type.
LifetimeTypeOK ==
    /\ fate \in [Contained -> {"unborn", "alive", "dying", "gone"}]
    /\ members \subseteq Contained
    /\ job \in {"none", "open", "closed"}
    /\ owner \in [at : OwnerStages \cup {"unborn", "gone"}, code : {0, 1}]
    /\ event \in {"none", "clear", "set"}
    /\ lines \subseteq {"ready", "observing", "drained"}
    /\ boot \in [at : {"new", "starting", "telling", "working", "failing"}, managed : BOOLEAN]
    /\ observer \in [at : ObserverStages \cup {"unborn", "gone"},
                     holds : SUBSET {"owner", "event"}, code : {0, 1}]
    /\ caller \in [at : {"idle", "arming", "armed", "verified", "failed", "gone"},
                   heard : SUBSET {"observing", "drained"}, told : BOOLEAN]

\* The job is open as long as the owner that has made it runs.
JobOwned == job = "open" <=> owner.at \in WithJob

\* The bridge starts one owner, and goes on only when it is in the job.
BridgeInJob ==
    /\ boot.at = "new" => owner.at = "unborn"
    /\ owner.at \in Assigned \/ "ready" \in lines \/ boot.at \in {"telling", "working"}
         => Parent \in members

\* Whatever was started is in the job, and lives no longer than it.
KidsInJob == \A k \in Kids : fate[k] # "unborn" => k \in members
KilledOnClose == \A p \in members : Up(p) => job = "open"

AllGone == \A p \in Contained : ~Left(p)

\* Each of these is a sign that nothing is left.
Signs ==
    \/ owner.at = "mark" \/ event = "set"
    \/ "drained" \in lines \/ "drained" \in caller.heard
    \/ caller.at = "verified"

SignsTrue == Signs => AllGone

LifetimeInv ==
    LifetimeTypeOK /\ JobOwned /\ BridgeInJob /\ KidsInJob /\ KilledOnClose /\ SignsTrue

-----------------------------------------------------------------------------
(* One lemma for each process: its steps keep the invariant. *)

\* The owner, which makes the job, sees it empty and closes it.
LEMMA OwnerKeeps ==
  ASSUME LifetimeInv, OwnerSteps \/ OwnerFails \/ OwnerKilled
  PROVE  LifetimeInv'
<1> USE DEF LifetimeInv, LifetimeTypeOK, JobOwned, BridgeInJob, KidsInJob, KilledOnClose,
            SignsTrue, Signs, AllGone, WithJob, Assigned, Contained, Parent, Up, Left,
            OwnerRuns, OwnerStages, OwnerAt, Reaches, Rest
<1>1. CASE HoldParent BY <1>1 DEF HoldParent, OwnerEnds, Terminated, KillOnClose
<1>2. CASE CreateMarker BY <1>2 DEF CreateMarker
<1>3. CASE CreateJob BY <1>3 DEF CreateJob
<1>4. CASE AssignParent BY <1>4 DEF AssignParent, OwnerEnds, Terminated, KillOnClose
<1>5. CASE SayReady BY <1>5 DEF SayReady
<1>6. CASE ParentEnded BY <1>6 DEF ParentEnded
<1>7. CASE EndJob BY <1>7 DEF EndJob, Terminated
<1>8. CASE CountMembers BY <1>8 DEF CountMembers, Empty
<1>9. CASE MarkDrained BY <1>9 DEF MarkDrained
<1>10. ASSUME NEW code \in {0, 1}, OwnerRuns, OwnerEnds(code), Rest PROVE LifetimeInv'
 <2>1. CASE job = "open" BY <1>10, <2>1 DEF OwnerEnds, Terminated, KillOnClose
 <2>2. CASE job # "open" BY <1>10, <2>2 DEF OwnerEnds
 <2> QED BY <2>1, <2>2
<1>11. CASE OwnerFails \/ OwnerKilled BY <1>10, <1>11, Zenon DEF OwnerFails, OwnerKilled, Rest
<1> HIDE DEF LifetimeInv
<1> QED BY <1>1, <1>2, <1>3, <1>4, <1>5, <1>6, <1>7, <1>8, <1>9, <1>11 DEF OwnerSteps

\* The observer, which only looks: what it prints at last is true.
LEMMA ObserverKeeps ==
  ASSUME LifetimeInv, ObserverSteps \/ ObserverFails \/ ObserverKilled
  PROVE  LifetimeInv'
<1> DEFINE Type == [at : ObserverStages \cup {"unborn", "gone"},
                    holds : SUBSET {"owner", "event"}, code : {0, 1}]
           Frame == /\ UNCHANGED <<fate, members, job, owner, boot, caller>>
                    /\ event' \in {event, "none"}
                    /\ \/ lines' \in {lines, lines \cup {"observing"}}
                       \/ event = "set" /\ lines' = lines \cup {"drained"}
<1>1. observer \in Type BY DEF LifetimeInv, LifetimeTypeOK
<1>2. ASSUME NEW stage \in ObserverStages, NEW holds \in SUBSET {"owner", "event"},
             Continues(stage, holds)
      PROVE  observer' \in Type
 <2>1. observer.holds \cup holds \in SUBSET {"owner", "event"} BY <1>1, <1>2
 <2>2. observer' = [observer EXCEPT !.at = stage, !.holds = observer.holds \cup holds]
   BY <1>2 DEF Continues
 <2> QED BY <1>1, <2>1, <2>2
<1>3. ASSUME NEW code \in {0, 1}, ObserverEnds(code)
      PROVE  observer' \in Type /\ event' \in {event, "none"}
 <2>1. observer' = [at |-> "gone", holds |-> {}, code |-> code] BY <1>3, Zenon DEF ObserverEnds
 <2>2. event' \in {event, "none"} BY <1>3 DEF ObserverEnds
 <2> QED BY <2>1, <2>2
<1>4. ASSUME Refuse PROVE observer' \in Type /\ event' \in {event, "none"} BY <1>3, <1>4 DEF Refuse
<1>5. {"caller", "owner", "marker", "ready", "wait", "exit", "verify"} = ObserverStages
  BY DEF ObserverStages
<1>6. \A stage \in ObserverStages : /\ Continues(stage, {}) => observer' \in Type
                                    /\ Continues(stage, {"owner"}) => observer' \in Type
                                    /\ Continues(stage, {"event"}) => observer' \in Type
  BY <1>2
<1> HIDE DEF Type
<1>7. Frame /\ observer' \in Type
 <2> USE <1>4, <1>5, <1>6 DEF Other
 <2>1. CASE HoldCaller BY <2>1 DEF HoldCaller
 <2>2. CASE HoldOwner BY <2>2 DEF HoldOwner
 <2>3. CASE HoldMarker BY <2>3 DEF HoldMarker
 <2>4. CASE SayObserving BY <2>4 DEF SayObserving
 <2>5. CASE Awake BY <2>5 DEF Awake
 <2>6. CASE ReadExit BY <2>6 DEF ReadExit
 <2>7. CASE VerifyDrain BY <2>7, <1>3 DEF VerifyDrain, Verified
 <2>8. CASE ObserverFails \/ ObserverKilled BY <2>8, <1>3 DEF ObserverFails, ObserverKilled
 <2> QED BY <2>1, <2>2, <2>3, <2>4, <2>5, <2>6, <2>7, <2>8 DEF ObserverSteps
<1>8. LifetimeTypeOK'
 <2>1. LifetimeTypeOK BY DEF LifetimeInv
 <2>2. event' \in {"none", "clear", "set"} /\ lines' \subseteq {"ready", "observing", "drained"}
   BY <1>7, <2>1 DEF LifetimeTypeOK
 <2>3. observer' \in [at : ObserverStages \cup {"unborn", "gone"},
                      holds : SUBSET {"owner", "event"}, code : {0, 1}]
   BY <1>7 DEF Type
 <2>4. UNCHANGED <<fate, members, job, owner, boot, caller>> BY <1>7
 <2> HIDE DEF Frame
 <2> QED BY <2>1, <2>2, <2>3, <2>4, ZenonT(40) DEF LifetimeTypeOK
<1>9. (JobOwned /\ BridgeInJob /\ KidsInJob /\ KilledOnClose)'
  BY <1>7 DEF LifetimeInv, JobOwned, BridgeInJob, KidsInJob, KilledOnClose, Up
<1>10. AllGone' <=> AllGone BY <1>7 DEF AllGone, Left
<1>11. Signs' => Signs BY <1>7 DEF Signs
<1> QED BY <1>8, <1>9, <1>10, <1>11 DEF LifetimeInv, SignsTrue

\* The bridge, which starts its owner and waits for it.
LEMMA BridgeKeeps ==
  ASSUME LifetimeInv, BridgeSteps
  PROVE  LifetimeInv'
<1> USE DEF LifetimeInv, LifetimeTypeOK, JobOwned, BridgeInJob, KidsInJob, KilledOnClose,
            SignsTrue, Signs, AllGone, WithJob, Assigned, Contained, Parent, Up, Left,
            OwnerRuns, OwnerStages, BridgeIs, BridgeGoes
<1>1. CASE StartOwner BY <1>1 DEF StartOwner
<1>2. CASE HearReady BY <1>2 DEF HearReady
<1>3. CASE StartFails BY <1>3 DEF StartFails, OwnerEnds, Terminated, KillOnClose
<1>4. CASE HearObserved BY <1>4 DEF HearObserved
<1> QED BY <1>1, <1>2, <1>3, <1>4 DEF BridgeSteps

\* The supervisor, which believes what it has read.
LEMMA CallerKeeps ==
  ASSUME LifetimeInv, CallerSteps \/ CallerDies
  PROVE  LifetimeInv'
<1> USE DEF LifetimeInv, LifetimeTypeOK, JobOwned, BridgeInJob, KidsInJob, KilledOnClose,
            SignsTrue, Signs, AllGone, Up, Left, CallerIs, Calls
<1>1. CASE StartObserver BY <1>1 DEF StartObserver, ObserverStages
<1>2. ASSUME NEW line \in {"observing", "drained"}, HearLine(line) PROVE LifetimeInv'
 <2>1. caller.heard \cup {line} \in SUBSET {"observing", "drained"} OBVIOUS
 <2>2. caller' \in [at : {"idle", "arming", "armed", "verified", "failed", "gone"},
                    heard : SUBSET {"observing", "drained"}, told : BOOLEAN]
  <3>1. CASE line = "observing"
   <4>1. caller' = [caller EXCEPT !.at = "armed", !.heard = caller.heard \cup {line}, !.told = TRUE]
     BY <1>2, <3>1 DEF HearLine
   <4> QED BY <2>1, <4>1
  <3>2. CASE line # "observing"
   <4>1. caller' = [caller EXCEPT !.heard = caller.heard \cup {line}] BY <1>2, <3>2 DEF HearLine
   <4> QED BY <2>1, <4>1
  <3> QED BY <3>1, <3>2
 <2>3. caller'.heard = caller.heard \cup {line} /\ caller'.at \in {caller.at, "armed"}
   BY <1>2 DEF HearLine
 <2>4. line \in lines /\ lines' = lines \ {line} BY <1>2 DEF HearLine
 <2>5. UNCHANGED <<fate, members, job, owner, event, boot, observer>> BY <1>2 DEF HearLine
 <2> QED BY <2>2, <2>3, <2>4, <2>5
<1>3. CASE ObserverCloses BY <1>3 DEF ObserverCloses
<1>4. CASE ObserveFails BY <1>4 DEF ObserveFails, ObserverEnds
<1>5. CASE CallerDies BY <1>5 DEF CallerDies
<1> QED BY <1>1, <1>2, <1>3, <1>4, <1>5 DEF CallerSteps

\* The bridge and its children, which are born into the job and die.
LEMMA ContainedKeep ==
  ASSUME LifetimeInv, NEW p \in Contained, Dies(p) \/ \E k \in Kids : StartKid(p, k)
  PROVE  LifetimeInv'
<1> USE LifetimeAssumption
<1> USE DEF LifetimeInv, LifetimeTypeOK, JobOwned, BridgeInJob, KidsInJob, KilledOnClose,
            SignsTrue, Signs, AllGone, WithJob, Contained, Parent, Up, Left
<1>1. CASE Dies(p) BY <1>1 DEF Dies
<1>2. ASSUME NEW k \in Kids, StartKid(p, k) PROVE LifetimeInv'
 <2>1. p \in members BY <1>2 DEF StartKid, AtWork
 <2> QED BY <1>2, <2>1 DEF StartKid
<1> QED BY <1>1, <1>2

-----------------------------------------------------------------------------
\* The inductive invariant of every run of the machine: who runs holds the job,
\* who was started is in it, and no sign of the end is given before the end.
THEOREM LifetimeInvariance == LifetimeSpec => []LifetimeInv
<1>1. LifetimeInit => LifetimeInv BY LifetimeAssumption DEF LifetimeInit, LifetimeInv,
  LifetimeTypeOK, JobOwned, BridgeInJob, KidsInJob, KilledOnClose, SignsTrue, Signs, AllGone,
  WithJob, Assigned, Contained, Parent, Up, Left, OwnerStages
<1>2. LifetimeInv /\ [LifetimeNext]_lifetimeVars => LifetimeInv'
 <2> SUFFICES ASSUME LifetimeInv, [LifetimeNext]_lifetimeVars PROVE LifetimeInv' OBVIOUS
 <2>1. CASE LifetimeNext
   BY <2>1, OwnerKeeps, ObserverKeeps, BridgeKeeps, CallerKeeps, ContainedKeep DEF LifetimeNext
 <2>2. CASE UNCHANGED lifetimeVars
   BY <2>2 DEF lifetimeVars, LifetimeInv, LifetimeTypeOK, JobOwned, BridgeInJob, KidsInJob,
     KilledOnClose, SignsTrue, Signs, AllGone, Up, Left
 <2> QED BY <2>1, <2>2
<1> QED BY <1>1, <1>2, PTL DEF LifetimeSpec

\* A bridge works, and its children live, in a job that its living owner holds;
\* a receipt says that all of it is gone (Run, ObserveOwner, observe).
THEOREM ReceiptIsTrue == LifetimeSpec => []LifetimeHeld
<1>1. LifetimeInv => LifetimeHeld
 <2> SUFFICES ASSUME LifetimeInv PROVE LifetimeHeld OBVIOUS
 <2> USE DEF LifetimeInv, LifetimeTypeOK, JobOwned, BridgeInJob, KidsInJob, KilledOnClose,
             WithJob, Contained, Up, OwnerRuns, OwnerStages
 <2>1. ASSUME NEW k \in Kids, Up(k) PROVE k \in members /\ job = "open" /\ OwnerRuns BY <2>1
 <2>2. ASSUME AtWork PROVE Parent \in members /\ job = "open" /\ OwnerRuns BY <2>2 DEF AtWork
 <2>3. ASSUME caller.at = "verified" PROVE \A p \in Contained : ~Left(p)
   BY <2>3 DEF SignsTrue, Signs, AllGone
 <2> QED BY <2>1, <2>2, <2>3 DEF LifetimeHeld
<1> QED BY <1>1, LifetimeInvariance, PTL

-----------------------------------------------------------------------------
(* The channel. *)

-----------------------------------------------------------------------------
(* Types. *)

CommandSet == [action : {"serve", "authorize", "send", "close"}, id : Nat]
EventSet == [type : {"ready", "worker", "frame", "sent", "authorized", "closed", "failed"},
             id : Nat]
CallSet == [action : {"authorize", "send"}, result : {"waiting", "ok", "failed"},
            hopeless : BOOLEAN]

ChannelSet ==
    [alive : BOOLEAN, start : {"waiting", "open", "failed"}, peer : BOOLEAN,
     failure : BOOLEAN, ended : BOOLEAN,
     closing : {"none", "asked", "exited", "unverified"}, exited : BOOLEAN,
     frames : Seq(Nat), waiters : Nat, receives : Nat, got : Seq(Nat)]

GuardStages == {"initial", "setup", "connecting", "serving", "facts", "session", "answer",
                "write", "written", "gone"}
GuardSet ==
    [at : GuardStages, back : {"none", "connecting", "serving"}, id : Nat,
     reader : {"off", "reading", "faulted", "done"}, closing : BOOLEAN,
     commands : Seq(CommandSet), peer : BOOLEAN]

PeerSet == [at : {"away", "connected", "gone"}, genuine : BOOLEAN, inbox : Seq(Nat),
            outbox : Seq(Nat), wrote : Nat]

\* Every variable has its type.
ChannelTypeOK ==
    /\ channel \in ChannelSet
    /\ calls \in Seq(CallSet)
    /\ stdin \in Seq(CommandSet)
    /\ guard \in GuardSet
    /\ stdout \in Seq(EventSet)
    /\ peer \in PeerSet
    /\ world \in [session : BOOLEAN, rights : BOOLEAN]
    /\ guard.at \in {"facts", "session", "answer"} => guard.back # "none"

LEMMA AppendIs ==
  ASSUME NEW S, NEW s \in Seq(S), NEW e \in S, NEW t, t = Append(s, e)
  PROVE  /\ t \in Seq(S) /\ Len(s) \in Nat /\ Len(t) = Len(s) + 1
         /\ t[Len(s) + 1] = e
         /\ \A k \in 1 .. Len(s) : t[k] = s[k] /\ k \in 1 .. Len(t)
         /\ \A k \in 1 .. Len(t) : k \in 1 .. Len(s) \/ k = Len(s) + 1
<1>1. /\ t \in Seq(S) /\ Len(t) = Len(s) + 1 /\ t[Len(s) + 1] = e
      /\ \A k \in 1 .. Len(s) : t[k] = s[k]
  BY AppendProperties
<1> DEFINE n == Len(s)
           m == Len(t)
<1>2. n \in Nat /\ m = n + 1 BY <1>1, LenProperties
<1> HIDE DEF n, m
<1>3. (\A k \in 1 .. n : k \in 1 .. m) /\ \A k \in 1 .. m : k \in 1 .. n \/ k = n + 1 BY <1>2
<1> QED BY <1>1, <1>2, <1>3 DEF n, m

LEMMA TailIs ==
  ASSUME NEW S, NEW s \in Seq(S), s # <<>>, NEW t, t = Tail(s)
  PROVE  /\ t \in Seq(S) /\ Len(s) \in Nat /\ Len(t) \in Nat /\ Len(t) = Len(s) - 1
         /\ Head(s) = s[1] /\ Head(s) \in S /\ 1 \in 1 .. Len(s)
         /\ \A k \in 1 .. Len(t) : t[k] = s[k + 1] /\ k + 1 \in 1 .. Len(s)
         /\ \A k \in 1 .. Len(s) : k # 1 => k - 1 \in 1 .. Len(t) /\ t[k - 1] = s[k]
<1>1. /\ t \in Seq(S) /\ Len(t) = Len(s) - 1 /\ Head(s) \in S
      /\ \A k \in 1 .. Len(t) : t[k] = s[k + 1]
  BY HeadTailProperties
<1> DEFINE n == Len(s)
           m == Len(t)
<1>2. n \in Nat /\ m \in Nat /\ m = n - 1 /\ Head(s) = s[1] BY <1>1, LenProperties
<1> HIDE DEF n, m
<1>3. 1 \in 1 .. n /\ \A k \in 1 .. m : k + 1 \in 1 .. n BY <1>2
<1>4. ASSUME NEW k \in 1 .. n, k # 1
      PROVE  k - 1 \in 1 .. m /\ t[k - 1] = s[k]
 <2>1. k - 1 \in 1 .. m /\ (k - 1) + 1 = k BY <1>2, <1>4
 <2> QED BY <1>1, <2>1 DEF m
<1> QED BY <1>1, <1>2, <1>3, <1>4 DEF n, m

LEMMA RejectCallsType ==
  ASSUME calls \in Seq(CallSet)
  PROVE  /\ RejectCalls \in Seq(CallSet) /\ Len(RejectCalls) = Len(calls)
         /\ \A i \in 1 .. Len(calls) : /\ RejectCalls[i].action = calls[i].action
                                       /\ RejectCalls[i].hopeless = calls[i].hopeless
                                       /\ RejectCalls[i].result = "ok" => calls[i].result = "ok"
<1>1. Len(calls) \in Nat /\ DOMAIN calls = 1 .. Len(calls) /\ calls \in [1 .. Len(calls) -> CallSet]
  BY LenProperties
<1>2. ASSUME NEW i \in 1 .. Len(calls)
      PROVE  /\ RejectCalls[i] \in CallSet /\ RejectCalls[i].action = calls[i].action
             /\ RejectCalls[i].hopeless = calls[i].hopeless
             /\ RejectCalls[i].result = "ok" => calls[i].result = "ok"
  BY <1>1 DEF RejectCalls, CallSet
<1>3. RejectCalls \in [1 .. Len(calls) -> CallSet] BY <1>1, <1>2 DEF RejectCalls
<1>4. RejectCalls \in Seq(CallSet) BY <1>1, <1>3, SeqDef
<1>5. Len(RejectCalls) = Len(calls)
 <2> DEFINE m == Len(RejectCalls)
            n == Len(calls)
 <2>1. m \in Nat /\ n \in Nat /\ 1 .. m = 1 .. n BY <1>1, <1>3, <1>4, LenProperties
 <2> HIDE DEF m, n
 <2>2. m = n BY <2>1
 <2> QED BY <2>2 DEF m, n
<1> QED BY <1>2, <1>4, <1>5

LEMMA FailedType ==
  ASSUME channel \in ChannelSet
  PROVE  /\ Failed(channel) \in ChannelSet
         /\ Failed(channel).failure = TRUE /\ Failed(channel).got = channel.got
BY EmptySeq DEF ChannelSet, Failed

LEMMA FailType ==
  ASSUME ChannelTypeOK, Fail
  PROVE  channel' \in ChannelSet /\ calls' \in Seq(CallSet)
BY RejectCallsType, FailedType DEF ChannelTypeOK, Fail

\* event().
LEMMA HandleTyped ==
  ASSUME ChannelTypeOK, NEW entry \in EventSet, Handle(entry)
  PROVE  channel' \in ChannelSet /\ calls' \in Seq(CallSet)
<1> USE DEF ChannelTypeOK
<1>1. CASE UNCHANGED <<channel, calls>> \/ Fail BY <1>1, FailType
<1>2. CASE entry.type \in {"ready", "worker"} /\ ~channel.failure
  BY <1>2, ZenonT(40) DEF Handle, ChannelSet
<1>3. CASE entry.type = "frame" /\ ~channel.failure
 <2>1. /\ Append(channel.got, entry.id) \in Seq(Nat)
       /\ Append(channel.frames, entry.id) \in Seq(Nat)
  <3>1. channel.got \in Seq(Nat) /\ channel.frames \in Seq(Nat) /\ entry.id \in Nat
    BY DEF ChannelSet, EventSet
  <3> QED BY <3>1, AppendProperties
 <2>2. calls' \in Seq(CallSet) BY <1>3, RejectCallsType DEF Handle
 <2>3. CASE channel.waiters > 0
  <3>1. channel' = [channel EXCEPT !.waiters = @ - 1, !.got = Append(@, entry.id)]
    BY <1>3, <2>3 DEF Handle
  <3>2. channel.waiters - 1 \in Nat BY <2>3 DEF ChannelSet
  <3> DEFINE m == channel.waiters - 1
             got == Append(channel.got, entry.id)
  <3>3. m \in Nat /\ got \in Seq(Nat) /\ channel' = [channel EXCEPT !.waiters = m, !.got = got]
    BY <2>1, <3>1, <3>2
  <3> HIDE DEF m, got
  <3>4. channel' \in ChannelSet BY <3>3 DEF ChannelSet
  <3> QED BY <2>2, <3>4
 <2>4. CASE ~(channel.waiters > 0)
  <3> DEFINE frames == Append(channel.frames, entry.id)
  <3>1. channel' = [channel EXCEPT !.frames = frames] \/ channel' = Failed(channel)
    BY <1>3, <2>4 DEF Handle
  <3>2. frames \in Seq(Nat) BY <2>1
  <3> HIDE DEF frames
  <3>3. [channel EXCEPT !.frames = frames] \in ChannelSet BY <3>2 DEF ChannelSet
  <3> QED BY <2>2, <3>1, <3>3, FailedType
 <2> QED BY <2>3, <2>4
<1>4. CASE entry.type \in {"sent", "authorized"} /\ ~channel.failure /\ entry.id \in Waiting
 <2>1. /\ entry.id \in 1 .. Len(calls)
       /\ calls' = [calls EXCEPT ![entry.id] = [calls[entry.id] EXCEPT !.result = "ok"]]
       /\ UNCHANGED channel
   BY <1>4, LenProperties DEF Handle, Waiting
 <2>2. [calls[entry.id] EXCEPT !.result = "ok"] \in CallSet
  <3>1. calls[entry.id] \in CallSet BY <2>1, ElementOfSeq
  <3> QED BY <3>1 DEF CallSet
 <2> QED BY <2>1, <2>2, ExceptSeq
<1>5. CASE channel.failure \/ entry.type \in {"failed", "closed"}
 <2>1. UNCHANGED <<channel, calls>> \/ Fail BY <1>5 DEF Handle
 <2> QED BY <2>1, <1>1
<1>6. CASE entry.type \in {"sent", "authorized"} /\ ~channel.failure /\ entry.id \notin Waiting
 <2>1. Fail BY <1>6 DEF Handle
 <2> QED BY <2>1, <1>1
<1>7. entry.type \in {"ready", "worker", "frame", "sent", "authorized", "closed", "failed"}
  BY DEF EventSet
<1> QED BY <1>2, <1>3, <1>4, <1>5, <1>6, <1>7

\* The controller's steps.
LEMMA ControllerTyped ==
  ASSUME ChannelTypeOK,
         \/ \E action \in {"authorize", "send"} : Command(action)
         \/ Receive \/ Close \/ CloseOverdue \/ CallerOverdue \/ Event \/ ChildClosed \/ ControllerDies
  PROVE  ChannelTypeOK'
<1>1. ASSUME NEW action \in {"authorize", "send"}, Command(action)
      PROVE  ChannelTypeOK'
 <2>1. CASE channel.ended BY <1>1, <2>1, FailType DEF ChannelTypeOK, Command
 <2>2. CASE ~channel.ended
  <3> DEFINE made == [action |-> action, result |-> "waiting", hopeless |-> LostAlready]
             told == [action |-> action, id |-> Len(calls) + 1]
  <3>1. made \in CallSet BY DEF CallSet, LostAlready
  <3>2. told \in CommandSet BY LenProperties DEF CommandSet, ChannelTypeOK
  <3>3. calls' = Append(calls, made) /\ stdin' = Append(stdin, told) BY <1>1, <2>2 DEF Command
  <3> HIDE DEF made, told
  <3>4. calls' \in Seq(CallSet) /\ stdin' \in Seq(CommandSet)
    BY <3>1, <3>2, <3>3, AppendProperties DEF ChannelTypeOK
  <3> QED BY <1>1, <2>2, <3>4 DEF ChannelTypeOK, Command
 <2> QED BY <2>1, <2>2
<1>2. CASE Receive
 <2>1. channel.frames \in Seq(Nat) /\ channel.got \in Seq(Nat)
       /\ channel.waiters \in Nat /\ channel.receives \in Nat
   BY DEF ChannelTypeOK, ChannelSet
 <2>2. CASE channel.frames # <<>>
  <3>1. Head(channel.frames) \in Nat /\ Tail(channel.frames) \in Seq(Nat)
    BY <2>1, <2>2, HeadTailProperties
  <3>2. Append(channel.got, Head(channel.frames)) \in Seq(Nat) BY <2>1, <3>1, AppendProperties
  <3> DEFINE got == Append(channel.got, Head(channel.frames))
             rest == Tail(channel.frames)
             n == channel.receives + 1
  <3>3. channel' = [channel EXCEPT !.got = got, !.frames = rest, !.receives = n]
    BY <1>2, <2>2 DEF Receive
  <3>4. got \in Seq(Nat) /\ rest \in Seq(Nat) /\ n \in Nat BY <2>1, <3>1, <3>2
  <3> HIDE DEF got, rest, n
  <3>5. channel' \in ChannelSet BY <3>3, <3>4 DEF ChannelTypeOK, ChannelSet
  <3> QED BY <1>2, <3>5 DEF ChannelTypeOK, Receive
 <2>3. CASE channel.frames = <<>>
  <3> DEFINE m == channel.waiters + 1
             n == channel.receives + 1
  <3>1. channel' = [channel EXCEPT !.waiters = m, !.receives = n] BY <1>2, <2>3 DEF Receive
  <3>2. m \in Nat /\ n \in Nat BY <2>1
  <3> HIDE DEF m, n
  <3>3. channel' \in ChannelSet BY <3>1, <3>2 DEF ChannelTypeOK, ChannelSet
  <3> QED BY <1>2, <3>3 DEF ChannelTypeOK, Receive
 <2> QED BY <2>2, <2>3
<1>3. CASE Close
 <2> DEFINE told == [action |-> "close", id |-> 0]
 <2>1. told \in CommandSet BY DEF CommandSet
 <2> HIDE DEF told
 <2>2. Append(stdin, told) \in Seq(CommandSet) BY <2>1, AppendProperties DEF ChannelTypeOK
 <2>3. stdin' \in Seq(CommandSet) BY <1>3, <2>2 DEF Close, ChannelTypeOK, told
 <2>4. channel' \in ChannelSet BY <1>3 DEF Close, ChannelTypeOK, ChannelSet
 <2> QED BY <1>3, <2>3, <2>4 DEF ChannelTypeOK, Close
<1>4. CASE CloseOverdue
 <2>1. channel' \in ChannelSet BY <1>4 DEF CloseOverdue, ChannelTypeOK, ChannelSet
 <2> QED BY <1>4, <2>1 DEF ChannelTypeOK, CloseOverdue
<1>5. CASE CallerOverdue BY <1>5, FailType DEF ChannelTypeOK, CallerOverdue
<1>6. CASE Event
 <2>1. Head(stdout) \in EventSet /\ stdout' \in Seq(EventSet)
   BY <1>6, HeadTailProperties DEF Event, ChannelTypeOK
 <2>2. channel' \in ChannelSet /\ calls' \in Seq(CallSet) BY <1>6, <2>1, HandleTyped DEF Event
 <2> QED BY <1>6, <2>1, <2>2 DEF ChannelTypeOK, Event
<1>7. CASE ChildClosed
 <2>1. calls' \in Seq(CallSet) BY <1>7, RejectCallsType DEF ChannelTypeOK, ChildClosed
 <2>2. channel' \in ChannelSet
  <3> DEFINE f == Failed(channel)
  <3>1. f \in ChannelSet BY FailedType DEF ChannelTypeOK
  <3>2. channel' = [f EXCEPT !.exited = TRUE, !.closing = IF @ = "asked" THEN "exited" ELSE @]
    BY <1>7 DEF ChildClosed
  <3> HIDE DEF f
  <3> QED BY <3>1, <3>2 DEF ChannelSet
 <2> QED BY <1>7, <2>1, <2>2 DEF ChannelTypeOK, ChildClosed
<1>8. CASE ControllerDies
 <2>1. channel' \in ChannelSet BY <1>8 DEF ControllerDies, ChannelTypeOK, ChannelSet
 <2> QED BY <1>8, <2>1 DEF ChannelTypeOK, ControllerDies
<1> QED BY <1>1, <1>2, <1>3, <1>4, <1>5, <1>6, <1>7, <1>8

-----------------------------------------------------------------------------
(* The steps of the guard: each either ends it, or succeeds. *)

QuietEvents == [type : {"ready", "worker", "closed", "failed"}, id : {0}]

ExitStep ==
    /\ guard' = Exits
    /\ UNCHANGED <<channel, calls, stdin, peer, world>>
    /\ stdout' = stdout \/ \E e \in QuietEvents : stdout' = Append(stdout, e)

\* It says something that is no answer, and changes stage.
Tells ==
    /\ \/ guard.at = "setup" /\ guard' = [guard EXCEPT !.at = "connecting"]
       \/ /\ guard.at = "connecting" /\ peer.at = "connected"
          /\ guard' = [guard EXCEPT !.at = "serving", !.peer = TRUE]
    /\ \E e \in QuietEvents : stdout' = Append(stdout, e)
    /\ UNCHANGED <<channel, calls, stdin, peer, world>>

Takes ==
    /\ guard.at \in {"connecting", "serving"} /\ guard.reader # "faulted"
    /\ guard.commands # <<>>
    /\ \E to \in {"facts", "write"} :
         /\ to = "facts" => Head(guard.commands).action = "authorize"
         /\ to = "write" => Head(guard.commands).action = "send"
         /\ guard' = [guard EXCEPT !.commands = Tail(@), !.id = Head(guard.commands).id,
                                   !.back = guard.at, !.at = to]
    /\ UNCHANGED <<channel, calls, stdin, stdout, peer, world>>

Passes ==
    /\ \/ guard.at = "facts" /\ world.rights /\ guard' = [guard EXCEPT !.at = "session"]
       \/ guard.at = "session" /\ world.session /\ guard' = [guard EXCEPT !.at = "answer"]
    /\ UNCHANGED <<channel, calls, stdin, stdout, peer, world>>

Answers ==
    /\ guard.peer => peer.at = "connected"
    /\ \/ /\ guard.at = "answer" /\ guard' = [guard EXCEPT !.at = guard.back]
          /\ Emit("authorized", guard.id)
       \/ /\ guard.at = "written" /\ guard' = [guard EXCEPT !.at = "serving"]
          /\ Emit("sent", guard.id)
    /\ UNCHANGED <<channel, calls, stdin, peer, world>>

Writes ==
    /\ guard.at = "write" /\ peer.at = "connected"
    /\ peer' = [peer EXCEPT !.inbox = Append(@, guard.id)]
    /\ guard' = [guard EXCEPT !.at = "written"]
    /\ UNCHANGED <<channel, calls, stdin, stdout, world>>

Relays ==
    /\ guard.at = "serving" /\ peer.outbox # <<>>
    /\ Emit("frame", Head(peer.outbox))
    /\ peer' = [peer EXCEPT !.outbox = Tail(@)]
    /\ UNCHANGED <<channel, calls, stdin, guard, world>>

Reads ==
    /\ guard.reader = "reading" /\ stdin # <<>>
    /\ stdin' = Tail(stdin)
    /\ \/ \E reader \in {"reading", "done"}, closing \in BOOLEAN :
            guard' = [guard EXCEPT !.commands = Append(@, Head(stdin)), !.reader = reader,
                                   !.closing = closing]
       \/ Head(stdin).action = "close" /\ \E closing \in BOOLEAN :
            guard' = [guard EXCEPT !.reader = "done", !.closing = closing]
       \/ \E closing \in BOOLEAN :
            guard' = [guard EXCEPT !.reader = "faulted", !.closing = closing]
    /\ UNCHANGED <<channel, calls, stdout, peer, world>>

Ends ==
    /\ guard.reader = "reading"
    /\ guard' = [guard EXCEPT !.reader = "faulted"]
    /\ UNCHANGED <<channel, calls, stdin, stdout, peer, world>>

GuardStep ==
    \/ ExitStep \/ Tells \/ Takes \/ Passes \/ Answers \/ Writes \/ Relays \/ Reads \/ Ends
    \/ Initial

LEMMA RefusesExits ==
  ASSUME Refuses, UNCHANGED <<channel, calls, stdin, world>>
  PROVE  ExitStep
<1>1. [type |-> "failed", id |-> 0] \in QuietEvents BY DEF QuietEvents
<1> QED BY <1>1 DEF Refuses, Emit, ExitStep

LEMMA GuardSteps ==
  ASSUME ChannelTypeOK,
         \/ Initial \/ Setup \/ Obey \/ Bind \/ AuthorizeFacts \/ AuthorizeSession \/ AuthorizeAnswer
         \/ Write \/ FrameWritten \/ Relay \/ Overdue
         \/ ReadControl \/ MonitorExits \/ MonitorOverdue
  PROVE  GuardStep
<1> USE DEF Main
<1>1. CASE Initial BY <1>1 DEF GuardStep
<1>2. CASE Setup
 <2>1. [type |-> "ready", id |-> 0] \in QuietEvents BY DEF QuietEvents
 <2> QED BY <1>2, <2>1, RefusesExits DEF Setup, GuardStep, Tells, Emit
<1>3. CASE Bind
 <2>1. [type |-> "worker", id |-> 0] \in QuietEvents BY DEF QuietEvents
 <2> QED BY <1>3, <2>1, RefusesExits DEF Bind, GuardStep, Tells, Emit
<1>4. CASE Obey
 <2>1. CASE Refuses BY <1>4, <2>1, RefusesExits DEF Obey, GuardStep
 <2>2. CASE ParentThere /\ guard.commands # <<>>
  <3> DEFINE c == Head(guard.commands)
             rest == [guard EXCEPT !.commands = Tail(@), !.id = c.id, !.back = guard.at]
  <3>1. CASE c.action = "close"
   <4>1. [type |-> "closed", id |-> 0] \in QuietEvents BY DEF QuietEvents
   <4>2. Emit("closed", 0) /\ guard' = Exits /\ UNCHANGED peer BY <1>4, <2>2, <3>1 DEF Obey
   <4> QED BY <1>4, <4>1, <4>2 DEF Obey, Emit, ExitStep, GuardStep
  <3>2. CASE c.action = "authorize"
   <4>1. guard' = [rest EXCEPT !.at = "facts"] /\ UNCHANGED <<stdout, peer>>
     BY <1>4, <2>2, <3>2 DEF Obey
   <4>2. guard' = [guard EXCEPT !.commands = Tail(@), !.id = c.id, !.back = guard.at, !.at = "facts"]
     BY <4>1
   <4>3. Takes BY <1>4, <2>2, <3>2, <4>1, <4>2 DEF Obey, Takes, ParentThere
   <4> QED BY <4>3 DEF GuardStep
  <3>3. CASE c.action = "send" /\ guard.at = "serving"
   <4>1. guard' = [rest EXCEPT !.at = "write"] /\ UNCHANGED <<stdout, peer>>
     BY <1>4, <2>2, <3>3 DEF Obey
   <4>2. guard' = [guard EXCEPT !.commands = Tail(@), !.id = c.id, !.back = guard.at, !.at = "write"]
     BY <4>1
   <4>3. Takes BY <1>4, <2>2, <3>3, <4>1, <4>2 DEF Obey, Takes, ParentThere
   <4> QED BY <4>3 DEF GuardStep
  <3>4. CASE c.action \notin {"close", "authorize"} /\ ~(c.action = "send" /\ guard.at = "serving")
   <4>1. Refuses BY <1>4, <2>2, <3>4 DEF Obey
   <4> QED BY <2>1, <4>1
  <3> QED BY <3>1, <3>2, <3>3, <3>4
 <2> QED BY <1>4, <2>1, <2>2 DEF Obey
<1>5. CASE AuthorizeFacts \/ AuthorizeSession
  BY <1>5, RefusesExits DEF AuthorizeFacts, AuthorizeSession, Step, SessionHolds, GuardStep, Passes
<1>6. CASE AuthorizeAnswer \/ FrameWritten
  BY <1>6, RefusesExits DEF AuthorizeAnswer, FrameWritten, ConnectionGood, GuardStep, Answers
<1>7. CASE Write BY <1>7, RefusesExits DEF Write, GuardStep, Writes
<1>8. CASE Relay BY <1>8, RefusesExits DEF Relay, GuardStep, Relays
<1>9. CASE Overdue BY <1>9, RefusesExits DEF Overdue, GuardStep
<1>10. CASE MonitorExits \/ MonitorOverdue
  BY <1>10 DEF MonitorExits, MonitorOverdue, GuardStep, ExitStep
<1>11. CASE ReadControl
 <2>1. CASE stdin = <<>>
  <3>1. Ends BY <1>11, <2>1 DEF ReadControl, Ends
  <3> QED BY <3>1 DEF GuardStep
 <2>2. CASE stdin # <<>>
  <3> DEFINE c == Head(stdin)
             room == Len(guard.commands) < QueueLimit
             closing == guard.closing \/ c.action = "close"
  <3>1. closing \in BOOLEAN OBVIOUS
  <3>2. guard' = [guard EXCEPT
                    !.commands = IF room THEN Append(guard.commands, c) ELSE guard.commands,
                    !.closing = closing,
                    !.reader = IF c.action = "close" THEN "done" ELSE IF room THEN @ ELSE "faulted"]
    BY <1>11, <2>2 DEF ReadControl
  <3>3. stdin' = Tail(stdin) /\ guard.reader = "reading" /\ UNCHANGED <<channel, calls, stdout, peer, world>>
    BY <1>11, <2>2 DEF ReadControl
  <3> HIDE DEF closing, room
  <3>4. CASE room
   <4> DEFINE reader == IF c.action = "close" THEN "done" ELSE "reading"
   <4>1. reader \in {"reading", "done"} OBVIOUS
   <4>2. guard' = [guard EXCEPT !.commands = Append(@, Head(stdin)), !.reader = reader,
                                !.closing = closing]
     BY <3>2, <3>3, <3>4
   <4> HIDE DEF reader
   <4>3. Reads BY <2>2, <3>1, <3>3, <4>1, <4>2 DEF Reads
   <4> QED BY <4>3 DEF GuardStep
  <3>5. CASE ~room /\ c.action = "close"
   <4>1. guard' = [guard EXCEPT !.reader = "done", !.closing = closing]
     BY <3>2, <3>5 DEF ChannelTypeOK, GuardSet
   <4>2. Reads BY <2>2, <3>1, <3>3, <3>5, <4>1 DEF Reads
   <4> QED BY <4>2 DEF GuardStep
  <3>6. CASE ~room /\ c.action # "close"
   <4>1. guard' = [guard EXCEPT !.reader = "faulted", !.closing = closing]
     BY <3>2, <3>6 DEF ChannelTypeOK, GuardSet
   <4>2. Reads BY <2>2, <3>1, <3>3, <3>6, <4>1 DEF Reads
   <4> QED BY <4>2 DEF GuardStep
  <3> QED BY <3>4, <3>5, <3>6
 <2> QED BY <2>1, <2>2
<1> QED BY <1>1, <1>2, <1>3, <1>4, <1>5, <1>6, <1>7, <1>8, <1>9, <1>10, <1>11

LEMMA ExitsType ==
  ASSUME ChannelTypeOK
  PROVE  Exits \in GuardSet /\ Exits.at = "gone" /\ Exits.id = guard.id /\ Exits.peer = guard.peer
BY EmptySeq DEF ChannelTypeOK, GuardSet, GuardStages, Exits

\* Until it has started, the first line for the guard is the request of start().
StartFirst == guard.at = "initial" =>
    /\ guard.reader = "off" /\ guard.commands = <<>>
    /\ stdin # <<>> /\ stdin[1].id = 0

LEMMA StartKept ==
  ASSUME ChannelTypeOK, StartFirst,
         \/ stdin' = stdin /\ (guard' = guard \/ guard'.at # "initial")
         \/ guard' = guard /\ \E c \in CommandSet : stdin' = Append(stdin, c)
         \/ guard'.at # "initial"
  PROVE  StartFirst'
<1>1. CASE (stdin' = stdin /\ (guard' = guard \/ guard'.at # "initial")) \/ guard'.at # "initial"
  BY <1>1 DEF StartFirst
<1>2. CASE guard' = guard /\ (\E c \in CommandSet : stdin' = Append(stdin, c)) /\ guard.at = "initial"
 <2>1. PICK c \in CommandSet : stdin' = Append(stdin, c) BY <1>2
 <2>2. Len(stdin) > 0 /\ 1 \in 1 .. Len(stdin) BY <1>2, TailIs DEF StartFirst, ChannelTypeOK
 <2>3. stdin'[1] = stdin[1] /\ stdin' # <<>> BY <2>1, <2>2, AppendProperties DEF ChannelTypeOK
 <2> QED BY <1>2, <2>3 DEF StartFirst
<1> QED BY <1>1, <1>2 DEF StartFirst

LEMMA GuardTyped ==
  ASSUME ChannelTypeOK, StartFirst, GuardStep
  PROVE  ChannelTypeOK'
<1> USE DEF ChannelTypeOK
<1>0. /\ guard \in GuardSet /\ guard.commands \in Seq(CommandSet) /\ guard.id \in Nat
      /\ peer \in PeerSet /\ peer.inbox \in Seq(Nat) /\ peer.outbox \in Seq(Nat)
      /\ QuietEvents \subseteq EventSet
  BY DEF GuardSet, PeerSet, QuietEvents, EventSet
<1>1. ASSUME NEW e \in QuietEvents, stdout' = Append(stdout, e)
      PROVE  stdout' \in Seq(EventSet)
  BY <1>0, <1>1, AppendProperties
<1>2. CASE ExitStep BY <1>1, <1>2, ExitsType DEF ExitStep
<1>3. CASE Tells
 <2>1. guard' \in GuardSet /\ guard'.at \in {"connecting", "serving"}
   BY <1>0, <1>3 DEF Tells, GuardSet, GuardStages
 <2> QED BY <1>1, <1>3, <2>1 DEF Tells
<1>4. CASE Takes
 <2> DEFINE rest == Tail(guard.commands)
            c == Head(guard.commands)
            i == c.id
 <2>1. rest \in Seq(CommandSet) /\ c \in CommandSet BY <1>0, <1>4, HeadTailProperties DEF Takes
 <2>2. i \in Nat BY <2>1 DEF CommandSet
 <2>3. PICK to \in {"facts", "write"} :
         guard' = [guard EXCEPT !.commands = rest, !.id = i, !.back = guard.at, !.at = to]
   BY <1>4 DEF Takes
 <2>4. guard.at \in {"connecting", "serving"} BY <1>4 DEF Takes
 <2> HIDE DEF rest, i
 <2>5. guard' \in GuardSet /\ guard'.back # "none"
   BY <1>0, <2>1, <2>2, <2>3, <2>4 DEF GuardSet, GuardStages
 <2> QED BY <1>4, <2>5 DEF Takes
<1>5. CASE Passes
 <2>1. guard' \in GuardSet /\ guard'.back # "none" BY <1>0, <1>5 DEF Passes, GuardSet, GuardStages
 <2> QED BY <1>5, <2>1 DEF Passes
<1>6. CASE Answers
 <2>1. guard' \in GuardSet /\ guard'.at \in {"connecting", "serving"}
   BY <1>0, <1>6 DEF Answers, GuardSet, GuardStages
 <2>2. PICK type \in {"authorized", "sent"} : stdout' = Append(stdout, [type |-> type, id |-> guard.id])
   BY <1>6 DEF Answers, Emit
 <2>3. [type |-> type, id |-> guard.id] \in EventSet BY <1>0 DEF EventSet
 <2>4. stdout' \in Seq(EventSet) BY <2>2, <2>3, AppendProperties
 <2> QED BY <1>6, <2>1, <2>4 DEF Answers
<1>7. CASE Writes
 <2>1. guard' \in GuardSet /\ guard'.at = "written" BY <1>0, <1>7 DEF Writes, GuardSet, GuardStages
 <2> DEFINE inbox == Append(peer.inbox, guard.id)
 <2>2. inbox \in Seq(Nat) BY <1>0, AppendProperties
 <2>3. peer' = [peer EXCEPT !.inbox = inbox] BY <1>7 DEF Writes
 <2> HIDE DEF inbox
 <2>4. peer' \in PeerSet BY <1>0, <2>2, <2>3 DEF PeerSet
 <2> QED BY <1>7, <2>1, <2>4 DEF Writes
<1>8. CASE Relays
 <2> DEFINE outbox == Tail(peer.outbox)
            e == [type |-> "frame", id |-> Head(peer.outbox)]
 <2>1. outbox \in Seq(Nat) /\ Head(peer.outbox) \in Nat
   BY <1>0, <1>8, HeadTailProperties DEF Relays
 <2>2. e \in EventSet BY <2>1 DEF EventSet
 <2>3. peer' = [peer EXCEPT !.outbox = outbox] /\ stdout' = Append(stdout, e)
   BY <1>8 DEF Relays, Emit
 <2> HIDE DEF outbox, e
 <2>4. peer' \in PeerSet BY <1>0, <2>1, <2>3 DEF PeerSet
 <2>5. stdout' \in Seq(EventSet) BY <2>2, <2>3, AppendProperties
 <2> QED BY <1>8, <2>4, <2>5 DEF Relays
<1>9. CASE Reads
 <2> DEFINE kept == Append(guard.commands, Head(stdin))
 <2>1. Head(stdin) \in CommandSet /\ stdin' \in Seq(CommandSet)
   BY <1>9, HeadTailProperties DEF Reads
 <2>2. kept \in Seq(CommandSet) BY <1>0, <2>1, AppendProperties
 <2>3. PICK reader \in {"reading", "done", "faulted"}, closing \in BOOLEAN :
         \/ guard' = [guard EXCEPT !.commands = kept, !.reader = reader, !.closing = closing]
         \/ guard' = [guard EXCEPT !.reader = reader, !.closing = closing]
   BY <1>9 DEF Reads
 <2> HIDE DEF kept
 <2>4. guard' \in GuardSet /\ guard'.at = guard.at /\ guard'.back = guard.back
   BY <1>0, <2>2, <2>3 DEF GuardSet
 <2> QED BY <1>9, <2>1, <2>4 DEF Reads
<1>10. CASE Ends
 <2>1. guard' \in GuardSet /\ guard'.at = guard.at /\ guard'.back = guard.back
   BY <1>0, <1>10 DEF Ends, GuardSet
 <2> QED BY <1>10, <2>1 DEF Ends
<1>11. CASE Initial
 <2>1. guard' \in GuardSet /\ guard'.at = "setup" BY <1>0, <1>11 DEF Initial, GuardSet, GuardStages
 <2>2. stdin' \in Seq(CommandSet) BY <1>11, HeadTailProperties DEF Initial, StartFirst
 <2> QED BY <1>11, <2>1, <2>2 DEF Initial
<1> QED BY <1>2, <1>3, <1>4, <1>5, <1>6, <1>7, <1>8, <1>9, <1>10, <1>11 DEF GuardStep

\* Steps of the worker, the account and the rights.
OtherStep ==
    \/ \E genuine \in BOOLEAN : PeerConnects(genuine)
    \/ PeerWrites \/ PeerLeaves \/ SessionEnds \/ RightsEnd

LEMMA OthersTyped ==
  ASSUME ChannelTypeOK, OtherStep
  PROVE  ChannelTypeOK'
<1> USE DEF ChannelTypeOK, Others
<1>0. peer \in PeerSet /\ peer.outbox \in Seq(Nat) /\ peer.wrote \in Nat BY DEF PeerSet
<1>1. CASE (\E genuine \in BOOLEAN : PeerConnects(genuine)) \/ PeerLeaves
 <2>1. peer' \in PeerSet BY <1>0, <1>1 DEF PeerConnects, PeerLeaves, PeerSet
 <2> QED BY <1>1, <2>1 DEF PeerConnects, PeerLeaves
<1>2. CASE PeerWrites
 <2> DEFINE n == peer.wrote + 1
            outbox == Append(peer.outbox, n)
 <2>1. n \in Nat BY <1>0
 <2>2. peer' = [peer EXCEPT !.outbox = outbox, !.wrote = n] BY <1>2 DEF PeerWrites
 <2> HIDE DEF n
 <2>3. outbox \in Seq(Nat) BY <1>0, <2>1, AppendProperties
 <2> HIDE DEF outbox
 <2>4. peer' \in PeerSet BY <1>0, <2>1, <2>2, <2>3 DEF PeerSet
 <2> QED BY <1>2, <2>4 DEF PeerWrites
<1>3. CASE SessionEnds \/ RightsEnd BY <1>3 DEF SessionEnds, RightsEnd
<1> QED BY <1>1, <1>2, <1>3 DEF OtherStep

ControllerStep ==
    \/ \E action \in {"authorize", "send"} : Command(action)
    \/ Receive \/ Close \/ CloseOverdue \/ CallerOverdue \/ Event \/ ChildClosed \/ ControllerDies

LEMMA ChannelSteps ==
  ASSUME ChannelTypeOK, ChannelNext
  PROVE  ControllerStep \/ GuardStep \/ OtherStep
BY GuardSteps DEF ChannelNext, ControllerStep, OtherStep

LEMMA InitTyped == ChannelInit => ChannelTypeOK /\ StartFirst
<1> SUFFICES ASSUME ChannelInit PROVE ChannelTypeOK /\ StartFirst OBVIOUS
<1> DEFINE serve == [action |-> "serve", id |-> 0]
<1>1. serve \in CommandSet BY DEF CommandSet
<1>2. stdin = <<serve>> BY DEF ChannelInit
<1> HIDE DEF serve
<1>3. stdin \in Seq(CommandSet) /\ stdin # <<>> /\ stdin[1] = serve BY <1>1, <1>2
<1>4. channel \in ChannelSet BY EmptySeq DEF ChannelInit, ChannelSet
<1>5. guard \in GuardSet /\ guard.at = "initial" BY EmptySeq DEF ChannelInit, GuardSet, GuardStages
<1>6. peer \in PeerSet BY EmptySeq DEF ChannelInit, PeerSet
<1>7. StartFirst BY <1>3 DEF StartFirst, ChannelInit, serve
<1> QED BY <1>3, <1>4, <1>5, <1>6, <1>7, EmptySeq DEF ChannelInit, ChannelTypeOK

LEMMA TypedStep ==
  ASSUME ChannelTypeOK, StartFirst, [ChannelNext]_channelVars
  PROVE  ChannelTypeOK' /\ StartFirst'
<1>1. CASE UNCHANGED channelVars BY <1>1 DEF channelVars, ChannelTypeOK, StartFirst
<1>2. CASE ControllerStep
 <2>1. guard' = guard /\ (stdin' = stdin \/ \E c \in CommandSet : stdin' = Append(stdin, c))
  <3>1. ASSUME NEW action \in {"authorize", "send"}, Command(action)
        PROVE  guard' = guard /\ (stdin' = stdin \/ \E c \in CommandSet : stdin' = Append(stdin, c))
   <4>1. [action |-> action, id |-> Len(calls) + 1] \in CommandSet
     BY LenProperties DEF CommandSet, ChannelTypeOK
   <4> QED BY <3>1, <4>1 DEF Command
  <3>2. CASE Close
   <4>1. [action |-> "close", id |-> 0] \in CommandSet BY DEF CommandSet
   <4> QED BY <3>2, <4>1 DEF Close
  <3>3. CASE Receive \/ CloseOverdue \/ CallerOverdue \/ Event \/ ChildClosed \/ ControllerDies
    BY <3>3 DEF Receive, CloseOverdue, CallerOverdue, Event, ChildClosed, ControllerDies
  <3> QED BY <1>2, <3>1, <3>2, <3>3 DEF ControllerStep
 <2> QED BY <1>2, <2>1, StartKept, ControllerTyped DEF ControllerStep
<1>3. CASE GuardStep
 <2>1. guard'.at # "initial" \/ (stdin' = stdin /\ guard' = guard)
  <3>0. guard \in GuardSet BY DEF ChannelTypeOK
  <3>1. CASE ExitStep BY <3>1, ExitsType DEF ExitStep
  <3>2. CASE Tells \/ Takes \/ Passes \/ Writes \/ Relays
    BY <3>0, <3>2 DEF GuardSet, Tells, Takes, Passes, Writes, Relays
  <3>3. CASE Answers BY <3>0, <3>3 DEF GuardSet, ChannelTypeOK, Answers
  <3>4. CASE Reads \/ Ends BY <3>0, <3>4 DEF GuardSet, StartFirst, Reads, Ends
  <3>5. CASE Initial BY <3>0, <3>5 DEF GuardSet, Initial
  <3> QED BY <1>3, <3>1, <3>2, <3>3, <3>4, <3>5 DEF GuardStep
 <2> QED BY <1>3, <2>1, StartKept, GuardTyped
<1>4. CASE OtherStep
 <2>1. stdin' = stdin /\ guard' = guard
   BY <1>4 DEF OtherStep, Others, PeerConnects, PeerWrites, PeerLeaves, SessionEnds, RightsEnd
 <2> QED BY <1>4, <2>1, StartKept, OthersTyped
<1> QED BY <1>1, <1>2, <1>3, <1>4, ChannelSteps

-----------------------------------------------------------------------------
(* The steps of the controller. *)

\* A command is given.
Commands(action) ==
    /\ calls' = Append(calls, [action |-> action, result |-> "waiting", hopeless |-> LostAlready])
    /\ stdin' = Append(stdin, [action |-> action, id |-> Len(calls) + 1])
    /\ UNCHANGED stdout

\* An answer is taken.
Granted(i) ==
    /\ stdout # <<>> /\ stdout' = Tail(stdout)
    /\ Head(stdout).type \in {"sent", "authorized"} /\ Head(stdout).id = i
    /\ calls' = [calls EXCEPT ![i].result = "ok"]
    /\ UNCHANGED stdin

NothingGranted ==
    /\ calls' = calls \/ calls' = RejectCalls
    /\ stdin' = stdin \/ stdin' = Append(stdin, [action |-> "close", id |-> 0])
    /\ stdout' = stdout \/ (stdout # <<>> /\ stdout' = Tail(stdout))

LEMMA ControllerSteps ==
  ASSUME ChannelTypeOK, ControllerStep
  PROVE  /\ UNCHANGED <<guard, peer, world>>
         /\ \/ \E action \in {"authorize", "send"} : Commands(action)
            \/ \E i \in 1 .. Len(calls) : Granted(i)
            \/ NothingGranted
<1>1. ASSUME NEW action \in {"authorize", "send"}, Command(action)
      PROVE  UNCHANGED <<guard, peer, world>> /\ (Commands(action) \/ NothingGranted)
  BY <1>1 DEF Command, Commands, NothingGranted, Fail
<1>2. CASE Receive \/ Close \/ CloseOverdue \/ CallerOverdue \/ ChildClosed \/ ControllerDies
  BY <1>2 DEF Receive, Close, CloseOverdue, CallerOverdue, ChildClosed, ControllerDies,
    NothingGranted, Fail
<1>3. CASE Event
 <2> DEFINE entry == Head(stdout)
 <2>1. /\ UNCHANGED <<guard, peer, world, stdin>> /\ stdout # <<>> /\ stdout' = Tail(stdout)
       /\ Handle(entry)
   BY <1>3 DEF Event
 <2>2. entry.type \in {"ready", "worker", "frame", "sent", "authorized", "closed", "failed"}
  <3>1. Head(stdout) \in EventSet BY <2>1, HeadTailProperties DEF ChannelTypeOK
  <3> QED BY <3>1 DEF EventSet
 <2>3. CASE calls' = calls \/ calls' = RejectCalls BY <2>1, <2>3 DEF NothingGranted
 <2>4. CASE ~channel.failure /\ entry.type \in {"sent", "authorized"} /\ entry.id \in Waiting
  <3>1. calls' = [calls EXCEPT ![entry.id].result = "ok"] BY <2>1, <2>4 DEF Handle
  <3>2. entry.id \in 1 .. Len(calls) BY <2>4, LenProperties DEF Waiting, ChannelTypeOK
  <3>3. Granted(entry.id) BY <2>1, <2>4, <3>1 DEF Granted
  <3> QED BY <2>1, <3>2, <3>3
 <2>5. CASE channel.failure \/ ~(entry.type \in {"sent", "authorized"} /\ entry.id \in Waiting)
  <3>1. calls' = calls \/ calls' = RejectCalls
   <4>1. CASE channel.failure \/ entry.type = "failed" BY <2>1, <4>1 DEF Handle, Fail
   <4>2. CASE ~channel.failure /\ entry.type \in {"ready", "worker", "closed"}
     BY <2>1, <4>2 DEF Handle
   <4>3. CASE ~channel.failure /\ entry.type = "frame" BY <2>1, <4>3 DEF Handle
   <4>4. CASE ~channel.failure /\ entry.type \in {"sent", "authorized"} /\ entry.id \notin Waiting
     BY <2>1, <4>4 DEF Handle, Fail
   <4> QED BY <2>2, <2>5, <4>1, <4>2, <4>3, <4>4
  <3> QED BY <2>3, <3>1
 <2> QED BY <2>4, <2>5
<1> QED BY <1>1, <1>2, <1>3 DEF ControllerStep

-----------------------------------------------------------------------------
(* What is told: the invariant. *)

IsCall(i, action) == i \in 1 .. Len(calls) /\ calls[i].action = action
Delivered(i) == \E k \in 1 .. Len(peer.inbox) : peer.inbox[k] = i
PeerLost == guard.peer /\ peer.at # "connected"

\* Commands on their way are calls that were made.
CommandTrue(c) ==
    IF c.action \in {"authorize", "send"} THEN IsCall(c.id, c.action) ELSE c.id = 0
TrueCommands == {c \in CommandSet : CommandTrue(c)}
CommandsTrue == stdin \in Seq(TrueCommands) /\ guard.commands \in Seq(TrueCommands)

\* What was lost stays lost.
LossesTrue ==
    /\ \A i \in 1 .. Len(calls) : calls[i].hopeless => LostAlready
    /\ guard.peer => peer.at # "away"

\* An authorization that cannot be given any more is refused by a check that
\* the guard has yet to make; a frame that is reported was written.
StageTrue ==
    /\ guard.at \in {"facts", "session", "answer"} => IsCall(guard.id, "authorize")
    /\ guard.at = "session" /\ calls[guard.id].hopeless => ~world.session \/ PeerLost
    /\ guard.at = "answer" /\ calls[guard.id].hopeless => PeerLost
    /\ guard.at \in {"write", "written"} => IsCall(guard.id, "send")
    /\ guard.at = "written" => Delivered(guard.id)

EventTrue(e) ==
    /\ e.type = "authorized" => IsCall(e.id, "authorize") /\ ~calls[e.id].hopeless
    /\ e.type = "sent" => IsCall(e.id, "send") /\ Delivered(e.id)
TrueEvents == {e \in EventSet : EventTrue(e)}
EventsTrue == stdout \in Seq(TrueEvents)

ResultTrue(i) == calls[i].result = "ok" =>
    /\ calls[i].action = "authorize" => ~calls[i].hopeless
    /\ calls[i].action = "send" => Delivered(i)
ResultsTrue == \A i \in 1 .. Len(calls) : ResultTrue(i)

AnswersInv == CommandsTrue /\ LossesTrue /\ StageTrue /\ EventsTrue /\ ResultsTrue

\* Calls reach the guard in their order, and none is passed over unless its
\* reader has stopped.
Ordered(s) == \A j, k \in 1 .. Len(s) : j < k /\ s[j].id > 0 /\ s[k].id > 0 => s[j].id < s[k].id
Above(n, s) == \A k \in 1 .. Len(s) : s[k].id > 0 => s[k].id > n
Below(s, n) == \A k \in 1 .. Len(s) : s[k].id > 0 => s[k].id < n
Precedes(s, t) == \A k \in 1 .. Len(t) : t[k].id > 0 => Below(s, t[k].id)
IsIn(i, s) == \E k \in 1 .. Len(s) : s[k].id = i

QueueInv == guard.at # "gone" =>
    /\ Ordered(stdin) /\ Ordered(guard.commands) /\ Precedes(guard.commands, stdin)
    /\ Above(guard.id, stdin) /\ Above(guard.id, guard.commands)
    /\ guard.reader # "faulted" =>
         \A i \in guard.id + 1 .. Len(calls) : IsIn(i, guard.commands) \/ IsIn(i, stdin)

\* Frames reach the worker in their order.
InboxInv ==
    /\ guard.id <= Len(calls)
    /\ \A k \in 1 .. Len(peer.inbox) :
         peer.inbox[k] > 0 /\ peer.inbox[k] <= guard.id /\ (guard.at = "write" => peer.inbox[k] < guard.id)
    /\ guard.at # "gone" => \A i \in 1 .. guard.id :
         calls[i].action = "send" => Delivered(i) \/ (guard.at = "write" /\ i = guard.id)
    /\ Increasing(peer.inbox)
    /\ \A k \in 1 .. Len(peer.inbox) : \A i \in 1 .. peer.inbox[k] - 1 :
         calls[i].action = "send" => Delivered(i)

\* Frames of the worker: what has arrived, what waits, what is on its way and
\* what is still in the pipe follow each other.
Relayed == peer.wrote - Len(peer.outbox)
Arrived == Len(channel.got) + Len(channel.frames)
FramesIn(s, lo, hi) ==
    /\ lo <= hi
    /\ \A k \in 1 .. Len(s) : s[k].type = "frame" => s[k].id > lo /\ s[k].id <= hi
    /\ \A j, k \in 1 .. Len(s) : j < k /\ s[j].type = "frame" /\ s[k].type = "frame" => s[j].id < s[k].id
    /\ \A i \in lo + 1 .. hi : \E k \in 1 .. Len(s) : s[k].type = "frame" /\ s[k].id = i
InHand ==
    /\ \A k \in 1 .. Len(channel.got) : channel.got[k] = k
    /\ ~channel.failure =>
         /\ \A k \in 1 .. Len(channel.frames) : channel.frames[k] = Len(channel.got) + k
         /\ channel.waiters > 0 => Len(channel.frames) = 0
InPipe == Relayed \in Nat /\ \A k \in 1 .. Len(peer.outbox) : peer.outbox[k] = Relayed + k
FramesInv == InHand /\ InPipe /\ (~channel.failure => FramesIn(stdout, Arrived, Relayed))

\* What a call was, what was delivered and what was lost stays so.
Grows ==
    /\ Len(calls') >= Len(calls)
    /\ \A i \in 1 .. Len(calls) : /\ i \in 1 .. Len(calls')
                                  /\ calls'[i].action = calls[i].action
                                  /\ calls'[i].hopeless = calls[i].hopeless
    /\ \A i \in Nat : Delivered(i) => Delivered(i)'
    /\ LostAlready => LostAlready'
    /\ PeerLost => PeerLost'
    /\ ~world.session => ~world'.session
    /\ (guard.peer => peer.at # "away")'

LEMMA CallsGrow ==
  ASSUME ChannelTypeOK, ControllerStep
  PROVE  /\ Len(calls') >= Len(calls)
         /\ \A i \in 1 .. Len(calls) : /\ i \in 1 .. Len(calls')
                                       /\ calls'[i].action = calls[i].action
                                       /\ calls'[i].hopeless = calls[i].hopeless
<1>0. calls \in Seq(CallSet) /\ Len(calls) \in Nat BY LenProperties DEF ChannelTypeOK
<1>1. ASSUME NEW action \in {"authorize", "send"}, Commands(action)
      PROVE  /\ Len(calls') >= Len(calls)
             /\ \A i \in 1 .. Len(calls) : i \in 1 .. Len(calls') /\ calls'[i] = calls[i]
 <2> DEFINE made == [action |-> action, result |-> "waiting", hopeless |-> LostAlready]
 <2>1. made \in CallSet /\ calls' = Append(calls, made) BY <1>1 DEF Commands, CallSet, LostAlready
 <2> HIDE DEF made
 <2> QED BY <1>0, <2>1, AppendIs
<1>2. ASSUME NEW i \in 1 .. Len(calls), Granted(i)
      PROVE  /\ Len(calls') = Len(calls)
             /\ \A j \in 1 .. Len(calls) : /\ calls'[j].action = calls[j].action
                                           /\ calls'[j].hopeless = calls[j].hopeless
 <2> DEFINE c == [calls[i] EXCEPT !.result = "ok"]
 <2>1. calls[i] \in CallSet BY <1>0, ElementOfSeq
 <2>2. c \in CallSet /\ c.action = calls[i].action /\ c.hopeless = calls[i].hopeless
   BY <2>1 DEF CallSet
 <2>3. calls' = [calls EXCEPT ![i] = c] BY <1>2 DEF Granted
 <2> HIDE DEF c
 <2>4. Len(calls') = Len(calls) /\ \A j \in 1 .. Len(calls) : calls'[j] = IF j = i THEN c ELSE calls[j]
   BY <1>0, <2>2, <2>3, ExceptSeq
 <2> QED BY <2>2, <2>4
<1>3. CASE NothingGranted BY <1>0, <1>3, RejectCallsType DEF NothingGranted
<1> QED BY <1>0, <1>1, <1>2, <1>3, ControllerSteps

LEMMA NewCalls ==
  ASSUME ChannelTypeOK, ControllerStep, NEW i \in 1 .. Len(calls')
  PROVE  \/ i \in 1 .. Len(calls) /\ (calls'[i].result = "ok" => calls[i].result = "ok" \/ Granted(i))
         \/ calls'[i].result = "waiting" /\ (calls'[i].hopeless => LostAlready)
<1>0. calls \in Seq(CallSet) /\ Len(calls) \in Nat BY LenProperties DEF ChannelTypeOK
<1>1. ASSUME NEW action \in {"authorize", "send"}, Commands(action)
      PROVE  \/ i \in 1 .. Len(calls) /\ calls'[i] = calls[i]
             \/ calls'[i].result = "waiting" /\ (calls'[i].hopeless => LostAlready)
 <2> DEFINE made == [action |-> action, result |-> "waiting", hopeless |-> LostAlready]
 <2>1. /\ made \in CallSet /\ calls' = Append(calls, made)
       /\ made.result = "waiting" /\ (made.hopeless => LostAlready)
   BY <1>1 DEF Commands, CallSet, LostAlready
 <2> HIDE DEF made
 <2>2. i \in 1 .. Len(calls) \/ i = Len(calls) + 1 BY <1>0, <2>1, AppendIs
 <2>3. calls'[Len(calls) + 1] = made /\ \A k \in 1 .. Len(calls) : calls'[k] = calls[k]
   BY <1>0, <2>1, AppendIs
 <2> QED BY <2>1, <2>2, <2>3
<1>2. ASSUME NEW j \in 1 .. Len(calls), Granted(j)
      PROVE  i \in 1 .. Len(calls) /\ (i = j \/ calls'[i] = calls[i])
 <2> DEFINE c == [calls[j] EXCEPT !.result = "ok"]
 <2>1. calls[j] \in CallSet BY <1>0, ElementOfSeq
 <2>2. c \in CallSet /\ calls' = [calls EXCEPT ![j] = c] BY <1>2, <2>1 DEF CallSet, Granted
 <2> HIDE DEF c
 <2>3. Len(calls') = Len(calls) /\ \A k \in 1 .. Len(calls) : calls'[k] = IF k = j THEN c ELSE calls[k]
   BY <1>0, <2>2, ExceptSeq
 <2> QED BY <2>3
<1>3. CASE NothingGranted BY <1>0, <1>3, RejectCallsType DEF NothingGranted
<1> QED BY <1>1, <1>2, <1>3, ControllerSteps

LEMMA Growth ==
  ASSUME ChannelTypeOK, StartFirst, LossesTrue, ControllerStep \/ GuardStep \/ OtherStep
  PROVE  Grows
<1>0. guard \in GuardSet /\ peer \in PeerSet /\ peer.inbox \in Seq(Nat) /\ Len(calls) \in Nat
  BY LenProperties DEF ChannelTypeOK, PeerSet
<1>1. CASE ControllerStep
  BY <1>0, <1>1, CallsGrow, ControllerSteps DEF Grows, Delivered, LostAlready, PeerLost, LossesTrue
<1>2. CASE GuardStep
 <2>1. calls' = calls /\ world' = world
   BY <1>2 DEF GuardStep, ExitStep, Tells, Takes, Passes, Answers, Writes, Relays, Reads, Ends, Initial
 <2>2. guard'.peer = guard.peer \/ (guard'.peer /\ ~guard.peer /\ peer.at = "connected" /\ peer' = peer)
   BY <1>0, <1>2, ExitsType DEF GuardStep, GuardSet, ExitStep, Tells, Takes, Passes, Answers, Writes, Relays, Reads,
     Ends, Initial
 <2>3. peer'.at = peer.at /\ \A i \in Nat : Delivered(i) => Delivered(i)'
  <3>1. CASE peer' = peer BY <3>1 DEF Delivered
  <3>2. CASE Writes
   <4> DEFINE inbox == Append(peer.inbox, guard.id)
   <4>1. peer' = [peer EXCEPT !.inbox = inbox] /\ guard.id \in Nat
     BY <1>0, <3>2 DEF Writes, GuardSet
   <4>2. peer'.at = peer.at /\ peer'.inbox = inbox BY <1>0, <4>1 DEF PeerSet
   <4>3. \A k \in 1 .. Len(peer.inbox) : inbox[k] = peer.inbox[k] /\ k \in 1 .. Len(inbox)
     BY <1>0, <4>1, AppendIs
   <4> HIDE DEF inbox
   <4> QED BY <4>2, <4>3 DEF Delivered
  <3>3. CASE Relays
   <4>1. peer'.at = peer.at /\ peer'.inbox = peer.inbox BY <1>0, <3>3 DEF Relays, PeerSet
   <4> QED BY <4>1 DEF Delivered
  <3> QED BY <1>2, <3>1, <3>2, <3>3 DEF GuardStep, ExitStep, Tells, Takes, Passes, Answers, Reads,
    Ends, Initial
 <2> QED BY <1>0, <2>1, <2>2, <2>3 DEF Grows, LostAlready, PeerLost, LossesTrue
<1>3. CASE OtherStep
 <2>1. UNCHANGED <<guard, calls>>
   BY <1>3 DEF OtherStep, Others, PeerConnects, PeerWrites, PeerLeaves, SessionEnds, RightsEnd
 <2>2. /\ peer'.inbox = peer.inbox
       /\ peer'.at = peer.at \/ peer'.at = "gone" \/ (peer.at = "away" /\ peer'.at # "away")
       /\ peer.at = "gone" => peer'.at = "gone"
  <3>1. CASE \E genuine \in BOOLEAN : PeerConnects(genuine) BY <1>0, <3>1 DEF PeerSet, PeerConnects
  <3>2. CASE PeerWrites
   <4> DEFINE n == peer.wrote + 1
              outbox == Append(peer.outbox, n)
   <4>1. peer' = [peer EXCEPT !.outbox = outbox, !.wrote = n] BY <3>2 DEF PeerWrites
   <4> HIDE DEF n, outbox
   <4>2. peer'.at = peer.at /\ peer'.inbox = peer.inbox BY <1>0, <4>1 DEF PeerSet
   <4> QED BY <4>2
  <3>3. CASE PeerLeaves BY <1>0, <3>3 DEF PeerSet, PeerLeaves
  <3>4. CASE SessionEnds \/ RightsEnd
   <4>1. peer' = peer BY <3>4 DEF SessionEnds, RightsEnd
   <4> QED BY <4>1
  <3> QED BY <1>3, <3>1, <3>2, <3>3, <3>4 DEF OtherStep
 <2>3. (~world.session => ~world'.session) /\ (~world.rights => ~world'.rights)
   BY <1>3 DEF OtherStep, PeerConnects, PeerWrites, PeerLeaves, SessionEnds, RightsEnd, ChannelTypeOK
 <2>4. peer'.at \in {"away", "connected", "gone"} /\ peer.at \in {"away", "connected", "gone"}
   BY <1>0, <1>3, OthersTyped DEF ChannelTypeOK, PeerSet
 <2> QED BY <1>0, <2>1, <2>2, <2>3, <2>4 DEF Grows, LostAlready, PeerLost, LossesTrue, Delivered
<1> QED BY <1>1, <1>2, <1>3

\* What was so of a command, an event or a result stays so.
LEMMA TruthStays ==
  ASSUME Grows, Len(calls) \in Nat
  PROVE  /\ \A i, action : IsCall(i, action) => IsCall(i, action)'
         /\ \A c \in CommandSet : CommandTrue(c) => CommandTrue(c)'
         /\ \A e \in EventSet : EventTrue(e) => EventTrue(e)'
<1>1. ASSUME NEW i, NEW action, IsCall(i, action)
      PROVE  IsCall(i, action)' /\ calls'[i].hopeless = calls[i].hopeless
  BY <1>1 DEF IsCall, Grows
<1>2. ASSUME NEW c \in CommandSet, CommandTrue(c)
      PROVE  CommandTrue(c)'
  BY <1>1, <1>2 DEF CommandTrue, CommandSet
<1>3. ASSUME NEW e \in EventSet, EventTrue(e)
      PROVE  EventTrue(e)'
 <2>1. e.id \in Nat BY DEF EventSet
 <2>2. Delivered(e.id) => Delivered(e.id)' BY <2>1 DEF Grows
 <2> QED BY <1>1, <1>3, <2>2 DEF EventTrue
<1> QED BY <1>1, <1>2, <1>3

LEMMA StageKept ==
  ASSUME ChannelTypeOK, StageTrue, Grows,
         guard'.at \notin {"facts", "session", "answer", "write", "written"}
           \/ (guard'.at = guard.at /\ guard'.id = guard.id)
  PROVE  StageTrue'
<1>1. CASE guard'.at \notin {"facts", "session", "answer", "write", "written"}
  BY <1>1 DEF StageTrue
<1>2. CASE guard'.at = guard.at /\ guard'.id = guard.id
 <2>1. guard.id \in Nat /\ Len(calls) \in Nat BY LenProperties DEF ChannelTypeOK, GuardSet
 <2>0. PICK i \in Nat : i = guard.id BY <2>1
 <2>2. /\ IsCall(i, "authorize") => /\ calls'[i].hopeless = calls[i].hopeless
                                    /\ i \in 1 .. Len(calls') /\ calls'[i].action = "authorize"
       /\ IsCall(i, "send") => i \in 1 .. Len(calls') /\ calls'[i].action = "send"
       /\ Delivered(i) => Delivered(i)'
   BY <2>1 DEF Grows, IsCall
 <2>3. PeerLost => PeerLost' BY DEF Grows
 <2>4. ~world.session => ~world'.session BY DEF Grows
 <2>5. guard'.id = i BY <1>2, <2>0
 <2>6. Delivered(i)' => Delivered(guard.id)' BY <2>5 DEF Delivered
 <2>7. /\ guard.at \in {"facts", "session", "answer"} => IsCall(i, "authorize")
       /\ guard.at = "session" /\ calls[i].hopeless => ~world.session \/ PeerLost
       /\ guard.at = "answer" /\ calls[i].hopeless => PeerLost
       /\ guard.at \in {"write", "written"} => IsCall(i, "send")
       /\ guard.at = "written" => Delivered(i)
   BY <2>0 DEF StageTrue
 <2> QED BY <1>2, <2>2, <2>3, <2>4, <2>5, <2>6, <2>7 DEF StageTrue, IsCall
<1> QED BY <1>1, <1>2

LEMMA StageStep ==
  ASSUME ChannelTypeOK, StartFirst, AnswersInv, Grows, ControllerStep \/ GuardStep \/ OtherStep
  PROVE  StageTrue'
<1>0. guard \in GuardSet /\ Len(calls) \in Nat /\ guard.id \in Nat /\ StageTrue
  BY LenProperties DEF ChannelTypeOK, GuardSet, AnswersInv
<1>1. CASE guard' = guard BY <1>0, <1>1, StageKept
<1>2. CASE ExitStep \/ Tells \/ Reads \/ Ends \/ Initial
 <2>1. guard'.at \notin {"facts", "session", "answer", "write", "written"}
         \/ (guard'.at = guard.at /\ guard'.id = guard.id)
   BY <1>0, <1>2, ExitsType DEF ExitStep, Tells, Reads, Ends, Initial, GuardSet
 <2> QED BY <1>0, <2>1, StageKept
<1>3. CASE Answers
 <2>1. guard'.at \notin {"facts", "session", "answer", "write", "written"}
   BY <1>0, <1>3 DEF Answers, GuardSet, ChannelTypeOK
 <2> QED BY <1>0, <2>1, StageKept
<1>4. CASE Takes
 <2> DEFINE c == Head(guard.commands)
 <2>1. guard.commands \in Seq(CommandSet) /\ guard.commands # <<>>
   BY <1>0, <1>4 DEF GuardSet, Takes
 <2>2. CommandTrue(c) /\ c \in CommandSet
  <3>1. c \in TrueCommands BY <2>1, HeadTailProperties DEF AnswersInv, CommandsTrue
  <3> QED BY <3>1 DEF TrueCommands
 <2>3. PICK to \in {"facts", "write"} :
         /\ to = "facts" => c.action = "authorize"
         /\ to = "write" => c.action = "send"
         /\ guard' = [guard EXCEPT !.commands = Tail(@), !.id = c.id, !.back = guard.at, !.at = to]
   BY <1>4 DEF Takes
 <2>4. guard'.at = to /\ guard'.id = c.id /\ calls' = calls BY <1>0, <1>4, <2>3 DEF Takes, GuardSet
 <2>5. IsCall(c.id, IF to = "facts" THEN "authorize" ELSE "send") BY <2>2, <2>3 DEF CommandTrue
 <2> HIDE DEF c
 <2> QED BY <2>4, <2>5 DEF StageTrue, IsCall
<1>5. CASE Passes
 <2>1. /\ guard'.id = guard.id /\ guard'.peer = guard.peer
       /\ UNCHANGED <<calls, peer, world>>
       /\ \/ guard.at = "facts" /\ world.rights /\ guard'.at = "session"
          \/ guard.at = "session" /\ world.session /\ guard'.at = "answer"
   BY <1>0, <1>5 DEF Passes, GuardSet
 <2>2. IsCall(guard.id, "authorize") BY <1>0, <2>1 DEF StageTrue
 <2>3. calls[guard.id].hopeless => LostAlready BY <2>2 DEF AnswersInv, LossesTrue, IsCall
 <2>4. guard'.at \in {"session", "answer"} BY <2>1
 <2>5. IsCall(guard.id, "authorize")' BY <2>1, <2>2 DEF IsCall
 <2>6. guard'.at = "session" /\ calls[guard.id].hopeless => ~world.session \/ PeerLost
   BY <2>1, <2>3 DEF LostAlready, PeerLost
 <2>7. guard'.at = "answer" /\ calls[guard.id].hopeless => PeerLost BY <1>0, <2>1 DEF StageTrue
 <2>8. PeerLost' = PeerLost BY <2>1 DEF PeerLost
 <2> QED BY <2>1, <2>4, <2>5, <2>6, <2>7, <2>8 DEF StageTrue, IsCall
<1>6. CASE Writes
 <2>1. guard'.at = "written" /\ guard'.id = guard.id /\ calls' = calls
   BY <1>0, <1>6 DEF Writes, GuardSet
 <2>2. IsCall(guard.id, "send") BY <1>0, <1>6 DEF StageTrue, Writes
 <2>3. Delivered(guard.id)'
  <3> DEFINE inbox == Append(peer.inbox, guard.id)
  <3>1. peer \in PeerSet /\ peer.inbox \in Seq(Nat) BY DEF ChannelTypeOK, PeerSet
  <3>2. peer'.inbox = inbox BY <1>6, <3>1 DEF Writes, PeerSet
  <3>3. inbox[Len(peer.inbox) + 1] = guard.id /\ Len(peer.inbox) + 1 \in 1 .. Len(inbox)
    BY <1>0, <3>1, AppendIs
  <3> HIDE DEF inbox
  <3> QED BY <2>1, <3>2, <3>3 DEF Delivered
 <2> QED BY <2>1, <2>2, <2>3 DEF StageTrue, IsCall
<1>7. guard' = guard \/ GuardStep
 <2>1. OtherStep => guard' = guard
   BY DEF OtherStep, Others, PeerConnects, PeerWrites, PeerLeaves, SessionEnds, RightsEnd
 <2> QED BY <2>1, ControllerSteps
<1>8. Relays => guard' = guard BY DEF Relays
<1> QED BY <1>1, <1>2, <1>3, <1>4, <1>5, <1>6, <1>7, <1>8 DEF GuardStep

LEMMA LossesStep ==
  ASSUME ChannelTypeOK, StartFirst, AnswersInv, Grows, ControllerStep \/ GuardStep \/ OtherStep
  PROVE  LossesTrue' /\ ResultsTrue'
<1>0. Len(calls) \in Nat BY LenProperties DEF ChannelTypeOK
<1>1. ASSUME NEW i \in 1 .. Len(calls')
      PROVE  \/ i \in 1 .. Len(calls) /\ (calls'[i].result = "ok" => calls[i].result = "ok" \/ Granted(i))
             \/ calls'[i].result = "waiting" /\ (calls'[i].hopeless => LostAlready)
 <2>1. CASE GuardStep \/ OtherStep
  <3>1. calls' = calls
    BY <2>1 DEF GuardStep, ExitStep, Tells, Takes, Passes, Answers, Writes, Relays, Reads, Ends, Initial,
      OtherStep, Others, PeerConnects, PeerWrites, PeerLeaves, SessionEnds, RightsEnd
  <3> QED BY <3>1
 <2>2. CASE ControllerStep BY <2>2, NewCalls
 <2> QED BY <2>1, <2>2
<1>2. ASSUME NEW i \in 1 .. Len(calls'), calls'[i].hopeless
      PROVE  LostAlready'
  BY <1>1, <1>2 DEF Grows, AnswersInv, LossesTrue
<1>3. ASSUME NEW i \in 1 .. Len(calls), Granted(i)
      PROVE  ResultTrue(i)' 
 <2>1. Head(stdout) = stdout[1] /\ 1 \in 1 .. Len(stdout)
   BY <1>3, TailIs DEF Granted, ChannelTypeOK
 <2>2. EventTrue(stdout[1])
  <3>1. stdout[1] \in TrueEvents BY <2>1, ElementOfSeq DEF AnswersInv, EventsTrue
  <3> QED BY <3>1 DEF TrueEvents
 <2>3. \/ calls[i].action = "authorize" /\ ~calls[i].hopeless
       \/ calls[i].action = "send" /\ Delivered(i)
   BY <1>3, <2>1, <2>2 DEF EventTrue, Granted, IsCall
 <2>4. i \in Nat OBVIOUS
 <2> QED BY <2>3, <2>4 DEF Grows, ResultTrue
<1>4. ASSUME NEW i \in 1 .. Len(calls')
      PROVE  ResultTrue(i)'
 <2>1. CASE i \in 1 .. Len(calls) /\ calls[i].result = "ok"
  <3>1. ResultTrue(i) /\ i \in Nat BY <2>1 DEF AnswersInv, ResultsTrue
  <3> QED BY <2>1, <3>1 DEF Grows, ResultTrue
 <2>2. CASE i \in 1 .. Len(calls) /\ Granted(i) BY <1>3, <2>2
 <2>3. CASE calls'[i].result # "ok" BY <2>3 DEF ResultTrue
 <2> QED BY <1>1, <2>1, <2>2, <2>3
<1>5. (guard.peer => peer.at # "away")' BY DEF Grows
<1> QED BY <1>2, <1>4, <1>5 DEF LossesTrue, ResultsTrue

LEMMA CommandsStep ==
  ASSUME ChannelTypeOK, StartFirst, AnswersInv, Grows, ControllerStep \/ GuardStep \/ OtherStep
  PROVE  CommandsTrue'
<1> DEFINE T == TrueCommands
           U == TrueCommands'
<1>0. /\ Len(calls) \in Nat /\ guard \in GuardSet
      /\ stdin \in Seq(T) /\ guard.commands \in Seq(T)
  BY LenProperties DEF ChannelTypeOK, AnswersInv, CommandsTrue
<1>1. T \subseteq U BY <1>0, TruthStays DEF TrueCommands
<1>2. ASSUME NEW c \in CommandSet, CommandTrue(c)'
      PROVE  c \in U
  BY <1>2 DEF TrueCommands
<1> HIDE DEF T, U
<1>3. stdin \in Seq(U) /\ guard.commands \in Seq(U) BY <1>0, <1>1, SeqMonotonic
<1>4. CASE ControllerStep
 <2>1. ASSUME NEW action \in {"authorize", "send"}, Commands(action)
       PROVE  stdin' \in Seq(U)
  <3>1. PICK n \in Nat : n = Len(calls) + 1 BY <1>0
  <3> DEFINE c == [action |-> action, id |-> n]
             made == [action |-> action, result |-> "waiting", hopeless |-> LostAlready]
  <3>2. made \in CallSet /\ made.action = action /\ calls' = Append(calls, made)
    BY <2>1 DEF Commands, CallSet, LostAlready
  <3> HIDE DEF made
  <3>3. Len(calls') = n /\ calls'[n] = made /\ n \in 1 .. n
    BY <1>0, <3>1, <3>2, AppendIs DEF ChannelTypeOK
  <3>4. c \in CommandSet /\ CommandTrue(c)' BY <3>2, <3>3 DEF CommandSet, CommandTrue, IsCall
  <3>5. stdin' = Append(stdin, c) BY <2>1, <3>1 DEF Commands
  <3>6. c \in U BY <1>2, <3>4
  <3> HIDE DEF c
  <3> QED BY <1>3, <3>5, <3>6, AppendProperties
 <2>2. ASSUME NothingGranted
       PROVE  stdin' \in Seq(U)
  <3> DEFINE c == [action |-> "close", id |-> 0]
  <3>1. c \in CommandSet /\ CommandTrue(c)' BY DEF CommandSet, CommandTrue
  <3>2. c \in U BY <1>2, <3>1
  <3>3. stdin' = stdin \/ stdin' = Append(stdin, c) BY <2>2 DEF NothingGranted
  <3> HIDE DEF c
  <3>4. Append(stdin, c) \in Seq(U) BY <1>3, <3>2, AppendProperties
  <3> QED BY <1>3, <3>3, <3>4
 <2>3. \A i \in 1 .. Len(calls) : Granted(i) => stdin' = stdin BY DEF Granted
 <2>4. stdin' \in Seq(U) BY <1>3, <1>4, <2>1, <2>2, <2>3, ControllerSteps
 <2>5. guard' = guard BY <1>4, ControllerSteps
 <2> QED BY <1>3, <2>4, <2>5 DEF CommandsTrue, U
<1>5. CASE GuardStep
 <2>1. CASE stdin' = stdin /\ guard'.commands = guard.commands BY <1>3, <2>1 DEF CommandsTrue, U
 <2>2. CASE ExitStep
  <3>1. guard'.commands = <<>> /\ stdin' = stdin BY <1>0, <2>2 DEF ExitStep, Exits, GuardSet
  <3> QED BY <1>3, <3>1, EmptySeq DEF CommandsTrue, U
 <2>3. CASE Takes
  <3>1. guard'.commands = Tail(guard.commands) /\ guard.commands # <<>> /\ stdin' = stdin
    BY <1>0, <2>3 DEF Takes, GuardSet
  <3>2. guard'.commands \in Seq(U) BY <1>3, <3>1, HeadTailProperties
  <3> QED BY <1>3, <3>1, <3>2 DEF CommandsTrue, U
 <2>4. CASE Reads
  <3>1. stdin # <<>> /\ stdin' = Tail(stdin) BY <2>4 DEF Reads
  <3>2. Head(stdin) \in U /\ stdin' \in Seq(U) BY <1>3, <3>1, HeadTailProperties
  <3>3. guard'.commands = guard.commands \/ guard'.commands = Append(guard.commands, Head(stdin))
    BY <1>0, <2>4 DEF Reads, GuardSet
  <3>4. guard'.commands \in Seq(U) BY <1>3, <3>2, <3>3, AppendProperties, ZenonT(40)
  <3> QED BY <3>2, <3>4 DEF CommandsTrue, U
 <2>5. CASE Initial
  <3>1. stdin # <<>> /\ stdin' = Tail(stdin) /\ guard'.commands = guard.commands
    BY <1>0, <2>5 DEF Initial, StartFirst, GuardSet
  <3>2. stdin' \in Seq(U) BY <1>3, <3>1, HeadTailProperties
  <3> QED BY <1>3, <3>1, <3>2 DEF CommandsTrue, U
 <2>6. CASE Tells \/ Passes \/ Answers \/ Writes \/ Relays \/ Ends
  <3>1. stdin' = stdin /\ guard'.commands = guard.commands
    BY <1>0, <2>6 DEF GuardSet, Tells, Passes, Answers, Writes, Relays, Ends
  <3> QED BY <2>1, <3>1
 <2> QED BY <1>5, <2>2, <2>3, <2>4, <2>5, <2>6 DEF GuardStep
<1>6. CASE OtherStep
 <2>1. stdin' = stdin /\ guard' = guard
   BY <1>6 DEF OtherStep, Others, PeerConnects, PeerWrites, PeerLeaves, SessionEnds, RightsEnd
 <2> QED BY <1>3, <2>1 DEF CommandsTrue, U
<1> QED BY <1>4, <1>5, <1>6

LEMMA EventsStep ==
  ASSUME ChannelTypeOK, StartFirst, AnswersInv, Grows, ControllerStep \/ GuardStep \/ OtherStep
  PROVE  EventsTrue'
<1> DEFINE U == TrueEvents'
<1>0. Len(calls) \in Nat /\ guard \in GuardSet /\ guard.id \in Nat /\ peer \in PeerSet
  BY LenProperties DEF ChannelTypeOK, GuardSet
<1>1. TrueEvents \subseteq U BY <1>0, TruthStays DEF TrueEvents
<1>2. ASSUME NEW e \in EventSet, EventTrue(e)'
      PROVE  e \in U
  BY <1>2 DEF TrueEvents
<1> HIDE DEF U
<1>3. stdout \in Seq(U) BY <1>1, SeqMonotonic DEF AnswersInv, EventsTrue
<1>4. ASSUME NEW e \in U, stdout' = Append(stdout, e)
      PROVE  stdout' \in Seq(U)
  BY <1>3, <1>4, AppendProperties
<1>5. QuietEvents \subseteq U
 <2>1. ASSUME NEW e \in QuietEvents
       PROVE  e \in EventSet /\ EventTrue(e)'
   BY DEF QuietEvents, EventSet, EventTrue
 <2> QED BY <1>2, <2>1
<1>6. CASE ControllerStep
 <2>1. stdout' = stdout \/ (stdout # <<>> /\ stdout' = Tail(stdout))
   BY <1>6, ControllerSteps DEF Commands, Granted, NothingGranted
 <2>2. stdout' \in Seq(U) BY <1>3, <2>1, HeadTailProperties
 <2> QED BY <2>2 DEF EventsTrue, U
<1>7. CASE ExitStep \/ Tells
 <2>1. stdout' \in Seq(U) BY <1>3, <1>4, <1>5, <1>7 DEF ExitStep, Tells
 <2> QED BY <2>1 DEF EventsTrue, U
<1>8. CASE Answers
 <2>1. PICK i \in Nat : i = guard.id BY <1>0
 <2>2. StageTrue /\ UNCHANGED <<calls, peer>> BY <1>8 DEF AnswersInv, Answers
 <2>3. CASE guard.at = "answer"
  <3> DEFINE e == [type |-> "authorized", id |-> i]
  <3>1. IsCall(i, "authorize") /\ ~calls[i].hopeless
    BY <1>8, <2>1, <2>2, <2>3 DEF StageTrue, Answers, PeerLost
  <3>2. e \in EventSet /\ EventTrue(e)' BY <2>2, <3>1 DEF EventSet, EventTrue, IsCall
  <3>3. e \in U /\ stdout' = Append(stdout, e) BY <1>2, <1>8, <2>1, <2>3, <3>2 DEF Answers, Emit
  <3> HIDE DEF e
  <3> QED BY <1>4, <3>3 DEF EventsTrue, U
 <2>4. CASE guard.at = "written"
  <3> DEFINE e == [type |-> "sent", id |-> i]
  <3>1. IsCall(i, "send") /\ Delivered(i) BY <2>1, <2>2, <2>4 DEF StageTrue
  <3>2. e \in EventSet /\ EventTrue(e)' BY <2>2, <3>1 DEF EventSet, EventTrue, IsCall, Delivered
  <3>3. e \in U /\ stdout' = Append(stdout, e) BY <1>2, <1>8, <2>1, <2>4, <3>2 DEF Answers, Emit
  <3> HIDE DEF e
  <3> QED BY <1>4, <3>3 DEF EventsTrue, U
 <2> QED BY <1>8, <2>3, <2>4 DEF Answers
<1>9. CASE Relays
 <2>1. PICK i : i = Head(peer.outbox) OBVIOUS
 <2> DEFINE e == [type |-> "frame", id |-> i]
 <2>2. i \in Nat BY <1>0, <1>9, <2>1, HeadTailProperties DEF Relays, PeerSet
 <2>3. e \in EventSet /\ EventTrue(e)' BY <2>2 DEF EventSet, EventTrue
 <2>4. e \in U /\ stdout' = Append(stdout, e) BY <1>2, <1>9, <2>1, <2>3 DEF Relays, Emit
 <2> HIDE DEF e
 <2> QED BY <1>4, <2>4 DEF EventsTrue, U
<1>10. CASE Takes \/ Passes \/ Writes \/ Reads \/ Ends \/ Initial \/ OtherStep
 <2>1. stdout' = stdout
   BY <1>10 DEF Takes, Passes, Writes, Reads, Ends, Initial, OtherStep, Others, PeerConnects,
     PeerWrites, PeerLeaves, SessionEnds, RightsEnd
 <2> QED BY <1>3, <2>1 DEF EventsTrue, U
<1> QED BY <1>6, <1>7, <1>8, <1>9, <1>10 DEF GuardStep

LEMMA AnswersStep ==
  ASSUME ChannelTypeOK, StartFirst, AnswersInv, ControllerStep \/ GuardStep \/ OtherStep
  PROVE  AnswersInv'
<1>1. Grows BY Growth DEF AnswersInv
<1> QED BY <1>1, CommandsStep, EventsStep, StageStep, LossesStep DEF AnswersInv

-----------------------------------------------------------------------------
(* Sequences of commands. *)

LEMMA AppendOrder ==
  ASSUME NEW s \in Seq(CommandSet), NEW c \in CommandSet, NEW t, t = Append(s, c)
  PROVE  /\ Ordered(s) /\ (c.id > 0 => Below(s, c.id)) => Ordered(t)
         /\ \A n \in Nat : Above(n, s) /\ (c.id > 0 => c.id > n) => Above(n, t)
         /\ \A n \in Nat : Below(s, n) /\ (c.id > 0 => c.id < n) => Below(t, n)
         /\ \A i : IsIn(i, s) \/ i = c.id => IsIn(i, t)
<1> DEFINE n == Len(s)
           m == Len(t)
<1>1. /\ n \in Nat /\ m = n + 1 /\ t[n + 1] = c /\ n + 1 \in 1 .. m
      /\ \A k \in 1 .. n : t[k] = s[k] /\ k \in 1 .. m
      /\ \A k \in 1 .. m : k \in 1 .. n \/ k = n + 1
  BY AppendIs
<1>2. \A d \in CommandSet : d.id \in Nat BY DEF CommandSet
<1> HIDE DEF n, m
<1>3. ASSUME Ordered(s), c.id > 0 => Below(s, c.id), NEW j \in 1 .. m, NEW k \in 1 .. m, j < k,
             t[j].id > 0, t[k].id > 0
      PROVE  t[j].id < t[k].id
 <2>1. j \in 1 .. n BY <1>1, <1>3
 <2>2. CASE k \in 1 .. n BY <1>1, <1>3, <2>1, <2>2 DEF Ordered, n
 <2>3. CASE k = n + 1 BY <1>1, <1>3, <2>1, <2>3 DEF Below, n
 <2> QED BY <1>1, <2>2, <2>3
<1>4. Ordered(s) /\ (c.id > 0 => Below(s, c.id)) => Ordered(t) BY <1>3 DEF Ordered, m
<1>5. /\ \A h \in Nat : Above(h, s) /\ (c.id > 0 => c.id > h) => Above(h, t)
      /\ \A h \in Nat : Below(s, h) /\ (c.id > 0 => c.id < h) => Below(t, h)
  BY <1>1 DEF Above, Below, n, m
<1>6. \A i : IsIn(i, s) \/ i = c.id => IsIn(i, t) BY <1>1 DEF IsIn, n, m
<1> QED BY <1>4, <1>5, <1>6

LEMMA TailOrder ==
  ASSUME NEW s \in Seq(CommandSet), s # <<>>, NEW t, t = Tail(s)
  PROVE  /\ Head(s) = s[1] /\ s[1] \in CommandSet /\ s[1].id \in Nat
         /\ Ordered(s) => Ordered(t) /\ (s[1].id > 0 => Above(s[1].id, t))
         /\ \A n \in Nat : Above(n, s) => Above(n, t) /\ (s[1].id > 0 => s[1].id > n)
         /\ \A n \in Nat : Below(s, n) => Below(t, n) /\ (s[1].id > 0 => s[1].id < n)
         /\ \A i : IsIn(i, s) => IsIn(i, t) \/ i = s[1].id
<1> DEFINE n == Len(s)
           m == Len(t)
<1>1. /\ n \in Nat /\ m \in Nat /\ m = n - 1 /\ Head(s) = s[1] /\ Head(s) \in CommandSet
      /\ 1 \in 1 .. n
      /\ \A k \in 1 .. m : t[k] = s[k + 1] /\ k + 1 \in 1 .. n
      /\ \A k \in 1 .. n : k # 1 => k - 1 \in 1 .. m /\ t[k - 1] = s[k]
  BY TailIs
<1>2. \A k \in 1 .. n : s[k].id \in Nat
 <2>1. \A k \in 1 .. n : s[k] \in CommandSet BY ElementOfSeq
 <2> QED BY <2>1 DEF CommandSet
<1> HIDE DEF n, m
<1>0. \A k \in 1 .. m : k \in Nat /\ k + 1 \in 1 .. n /\ 1 < k + 1
 <2>1. n \in Nat /\ m = n - 1 BY <1>1
 <2> QED BY <2>1
<1>3. ASSUME Ordered(s), NEW j \in 1 .. m, NEW k \in 1 .. m, j < k, t[j].id > 0, t[k].id > 0
      PROVE  t[j].id < t[k].id
 <2>1. /\ j + 1 \in 1 .. n /\ k + 1 \in 1 .. n /\ j + 1 < k + 1
       /\ t[j] = s[j + 1] /\ t[k] = s[k + 1]
  <3>1. j \in Nat /\ k \in Nat /\ j < k BY <1>0, <1>3
  <3>2. j + 1 < k + 1 BY <3>1
  <3> QED BY <1>0, <1>1, <3>2
 <2> QED BY <1>3, <2>1 DEF Ordered, n
<1>4. ASSUME Ordered(s), NEW k \in 1 .. m, s[1].id > 0, t[k].id > 0
      PROVE  t[k].id > s[1].id
 <2>1. k + 1 \in 1 .. n /\ 1 < k + 1 /\ t[k] = s[k + 1] BY <1>0, <1>1
 <2>2. s[1].id < s[k + 1].id /\ s[1].id \in Nat /\ s[k + 1].id \in Nat
   BY <1>1, <1>2, <1>4, <2>1 DEF Ordered, n
 <2> QED BY <2>1, <2>2
<1>5. Ordered(s) => Ordered(t) /\ (s[1].id > 0 => Above(s[1].id, t))
  BY <1>3, <1>4 DEF Ordered, Above, m
<1>6. /\ \A h \in Nat : Above(h, s) => Above(h, t) /\ (s[1].id > 0 => s[1].id > h)
      /\ \A h \in Nat : Below(s, h) => Below(t, h) /\ (s[1].id > 0 => s[1].id < h)
  BY <1>1 DEF Above, Below, n, m
<1>7. ASSUME NEW i, IsIn(i, s)
      PROVE  IsIn(i, t) \/ i = s[1].id
 <2>1. PICK k \in 1 .. n : s[k].id = i BY <1>7 DEF IsIn, n
 <2>2. k # 1 => k - 1 \in 1 .. m /\ t[k - 1].id = i BY <1>1, <2>1
 <2> QED BY <2>1, <2>2 DEF IsIn, m
<1> QED BY <1>1, <1>2, <1>5, <1>6, <1>7

-----------------------------------------------------------------------------
(* Calls reach the guard in their order. *)

LEMMA KnownIds ==
  ASSUME ChannelTypeOK, AnswersInv, NEW n \in Nat, n > Len(calls)
  PROVE  Below(stdin, n) /\ Below(guard.commands, n)
<1>0. Len(calls) \in Nat BY LenProperties DEF ChannelTypeOK
<1>1. ASSUME NEW s \in Seq(TrueCommands)
      PROVE  Below(s, n)
 <2>1. ASSUME NEW k \in 1 .. Len(s), s[k].id > 0
       PROVE  s[k].id < n
  <3>1. s[k] \in CommandSet /\ CommandTrue(s[k])
   <4>1. s[k] \in TrueCommands BY ElementOfSeq
   <4> QED BY <4>1 DEF TrueCommands
  <3>2. s[k].id \in 1 .. Len(calls) BY <2>1, <3>1 DEF CommandTrue, IsCall, CommandSet
  <3> QED BY <1>0, <3>2
 <2> QED BY <2>1 DEF Below
<1> QED BY <1>1 DEF AnswersInv, CommandsTrue

LEMMA QueueController ==
  ASSUME ChannelTypeOK, AnswersInv, QueueInv, InboxInv, ControllerStep
  PROVE  QueueInv'
<1>0. /\ guard' = guard /\ guard \in GuardSet /\ Len(calls) \in Nat /\ guard.id \in Nat
      /\ guard.id <= Len(calls)
      /\ stdin \in Seq(CommandSet) /\ guard.commands \in Seq(CommandSet)
  BY ControllerSteps, LenProperties DEF ChannelTypeOK, GuardSet, InboxInv
<1> SUFFICES ASSUME guard.at # "gone"
             PROVE  QueueInv'
  BY <1>0 DEF QueueInv
<1>1. /\ Ordered(stdin) /\ Ordered(guard.commands) /\ Precedes(guard.commands, stdin)
      /\ Above(guard.id, stdin) /\ Above(guard.id, guard.commands)
      /\ guard.reader # "faulted" =>
           \A i \in guard.id + 1 .. Len(calls) : IsIn(i, guard.commands) \/ IsIn(i, stdin)
  BY DEF QueueInv
<1>2. ASSUME NEW c \in CommandSet, stdin' = Append(stdin, c),
             \/ c.id = 0 /\ Len(calls') = Len(calls)
             \/ c.id = Len(calls) + 1 /\ Len(calls') = Len(calls) + 1
      PROVE  QueueInv'
 <2>1. c.id > 0 => Below(stdin, c.id) /\ Below(guard.commands, c.id) /\ c.id > guard.id
  <3> SUFFICES ASSUME c.id > 0
               PROVE  Below(stdin, c.id) /\ Below(guard.commands, c.id) /\ c.id > guard.id
    OBVIOUS
  <3>1. c.id \in Nat /\ c.id > Len(calls) BY <1>0, <1>2
  <3> QED BY <1>0, <3>1, KnownIds
 <2>2. Ordered(stdin') /\ Above(guard.id, stdin') BY <1>0, <1>1, <1>2, <2>1, AppendOrder
 <2>3. Precedes(guard.commands, stdin')
  <3>1. ASSUME NEW k \in 1 .. Len(stdin'), stdin'[k].id > 0
        PROVE  Below(guard.commands, stdin'[k].id)
   <4>1. CASE k \in 1 .. Len(stdin)
    <5>1. stdin'[k] = stdin[k] BY <1>0, <1>2, <4>1, AppendIs
    <5> QED BY <1>1, <3>1, <4>1, <5>1 DEF Precedes
   <4>2. CASE k = Len(stdin) + 1
    <5>1. stdin'[k] = c BY <1>0, <1>2, <4>2, AppendIs
    <5> QED BY <2>1, <3>1, <5>1
   <4> QED BY <1>0, <1>2, <4>1, <4>2, AppendIs
  <3> QED BY <3>1 DEF Precedes
 <2>4. ASSUME guard.reader # "faulted", NEW i \in guard.id + 1 .. Len(calls')
       PROVE  IsIn(i, guard.commands) \/ IsIn(i, stdin')
  <3>1. i \in guard.id + 1 .. Len(calls) \/ i = c.id BY <1>0, <1>2
  <3> QED BY <1>0, <1>1, <1>2, <2>4, <3>1, AppendOrder
 <2> QED BY <1>0, <1>1, <2>2, <2>3, <2>4 DEF QueueInv
<1>3. CASE stdin' = stdin /\ Len(calls') = Len(calls) BY <1>0, <1>1, <1>3 DEF QueueInv
<1>4. ASSUME NEW action \in {"authorize", "send"}, Commands(action)
      PROVE  QueueInv'
 <2> DEFINE c == [action |-> action, id |-> Len(calls) + 1]
            made == [action |-> action, result |-> "waiting", hopeless |-> LostAlready]
 <2>1. c \in CommandSet /\ c.id = Len(calls) + 1 /\ stdin' = Append(stdin, c)
   BY <1>0, <1>4 DEF CommandSet, Commands
 <2>2. made \in CallSet /\ calls' = Append(calls, made) BY <1>4 DEF CallSet, Commands, LostAlready
 <2> HIDE DEF c, made
 <2>3. Len(calls') = Len(calls) + 1 BY <2>2, AppendIs DEF ChannelTypeOK
 <2> QED BY <1>2, <2>1, <2>3
<1>5. CASE NothingGranted
 <2> DEFINE c == [action |-> "close", id |-> 0]
 <2>1. Len(calls') = Len(calls) BY <1>5, RejectCallsType DEF NothingGranted, ChannelTypeOK
 <2>2. c \in CommandSet /\ c.id = 0 /\ (stdin' = stdin \/ stdin' = Append(stdin, c))
   BY <1>5 DEF CommandSet, NothingGranted
 <2> HIDE DEF c
 <2> QED BY <1>2, <1>3, <2>1, <2>2
<1>6. ASSUME NEW i \in 1 .. Len(calls), Granted(i)
      PROVE  QueueInv'
 <2> DEFINE c == [calls[i] EXCEPT !.result = "ok"]
 <2>1. calls[i] \in CallSet BY ElementOfSeq DEF ChannelTypeOK
 <2>2. c \in CallSet /\ calls' = [calls EXCEPT ![i] = c] BY <1>6, <2>1 DEF CallSet, Granted
 <2> HIDE DEF c
 <2>3. Len(calls') = Len(calls) BY <2>2, ExceptSeq DEF ChannelTypeOK
 <2> QED BY <1>3, <1>6, <2>3 DEF Granted
<1> QED BY <1>4, <1>5, <1>6, ControllerSteps

LEMMA QueueGuard ==
  ASSUME ChannelTypeOK, StartFirst, AnswersInv, QueueInv, InboxInv, GuardStep
  PROVE  QueueInv'
<1>0. /\ guard \in GuardSet /\ Len(calls) \in Nat /\ guard.id \in Nat
      /\ stdin \in Seq(CommandSet) /\ guard.commands \in Seq(CommandSet) /\ calls' = calls
  BY LenProperties DEF ChannelTypeOK, GuardSet, GuardStep, ExitStep, Tells, Takes, Passes, Answers,
    Writes, Relays, Reads, Ends, Initial
<1>1. CASE guard.at # "gone" /\ guard'.at # "gone"
 <2>1. /\ Ordered(stdin) /\ Ordered(guard.commands) /\ Precedes(guard.commands, stdin)
       /\ Above(guard.id, stdin) /\ Above(guard.id, guard.commands)
       /\ guard.reader # "faulted" =>
            \A i \in guard.id + 1 .. Len(calls) : IsIn(i, guard.commands) \/ IsIn(i, stdin)
   BY <1>1 DEF QueueInv
 <2>2. CASE /\ stdin' = stdin /\ guard'.commands = guard.commands /\ guard'.id = guard.id
            /\ guard'.reader = guard.reader \/ guard'.reader = "faulted"
   BY <1>0, <2>1, <2>2 DEF QueueInv
 <2>3. CASE Tells \/ Passes \/ Answers \/ Writes \/ Relays \/ Ends
  <3>1. /\ stdin' = stdin /\ guard'.commands = guard.commands /\ guard'.id = guard.id
        /\ guard'.reader = guard.reader \/ guard'.reader = "faulted"
    BY <1>0, <2>3 DEF GuardSet, Tells, Passes, Answers, Writes, Relays, Ends
  <3> QED BY <2>2, <3>1
 <2>4. CASE Takes
  <3> DEFINE n == Head(guard.commands).id
             rest == Tail(guard.commands)
  <3>1. /\ guard'.commands = rest /\ guard.commands # <<>> /\ stdin' = stdin
        /\ guard'.id = n /\ guard'.reader = guard.reader /\ guard.reader # "faulted"
    BY <1>0, <2>4 DEF Takes, GuardSet
  <3>2. guard.commands[1].id = n /\ n \in Nat /\ 1 \in 1 .. Len(guard.commands)
    BY <1>0, <3>1, TailOrder, TailIs
  <3>3. n > 0
   <4>1. Head(guard.commands) \in TrueCommands
     BY <3>1, HeadTailProperties DEF AnswersInv, CommandsTrue
   <4>2. Head(guard.commands).action \in {"authorize", "send"} BY <2>4 DEF Takes
   <4> QED BY <1>0, <4>1, <4>2 DEF TrueCommands, CommandTrue, IsCall
  <3>4. Ordered(rest) /\ Above(n, rest) /\ n > guard.id BY <1>0, <2>1, <3>1, <3>2, <3>3, TailOrder
  <3>5. Above(n, stdin)
   <4>1. ASSUME NEW k \in 1 .. Len(stdin), stdin[k].id > 0
         PROVE  stdin[k].id > n
    <5>1. guard.commands[1].id < stdin[k].id BY <2>1, <3>2, <3>3, <4>1 DEF Precedes, Below
    <5>2. stdin[k].id \in Nat
     <6>1. stdin[k] \in CommandSet BY <1>0, ElementOfSeq
     <6> QED BY <6>1 DEF CommandSet
    <5> QED BY <3>2, <5>1, <5>2
   <4> QED BY <4>1 DEF Above
  <3>6. Precedes(rest, stdin)
   <4>1. ASSUME NEW k \in 1 .. Len(stdin), stdin[k].id > 0
         PROVE  Below(rest, stdin[k].id)
    <5>1. Below(guard.commands, stdin[k].id) BY <2>1, <4>1 DEF Precedes
    <5>2. stdin[k].id \in Nat
     <6>1. stdin[k] \in CommandSet BY <1>0, ElementOfSeq
     <6> QED BY <6>1 DEF CommandSet
    <5> QED BY <1>0, <3>1, <5>1, <5>2, TailOrder
   <4> QED BY <4>1 DEF Precedes
  <3>7. ASSUME NEW i \in n + 1 .. Len(calls)
        PROVE  IsIn(i, rest) \/ IsIn(i, stdin)
   <4> HIDE DEF n, rest
   <4>1. i \in guard.id + 1 .. Len(calls) /\ i # n BY <1>0, <3>2, <3>4
   <4>2. IsIn(i, guard.commands) \/ IsIn(i, stdin) BY <2>1, <3>1, <4>1
   <4>3. IsIn(i, guard.commands) => IsIn(i, rest) \/ i = n BY <1>0, <3>1, <3>2, TailOrder DEF rest
   <4> QED BY <4>1, <4>2, <4>3
  <3> HIDE DEF n, rest
  <3> QED BY <1>0, <2>1, <3>1, <3>4, <3>5, <3>6, <3>7 DEF QueueInv
 <2>5. CASE Reads
  <3> DEFINE c == Head(stdin)
             kept == Append(guard.commands, c)
  <3>1. stdin # <<>> /\ stdin' = Tail(stdin) /\ guard'.id = guard.id /\ guard.reader = "reading"
    BY <1>0, <2>5 DEF Reads, GuardSet
  <3>2. /\ c = stdin[1] /\ c \in CommandSet /\ c.id \in Nat /\ 1 \in 1 .. Len(stdin)
        /\ c \in TrueCommands
    BY <1>0, <3>1, TailOrder, TailIs DEF AnswersInv, CommandsTrue
  <3>3. \/ guard'.commands = kept
        \/ guard'.commands = guard.commands /\ (c.action = "close" \/ guard'.reader = "faulted")
    BY <1>0, <2>5 DEF Reads, GuardSet
  <3>4. /\ Ordered(stdin') /\ Above(guard.id, stdin') /\ (c.id > 0 => Above(c.id, stdin'))
        /\ (c.id > 0 => c.id > guard.id)
        /\ \A i : IsIn(i, stdin) => IsIn(i, stdin') \/ i = c.id
    BY <1>0, <2>1, <3>1, <3>2, TailOrder
  <3>5. c.id > 0 => Below(guard.commands, c.id) BY <2>1, <3>2 DEF Precedes
  <3>6. ASSUME NEW k \in 1 .. Len(stdin'), stdin'[k].id > 0
        PROVE  /\ Below(guard.commands, stdin'[k].id) /\ stdin'[k].id \in Nat
               /\ Below(kept, stdin'[k].id)
   <4>1. k + 1 \in 1 .. Len(stdin) /\ stdin'[k] = stdin[k + 1] BY <1>0, <3>1, TailIs
   <4>2. Below(guard.commands, stdin[k + 1].id) BY <2>1, <3>6, <4>1 DEF Precedes
   <4>3. stdin[k + 1].id \in Nat
    <5>1. stdin[k + 1] \in CommandSet BY <1>0, <4>1, ElementOfSeq
    <5> QED BY <5>1 DEF CommandSet
   <4>4. c.id > 0 => c.id < stdin'[k].id
    <5>1. c.id > 0 => stdin'[k].id > c.id BY <3>4, <3>6 DEF Above
    <5> QED BY <3>2, <4>1, <4>3, <5>1
   <4>5. PICK n \in Nat : n = stdin'[k].id BY <4>1, <4>3
   <4> HIDE DEF c
   <4>6. Below(guard.commands, n) /\ (c.id > 0 => c.id < n) BY <4>1, <4>2, <4>4, <4>5
   <4>7. Below(kept, n) BY <1>0, <3>2, <4>6, AppendOrder
   <4> QED BY <4>5, <4>6, <4>7
  <3>7. CASE guard'.commands = kept
   <4> HIDE DEF c
   <4>1. Ordered(kept) /\ Above(guard.id, kept)
     BY <1>0, <2>1, <3>2, <3>4, <3>5, AppendOrder, ZenonT(40)
   <4>2. Precedes(kept, stdin') BY <3>6 DEF Precedes
   <4>3. ASSUME NEW i \in guard.id + 1 .. Len(calls)
         PROVE  IsIn(i, kept) \/ IsIn(i, stdin')
    <5>1. IsIn(i, guard.commands) \/ IsIn(i, stdin) BY <2>1, <3>1
    <5>2. IsIn(i, guard.commands) \/ i = c.id => IsIn(i, kept) BY <1>0, <3>2, AppendOrder
    <5> QED BY <3>4, <5>1, <5>2
   <4> HIDE DEF kept
   <4> QED BY <1>0, <3>1, <3>4, <3>7, <4>1, <4>2, <4>3 DEF QueueInv
  <3>8. CASE guard'.commands = guard.commands /\ (c.action = "close" \/ guard'.reader = "faulted")
   <4>1. Precedes(guard.commands, stdin') BY <3>6 DEF Precedes
   <4>2. c.action = "close" => c.id = 0 BY <3>2 DEF TrueCommands, CommandTrue
   <4>3. ASSUME NEW i \in guard.id + 1 .. Len(calls), guard'.reader # "faulted"
         PROVE  IsIn(i, guard.commands) \/ IsIn(i, stdin')
    <5>1. i # c.id BY <1>0, <3>8, <4>2, <4>3
    <5>2. IsIn(i, guard.commands) \/ IsIn(i, stdin) BY <2>1, <3>1
    <5> QED BY <3>4, <5>1, <5>2
   <4> QED BY <1>0, <2>1, <3>1, <3>4, <3>8, <4>1, <4>3 DEF QueueInv
  <3> QED BY <3>3, <3>7, <3>8
 <2>6. CASE Initial
  <3>1. /\ stdin # <<>> /\ stdin' = Tail(stdin) /\ guard'.id = guard.id /\ stdin[1].id = 0
        /\ guard'.commands = guard.commands /\ guard.reader = "off"
    BY <1>0, <2>6 DEF Initial, GuardSet, StartFirst
  <3>2. /\ Ordered(stdin') /\ Above(guard.id, stdin')
        /\ \A i : IsIn(i, stdin) => IsIn(i, stdin') \/ i = 0
    BY <1>0, <2>1, <3>1, TailOrder
  <3>3. Precedes(guard.commands, stdin')
   <4>1. ASSUME NEW k \in 1 .. Len(stdin'), stdin'[k].id > 0
         PROVE  Below(guard.commands, stdin'[k].id)
    <5>1. k + 1 \in 1 .. Len(stdin) /\ stdin'[k] = stdin[k + 1] BY <1>0, <3>1, TailIs
    <5> QED BY <2>1, <4>1, <5>1 DEF Precedes
   <4> QED BY <4>1 DEF Precedes
  <3>4. ASSUME NEW i \in guard.id + 1 .. Len(calls)
        PROVE  IsIn(i, guard.commands) \/ IsIn(i, stdin')
   <4>1. i # 0 BY <1>0
   <4>2. IsIn(i, guard.commands) \/ IsIn(i, stdin) BY <2>1, <3>1
   <4> QED BY <3>2, <4>1, <4>2
  <3> QED BY <1>0, <2>1, <3>1, <3>2, <3>3, <3>4 DEF QueueInv
 <2>7. ~ExitStep BY <1>1, ExitsType DEF ExitStep
 <2> QED BY <2>3, <2>4, <2>5, <2>6, <2>7 DEF GuardStep
<1>2. guard.at = "gone" => guard'.at = "gone"
  BY <1>0, ExitsType DEF GuardStep, GuardSet, ExitStep, Tells, Takes, Passes, Answers, Writes, Relays, Reads, Ends, Initial
<1> QED BY <1>1, <1>2 DEF QueueInv

-----------------------------------------------------------------------------
(* Frames reach the worker in their order. *)

LEMMA InboxStep ==
  ASSUME ChannelTypeOK, StartFirst, AnswersInv, QueueInv, InboxInv, Grows,
         ControllerStep \/ GuardStep \/ OtherStep
  PROVE  InboxInv'
<1>0. /\ guard \in GuardSet /\ Len(calls) \in Nat /\ guard.id \in Nat
      /\ peer \in PeerSet /\ peer.inbox \in Seq(Nat) /\ Len(peer.inbox) \in Nat
      /\ \A k \in 1 .. Len(peer.inbox) : peer.inbox[k] \in Nat
  BY LenProperties, ElementOfSeq DEF ChannelTypeOK, GuardSet, PeerSet
<1>1. /\ guard.id <= Len(calls)
      /\ \A k \in 1 .. Len(peer.inbox) :
           /\ peer.inbox[k] > 0 /\ peer.inbox[k] <= guard.id
           /\ guard.at = "write" => peer.inbox[k] < guard.id
      /\ guard.at # "gone" => \A i \in 1 .. guard.id :
           calls[i].action = "send" => Delivered(i) \/ (guard.at = "write" /\ i = guard.id)
      /\ Increasing(peer.inbox)
      /\ \A k \in 1 .. Len(peer.inbox) : \A i \in 1 .. peer.inbox[k] - 1 :
           calls[i].action = "send" => Delivered(i)
  BY DEF InboxInv
<1>2. /\ Len(calls') \in Nat /\ Len(calls') >= Len(calls)
      /\ \A i \in 1 .. Len(calls) : calls'[i].action = calls[i].action
      /\ \A i \in Nat : Delivered(i) => Delivered(i)'
 <2>1. calls' \in Seq(CallSet)
   BY ControllerTyped, GuardTyped, OthersTyped DEF ControllerStep, ChannelTypeOK
 <2> QED BY <2>1, LenProperties DEF Grows
\* Nothing is written, and no command is taken.
<1>3. ASSUME peer'.inbox = peer.inbox, guard'.id = guard.id,
             guard'.at = guard.at \/ (guard.at # "gone" /\ guard.at # "write" /\ guard'.at # "write")
               \/ guard'.at = "gone"
      PROVE  InboxInv'
 <2>1. guard'.id <= Len(calls') BY <1>0, <1>1, <1>2, <1>3
 <2>2. ASSUME NEW k \in 1 .. Len(peer'.inbox)
       PROVE  /\ peer'.inbox[k] > 0 /\ peer'.inbox[k] <= guard'.id
              /\ guard'.at = "write" => peer'.inbox[k] < guard'.id
   BY <1>1, <1>3
 <2>3. ASSUME guard'.at # "gone", NEW i \in 1 .. guard'.id, calls'[i].action = "send"
       PROVE  Delivered(i)' \/ (guard'.at = "write" /\ i = guard'.id)
  <3>1. i \in 1 .. guard.id /\ i \in 1 .. Len(calls) /\ i \in Nat BY <1>0, <1>1, <1>3
  <3>2. calls[i].action = "send" BY <1>2, <2>3, <3>1
  <3>3. guard.at # "gone" BY <1>3, <2>3
  <3>4. Delivered(i) \/ (guard.at = "write" /\ i = guard.id) BY <1>1, <3>1, <3>2, <3>3
  <3> QED BY <1>2, <1>3, <2>3, <3>1, <3>4
 <2>4. Increasing(peer'.inbox) BY <1>1, <1>3
 <2>5. ASSUME NEW k \in 1 .. Len(peer'.inbox), NEW i \in 1 .. peer'.inbox[k] - 1,
              calls'[i].action = "send"
       PROVE  Delivered(i)'
  <3>1. k \in 1 .. Len(peer.inbox) /\ peer'.inbox[k] = peer.inbox[k] BY <1>3
  <3>2. i \in 1 .. peer.inbox[k] - 1 /\ i \in 1 .. Len(calls) /\ i \in Nat BY <1>0, <1>1, <3>1
  <3>3. calls[i].action = "send" BY <1>2, <2>5, <3>2
  <3>4. Delivered(i) BY <1>1, <3>1, <3>2, <3>3
  <3> QED BY <1>2, <3>2, <3>4
 <2> QED BY <2>1, <2>2, <2>3, <2>4, <2>5 DEF InboxInv
<1>4. CASE ControllerStep
 <2>1. guard' = guard /\ peer' = peer BY <1>4, ControllerSteps
 <2> QED BY <1>3, <2>1
<1>5. CASE OtherStep
 <2>1. guard' = guard
   BY <1>5 DEF OtherStep, Others, PeerConnects, PeerWrites, PeerLeaves, SessionEnds, RightsEnd
 <2>2. peer'.inbox = peer.inbox
  <3>1. CASE PeerWrites
   <4> DEFINE n == peer.wrote + 1
              outbox == Append(peer.outbox, n)
   <4>1. peer' = [peer EXCEPT !.outbox = outbox, !.wrote = n] BY <3>1 DEF PeerWrites
   <4> HIDE DEF n, outbox
   <4> QED BY <1>0, <4>1 DEF PeerSet
  <3>2. CASE (\E genuine \in BOOLEAN : PeerConnects(genuine)) \/ PeerLeaves
    BY <1>0, <3>2 DEF PeerSet, PeerConnects, PeerLeaves
  <3>3. CASE SessionEnds \/ RightsEnd
   <4>1. peer' = peer BY <3>3 DEF SessionEnds, RightsEnd
   <4> QED BY <4>1
  <3> QED BY <1>5, <3>1, <3>2, <3>3 DEF OtherStep
 <2> QED BY <1>3, <2>1, <2>2
<1>6. CASE ExitStep \/ Tells \/ Passes \/ Reads \/ Ends \/ Initial
 <2>1. peer'.inbox = peer.inbox /\ guard'.id = guard.id
   BY <1>0, <1>6, ExitsType DEF ExitStep, Tells, Passes, Reads, Ends, Initial, GuardSet
 <2>2. guard'.at = guard.at \/ (guard.at # "gone" /\ guard.at # "write" /\ guard'.at # "write")
         \/ guard'.at = "gone"
   BY <1>0, <1>6, ExitsType DEF ExitStep, Tells, Passes, Reads, Ends, Initial, GuardSet
 <2> QED BY <1>3, <2>1, <2>2
<1>7. CASE Answers \/ Relays
 <2>1. peer'.inbox = peer.inbox /\ guard'.id = guard.id
   BY <1>0, <1>7 DEF Answers, Relays, GuardSet, PeerSet
 <2>2. guard'.at = guard.at \/ (guard.at # "gone" /\ guard.at # "write" /\ guard'.at # "write")
   BY <1>0, <1>7 DEF Answers, Relays, GuardSet
 <2> QED BY <1>3, <2>1, <2>2
<1>8. CASE Takes
 <2> DEFINE n == Head(guard.commands).id
            rest == Tail(guard.commands)
 <2>1. PICK to \in {"facts", "write"} :
         /\ to = "facts" => Head(guard.commands).action = "authorize"
         /\ to = "write" => Head(guard.commands).action = "send"
         /\ guard' = [guard EXCEPT !.commands = Tail(@), !.id = n, !.back = guard.at, !.at = to]
   BY <1>8 DEF Takes
 <2>2. /\ guard'.id = n /\ guard'.at = to /\ UNCHANGED <<calls, peer>>
       /\ guard.at \notin {"gone", "write"} /\ guard.reader # "faulted"
       /\ guard.commands # <<>> /\ guard.commands \in Seq(CommandSet)
   BY <1>0, <1>8, <2>1 DEF Takes, GuardSet
 <2>3. Head(guard.commands) \in TrueCommands
   BY <2>2, HeadTailProperties DEF AnswersInv, CommandsTrue
 <2>4. n \in 1 .. Len(calls) /\ calls[n].action = Head(guard.commands).action /\ n \in Nat
   BY <1>0, <2>1, <2>3 DEF TrueCommands, CommandTrue, IsCall
 <2>5. /\ guard.commands[1].id = n /\ 1 \in 1 .. Len(guard.commands)
       /\ Above(n, rest) /\ n > guard.id
       /\ \A i : IsIn(i, guard.commands) => IsIn(i, rest) \/ i = n
  <3>1. Head(guard.commands) = guard.commands[1] /\ 1 \in 1 .. Len(guard.commands) BY <2>2, TailIs
  <3>2. Ordered(guard.commands) /\ Above(guard.id, guard.commands) BY <2>2 DEF QueueInv
  <3>3. n > 0 /\ guard.commands[1].id = n BY <2>4, <3>1
  <3>4. Above(n, rest) BY <2>2, <3>2, <3>3, TailOrder
  <3>5. n > guard.id BY <1>0, <2>2, <3>2, <3>3, TailOrder
  <3>6. \A i : IsIn(i, guard.commands) => IsIn(i, rest) \/ i = n BY <2>2, <3>3, TailOrder
  <3> QED BY <3>1, <3>3, <3>4, <3>5, <3>6
 <2>6. ASSUME NEW i \in guard.id + 1 .. n - 1
       PROVE  FALSE
  <3> HIDE DEF n, rest
  <3>0. i \in guard.id + 1 .. Len(calls) /\ i < n /\ i > 0 /\ i \in Nat BY <1>0, <2>4
  <3>1. IsIn(i, guard.commands) \/ IsIn(i, stdin) BY <2>2, <3>0 DEF QueueInv
  <3>2. CASE IsIn(i, stdin)
   <4>1. PICK k \in 1 .. Len(stdin) : stdin[k].id = i BY <3>2 DEF IsIn
   <4>2. Below(guard.commands, i) BY <2>2, <3>0, <4>1 DEF QueueInv, Precedes
   <4>3. n < i BY <2>4, <2>5, <4>2, SMTT(30), ZenonT(30) DEF Below
   <4> QED BY <2>4, <3>0, <4>3
  <3>3. CASE IsIn(i, rest)
   <4>1. PICK k \in 1 .. Len(rest) : rest[k].id = i BY <3>3 DEF IsIn
   <4>2. i > n BY <2>5, <3>0, <4>1 DEF Above
   <4> QED BY <2>4, <3>0, <4>2
  <3> QED BY <2>4, <2>5, <3>0, <3>1, <3>2, <3>3
 <2> HIDE DEF n, rest
 <2>7. ASSUME NEW i \in 1 .. n, calls[i].action = "send"
       PROVE  Delivered(i) \/ (to = "write" /\ i = n)
  <3>1. CASE i \in 1 .. guard.id BY <1>1, <2>2, <2>7, <3>1
  <3>2. CASE i = n BY <2>1, <2>4, <2>7, <3>2 DEF n
  <3>3. i \in 1 .. guard.id \/ i \in guard.id + 1 .. n - 1 \/ i = n BY <1>0, <2>4
  <3> QED BY <2>6, <3>1, <3>2, <3>3
 <2>8. ASSUME NEW k \in 1 .. Len(peer.inbox)
       PROVE  peer.inbox[k] > 0 /\ peer.inbox[k] < n
   BY <1>0, <1>1, <2>4, <2>5, SMTT(30), ZenonT(30)
 <2>9. \A i : Delivered(i)' = Delivered(i) BY <2>2 DEF Delivered
 <2>10. n <= Len(calls) /\ \A k \in 1 .. Len(peer.inbox) : peer.inbox[k] <= n BY <1>0, <2>4, <2>8
 <2> QED BY <1>1, <2>2, <2>7, <2>8, <2>9, <2>10 DEF InboxInv
<1>9. CASE Writes
 <2> DEFINE inbox == Append(peer.inbox, guard.id)
            h == Len(peer.inbox)
 <2>1. /\ peer'.inbox = inbox /\ guard'.id = guard.id /\ guard'.at = "written"
       /\ guard.at = "write" /\ calls' = calls
   BY <1>0, <1>9 DEF Writes, GuardSet, PeerSet
 <2>2. /\ h \in Nat /\ Len(inbox) = h + 1 /\ inbox[h + 1] = guard.id
       /\ \A k \in 1 .. h : inbox[k] = peer.inbox[k] /\ k \in 1 .. Len(inbox)
       /\ \A k \in 1 .. Len(inbox) : k \in 1 .. h \/ k = h + 1
   BY <1>0, AppendIs
 <2>3. guard.id > 0 /\ guard.id \in 1 .. Len(calls) BY <1>0, <2>1 DEF AnswersInv, StageTrue, IsCall
 <2> HIDE DEF inbox
 <2>4. ASSUME NEW k \in 1 .. Len(inbox)
       PROVE  inbox[k] > 0 /\ inbox[k] <= guard.id
  <3> HIDE DEF h
  <3>1. CASE k = h + 1 BY <1>0, <2>2, <2>3, <3>1
  <3>2. CASE k \in 1 .. h BY <1>0, <1>1, <2>2, <3>2 DEF h
  <3> QED BY <2>2, <3>1, <3>2
 <2>5. ASSUME NEW i \in 1 .. guard.id, calls[i].action = "send"
       PROVE  Delivered(i)'
  <3>1. CASE i = guard.id
   <4>1. h + 1 \in 1 .. Len(inbox) BY <2>2
   <4> QED BY <2>1, <2>2, <3>1, <4>1 DEF Delivered
  <3>2. CASE i # guard.id
   <4>1. Delivered(i) /\ i \in Nat BY <1>0, <1>1, <2>1, <2>5, <3>2
   <4> QED BY <1>2, <4>1
  <3> QED BY <3>1, <3>2
 <2>6. ASSUME NEW k \in 1 .. Len(inbox) - 1
       PROVE  inbox[k] < inbox[k + 1]
  <3>1. k \in 1 .. h /\ inbox[k] = peer.inbox[k] BY <2>2
  <3>2. CASE k = h BY <1>1, <2>1, <2>2, <3>1, <3>2
  <3>3. CASE k # h
   <4>1. k \in 1 .. h - 1 /\ k + 1 \in 1 .. h BY <2>2, <3>1, <3>3
   <4> QED BY <1>1, <2>2, <3>1, <4>1 DEF Increasing
  <3> QED BY <3>2, <3>3
 <2>7. ASSUME NEW k \in 1 .. Len(inbox), NEW i \in 1 .. inbox[k] - 1, calls[i].action = "send"
       PROVE  Delivered(i)'
  <3>1. inbox[k] \in Nat
   <4>1. k \in 1 .. h \/ k = h + 1 BY <2>2
   <4> QED BY <1>0, <2>2, <4>1
  <3>2. i \in 1 .. guard.id BY <1>0, <2>4, <3>1
  <3> QED BY <2>5, <2>7, <3>2
 <2>8. Increasing(inbox) BY <2>6 DEF Increasing
 <2> QED BY <1>1, <2>1, <2>4, <2>5, <2>7, <2>8 DEF InboxInv
<1> QED BY <1>4, <1>5, <1>6, <1>7, <1>8, <1>9 DEF GuardStep

-----------------------------------------------------------------------------
(* Frames reach the controller in their order. *)

LEMMA AppendFrames ==
  ASSUME NEW s \in Seq(EventSet), NEW e \in EventSet, NEW t, t = Append(s, e),
         NEW lo \in Nat, NEW hi \in Nat, FramesIn(s, lo, hi)
  PROVE  /\ e.type # "frame" => FramesIn(t, lo, hi)
         /\ e.type = "frame" /\ e.id = hi + 1 => FramesIn(t, lo, hi + 1)
<1> DEFINE n == Len(s)
           m == Len(t)
<1>1. /\ n \in Nat /\ m = n + 1 /\ t[n + 1] = e /\ n + 1 \in 1 .. m
      /\ \A k \in 1 .. n : t[k] = s[k] /\ k \in 1 .. m
      /\ \A k \in 1 .. m : k \in 1 .. n \/ k = n + 1
  BY AppendIs
<1>2. /\ lo <= hi
      /\ \A k \in 1 .. n : s[k].type = "frame" => s[k].id > lo /\ s[k].id <= hi
      /\ \A j, k \in 1 .. n : j < k /\ s[j].type = "frame" /\ s[k].type = "frame" => s[j].id < s[k].id
      /\ \A i \in lo + 1 .. hi : \E k \in 1 .. n : s[k].type = "frame" /\ s[k].id = i
  BY DEF FramesIn
<1>3. \A k \in 1 .. n : s[k].id \in Nat
 <2>1. \A k \in 1 .. n : s[k] \in EventSet BY ElementOfSeq
 <2> QED BY <2>1 DEF EventSet
<1> HIDE DEF n, m
<1>4. ASSUME e.type # "frame"
      PROVE  FramesIn(t, lo, hi)
 <2>1. \A k \in 1 .. m : t[k].type = "frame" => k \in 1 .. n /\ t[k] = s[k] BY <1>1, <1>4
 <2>2. \A k \in 1 .. m : t[k].type = "frame" => t[k].id > lo /\ t[k].id <= hi BY <1>2, <2>1
 <2>3. \A j, k \in 1 .. m : j < k /\ t[j].type = "frame" /\ t[k].type = "frame" => t[j].id < t[k].id
   BY <1>2, <2>1
 <2>4. \A i \in lo + 1 .. hi : \E k \in 1 .. m : t[k].type = "frame" /\ t[k].id = i BY <1>1, <1>2
 <2> QED BY <1>2, <2>2, <2>3, <2>4 DEF FramesIn, m
<1>5. ASSUME e.type = "frame", e.id = hi + 1
      PROVE  FramesIn(t, lo, hi + 1)
 <2>1. \A k \in 1 .. m : t[k].type = "frame" => t[k].id > lo /\ t[k].id <= hi + 1
   BY <1>1, <1>2, <1>3, <1>5
 <2>2. ASSUME NEW j \in 1 .. m, NEW k \in 1 .. m, j < k, t[j].type = "frame", t[k].type = "frame"
       PROVE  t[j].id < t[k].id
  <3>1. j \in 1 .. n BY <1>1, <2>2
  <3>2. CASE k \in 1 .. n BY <1>1, <1>2, <2>2, <3>1, <3>2
  <3>3. CASE k = n + 1
   <4>1. t[k] = e /\ t[j] = s[j] BY <1>1, <3>1, <3>3
   <4>2. s[j].id <= hi /\ s[j].id \in Nat BY <1>2, <1>3, <2>2, <3>1, <4>1
   <4> QED BY <1>5, <4>1, <4>2
  <3> QED BY <1>1, <3>2, <3>3
 <2>3. ASSUME NEW i \in lo + 1 .. hi + 1
       PROVE  \E k \in 1 .. m : t[k].type = "frame" /\ t[k].id = i
  <3>1. i \in lo + 1 .. hi \/ i = hi + 1 OBVIOUS
  <3>2. CASE i \in lo + 1 .. hi BY <1>1, <1>2, <3>2
  <3>3. CASE i = hi + 1 BY <1>1, <1>5, <3>3
  <3> QED BY <3>1, <3>2, <3>3
 <2>4. lo <= hi + 1 BY <1>2
 <2> QED BY <2>1, <2>2, <2>3, <2>4 DEF FramesIn, m
<1> QED BY <1>4, <1>5

LEMMA TailFrames ==
  ASSUME NEW s \in Seq(EventSet), s # <<>>, NEW t, t = Tail(s),
         NEW lo \in Nat, NEW hi \in Nat, FramesIn(s, lo, hi)
  PROVE  /\ Head(s).type # "frame" => FramesIn(t, lo, hi)
         /\ Head(s).type = "frame" => Head(s).id = lo + 1 /\ FramesIn(t, lo + 1, hi)
<1> DEFINE n == Len(s)
           m == Len(t)
<1>1. /\ n \in Nat /\ m \in Nat /\ m = n - 1 /\ Head(s) = s[1] /\ 1 \in 1 .. n
      /\ \A k \in 1 .. m : t[k] = s[k + 1] /\ k + 1 \in 1 .. n
      /\ \A k \in 1 .. n : k # 1 => k - 1 \in 1 .. m /\ t[k - 1] = s[k]
  BY TailIs
<1>2. /\ lo <= hi
      /\ \A k \in 1 .. n : s[k].type = "frame" => s[k].id > lo /\ s[k].id <= hi
      /\ \A j, k \in 1 .. n : j < k /\ s[j].type = "frame" /\ s[k].type = "frame" => s[j].id < s[k].id
      /\ \A i \in lo + 1 .. hi : \E k \in 1 .. n : s[k].type = "frame" /\ s[k].id = i
  BY DEF FramesIn
<1>3. \A k \in 1 .. n : s[k].id \in Nat
 <2>1. \A k \in 1 .. n : s[k] \in EventSet BY ElementOfSeq
 <2> QED BY <2>1 DEF EventSet
<1> HIDE DEF n, m
<1>4. \A k \in 1 .. m : k \in Nat /\ k + 1 \in 1 .. n /\ 1 < k + 1
 <2>1. n \in Nat /\ m = n - 1 BY <1>1
 <2> QED BY <2>1
<1>5. \A j, k \in 1 .. m : j < k /\ t[j].type = "frame" /\ t[k].type = "frame" => t[j].id < t[k].id
 <2>1. ASSUME NEW j \in 1 .. m, NEW k \in 1 .. m, j < k, t[j].type = "frame", t[k].type = "frame"
       PROVE  t[j].id < t[k].id
  <3>1. j \in Nat /\ k \in Nat /\ j < k BY <1>4, <2>1
  <3>2. j + 1 < k + 1 BY <3>1
  <3>3. /\ t[j] = s[j + 1] /\ j + 1 \in 1 .. n
        /\ t[k] = s[k + 1] /\ k + 1 \in 1 .. n
    BY <1>1
  <3> QED BY <1>2, <2>1, <3>2, <3>3, ZenonT(40)
 <2> QED BY <2>1
<1>6. ASSUME Head(s).type # "frame"
      PROVE  FramesIn(t, lo, hi)
 <2>1. ASSUME NEW k \in 1 .. m, t[k].type = "frame"
       PROVE  t[k].id > lo /\ t[k].id <= hi
  <3>1. t[k] = s[k + 1] /\ k + 1 \in 1 .. n BY <1>1
  <3> QED BY <1>2, <2>1, <3>1
 <2>2. ASSUME NEW i \in lo + 1 .. hi
       PROVE  \E k \in 1 .. m : t[k].type = "frame" /\ t[k].id = i
  <3>1. PICK k \in 1 .. n : s[k].type = "frame" /\ s[k].id = i BY <1>2
  <3>2. k # 1 BY <1>1, <1>6, <3>1
  <3>3. k - 1 \in 1 .. m /\ t[k - 1] = s[k] BY <1>1, <3>2
  <3> QED BY <3>1, <3>3
 <2> QED BY <1>2, <1>5, <2>1, <2>2 DEF FramesIn, m
<1>7. ASSUME Head(s).type = "frame"
      PROVE  Head(s).id = lo + 1 /\ FramesIn(t, lo + 1, hi)
 <2> DEFINE h == s[1].id
 <2>1. h > lo /\ h <= hi /\ h \in Nat BY <1>1, <1>2, <1>3, <1>7
 <2> HIDE DEF h
 <2>2. lo + 1 \in lo + 1 .. hi BY <2>1
 <2>3. PICK k \in 1 .. n : s[k].type = "frame" /\ s[k].id = lo + 1 BY <1>2, <2>2
 <2>4. k = 1
  <3>1. CASE k # 1
   <4>1. 1 < k BY <1>1, <3>1
   <4>2. h < lo + 1 BY <1>1, <1>2, <1>7, <2>3, <4>1 DEF h
   <4> QED BY <2>1, <4>2
  <3> QED BY <3>1
 <2>5. h = lo + 1 BY <2>3, <2>4 DEF h
 <2>6. ASSUME NEW j \in 1 .. m, t[j].type = "frame"
       PROVE  t[j].id > lo + 1 /\ t[j].id <= hi
  <3>1. t[j] = s[j + 1] /\ j + 1 \in 1 .. n /\ 1 < j + 1 BY <1>1, <1>4
  <3>2. h < s[j + 1].id /\ s[j + 1].id <= hi BY <1>1, <1>2, <1>7, <2>6, <3>1 DEF h
  <3>3. s[j + 1].id \in Nat BY <1>3, <3>1
  <3> QED BY <2>5, <3>1, <3>2, <3>3
 <2>7. ASSUME NEW i \in lo + 1 + 1 .. hi
       PROVE  \E j \in 1 .. m : t[j].type = "frame" /\ t[j].id = i
  <3>1. i \in lo + 1 .. hi /\ i # lo + 1 OBVIOUS
  <3>2. PICK j \in 1 .. n : s[j].type = "frame" /\ s[j].id = i BY <1>2, <3>1
  <3>3. j # 1 BY <2>5, <3>1, <3>2 DEF h
  <3>4. j - 1 \in 1 .. m /\ t[j - 1] = s[j] BY <1>1, <3>3
  <3> QED BY <3>2, <3>4
 <2>8. lo + 1 <= hi BY <2>1
 <2>9. Head(s).id = lo + 1 BY <1>1, <2>5 DEF h
 <2> QED BY <1>5, <2>6, <2>7, <2>8, <2>9 DEF FramesIn, m
<1> QED BY <1>6, <1>7

\* What a step of the controller does with frames.
Gone == channel'.failure /\ channel'.got = channel.got
LeavesFrames ==
    /\ channel'.failure = channel.failure /\ channel'.got = channel.got
    /\ channel'.frames = channel.frames /\ channel'.waiters = channel.waiters
    /\ stdout' = stdout \/ (stdout # <<>> /\ Head(stdout).type # "frame" /\ stdout' = Tail(stdout))
TakesFrame ==
    /\ ~channel.failure /\ channel.frames # <<>> /\ stdout' = stdout /\ channel'.failure = channel.failure
    /\ channel'.got = Append(channel.got, Head(channel.frames))
    /\ channel'.frames = Tail(channel.frames) /\ channel'.waiters = channel.waiters
Awaits ==
    /\ channel.frames = <<>> /\ stdout' = stdout /\ channel'.failure = channel.failure
    /\ channel'.got = channel.got /\ channel'.frames = channel.frames
GetsFrame ==
    /\ ~channel.failure /\ channel.waiters > 0 /\ channel'.failure = channel.failure
    /\ stdout # <<>> /\ Head(stdout).type = "frame" /\ stdout' = Tail(stdout)
    /\ channel'.got = Append(channel.got, Head(stdout).id) /\ channel'.frames = channel.frames
KeepsFrame ==
    /\ channel.waiters = 0 /\ channel'.waiters = 0 /\ channel'.failure = channel.failure
    /\ stdout # <<>> /\ Head(stdout).type = "frame" /\ stdout' = Tail(stdout)
    /\ channel'.frames = Append(channel.frames, Head(stdout).id) /\ channel'.got = channel.got

LEMMA FrameSteps ==
  ASSUME ChannelTypeOK, ControllerStep
  PROVE  Gone \/ LeavesFrames \/ TakesFrame \/ Awaits \/ GetsFrame \/ KeepsFrame
<1>0. channel \in ChannelSet /\ channel.waiters \in Nat BY DEF ChannelTypeOK, ChannelSet
<1>1. CASE Fail BY <1>0, <1>1, FailedType DEF Fail, Gone
<1>2. ASSUME NEW action \in {"authorize", "send"}, Command(action), ~Fail
      PROVE  LeavesFrames
  BY <1>2 DEF Command, LeavesFrames
<1>3. CASE Receive
 <2>1. CASE channel.frames # <<>>
  <3> DEFINE got == Append(channel.got, Head(channel.frames))
             rest == Tail(channel.frames)
             n == channel.receives + 1
  <3>1. channel' = [channel EXCEPT !.got = got, !.frames = rest, !.receives = n] /\ stdout' = stdout
    BY <1>3, <2>1 DEF Receive
  <3> HIDE DEF got, rest, n
  <3>2. channel'.got = got /\ channel'.frames = rest /\ UNCHANGED <<channel.waiters, channel.failure>>
    BY <1>0, <3>1 DEF ChannelSet
  <3> QED BY <1>3, <2>1, <3>1, <3>2 DEF Receive, TakesFrame, got, rest
 <2>2. CASE channel.frames = <<>>
  <3> DEFINE m == channel.waiters + 1
             n == channel.receives + 1
  <3>1. channel' = [channel EXCEPT !.waiters = m, !.receives = n] /\ stdout' = stdout
    BY <1>3, <2>2 DEF Receive
  <3> HIDE DEF m, n
  <3>2. UNCHANGED <<channel.got, channel.frames, channel.failure>> BY <1>0, <3>1 DEF ChannelSet
  <3> QED BY <2>2, <3>1, <3>2 DEF Awaits
 <2> QED BY <2>1, <2>2
<1>4. CASE Close \/ CloseOverdue \/ ControllerDies
 <2>1. stdout' = stdout /\ UNCHANGED <<channel.got, channel.frames, channel.failure, channel.waiters>>
   BY <1>0, <1>4 DEF Close, CloseOverdue, ControllerDies, ChannelSet
 <2> QED BY <2>1 DEF LeavesFrames
<1>5. CASE CallerOverdue BY <1>1, <1>5 DEF CallerOverdue
<1>6. CASE ChildClosed
 <2> DEFINE f == Failed(channel)
 <2>1. f \in ChannelSet /\ f.failure = TRUE /\ f.got = channel.got BY <1>0, FailedType
 <2>2. channel' = [f EXCEPT !.exited = TRUE, !.closing = IF @ = "asked" THEN "exited" ELSE @]
   BY <1>6 DEF ChildClosed
 <2> HIDE DEF f
 <2>3. channel'.failure = TRUE /\ channel'.got = channel.got BY <2>1, <2>2 DEF ChannelSet
 <2> QED BY <2>3 DEF Gone
<1>7. CASE Event
 <2> DEFINE entry == Head(stdout)
 <2>1. stdout # <<>> /\ stdout' = Tail(stdout) /\ Handle(entry) BY <1>7 DEF Event
 <2>2. entry.type \in {"ready", "worker", "frame", "sent", "authorized", "closed", "failed"}
  <3>1. entry \in EventSet BY <2>1, HeadTailProperties DEF ChannelTypeOK
  <3> QED BY <3>1 DEF EventSet
 <2>3. CASE channel.failure
  <3>1. channel' = channel BY <2>1, <2>3 DEF Handle
  <3> QED BY <2>3, <3>1 DEF Gone
 <2>4. CASE ~channel.failure /\ entry.type = "failed" BY <1>1, <2>1, <2>4 DEF Handle
 <2>5. CASE ~channel.failure /\ entry.type \in {"ready", "worker", "closed"}
  <3>1. UNCHANGED <<channel.got, channel.frames, channel.failure, channel.waiters>>
    BY <1>0, <2>1, <2>5 DEF Handle, ChannelSet
  <3> QED BY <2>1, <2>5, <3>1 DEF LeavesFrames
 <2>6. CASE ~channel.failure /\ entry.type \in {"sent", "authorized"}
  <3>1. CASE entry.id \in Waiting
   <4>1. channel' = channel BY <2>1, <2>6, <3>1 DEF Handle
   <4> QED BY <2>1, <2>6, <4>1 DEF LeavesFrames
  <3>2. CASE entry.id \notin Waiting
   <4>1. Fail BY <2>1, <2>6, <3>2 DEF Handle
   <4> QED BY <1>1, <4>1
  <3> QED BY <3>1, <3>2
 <2>7. CASE ~channel.failure /\ entry.type = "frame"
  <3>1. CASE channel.waiters > 0
   <4> DEFINE m == channel.waiters - 1
              got == Append(channel.got, entry.id)
   <4>1. channel' = [channel EXCEPT !.waiters = m, !.got = got] BY <2>1, <2>7, <3>1 DEF Handle
   <4> HIDE DEF m, got
   <4>2. channel'.got = got /\ UNCHANGED <<channel.frames, channel.failure>>
     BY <1>0, <4>1 DEF ChannelSet
   <4> QED BY <2>1, <2>7, <3>1, <4>2 DEF GetsFrame, got
  <3>2. CASE ~(channel.waiters > 0) /\ Len(channel.frames) < QueueLimit
   <4> DEFINE frames == Append(channel.frames, entry.id)
   <4>1. channel' = [channel EXCEPT !.frames = frames] BY <2>1, <2>7, <3>2 DEF Handle
   <4> HIDE DEF frames
   <4>2. channel'.frames = frames /\ UNCHANGED <<channel.got, channel.failure, channel.waiters>>
     BY <1>0, <4>1 DEF ChannelSet
   <4>3. channel.waiters = 0 BY <1>0, <3>2
   <4> QED BY <2>1, <2>7, <4>2, <4>3 DEF KeepsFrame, frames
  <3>3. CASE ~(channel.waiters > 0) /\ ~(Len(channel.frames) < QueueLimit)
   <4>1. channel' = Failed(channel) BY <2>1, <2>7, <3>3 DEF Handle
   <4> QED BY <1>0, <4>1, FailedType DEF Gone
  <3> QED BY <3>1, <3>2, <3>3
 <2> QED BY <2>2, <2>3, <2>4, <2>5, <2>6, <2>7
<1> QED BY <1>1, <1>2, <1>3, <1>4, <1>5, <1>6, <1>7 DEF ControllerStep

LEMMA FramesController ==
  ASSUME ChannelTypeOK, FramesInv, ControllerStep
  PROVE  FramesInv'
<1> DEFINE g == Len(channel.got)
           f == Len(channel.frames)
           r == Relayed
<1>0. /\ channel.got \in Seq(Nat) /\ channel.frames \in Seq(Nat) /\ g \in Nat /\ f \in Nat
      /\ stdout \in Seq(EventSet) /\ channel.waiters \in Nat /\ r \in Nat
  BY LenProperties DEF ChannelTypeOK, ChannelSet, FramesInv, InPipe
<1>1. peer' = peer /\ Relayed' = r /\ InPipe' BY ControllerSteps DEF Relayed, FramesInv, InPipe
<1>2. \A k \in 1 .. g : channel.got[k] = k BY DEF FramesInv, InHand
<1>3. ~channel.failure =>
        /\ \A k \in 1 .. f : channel.frames[k] = g + k
        /\ channel.waiters > 0 => f = 0
        /\ FramesIn(stdout, g + f, r)
  BY DEF FramesInv, InHand, Arrived
<1> HIDE DEF r
<1>4. CASE Gone BY <1>1, <1>2, <1>4 DEF Gone, FramesInv, InHand
<1>5. CASE LeavesFrames
 <2>1. ~channel.failure => FramesIn(stdout', g + f, r)
  <3> HIDE DEF g, f
  <3>1. g + f \in Nat BY <1>0
  <3> QED BY <1>0, <1>3, <1>5, <3>1, TailFrames DEF LeavesFrames
 <2> QED BY <1>1, <1>2, <1>3, <1>5, <2>1 DEF LeavesFrames, FramesInv, InHand, Arrived
<1>6. CASE TakesFrame
 <2> DEFINE e == Head(channel.frames)
            got == Append(channel.got, e)
            rest == Tail(channel.frames)
 <2>1. /\ e \in Nat /\ e = channel.frames[1] /\ Len(rest) = f - 1 /\ 1 \in 1 .. f
       /\ \A k \in 1 .. Len(rest) : rest[k] = channel.frames[k + 1] /\ k + 1 \in 1 .. f
   BY <1>0, <1>6, TailIs DEF TakesFrame
 <2>2. /\ Len(got) = g + 1 /\ got[g + 1] = e
       /\ \A k \in 1 .. g : got[k] = channel.got[k]
       /\ \A k \in 1 .. Len(got) : k \in 1 .. g \/ k = g + 1
   BY <1>0, <2>1, AppendIs
 <2>3. channel'.got = got /\ channel'.frames = rest /\ UNCHANGED <<channel.failure, channel.waiters, stdout>>
   BY <1>6 DEF TakesFrame
 <2> HIDE DEF g, f, e, got, rest
 <2>4. ~channel.failure => e = g + 1 BY <1>3, <2>1
 <2>6. CASE ~channel.failure
  <3>1. \A k \in 1 .. Len(got) : got[k] = k BY <1>2, <2>2, <2>4, <2>6
  <3>2. ASSUME NEW k \in 1 .. Len(rest)
        PROVE  rest[k] = Len(got) + k
   <4>1. rest[k] = g + (k + 1) /\ k \in Nat BY <1>3, <2>1, <2>6
   <4> QED BY <1>0, <2>2, <4>1
  <3>3. ~(channel.waiters > 0) BY <1>0, <1>3, <2>1, <2>6
  <3>4. Len(got) + Len(rest) = g + f BY <1>0, <2>1, <2>2
  <3> QED BY <1>1, <1>3, <2>3, <2>6, <3>1, <3>2, <3>3, <3>4 DEF FramesInv, InHand, Arrived
 <2> QED BY <1>6, <2>6 DEF TakesFrame
<1>7. CASE Awaits
 <2>1. f = 0 /\ UNCHANGED <<channel.got, channel.frames, channel.failure, stdout>>
   BY <1>7 DEF Awaits
 <2> QED BY <1>1, <1>2, <1>3, <2>1 DEF FramesInv, InHand, Arrived
<1>8. CASE GetsFrame
 <2> DEFINE i == Head(stdout).id
            got == Append(channel.got, i)
 <2>1. Head(stdout) \in EventSet /\ i \in Nat
  <3>1. Head(stdout) \in EventSet BY <1>0, <1>8, HeadTailProperties DEF GetsFrame
  <3> QED BY <3>1 DEF EventSet
 <2>2. /\ Len(got) = g + 1 /\ got[g + 1] = i
       /\ \A k \in 1 .. g : got[k] = channel.got[k]
       /\ \A k \in 1 .. Len(got) : k \in 1 .. g \/ k = g + 1
   BY <1>0, <2>1, AppendIs
 <2>3. channel'.got = got /\ UNCHANGED <<channel.failure, channel.frames>> /\ channel.waiters > 0
   BY <1>8 DEF GetsFrame
 <2> HIDE DEF g, f, got
 <2>4. CASE ~channel.failure
  <3>1. f = 0 /\ g + f \in Nat /\ g + f = g BY <1>0, <1>3, <2>3, <2>4
  <3>2. i = g + f + 1 /\ FramesIn(stdout', g + f + 1, r)
    BY <1>0, <1>3, <1>8, <2>4, <3>1, TailFrames DEF GetsFrame
  <3> HIDE DEF i
  <3>3. \A k \in 1 .. Len(got) : got[k] = k BY <1>2, <2>2, <3>1, <3>2
  <3>4. Len(got) + f = g + f + 1 BY <1>0, <2>2, <3>1
  <3>5. \A k \in 1 .. Len(channel'.frames) : channel'.frames[k] = Len(got) + k
    BY <1>0, <2>3, <3>1 DEF f
  <3>6. Len(channel'.frames) = 0 BY <2>3, <3>1 DEF f
  <3>7. Len(got) + Len(channel'.frames) = g + f + 1 BY <2>3, <3>4 DEF f
  <3> QED BY <1>1, <2>3, <3>2, <3>3, <3>5, <3>6, <3>7 DEF FramesInv, InHand, Arrived
 <2> QED BY <1>8, <2>4 DEF GetsFrame
<1>9. CASE KeepsFrame
 <2> DEFINE i == Head(stdout).id
            frames == Append(channel.frames, i)
 <2>1. Head(stdout) \in EventSet /\ i \in Nat
  <3>1. Head(stdout) \in EventSet BY <1>0, <1>9, HeadTailProperties DEF KeepsFrame
  <3> QED BY <3>1 DEF EventSet
 <2>2. /\ Len(frames) = f + 1 /\ frames[f + 1] = i
       /\ \A k \in 1 .. f : frames[k] = channel.frames[k]
       /\ \A k \in 1 .. Len(frames) : k \in 1 .. f \/ k = f + 1
   BY <1>0, <2>1, AppendIs
 <2>3. channel'.frames = frames /\ UNCHANGED <<channel.failure, channel.got>> /\ channel'.waiters = 0
   BY <1>9 DEF KeepsFrame
 <2>4. CASE channel.failure BY <1>1, <1>2, <2>3, <2>4 DEF FramesInv, InHand
 <2> HIDE DEF f, frames
 <2>5. CASE ~channel.failure
  <3> HIDE DEF g
  <3>1. g + f \in Nat BY <1>0
  <3>2. i = g + f + 1 /\ FramesIn(stdout', g + f + 1, r)
    BY <1>0, <1>3, <1>9, <2>5, <3>1, TailFrames DEF KeepsFrame
  <3> HIDE DEF i
  <3>3. ASSUME NEW k \in 1 .. Len(frames)
        PROVE  frames[k] = g + k
   <4>1. CASE k \in 1 .. f BY <1>3, <2>2, <2>5, <4>1
   <4>2. CASE k = f + 1 BY <1>0, <2>2, <3>2, <4>2
   <4> QED BY <2>2, <4>1, <4>2
  <3>4. g + Len(frames) = g + f + 1 BY <1>0, <2>2
  <3>5. ~(channel'.waiters > 0) BY <2>3
  <3> QED BY <1>1, <1>2, <2>3, <2>5, <3>2, <3>3, <3>4, <3>5 DEF FramesInv, InHand, Arrived, g
 <2> QED BY <2>4, <2>5
<1> QED BY <1>4, <1>5, <1>6, <1>7, <1>8, <1>9, FrameSteps

LEMMA FramesOthers ==
  ASSUME ChannelTypeOK, FramesInv, GuardStep \/ OtherStep
  PROVE  FramesInv'
<1> DEFINE lo == Arrived
           r == Relayed
<1>0. /\ peer \in PeerSet /\ peer.outbox \in Seq(Nat) /\ peer.wrote \in Nat
      /\ stdout \in Seq(EventSet) /\ r \in Nat /\ Len(peer.outbox) \in Nat
  BY LenProperties DEF ChannelTypeOK, PeerSet, FramesInv, InPipe
<1>1. lo \in Nat BY LenProperties DEF ChannelTypeOK, ChannelSet, Arrived
<1>2. channel' = channel /\ InHand' /\ Arrived' = lo
 <2>1. channel' = channel
  <3>1. GuardStep => channel' = channel
    BY DEF GuardStep, ExitStep, Tells, Takes, Passes, Answers, Writes, Relays, Reads, Ends, Initial
  <3>2. OtherStep => channel' = channel
    BY DEF OtherStep, Others, PeerConnects, PeerWrites, PeerLeaves, SessionEnds, RightsEnd
  <3> QED BY <3>1, <3>2
 <2> QED BY <2>1 DEF FramesInv, InHand, Arrived
<1>3. ~channel.failure => FramesIn(stdout, lo, r) BY DEF FramesInv
<1>4. \A k \in 1 .. Len(peer.outbox) : peer.outbox[k] = r + k BY DEF FramesInv, InPipe
<1> HIDE DEF lo, r
\* The pipe is left alone.
<1>5. ASSUME peer'.outbox = peer.outbox, peer'.wrote = peer.wrote,
             stdout' = stdout \/ \E e \in EventSet : e.type # "frame" /\ stdout' = Append(stdout, e)
      PROVE  FramesInv'
 <2>1. Relayed' = r /\ InPipe' BY <1>5 DEF FramesInv, InPipe, Relayed, r
 <2>2. ~channel.failure => FramesIn(stdout', lo, r) BY <1>0, <1>1, <1>3, <1>5, AppendFrames
 <2> QED BY <1>2, <2>1, <2>2 DEF FramesInv
<1>6. \A e \in QuietEvents : e \in EventSet /\ e.type # "frame" BY DEF QuietEvents, EventSet
<1>7. CASE ExitStep \/ Tells BY <1>5, <1>6, <1>7 DEF ExitStep, Tells
<1>8. CASE Answers
 <2>1. PICK type \in {"authorized", "sent"} : stdout' = Append(stdout, [type |-> type, id |-> guard.id])
   BY <1>8 DEF Answers, Emit
 <2> DEFINE e == [type |-> type, id |-> guard.id]
 <2>2. e \in EventSet /\ e.type # "frame" /\ stdout' = Append(stdout, e)
   BY <2>1 DEF EventSet, ChannelTypeOK, GuardSet
 <2> HIDE DEF e
 <2> QED BY <1>5, <1>8, <2>2 DEF Answers
<1>9. CASE Takes \/ Passes \/ Reads \/ Ends \/ Initial \/ SessionEnds \/ RightsEnd
  BY <1>5, <1>9 DEF Takes, Passes, Reads, Ends, Initial, SessionEnds, RightsEnd, Others
<1>10. CASE Writes
 <2> DEFINE inbox == Append(peer.inbox, guard.id)
 <2>1. peer' = [peer EXCEPT !.inbox = inbox] /\ stdout' = stdout BY <1>10 DEF Writes
 <2> HIDE DEF inbox
 <2>2. peer'.outbox = peer.outbox /\ peer'.wrote = peer.wrote BY <1>0, <2>1 DEF PeerSet
 <2> QED BY <1>5, <2>1, <2>2
<1>11. CASE (\E genuine \in BOOLEAN : PeerConnects(genuine)) \/ PeerLeaves
 <2>1. peer'.outbox = peer.outbox /\ peer'.wrote = peer.wrote /\ stdout' = stdout
   BY <1>0, <1>11 DEF PeerConnects, PeerLeaves, PeerSet, Others
 <2> QED BY <1>5, <2>1
<1>12. CASE PeerWrites
 <2> DEFINE n == peer.wrote + 1
            outbox == Append(peer.outbox, n)
            h == Len(peer.outbox)
 <2>1. peer' = [peer EXCEPT !.outbox = outbox, !.wrote = n] /\ stdout' = stdout
   BY <1>12 DEF PeerWrites, Others
 <2>2. /\ Len(outbox) = h + 1 /\ outbox[h + 1] = n
       /\ \A k \in 1 .. h : outbox[k] = peer.outbox[k]
       /\ \A k \in 1 .. Len(outbox) : k \in 1 .. h \/ k = h + 1
   BY <1>0, AppendIs
 <2>3. h \in Nat /\ n = r + h + 1 BY <1>0 DEF Relayed, r
 <2> HIDE DEF n, outbox, h
 <2>4. peer'.outbox = outbox /\ peer'.wrote = n BY <1>0, <2>1 DEF PeerSet
 <2>5. Relayed' = r BY <1>0, <2>2, <2>3, <2>4, SMTT(30) DEF Relayed
 <2>6. ASSUME NEW k \in 1 .. Len(outbox)
       PROVE  outbox[k] = r + k
  <3>1. CASE k \in 1 .. h BY <1>4, <2>2, <3>1 DEF h
  <3>2. CASE k = h + 1 BY <1>0, <2>2, <2>3, <3>2
  <3> QED BY <2>2, <3>1, <3>2
 <2>7. InPipe' BY <1>0, <2>4, <2>5, <2>6 DEF InPipe
 <2> QED BY <1>2, <1>3, <2>1, <2>5, <2>7 DEF FramesInv
<1>13. CASE Relays
 <2> DEFINE outbox == Tail(peer.outbox)
            i == Head(peer.outbox)
            e == [type |-> "frame", id |-> i]
 <2>1. /\ i \in Nat /\ i = peer.outbox[1] /\ Len(outbox) = Len(peer.outbox) - 1
       /\ 1 \in 1 .. Len(peer.outbox) /\ Len(outbox) \in Nat
       /\ \A k \in 1 .. Len(outbox) :
            outbox[k] = peer.outbox[k + 1] /\ k + 1 \in 1 .. Len(peer.outbox)
   BY <1>0, <1>13, TailIs DEF Relays
 <2>2. e \in EventSet /\ e.type = "frame" /\ e.id = i BY <2>1 DEF EventSet
 <2>3. peer' = [peer EXCEPT !.outbox = outbox] /\ stdout' = Append(stdout, e)
   BY <1>13 DEF Relays, Emit
 <2> HIDE DEF outbox, i, e
 <2>4. peer'.outbox = outbox /\ peer'.wrote = peer.wrote BY <1>0, <2>3 DEF PeerSet
 <2>5. i = r + 1 BY <1>4, <2>1
 <2>6. Relayed' = r + 1
  <3>1. r = peer.wrote - Len(peer.outbox) BY DEF Relayed, r
  <3> QED BY <1>0, <2>1, <2>4, <3>1 DEF Relayed
 <2>7. ASSUME NEW k \in 1 .. Len(outbox)
       PROVE  outbox[k] = r + 1 + k
  <3>1. outbox[k] = r + (k + 1) /\ k \in Nat BY <1>4, <2>1
  <3> QED BY <1>0, <3>1
 <2>8. InPipe' BY <1>0, <2>4, <2>6, <2>7 DEF InPipe
 <2>9. ~channel.failure => FramesIn(stdout', lo, r + 1)
   BY <1>0, <1>1, <1>3, <2>2, <2>3, <2>5, AppendFrames
 <2> QED BY <1>2, <2>6, <2>8, <2>9 DEF FramesInv
<1> QED BY <1>7, <1>8, <1>9, <1>10, <1>11, <1>12, <1>13 DEF GuardStep, OtherStep

-----------------------------------------------------------------------------
\* The inductive invariant of the channel.
ChannelInv ==
    /\ ChannelTypeOK /\ StartFirst
    /\ AnswersInv /\ QueueInv /\ InboxInv /\ FramesInv

LEMMA InitChannel == ChannelInit => ChannelInv
<1> SUFFICES ASSUME ChannelInit
             PROVE  ChannelInv
  OBVIOUS
<1>1. ChannelTypeOK /\ StartFirst BY InitTyped
<1> DEFINE serve == [action |-> "serve", id |-> 0]
<1>2. serve \in CommandSet /\ CommandTrue(serve) /\ serve.id = 0 BY DEF CommandSet, CommandTrue
<1>3. stdin = <<serve>> BY DEF ChannelInit
<1> HIDE DEF serve
<1>4. serve \in TrueCommands BY <1>2 DEF TrueCommands
<1>5. /\ stdin \in Seq(TrueCommands) /\ Len(stdin) = 1 /\ stdin[1].id = 0
      /\ guard.commands = <<>> /\ guard.id = 0 /\ guard.at = "initial" /\ ~guard.peer
      /\ calls = <<>> /\ stdout = <<>> /\ peer.inbox = <<>> /\ peer.outbox = <<>> /\ peer.wrote = 0
      /\ channel.got = <<>> /\ channel.frames = <<>>
      /\ Len(calls) = 0 /\ Len(peer.inbox) = 0 /\ Len(stdout) = 0 /\ Len(guard.commands) = 0
      /\ Len(channel.got) = 0 /\ Len(channel.frames) = 0 /\ Len(peer.outbox) = 0
  BY <1>2, <1>3, <1>4, EmptySeq DEF ChannelInit
<1>6. AnswersInv
  BY <1>5, EmptySeq DEF AnswersInv, CommandsTrue, LossesTrue, StageTrue, EventsTrue, ResultsTrue
<1>7. QueueInv BY <1>5 DEF QueueInv, Ordered, Above, Precedes
<1>8. InboxInv BY <1>5 DEF InboxInv, Increasing
<1>9. FramesInv
 <2>1. Relayed = 0
  <3>1. peer.wrote = 0 /\ Len(peer.outbox) = 0 BY <1>5
  <3> QED BY <3>1 DEF Relayed
 <2>2. Arrived = 0
  <3>1. Len(channel.got) = 0 /\ Len(channel.frames) = 0 BY <1>5
  <3> QED BY <3>1 DEF Arrived
 <2> QED BY <1>5, <2>1, <2>2 DEF FramesInv, InHand, InPipe, FramesIn
<1> QED BY <1>1, <1>6, <1>7, <1>8, <1>9 DEF ChannelInv

LEMMA ChannelStep == ChannelInv /\ [ChannelNext]_channelVars => ChannelInv'
<1> SUFFICES ASSUME ChannelInv, [ChannelNext]_channelVars
             PROVE  ChannelInv'
  OBVIOUS
<1> USE DEF ChannelInv
<1>1. ChannelTypeOK' /\ StartFirst' BY TypedStep
<1>2. CASE ControllerStep \/ GuardStep \/ OtherStep
 <2>1. AnswersInv' /\ Grows BY <1>2, AnswersStep, Growth DEF AnswersInv
 <2>2. InboxInv' BY <1>2, <2>1, InboxStep
 <2>3. QueueInv'
  <3>1. OtherStep => QueueInv'
    BY DEF OtherStep, Others, PeerConnects, PeerWrites, PeerLeaves, SessionEnds, RightsEnd, QueueInv
  <3> QED BY <1>2, <3>1, QueueController, QueueGuard
 <2>4. FramesInv' BY <1>2, FramesController, FramesOthers
 <2> QED BY <1>1, <2>1, <2>2, <2>3, <2>4
<1>3. CASE UNCHANGED channelVars
 <2>1. AnswersInv'
   BY <1>3 DEF channelVars, AnswersInv, CommandsTrue, TrueCommands, CommandTrue, LossesTrue, LostAlready,
     StageTrue, EventsTrue, TrueEvents, EventTrue, ResultsTrue, ResultTrue, IsCall, Delivered,
     PeerLost
 <2>2. QueueInv' /\ InboxInv' BY <1>3 DEF channelVars, QueueInv, InboxInv, Delivered
 <2>3. FramesInv' BY <1>3 DEF channelVars, FramesInv, InHand, InPipe, Relayed, Arrived
 <2> QED BY <1>1, <2>1, <2>2, <2>3
<1> QED BY <1>1, <1>2, <1>3, ChannelSteps

LEMMA ChannelFacts == ChannelInv => ChannelTold
<1> SUFFICES ASSUME ChannelInv
             PROVE  ChannelTold
  OBVIOUS
<1>0. /\ DOMAIN calls = 1 .. Len(calls) /\ DOMAIN peer.inbox = 1 .. Len(peer.inbox)
      /\ channel.got \in Seq(Nat) /\ peer.inbox \in Seq(Nat)
  BY LenProperties DEF ChannelInv, ChannelTypeOK, PeerSet, ChannelSet
<1>1. \A i \in DOMAIN calls : ResultTrue(i) BY <1>0 DEF ChannelInv, AnswersInv, ResultsTrue
<1>2. Increasing(peer.inbox) /\ \A k \in DOMAIN peer.inbox : \A i \in 1 .. peer.inbox[k] - 1 :
         calls[i].action = "send" => Delivered(i)
  BY <1>0 DEF ChannelInv, InboxInv
<1>3. channel.got = [k \in 1 .. Len(channel.got) |-> k]
 <2>1. DOMAIN channel.got = 1 .. Len(channel.got) /\ \A k \in 1 .. Len(channel.got) : channel.got[k] = k
   BY <1>0, LenProperties DEF ChannelInv, FramesInv, InHand
 <2>2. channel.got \in [1 .. Len(channel.got) -> Nat] BY <1>0, LenProperties
 <2> QED BY <2>1, <2>2
<1> QED BY <1>0, <1>1, <1>2, <1>3 DEF ChannelTold, ResultTrue, Delivered

\* Types, commands, answers and frames of the channel agree in every reachable
\* state, whoever dies and whatever is lost (Serve, TaskChannel).
THEOREM ChannelInvariance == ChannelSpec => []ChannelInv
<1>1. ChannelInit => ChannelInv BY InitChannel
<1>2. ChannelInv /\ [ChannelNext]_channelVars => ChannelInv' BY ChannelStep
<1> QED BY <1>1, <1>2, PTL DEF ChannelSpec

\* For any number of commands, frames and faults: what the controller is told
\* is so, and frames arrive once, in order and without a gap, in either
\* direction (Authorize, CheckConnection, the queues).
THEOREM ChannelTellsTruth == ChannelSpec => []ChannelTold
<1>1. ChannelInv => ChannelTold BY ChannelFacts
<1> QED BY <1>1, ChannelInvariance, PTL

-----------------------------------------------------------------------------
(* The guard's look at its caller. *)

ThreadSet == [state : {"unborn", "alive", "ended"}, number : Numbers \cup {0}, ours : BOOLEAN,
              birth : Nat, exit : Nat, token : BOOLEAN, listed : BOOLEAN]

Born(t) == thread[t].state # "unborn"

\* Every thread has its type; births are told apart by their moments, and the
\* numbers in use by the threads that are there.
ThreadsFit ==
    /\ thread \in [Threads -> ThreadSet] /\ clock \in Nat
    /\ \A t \in Threads :
         /\ Born(t) => thread[t].birth <= clock
         /\ thread[t].listed => Born(t)
         /\ IsAlive(t) => thread[t].listed
         /\ thread[t].token => Born(t)
    /\ \A s, t \in Threads : s # t /\ Born(s) /\ Born(t) => thread[s].birth # thread[t].birth
    /\ \A s, t \in Threads : s # t /\ thread[s].listed /\ thread[t].listed
                               => thread[s].number # thread[t].number

\* The list names these threads as those that live, and no others.
Names(list, living) ==
    /\ \A t \in living :
         /\ t \in Threads /\ Born(t)
         /\ thread[t].number \in DOMAIN list
         /\ list[thread[t].number].birth = thread[t].birth
         /\ ~list[thread[t].number].ended
    /\ \A n \in DOMAIN list :
         ~list[n].ended => \E t \in living : thread[t].number = n

FirstRound == {"open", "validate", "token"}
SecondRound == {"again", "token again"}

\* What was opened is held, and was there when it was opened.
HeldFits ==
    /\ \A n \in DOMAIN look.held : look.held[n] \in Threads /\ Born(look.held[n])
    /\ look.at \in FirstRound \cup SecondRound =>
         /\ Names(look.before, look.was)
         /\ DOMAIN look.before \ look.todo \subseteq DOMAIN look.held
    /\ look.at \in {"validate", "token"} =>
         \A n \in look.todo : Looking(n) => n \in DOMAIN look.held
    /\ look.at \in SecondRound => DOMAIN look.before \subseteq DOMAIN look.held

\* The second list and the threads held since the first.
AgainFits == look.at \in SecondRound =>
    /\ Names(look.after, look.is)
    /\ DOMAIN look.after = DOMAIN look.before /\ look.todo \subseteq DOMAIN look.before
    /\ \A n \in DOMAIN look.before \ look.todo : SameThread(n)
    /\ look.at = "token again" => \A n \in look.todo : Looking(n) =>
         SameThread(n) /\ thread[look.held[n]].birth = look.after[n].birth

\* A thread that has borne a token all along is still to be looked at, or was
\* seen.
LastingFits == look.at \in SecondRound =>
    \A t \in lasting :
        /\ t \in look.is /\ thread[t].token
        /\ thread[t].number \in look.todo \/ look.impersonating

\* The guard is a record of these fields, whatever they hold.
LookFits == look = [
    at |-> look.at, role |-> look.role, attempt |-> look.attempt, first |-> look.first,
    began |-> look.began, before |-> look.before, after |-> look.after, held |-> look.held,
    todo |-> look.todo, live |-> look.live, impersonating |-> look.impersonating,
    was |-> look.was, is |-> look.is, reason |-> look.reason]

ObservationInv ==
    ThreadsFit /\ LookFits /\ HeldFits /\ AgainFits /\ LastingFits /\ NothingOverlooked

-----------------------------------------------------------------------------
(* The caller and the system. *)

\* What a step of theirs does to the threads that were born.
Evolves ==
    /\ look' = look
    /\ \A t \in Threads : Born(t) =>
         Born(t)' /\ thread'[t].birth = thread[t].birth /\ thread'[t].number = thread[t].number
    /\ \A t \in lasting' : t \in lasting /\ (t \in Threads /\ thread[t].token => thread'[t].token)

LEMMA BornKeeps ==
  ASSUME ThreadsFit, NEW t \in Threads, NEW n \in Numbers, NEW ours \in BOOLEAN,
         ThreadBorn(t, n, ours)
  PROVE  ThreadsFit' /\ Evolves
<1> DEFINE new == [state |-> "alive", number |-> n, ours |-> ours, birth |-> clock', exit |-> 0,
                   token |-> FALSE, listed |-> TRUE]
<1>1. /\ thread' = [thread EXCEPT ![t] = new] /\ new \in ThreadSet
      /\ clock' = clock + 1 /\ clock' \in Nat /\ look' = look /\ lasting' = lasting
      /\ ~Born(t) /\ n \notin Taken
  BY DEF ThreadsFit, ThreadBorn, ThreadSet, Born
<1>2. /\ thread' \in [Threads -> ThreadSet] /\ thread'[t] = new
      /\ \A s \in Threads : s # t => thread'[s] = thread[s]
  BY <1>1 DEF ThreadsFit
<1>3. \A s \in Threads : thread[s].listed => thread[s].number # n BY <1>1 DEF Taken
<1>4. \A s \in Threads : Born(s) => thread[s].birth \in Nat /\ thread[s].birth < clock'
 <2> TAKE s \in Threads
 <2>1. thread[s].birth \in Nat /\ clock \in Nat BY DEF ThreadsFit, ThreadSet
 <2> QED BY <1>1, <2>1 DEF ThreadsFit
<1>5. Evolves BY <1>1, <1>2 DEF Evolves, Born, ThreadsFit
<1>6. \A s \in Threads :
        /\ Born(s)' => thread'[s].birth <= clock'
        /\ thread'[s].listed => Born(s)'
        /\ IsAlive(s)' => thread'[s].listed
        /\ thread'[s].token => Born(s)'
 <2> TAKE s \in Threads
 <2>1. CASE s = t BY <1>1, <1>2, <2>1 DEF Born, IsAlive
 <2>2. CASE s # t BY <1>1, <1>2, <1>4, <2>2 DEF Born, IsAlive, ThreadsFit
 <2> QED BY <2>1, <2>2
<1>7. \A r, s \in Threads : r # s /\ Born(r)' /\ Born(s)' => thread'[r].birth # thread'[s].birth
  BY <1>1, <1>2, <1>4 DEF Born, ThreadsFit
<1>8. \A r, s \in Threads : r # s /\ thread'[r].listed /\ thread'[s].listed
                               => thread'[r].number # thread'[s].number
  BY <1>1, <1>2, <1>3 DEF ThreadsFit
<1> QED BY <1>1, <1>2, <1>5, <1>6, <1>7, <1>8 DEF ThreadsFit

\* The other steps of threads that were born.
LEMMA ChangeKeeps ==
  ASSUME ThreadsFit, LastingFits, NEW t \in Threads,
         ThreadExits(t) \/ Impersonates(t) \/ Reverts(t)
  PROVE  ThreadsFit' /\ Evolves
<1>1. Born(t) /\ thread[t] \in ThreadSet /\ clock \in Nat /\ IsAlive(t)
  BY DEF ThreadsFit, ThreadExits, Impersonates, Reverts, Ours, IsAlive, Born
<1>2. /\ clock' \in Nat /\ clock <= clock'
      /\ look' = look
      /\ \E new \in ThreadSet :
           /\ thread' = [thread EXCEPT ![t] = new]
           /\ new.state # "unborn" /\ new.birth = thread[t].birth
           /\ new.number = thread[t].number
           /\ new.listed => thread[t].listed
           /\ new.state = "alive" => new.listed
           /\ t \in lasting' => t \in lasting /\ (thread[t].token => new.token)
      /\ lasting' \subseteq lasting
 <2>1. CASE ThreadExits(t)
  <3>1. PICK listed \in BOOLEAN :
          thread' = [thread EXCEPT ![t].state = "ended", ![t].exit = clock',
                                   ![t].token = FALSE, ![t].listed = listed]
    BY <2>1 DEF ThreadExits
  <3> DEFINE new == [thread[t] EXCEPT !.state = "ended", !.exit = clock',
                                      !.token = FALSE, !.listed = listed]
  <3>2. clock' = clock + 1 /\ look' = look /\ lasting' = lasting \ {t} BY <2>1 DEF ThreadExits
  <3>6. clock' \in Nat BY <1>1, <3>2
  <3>3. new \in ThreadSet /\ new.state = "ended" /\ new.birth = thread[t].birth
        /\ new.number = thread[t].number /\ ~new.token
    BY <1>1, <3>6 DEF ThreadSet
  <3>4. thread' = [thread EXCEPT ![t] = new] BY <3>1 DEF ThreadsFit
  <3>5. thread[t].listed BY <1>1 DEF ThreadsFit
  <3>7. clock <= clock' BY <1>1, <3>2
  <3> HIDE DEF new
  <3> QED BY <3>2, <3>3, <3>4, <3>5, <3>6, <3>7
 <2>2. CASE Impersonates(t)
  <3> DEFINE new == [thread[t] EXCEPT !.token = TRUE]
  <3>1. /\ thread' = [thread EXCEPT ![t] = new]
        /\ clock' = clock /\ look' = look /\ lasting' = lasting
    BY <2>2 DEF Impersonates, ThreadsFit
  <3>2. new \in ThreadSet /\ new.state = thread[t].state /\ new.birth = thread[t].birth
        /\ new.number = thread[t].number /\ new.token
    BY <1>1 DEF ThreadSet
  <3>4. new.listed = thread[t].listed BY <1>1 DEF ThreadSet
  <3>3. thread[t].listed BY <1>1 DEF ThreadsFit
  <3> HIDE DEF new
  <3>5. new.listed BY <3>3, <3>4
  <3>6. t \in lasting' => t \in lasting /\ (thread[t].token => new.token) BY <3>1, <3>2
  <3>7. clock' \in Nat /\ clock <= clock' /\ look' = look /\ lasting' \subseteq lasting
    BY <1>1, <3>1
  <3>8. new.state # "unborn" BY <1>1, <3>2 DEF IsAlive
  <3> QED BY <3>1, <3>2, <3>3, <3>5, <3>6, <3>7, <3>8
 <2>3. CASE Reverts(t)
  <3> DEFINE new == [thread[t] EXCEPT !.token = FALSE]
  <3>1. /\ thread' = [thread EXCEPT ![t] = new]
        /\ clock' = clock /\ look' = look /\ lasting' = lasting \ {t}
    BY <2>3 DEF Reverts, ThreadsFit
  <3>2. new \in ThreadSet /\ new.state = thread[t].state /\ new.birth = thread[t].birth
        /\ new.number = thread[t].number
    BY <1>1 DEF ThreadSet
  <3>4. new.listed = thread[t].listed BY <1>1 DEF ThreadSet
  <3>3. thread[t].listed BY <1>1 DEF ThreadsFit
  <3> HIDE DEF new
  <3>5. new.listed BY <3>3, <3>4
  <3>6. t \in lasting' => t \in lasting /\ (thread[t].token => new.token) BY <3>1, <3>2
  <3>7. clock' \in Nat /\ clock <= clock' /\ look' = look /\ lasting' \subseteq lasting
    BY <1>1, <3>1
  <3>8. new.state # "unborn" BY <1>1, <3>2 DEF IsAlive
  <3> QED BY <3>1, <3>2, <3>3, <3>5, <3>6, <3>7, <3>8
 <2> QED BY <2>1, <2>2, <2>3
<1>3. PICK new \in ThreadSet :
        /\ thread' = [thread EXCEPT ![t] = new]
        /\ new.state # "unborn" /\ new.birth = thread[t].birth
        /\ new.number = thread[t].number
        /\ new.listed => thread[t].listed
        /\ new.state = "alive" => new.listed
        /\ t \in lasting' => t \in lasting /\ (thread[t].token => new.token)
  BY <1>2
<1>4. /\ thread' \in [Threads -> ThreadSet] /\ thread'[t] = new
      /\ \A s \in Threads : s # t => thread'[s] = thread[s]
  BY <1>3 DEF ThreadsFit
<1>5. \A s \in Threads :
        /\ Born(s)' <=> Born(s)
        /\ thread'[s].birth = thread[s].birth /\ thread'[s].number = thread[s].number
        /\ thread'[s].listed => thread[s].listed
        /\ IsAlive(s)' => thread'[s].listed
        /\ thread'[s].token => Born(s)'
 <2> TAKE s \in Threads
 <2>1. CASE s = t
  <3>1. thread'[s] = new /\ thread[s] = thread[t] BY <1>4, <2>1
  <3>2. Born(s)' /\ Born(s) BY <1>1, <1>3, <3>1 DEF Born
  <3>3. IsAlive(s)' => new.listed BY <1>3, <3>1 DEF IsAlive
  <3>4. thread'[s].listed => thread[s].listed BY <1>3, <3>1
  <3>5. thread'[s].birth = thread[s].birth /\ thread'[s].number = thread[s].number BY <1>3, <3>1
  <3>6. IsAlive(s)' => thread'[s].listed BY <3>1, <3>3
  <3> QED BY <3>2, <3>4, <3>5, <3>6
 <2>2. CASE s # t
  <3>1. thread'[s] = thread[s] BY <1>4, <2>2
  <3>2. (thread[s].listed => Born(s)) /\ (IsAlive(s) => thread[s].listed)
        /\ (thread[s].token => Born(s))
    BY DEF ThreadsFit
  <3>3. (Born(s)' <=> Born(s)) /\ (IsAlive(s)' <=> IsAlive(s)) BY <3>1 DEF Born, IsAlive
  <3> QED BY <3>1, <3>2, <3>3
 <2> QED BY <2>1, <2>2
<1>6. \A s \in Threads : Born(s) => thread[s].birth <= clock'
 <2> TAKE s \in Threads
 <2>1. thread[s].birth \in Nat /\ clock \in Nat BY DEF ThreadsFit, ThreadSet
 <2> QED BY <1>2, <2>1 DEF ThreadsFit
<1>7. ThreadsFit' BY <1>2, <1>4, <1>5, <1>6 DEF ThreadsFit
<1>8. Evolves BY <1>2, <1>3, <1>4, <1>5 DEF Evolves
<1> QED BY <1>7, <1>8

\* Nothing that the guard relies on is disturbed by that.
LEMMA EvolvesKeeps ==
  ASSUME ObservationInv, ThreadsFit', Evolves, look.at = "over" => lasting' = lasting
  PROVE  ObservationInv'
<1> USE DEF ObservationInv
<1>2. LookFits' /\ NothingOverlooked' BY DEF Evolves, LookFits, NothingOverlooked
<1>3. \A list, living : Names(list, living) => Names(list, living)' BY DEF Evolves, Names
<1>4. HeldFits' BY <1>3 DEF Evolves, HeldFits, Looking
<1>5. AgainFits' BY <1>3 DEF Evolves, AgainFits, HeldFits, Looking, SameThread, SecondRound
<1>6. LastingFits' BY DEF Evolves, LastingFits, AgainFits, Names, SecondRound
<1> QED BY <1>2, <1>4, <1>5, <1>6

LEMMA SystemKeeps ==
  ASSUME ObservationInv, System
  PROVE  ObservationInv'
<1>1. ThreadsFit' /\ Evolves /\ look.at # "over"
 <2>1. CASE PrimaryChanges
   BY <2>1 DEF PrimaryChanges, ThreadsFit, Evolves, Born, IsAlive, System, ObservationInv
 <2> QED BY <2>1, BornKeeps, ChangeKeeps DEF System, ObservationInv
<1> QED BY <1>1, EvolvesKeeps

-----------------------------------------------------------------------------
(* The guard. *)

\* A list of the threads at one moment names those that live.
LEMMA SnapshotNames ==
  ASSUME ThreadsFit
  PROVE  Names(Snapshot, Ours)
<1>1. \A t \in Listed :
        /\ thread[t].number \in DOMAIN Snapshot
        /\ Snapshot[thread[t].number].birth = thread[t].birth
        /\ Snapshot[thread[t].number].ended = ~IsAlive(t)
 <2> TAKE t \in Listed
 <2> DEFINE n == thread[t].number
            c == CHOOSE s \in Listed : thread[s].number = n
 <2>1. c \in Listed /\ thread[c].number = n OBVIOUS
 <2>2. c = t
  <3> HIDE DEF c
  <3> QED BY <2>1 DEF ThreadsFit, Listed
 <2>3. n \in DOMAIN Snapshot BY DEF Snapshot
 <2>4. Snapshot[n] = [birth |-> thread[c].birth, exit |-> thread[c].exit, ended |-> ~IsAlive(c)]
   BY <2>3 DEF Snapshot
 <2> HIDE DEF c
 <2> QED BY <2>2, <2>3, <2>4
<1>2. \A t \in Ours : t \in Threads /\ t \in Listed /\ IsAlive(t) /\ Born(t)
  BY DEF Ours, Listed, ThreadsFit, IsAlive, Born
<1>3. \A t \in Listed : IsAlive(t) => t \in Ours BY DEF Ours, Listed
<1>4. \A n \in DOMAIN Snapshot : \E t \in Listed : thread[t].number = n BY DEF Snapshot
<1> HIDE DEF Snapshot
<1>5. ASSUME NEW n \in DOMAIN Snapshot, ~Snapshot[n].ended
      PROVE  \E t \in Ours : thread[t].number = n
 <2>1. PICK t \in Listed : thread[t].number = n BY <1>4
 <2>2. IsAlive(t) BY <1>1, <1>5, <2>1
 <2> QED BY <1>3, <2>1, <2>2
<1>6. ASSUME NEW t \in Ours
      PROVE  /\ t \in Threads /\ Born(t)
             /\ thread[t].number \in DOMAIN Snapshot
             /\ Snapshot[thread[t].number].birth = thread[t].birth
             /\ ~Snapshot[thread[t].number].ended
  BY <1>1, <1>2
<1> QED BY <1>5, <1>6 DEF Names

\* Two lists that say the same of each number name the same threads.
LEMMA NamedIn ==
  ASSUME ThreadsFit, NEW b, NEW a, NEW was, NEW is, Names(b, was), Names(a, is),
         DOMAIN a = DOMAIN b, \A n \in DOMAIN b : b[n] = a[n]
  PROVE  was \subseteq is
<1> SUFFICES ASSUME NEW t \in was PROVE t \in is OBVIOUS
<1> DEFINE n == thread[t].number
<1>1. t \in Threads /\ Born(t) /\ n \in DOMAIN b /\ b[n].birth = thread[t].birth /\ ~b[n].ended
  BY DEF Names
<1>2. n \in DOMAIN a /\ a[n].birth = thread[t].birth /\ ~a[n].ended BY <1>1
<1>3. PICK s \in is : thread[s].number = n BY <1>2 DEF Names
<1>4. s \in Threads /\ Born(s) /\ a[n].birth = thread[s].birth BY <1>3 DEF Names
<1> QED BY <1>1, <1>2, <1>4 DEF ThreadsFit

LEMMA ThreadsStay ==
  ASSUME ThreadsFit, Watch
  PROVE  /\ ThreadsFit'
         /\ \A t \in Threads : Born(t)' = Born(t)
         /\ \A list, living : Names(list, living) => Names(list, living)'
BY DEF Watch, ThreadsFit, Names, Born, IsAlive

\* The guard has a result.
LEMMA ResultKeeps ==
  ASSUME ObservationInv, Watch, NEW reason, Result(reason),
         reason = "accepted" => look.was = look.is /\ lasting' = {}
  PROVE  ObservationInv'
<1> USE DEF ObservationInv
<1>1. /\ look'.at \in {"idle", "over"} /\ look'.reason = reason
      /\ look'.held = [n \in {} |-> NoThread]
      /\ look'.was = look.was /\ look'.is = look.is
      /\ LookFits'
  BY DEF LookFits, Result
<1>2. ThreadsFit' BY ThreadsStay
<1>3. HeldFits' /\ AgainFits' /\ LastingFits' /\ NothingOverlooked'
  BY <1>1 DEF HeldFits, AgainFits, LastingFits, NothingOverlooked, FirstRound, SecondRound
<1> QED BY <1>1, <1>2, <1>3

LEMMA StartsKeep ==
  ASSUME ObservationInv, Begin \/ ReadClock
  PROVE  ObservationInv'
<1> USE DEF ObservationInv
<1>1. CASE Begin /\ look.role = "ordinary" /\ Administrator BY <1>1, ResultKeeps DEF Begin
<1>2. CASE ReadClock \/ (Begin /\ ~(look.role = "ordinary" /\ Administrator))
 <2>1. look'.at \in {"clock", "before"} /\ look'.held = look.held /\ LookFits' /\ Watch
   BY <1>2 DEF Begin, ReadClock, LookFits
 <2>2. ThreadsFit' /\ \A t \in Threads : Born(t)' = Born(t) BY <2>1, ThreadsStay
 <2>3. HeldFits' /\ AgainFits' /\ LastingFits' /\ NothingOverlooked'
   BY <2>1, <2>2 DEF HeldFits, AgainFits, LastingFits, NothingOverlooked, FirstRound, SecondRound
 <2> QED BY <2>1, <2>2, <2>3
<1> QED BY <1>1, <1>2

LEMMA CaptureFirstKeeps ==
  ASSUME ObservationInv, CaptureFirst
  PROVE  ObservationInv'
<1> USE DEF ObservationInv
<1>1. /\ look'.at = "open" /\ look'.held = look.held /\ look'.before = Snapshot
      /\ look'.todo = DOMAIN Snapshot /\ look'.was = Ours /\ LookFits' /\ Watch
  BY DEF CaptureFirst, LookFits
<1>2. ThreadsFit' /\ (\A t \in Threads : Born(t)' = Born(t)) /\ Names(Snapshot, Ours)
  BY <1>1, ThreadsStay, SnapshotNames
<1>3. Names(look.before, look.was)' BY <1>1, <1>2 DEF Names, Born, Watch
<1>4. HeldFits' /\ AgainFits' /\ LastingFits' /\ NothingOverlooked'
  BY <1>1, <1>2, <1>3 DEF HeldFits, AgainFits, LastingFits, NothingOverlooked, FirstRound, SecondRound
<1> QED BY <1>1, <1>2, <1>4

\* The first round: a thread is opened, looked at and found to bear a token or
\* not.
LEMMA OpenKeeps ==
  ASSUME ObservationInv, NEW n \in Numbers, OpenThread(n)
  PROVE  ObservationInv'
<1> USE DEF ObservationInv
<1> DEFINE found == {t \in Threads : thread[t].number = n /\ (IsAlive(t) \/ thread[t].listed)}
<1>1. Watch /\ look.at = "open" /\ Looking(n) BY DEF OpenThread
<1>2. CASE found = {} BY <1>1, <1>2, ResultKeeps DEF OpenThread
<1>3. CASE found # {}
 <2>1. PICK t \in found :
         look' = [look EXCEPT !.at = "validate",
                              !.held = [m \in DOMAIN @ \cup {n} |-> IF m = n THEN t ELSE @[m]]]
   BY <1>3 DEF OpenThread
 <2>2. /\ look'.at = "validate" /\ LookFits'
       /\ look'.held = [m \in DOMAIN look.held \cup {n} |-> IF m = n THEN t ELSE look.held[m]]
       /\ look'.todo = look.todo /\ look'.before = look.before /\ look'.was = look.was
   BY <2>1 DEF LookFits
 <2>3. t \in Threads /\ Born(t) BY DEF ThreadsFit, IsAlive, Born
 <2>4. ThreadsFit' /\ \A s \in Threads : Born(s)' = Born(s) BY <1>1, ThreadsStay
 <2>5. (\A m \in DOMAIN look.held : look.held[m] \in Threads /\ Born(look.held[m]))'
   BY <1>1, <2>2, <2>3 DEF HeldFits, Born, Watch
 <2>6. Names(look.before, look.was)' BY <1>1, <2>2 DEF HeldFits, FirstRound, Names, Born, Watch
 <2>7. \A m : Looking(m)' => m = n BY <1>1, <2>2 DEF Looking
 <2>8. HeldFits' BY <1>1, <2>2, <2>5, <2>6, <2>7 DEF HeldFits, FirstRound, SecondRound
 <2>9. AgainFits' /\ LastingFits' /\ NothingOverlooked'
   BY <2>2 DEF AgainFits, LastingFits, NothingOverlooked, SecondRound
 <2> QED BY <2>2, <2>4, <2>8, <2>9
<1> QED BY <1>2, <1>3

\* An entry has no more, and no token is looked for.
LEMMA NotAccepted ==
  ASSUME NEW entry, NEW t
  PROVE  Fault(entry, t) # "accepted"
BY DEF Fault

LEMMA ValidateKeeps ==
  ASSUME ObservationInv, NEW n \in Numbers, Validate(n) \/ TokenFirst(n)
  PROVE  ObservationInv'
<1> USE DEF ObservationInv
<1>1. Watch /\ look.at \in {"validate", "token"} /\ Looking(n) BY DEF Validate, TokenFirst
<1>2. CASE Validate(n) /\ Fault(look.before[n], look.held[n]) # "none"
 <2> DEFINE fault == Fault(look.before[n], look.held[n])
 <2>1. Result(fault) /\ fault # "accepted" BY <1>2, NotAccepted DEF Validate
 <2> HIDE DEF fault
 <2> QED BY <1>1, <2>1, ResultKeeps
<1>3. CASE TokenFirst(n) \/ Fault(look.before[n], look.held[n]) = "none"
 <2>1. /\ look'.held = look.held /\ look'.before = look.before /\ look'.was = look.was /\ LookFits'
       /\ \/ look'.at = "open" /\ look'.todo = look.todo \ {n}
          \/ look'.at = "token" /\ look'.todo = look.todo
   BY <1>3 DEF Validate, TokenFirst, LookFits
 <2>2. n \in look.todo => n \in DOMAIN look.held BY <1>1 DEF HeldFits
 <2>3. DOMAIN look.before \ look'.todo \subseteq DOMAIN look.held
   BY <1>1, <2>1, <2>2 DEF HeldFits, FirstRound
 <2>4. ThreadsFit' /\ \A s \in Threads : Born(s)' = Born(s) BY <1>1, ThreadsStay
 <2>5. Names(look.before, look.was)' BY <1>1, <2>1 DEF HeldFits, FirstRound, Names, Born, Watch
 <2>6. look'.at = "token" => \A m \in look.todo : Looking(m)' => m \in DOMAIN look.held
   BY <1>1, <2>1, <2>2 DEF Looking
 <2>7. HeldFits' BY <1>1, <2>1, <2>3, <2>4, <2>5, <2>6 DEF HeldFits, FirstRound, SecondRound
 <2>8. AgainFits' /\ LastingFits' /\ NothingOverlooked'
   BY <2>1 DEF AgainFits, LastingFits, NothingOverlooked, SecondRound
 <2> QED BY <2>1, <2>4, <2>7, <2>8
<1> QED BY <1>2, <1>3

LEMMA CaptureSecondKeeps ==
  ASSUME ObservationInv, CaptureSecond
  PROVE  ObservationInv'
<1> USE DEF ObservationInv
<1>1. Watch /\ look.at = "open" /\ look.todo = {} BY DEF CaptureSecond
<1>2. CASE look.live = 0 \/ ~SameSet BY <1>1, <1>2, ResultKeeps DEF CaptureSecond
<1>3. CASE ~(look.live = 0 \/ ~SameSet)
 <2>1. /\ look'.at = "again" /\ look'.after = Snapshot /\ look'.todo = DOMAIN look.before
       /\ look'.is = Ours /\ LookFits'
       /\ look'.held = look.held /\ look'.before = look.before /\ look'.was = look.was
       /\ lasting' = {t \in Ours : thread[t].token}
       /\ DOMAIN look.before = DOMAIN Snapshot
   BY <1>3 DEF CaptureSecond, LookFits, SameSet
 <2>2. DOMAIN look.before \subseteq DOMAIN look.held BY <1>1 DEF HeldFits, FirstRound
 <2>3. ThreadsFit' /\ (\A s \in Threads : Born(s)' = Born(s)) /\ Names(Snapshot, Ours)
   BY <1>1, ThreadsStay, SnapshotNames
 <2>4. Names(look.before, look.was)' /\ Names(look.after, look.is)'
   BY <1>1, <2>1, <2>3 DEF HeldFits, FirstRound, Names, Born, Watch
 <2>5. HeldFits' BY <2>1, <2>2, <2>3, <2>4 DEF HeldFits, FirstRound, SecondRound
 <2>6. AgainFits' BY <2>1, <2>4 DEF AgainFits, SecondRound
 <2>7. LastingFits' /\ NothingOverlooked'
   BY <1>1, <2>1, <2>3 DEF LastingFits, NothingOverlooked, Names, Watch
 <2> QED BY <2>1, <2>3, <2>5, <2>6, <2>7
<1> QED BY <1>2, <1>3

\* The second round.
LEMMA ValidateAgainKeeps ==
  ASSUME ObservationInv, NEW n \in Numbers, ValidateAgain(n)
  PROVE  ObservationInv'
<1> USE DEF ObservationInv
<1> DEFINE fault == IF ~SameThread(n) THEN "HELD_THREAD_CHANGED_OR_EXITED"
                    ELSE Fault(look.after[n], look.held[n])
<1>1. Watch /\ look.at = "again" /\ Looking(n) /\ UNCHANGED lasting BY DEF ValidateAgain
<1>2. CASE fault # "none"
 <2>1. Result(fault) /\ fault # "accepted" BY <1>2, NotAccepted DEF ValidateAgain
 <2> HIDE DEF fault
 <2> QED BY <1>1, <2>1, ResultKeeps
<1>3. CASE fault = "none"
 <2>1. /\ look'.held = look.held /\ look'.before = look.before /\ look'.was = look.was
       /\ look'.after = look.after /\ look'.is = look.is /\ LookFits'
       /\ look'.impersonating = look.impersonating
       /\ \/ look'.at = "again" /\ look'.todo = look.todo \ {n} /\ look.after[n].ended
          \/ look'.at = "token again" /\ look'.todo = look.todo
   BY <1>3 DEF ValidateAgain, LookFits
 <2>2. SameThread(n) /\ thread[look.held[n]].birth = look.after[n].birth BY <1>3 DEF Fault
 <2>3. ThreadsFit' /\ \A s \in Threads : Born(s)' = Born(s) BY <1>1, ThreadsStay
 <2>4. Names(look.before, look.was)'
   BY <1>1, <2>1, ZenonT(40) DEF HeldFits, SecondRound, Names, Born, Watch
 <2>10. Names(look.after, look.is)'
  <3>1. Names(look.after, look.is) BY <1>1 DEF AgainFits, SecondRound
  <3> QED BY <1>1, <2>1, <3>1, ZenonT(40) DEF Names, Born, Watch
 <2>5. HeldFits' BY <1>1, <2>1, <2>3, <2>4 DEF HeldFits, FirstRound, SecondRound
 <2>6. \A m : Looking(m) => m = n BY <1>1 DEF Looking
 <2>7. AgainFits'
   BY <1>1, <2>1, <2>2, <2>6, <2>10 DEF AgainFits, SecondRound, SameThread, Watch, Looking
 <2>8. \A t \in look.is : thread[t].number = n => ~look.after[n].ended
   BY <1>1 DEF AgainFits, SecondRound, Names
 <2>9. LastingFits' /\ NothingOverlooked'
   BY <1>1, <2>1, <2>8 DEF LastingFits, NothingOverlooked, SecondRound, Watch
 <2> QED BY <2>1, <2>3, <2>5, <2>7, <2>9
<1> QED BY <1>2, <1>3

LEMMA TokenAgainKeeps ==
  ASSUME ObservationInv, NEW n \in Numbers, TokenAgain(n)
  PROVE  ObservationInv'
<1> USE DEF ObservationInv
<1>1. /\ Watch /\ look.at = "token again" /\ Looking(n) /\ UNCHANGED lasting
      /\ look'.at = "again" /\ look'.todo = look.todo \ {n}
      /\ look'.impersonating = (look.impersonating \/ thread[look.held[n]].token)
      /\ look'.held = look.held /\ look'.before = look.before /\ look'.was = look.was
      /\ look'.after = look.after /\ look'.is = look.is /\ LookFits'
  BY DEF TokenAgain, LookFits, SeenAgain, Seen
<1>2. n \in look.todo =>
        /\ SameThread(n) /\ thread[look.held[n]].birth = look.after[n].birth
        /\ look.held[n] \in Threads /\ Born(look.held[n])
  BY <1>1 DEF AgainFits, HeldFits, SecondRound
<1>3. ThreadsFit' /\ \A s \in Threads : Born(s)' = Born(s) BY <1>1, ThreadsStay
<1>4. Names(look.before, look.was)' BY <1>1 DEF HeldFits, SecondRound, Names, Born, Watch
<1>9. Names(look.after, look.is)'
  BY <1>1, SMTT(30), ZenonT(30) DEF AgainFits, SecondRound, Names, Born, Watch
<1>5. HeldFits' BY <1>1, <1>3, <1>4 DEF HeldFits, FirstRound, SecondRound
<1>6. AgainFits' BY <1>1, <1>2, <1>9 DEF AgainFits, SecondRound, SameThread
<1>7. ASSUME NEW t \in lasting
      PROVE  /\ t \in look.is /\ thread[t].token
             /\ thread[t].number \in look'.todo \/ look'.impersonating
 <2>1. t \in look.is /\ thread[t].token /\ (thread[t].number \in look.todo \/ look.impersonating)
   BY <1>1 DEF LastingFits, SecondRound
 <2>2. CASE thread[t].number = n /\ n \in look.todo
  <3>1. t \in Threads /\ Born(t) /\ look.after[n].birth = thread[t].birth
    BY <1>1, <2>1, <2>2 DEF AgainFits, SecondRound, Names
  <3>2. t = look.held[n] BY <1>2, <2>2, <3>1 DEF ThreadsFit
  <3> QED BY <1>1, <2>1, <3>2
 <2> QED BY <1>1, <2>1, <2>2
<1>8. LastingFits' /\ NothingOverlooked' BY <1>1, <1>7 DEF LastingFits, NothingOverlooked, Watch
<1> QED BY <1>1, <1>3, <1>5, <1>6, <1>8

LEMMA JudgeKeeps ==
  ASSUME ObservationInv, Judge
  PROVE  ObservationInv'
<1> USE DEF ObservationInv
<1> DEFINE reason ==
        IF look.impersonating THEN "THREAD_TOKEN_OBSERVED"
        ELSE IF look.role = "ordinary"
          THEN IF Administrator # look.first THEN "PRIMARY_TOKEN_CHANGED" ELSE "accepted"
          ELSE IF Administrator THEN "accepted" ELSE "ACTUAL_ADMIN_TOKEN_REQUIRED"
<1>1. Watch /\ look.at = "again" /\ look.todo = {} /\ UNCHANGED lasting /\ Result(reason)
  BY DEF Judge
<1>2. /\ Names(look.before, look.was) /\ Names(look.after, look.is)
      /\ DOMAIN look.after = DOMAIN look.before
      /\ \A n \in DOMAIN look.before : look.before[n] = look.after[n]
  BY <1>1 DEF HeldFits, AgainFits, SecondRound, SameThread
<1>3. look.was \subseteq look.is BY <1>2, NamedIn
<1>4. look.is \subseteq look.was BY <1>2, NamedIn
<1>5. reason = "accepted" => lasting' = {} BY <1>1 DEF LastingFits, SecondRound
<1> HIDE DEF reason
<1>6. PICK r : r = reason OBVIOUS
<1>7. Result(r) /\ (r = "accepted" => look.was = look.is /\ lasting' = {})
  BY <1>1, <1>3, <1>4, <1>5, <1>6
<1> QED BY <1>1, <1>7, ResultKeeps

\* The inductive invariant: each list the guard has made says which threads
\* lived, by moments of birth that are never given twice; and a thread that has
\* borne a token since the second list is still to be asked, or was seen
\* (CaptureThreads, ValidateThread, HasThreadToken).
THEOREM ObservationInvariance == ObservationSpec => []ObservationInv
<1>1. ObservationInit => ObservationInv
 <2> SUFFICES ASSUME ObservationInit PROVE ObservationInv OBVIOUS
 <2>1. PICK n \in Numbers :
         thread = [t \in Threads |->
            IF t = 1 THEN [Unborn EXCEPT !.state = "alive", !.number = n, !.ours = TRUE,
                                         !.birth = 1, !.listed = TRUE]
            ELSE Unborn]
   BY DEF ObservationInit
 <2>2. clock = 1 /\ lasting = {} BY DEF ObservationInit
 <2>3. look.at = "idle" /\ look.held = [m \in {} |-> NoThread] /\ LookFits
   BY DEF ObservationInit, LookFits
 <2>4. \A t \in Threads : thread[t] \in ThreadSet /\ (t # 1 => thread[t] = Unborn)
   BY <2>1 DEF ThreadSet, Unborn
 <2>5. \A t \in Threads : t = 1 => thread[t].birth = 1 /\ thread[t].state = "alive" /\ thread[t].listed
   BY <2>1 DEF Unborn
 <2>6. ThreadsFit BY <2>1, <2>2, <2>4, <2>5 DEF ThreadsFit, Born, IsAlive, Unborn
 <2> QED
   BY <2>2, <2>3, <2>6 DEF ObservationInv, HeldFits, AgainFits, LastingFits, NothingOverlooked,
     FirstRound, SecondRound
<1>2. ObservationInv /\ [ObservationNext]_observationVars => ObservationInv'
 <2> SUFFICES ASSUME ObservationInv, [ObservationNext]_observationVars PROVE ObservationInv'
   OBVIOUS
 <2>1. CASE System BY <2>1, SystemKeeps
 <2>2. CASE Guard
  <3>1. CASE Begin \/ ReadClock BY <3>1, StartsKeep
  <3>2. CASE CaptureFirst \/ CaptureSecond \/ Judge
    BY <3>2, CaptureFirstKeeps, CaptureSecondKeeps, JudgeKeeps
  <3>3. ASSUME NEW n \in Numbers,
               OpenThread(n) \/ Validate(n) \/ TokenFirst(n) \/ ValidateAgain(n) \/ TokenAgain(n)
        PROVE  ObservationInv'
    BY <3>3, OpenKeeps, ValidateKeeps, ValidateAgainKeeps, TokenAgainKeeps
  <3> QED BY <2>2, <3>1, <3>2, <3>3 DEF Guard
 <2>3. CASE UNCHANGED observationVars
   BY <2>3, EvolvesKeeps DEF observationVars, ObservationInv, ThreadsFit, Evolves, Born, IsAlive
 <2> QED BY <2>1, <2>2, <2>3 DEF ObservationNext
<1> QED BY <1>1, <1>2, PTL DEF ObservationSpec

\* A caller is accepted only if the threads at the second list are those of the
\* first and none of them has borne a token from then on (Observe).
THEOREM NothingIsOverlooked == ObservationSpec => []NothingOverlooked
<1>1. ObservationInv => NothingOverlooked BY DEF ObservationInv
<1> QED BY <1>1, ObservationInvariance, PTL
=============================================================================

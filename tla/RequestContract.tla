--------------------------- MODULE RequestContract ---------------------------
(***************************************************************************)
(* What a shared server promises for each client request, whatever the     *)
(* group behind it does: it runs at most once, it is answered at most once *)
(* and by an answer that tells the truth about it, and nothing happens to  *)
(* it afterwards.  "unsent" tells the client that a retry is safe.         *)
(*                                                                         *)
(* Requests live independently: each is a small state machine of its own,  *)
(* and one step of the system may move several of them.                    *)
(***************************************************************************)
EXTENDS Sequences

CONSTANT Requests

VARIABLES
    life,    \* "new", "waiting", "running", "over"
    ran,     \* requests that were given to the server process
    replies  \* the answers given, in order

request(r) == <<life[r], r \in ran, replies[r]>>

New(r) == life[r] = "new" /\ r \notin ran /\ replies[r] = <<>>

Waits(r) ==
    /\ life[r] = "new" /\ life'[r] = "waiting"
    /\ r \notin ran'
    /\ replies'[r] = <<>>

Runs(r) ==
    /\ life[r] \in {"new", "waiting"} /\ life'[r] = "running"
    /\ r \in ran'
    /\ replies'[r] = <<>>

Refused(r) ==
    /\ life[r] \in {"new", "waiting"} /\ life'[r] = "over"
    /\ r \notin ran'
    /\ replies'[r] = <<"unsent">>

Answered(r) ==
    /\ life[r] = "running" /\ life'[r] = "over"
    /\ r \in ran'
    /\ \/ replies'[r] = <<"result">>
       \/ replies'[r] = <<"potentially-executed">>

Step(r) == Waits(r) \/ Runs(r) \/ Refused(r) \/ Answered(r)

Init == \A r \in Requests : New(r)

Next == \A r \in Requests : Step(r) \/ UNCHANGED request(r)

Spec == Init /\ [][Next]_<<life, ran, replies>>
=============================================================================

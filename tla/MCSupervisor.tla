----------------------------- MODULE MCSupervisor -----------------------------
(* Two machines in one run, either of them: two supervisors, two bridges, a  *)
(* stop and two requests about admission; and the broker that ends the       *)
(* processes of version 1.3.                                                 *)
EXTENDS Supervisor, LegacySweep

VARIABLE part

MCInit ==
    /\ Init /\ SweepInit /\ part \in {"supervisors", "sweep"}
    /\ part = "supervisors" => process[Outsider] = NewProcess(1, Root, 0, FALSE)

MCNext ==
    \/ part = "supervisors" /\ Next /\ UNCHANGED <<sweepVars, part>>
    \/ part = "sweep" /\ SweepNext /\ UNCHANGED <<vars, part>>

MCSpec == MCInit /\ [][MCNext]_<<vars, sweepVars, part>>
===============================================================================

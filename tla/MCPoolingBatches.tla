--------------------------- MODULE MCPoolingBatches ---------------------------
(* Two machines in one run, either of them: the batches that requests make,  *)
(* with a worker that is late or dies; and the durable log of the bridge and *)
(* the command that reads it.                                                *)
EXTENDS PoolingBatches, LogFollow

VARIABLE part

MCInit ==
    \/ part = "batches" /\ Init /\ NoRead
    \/ part = "log" /\ Init /\ LogInit

MCNext ==
    \/ part = "batches" /\ Next /\ UNCHANGED <<logVars, part>>
    \/ part = "log" /\ LogNext /\ UNCHANGED <<vars, part>>

MCSpec == MCInit /\ [][MCNext]_<<vars, logVars, part>> /\ Fairness /\ LogFairness
===============================================================================

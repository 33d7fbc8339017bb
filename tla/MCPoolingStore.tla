---------------------------- MODULE MCPoolingStore ----------------------------
(* Four machines in one run, any of them: a bridge that dies, is late, meets  *)
(* a fault or an editor while it applies batches of changes; three processes  *)
(* that want the lock of its files again and again; a page of settings with   *)
(* the bridge behind it, another client, and a network in between; and the    *)
(* launchers of a local qualification run.                                    *)
EXTENDS PoolingStore, StoreLock, Dashboard, LocalRun

CONSTANTS p1, p2, p3

VARIABLE part

MCInit == Init /\ LockInit /\ DashInit /\ LocalInit /\ part \in {"store", "lock", "page", "run"}

MCNext ==
    \/ part = "store" /\ Next /\ UNCHANGED <<lockVars, dashVars, localVars, part>>
    \/ part = "lock" /\ LockNext /\ UNCHANGED <<vars, dashVars, localVars, part>>
    \/ part = "page" /\ DashNext /\ UNCHANGED <<vars, lockVars, localVars, part>>
    \/ part = "run" /\ LocalNext /\ UNCHANGED <<vars, lockVars, dashVars, part>>

MCSpec == MCInit /\ [][MCNext]_<<vars, lockVars, dashVars, localVars, part>>
=============================================================================

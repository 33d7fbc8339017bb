--------------------------- MODULE MCManagedUpgrade ---------------------------
(* Three machines in one run, any of them: one upgrade with a few starts by  *)
(* others, deaths, edits and stops; an upgrade of another account's service  *)
(* with two recoveries, through its task, channel and worker; and the move   *)
(* of a version 1.3 service to a managed instance.                           *)
EXTENDS ManagedUpgrade, TaskTransaction, LegacyUpgrade

VARIABLE part

machines == <<vars, taskVars, legacyVars>>

MCInit == Init /\ TaskInit /\ LegacyInit /\ part \in {"upgrade", "task", "legacy"}

MCNext ==
    \/ part = "upgrade" /\ Next /\ UNCHANGED <<taskVars, legacyVars, part>>
    \/ part = "task" /\ TaskNext /\ UNCHANGED <<vars, legacyVars, part>>
    \/ part = "legacy" /\ LegacyNext /\ UNCHANGED <<vars, taskVars, part>>

MCSpec == MCInit /\ [][MCNext]_<<machines, part>> /\ Fairness
=============================================================================

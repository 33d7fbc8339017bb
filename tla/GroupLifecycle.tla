--------------------------- MODULE GroupLifecycle ---------------------------
(***************************************************************************)
(* The life of one generation of a shared server, as the manager sees it:  *)
(* where the group and its child process stand, whether anybody uses it    *)
(* and whether it has unresolved operations.  SharedGroup implements this  *)
(* in detail; SharedSessions keeps one such life per generation.           *)
(***************************************************************************)

VARIABLES
    state,         \* "starting", "ready", "draining", "stopping", "dead"
    child,         \* "spawning", "alive", "exited", "none"
    killRequested,
    failed,
    used,          \* somebody is attached or waits to be
    busy           \* an operation is unresolved

vars == <<state, child, killRequested, failed, used, busy>>

Gone(c) == c \in {"exited", "none"}

Init ==
    /\ state = "starting" /\ child = "spawning"
    /\ killRequested = FALSE /\ failed = FALSE
    /\ used = TRUE /\ busy = FALSE

\* Users come and go and work starts and ends, where the state admits it.
Serve ==
    /\ state \in {"starting", "ready", "draining"}
    /\ busy' \in BOOLEAN /\ used' \in BOOLEAN
    /\ state = "starting" => ~busy' /\ used'
    /\ state = "draining" => busy'
    /\ UNCHANGED <<state, child, killRequested, failed>>

\* A caller that was still waiting learns of the end.
Leave ==
    /\ state \in {"stopping", "dead"}
    /\ used /\ ~used'
    /\ UNCHANGED <<state, child, killRequested, failed, busy>>

\* The process arrives; one that comes too late is killed.
Spawned ==
    /\ child = "spawning" /\ child' = "alive"
    /\ state \in {"starting", "stopping"}
    /\ killRequested' = (state = "stopping")
    /\ UNCHANGED <<state, failed, used, busy>>

BecomeReady ==
    /\ state = "starting" /\ child = "alive"
    /\ state' = "ready"
    /\ UNCHANGED <<child, killRequested, failed, used, busy>>

\* Only a group with running work drains.
StartDrain ==
    /\ state = "ready" /\ busy
    /\ state' = "draining" /\ failed' \in BOOLEAN
    /\ UNCHANGED <<child, killRequested, used, busy>>

\* The end: for a reason, or because an unused child lingered long enough.  It
\* may be the process itself that ends, or its spawn.
End ==
    /\ state \in {"starting", "ready", "draining"}
    /\ \/ child' = child
       \/ child = "spawning" /\ child' \in {"alive", "exited", "none"}
       \/ child = "alive" /\ child' = "exited"
    /\ state' = IF Gone(child') THEN "dead" ELSE "stopping"
    /\ killRequested' = (child' \in {"alive", "exited"})
    /\ failed => failed'
    /\ failed' \in BOOLEAN
    /\ busy' = FALSE
    /\ used' \in {used, FALSE}

\* The process of a stopped group is gone, or never came.
Retire ==
    /\ state = "stopping" /\ state' = "dead"
    /\ \/ child = "spawning" /\ child' = "exited" /\ killRequested' = TRUE
       \/ child = "spawning" /\ child' = "none" /\ UNCHANGED killRequested
       \/ child = "alive" /\ child' = "exited" /\ UNCHANGED killRequested
    /\ UNCHANGED <<failed, used, busy>>

KillFails ==
    /\ state = "stopping" /\ killRequested
    /\ failed' = TRUE
    /\ UNCHANGED <<state, child, killRequested, used, busy>>

Next == Serve \/ Leave \/ Spawned \/ BecomeReady \/ StartDrain \/ End \/ Retire \/ KillFails

Spec == Init /\ [][Next]_vars
=============================================================================

------------------------------ MODULE MCWarmPool ------------------------------
(* Three machines in one run, any of them: the pool of warm children of a    *)
(* bridge; the job that contains the children of one on Windows; and the     *)
(* guard of an upgrade that looks at the threads of its caller.              *)
EXTENDS WarmPool, ProcessLifetime, CallerObservation

CONSTANTS s1, c1, c2, c3, c4, k1, k2, k3

VARIABLE part

poolVars == vars
machines == <<poolVars, lifetimeVars, observationVars>>

\* A bridge without a pool, while another machine runs.
NoPool ==
    /\ active = 0 /\ queue = <<>> /\ settled = <<>>
    /\ start = [s \in Starts |-> "idle"]
    /\ child = [c \in Children |-> NoChild]
    /\ pool = <<>> /\ pooled = FALSE /\ warmPending = 0
    /\ target = 0 /\ refillDue = FALSE
    /\ upgradeHeld = FALSE /\ shuttingDown = FALSE

MCInit ==
    /\ LifetimeInit /\ ObservationInit
    /\ \/ part = "pool" /\ Init
       \/ part \in {"job", "threads"} /\ NoPool
    /\ part # "threads" => look.role = "admin" /\ primary.admin /\ thread[1].number = 1
    /\ part # "job" => boot.managed

MCNext ==
    \/ /\ part = "pool" /\ Next
       /\ UNCHANGED <<lifetimeVars, observationVars, part>>
    \/ /\ part = "job" /\ LifetimeNext
       /\ UNCHANGED <<poolVars, observationVars, part>>
    \/ /\ part = "job" /\ LifetimeOver /\ UNCHANGED <<machines, part>>
    \/ /\ part = "threads" /\ ObservationNext
       /\ UNCHANGED <<poolVars, lifetimeVars, part>>
    \* A guard comes to an end.
    \/ part = "threads" /\ UNCHANGED <<machines, part>>

MCSpec ==
    /\ MCInit /\ [][MCNext]_<<machines, part>>
    /\ Fairness /\ LifetimeFairness
===============================================================================

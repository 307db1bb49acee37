----------------------------- MODULE MCScheduling -----------------------------
(* Model-checking instance: the sessions that schedule one repository, and *)
(* the kernel lock between them.  SchedulerHost takes from the lock that   *)
(* one session holds it at a time and that the death of a session frees    *)
(* it; SchedulerLock checks both of the code that takes and releases it.   *)
(* The two share no state: the initial state says which is checked, and    *)
(* the other rests, with nothing enabled.                                  *)
EXTENDS SchedulerLock, SchedulerHost

VARIABLE part

MCInit == /\ Init /\ HostInit /\ part \in {"lock", "host"}
MCNext == /\ UNCHANGED part
          /\ \/ part = "lock" /\ Next /\ UNCHANGED hostVars
             \/ part = "host" /\ HostNext /\ UNCHANGED vars
MCSpec == /\ MCInit /\ [][MCNext]_<<vars, hostVars, part>>
          /\ LockFairness /\ HostFairness
=============================================================================

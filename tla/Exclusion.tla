------------------------------ MODULE Exclusion ------------------------------
(***************************************************************************)
(* What deadloop's two file locks promise: one process at a time is inside.*)
(* Each lock keeps the promise only until something its own code does (see *)
(* the refinements in EnablementLock and SchedulerLock) has spoiled it;    *)
(* `spoiled` says whether that happened.                                   *)
(***************************************************************************)
CONSTANT Processes

VARIABLES inside, spoiled

Init == inside = {} /\ spoiled = FALSE

Enter(p) ==
  /\ p \notin inside
  /\ inside = {} \/ spoiled
  /\ inside' = inside \cup {p}
  /\ spoiled' = spoiled

(* A process leaves by releasing the lock, or by dying.                    *)
Leave(p) ==
  /\ p \in inside
  /\ inside' = inside \ {p}
  /\ spoiled' \in {spoiled, TRUE}

Spoil == spoiled' = TRUE /\ inside' = inside

Next == Spoil \/ \E p \in Processes : Enter(p) \/ Leave(p)

Spec == Init /\ [][Next]_<<inside, spoiled>>

=============================================================================

-------------------------- MODULE MCIssueCoordinator ---------------------------
(* Two machines with a driver each and two Issues; GitHub records that the
   second waits for the first, whose text names an Issue of another repository. *)
EXTENDS IssueCoordinator

MCBody == [i \in Issues |-> IF i = 1 THEN {[repository |-> "elsewhere", number |-> 2]} ELSE {}]
MCRelated == [i \in Issues |-> IF i = 2 THEN {1} ELSE {}]
MCStarts ==
  {[i \in Issues |-> <<"worker", "contract", IF i = 1 THEN pull ELSE "none">>]
     : pull \in {"none", "closed"}}
MCMachineOf == [d \in Drivers |-> IF d = "d1" THEN "m1" ELSE "m2"]
================================================================================

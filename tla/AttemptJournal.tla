---------------------------- MODULE AttemptJournal ----------------------------
(***************************************************************************)
(* What the journal of one attempt promises to everyone who reads it       *)
(* (src/attempt-lifecycle.ts): the phases follow one another one at a      *)
(* time, a launch fails or authority is released from any phase that is    *)
(* not final, and a final phase stays.  `last` is lastSuccessfulPhase.     *)
(*                                                                         *)
(* The code enforces this on each write by throwing; a component that      *)
(* implements this specification never has such a write refused.           *)
(***************************************************************************)
EXTENDS Sequences, Naturals

VARIABLES phase, last

journal == <<phase, last>>

SuccessPhases ==
  <<"prepared", "github_claimed", "workspace_opened", "agent_started",
    "report_received", "github_persisted", "workspace_closed">>
Succession == {<<SuccessPhases[i], SuccessPhases[i + 1]>> : i \in 1..6}
Successes == {"prepared", "github_claimed", "workspace_opened", "agent_started",
              "report_received", "github_persisted", "workspace_closed"}
Phases == Successes \cup {"launch_failed", "abandoned", "authority_released"}

(* Phases after which the attempt owns nothing any more.                   *)
ReleasingPhases == {"workspace_closed", "abandoned", "authority_released"}

Init == phase = "prepared" /\ last = "prepared"

Advance == /\ <<phase, phase'>> \in Succession
           /\ last' = phase'

FailLaunch == /\ phase \notin ReleasingPhases \cup {"launch_failed"}
              /\ phase' = "launch_failed" /\ UNCHANGED last

ReleaseAuthority == /\ phase \notin ReleasingPhases
                    /\ phase' = "authority_released" /\ UNCHANGED last

Abandon == /\ phase = "launch_failed" /\ last = "workspace_opened"
           /\ phase' = "abandoned" /\ UNCHANGED last

Next == Advance \/ FailLaunch \/ ReleaseAuthority \/ Abandon

Spec == Init /\ [][Next]_journal
=============================================================================

---------------------------- MODULE IssueSelection ----------------------------
(***************************************************************************)
(* The pure decisions of the issue coordinator: which Issue of a listing   *)
(* is selected, for which role, and which next action its text asks for    *)
(* (issue-coordinator-decisions.cts, issue-coordinator-flow.cts), and the  *)
(* plan of a required-verification stop                                    *)
(* (issue-required-verification-stop.cts).  An Issue is a record: its text *)
(* is known by what the gates read in it, its timeline by which requests   *)
(* are newer than the standing block.                                      *)
(***************************************************************************)
EXTENDS Naturals, Sequences, FiniteSets

CONSTANTS
  Issues,   \* the numbers of the Issues of the repository
  Body,     \* Body[i]: the references in the text of Issue i
  Related,  \* Related[i]: the Issues GitHub records as blocking Issue i
  Prints,   \* the fingerprints of the ways a policy can be blocked
  Nobody    \* nobody, or nothing

Roles == {"explorer", "worker"}
AllTexts == {"contract", "bare", "plan"}
Repositories == {"here", "elsewhere"}
\* who raised the block of an Issue
Blockers == {"person", "stop", "planning", "ambiguous", "attempt"}

ASSUME IssuesAreNumbers == Issues \subseteq Nat /\ IsFiniteSet(Issues)
ASSUME ReferencesAreNumbers ==
  /\ Body \in [Issues -> SUBSET [repository: Repositories, number: Nat]]
  /\ Related \in [Issues -> SUBSET Issues]
ASSUME NobodyIsNobody == Nobody \notin Prints \cup Blockers \cup {"resolved"}

\* asked: the request labels; number[role]: counts the request events of a role, so
\* it names the last one; since: the numbers when the standing block was raised;
\* removed[role]: the number when an automation identity last removed the label.
Issue == [open: BOOLEAN, asked: SUBSET Roles, number: [Roles -> Nat], since: [Roles -> Nat],
          removed: [Roles -> Nat], progress: BOOLEAN, triage: BOOLEAN, aside: BOOLEAN,
          block: Blockers \cup {Nobody}, text: AllTexts,
          marks: Seq(Prints), said: SUBSET {"contract", "planning", "unknown"}]

Labels(is) == <<is.asked, is.progress, is.triage, is.aside, is.block # Nobody>>
SameLaunchTarget(seen, live) ==
  seen.text = live.text /\ Labels(seen) = Labels(live)

--------------------------------------------------------------------------
(* The decision *)

\* A bare number and a reference that names this repository are its Issues;
\* a reference into another repository is no dependency here.
BodyDependencies(i) == {r.number : r \in {s \in Body[i] : s.repository = "here"}}

\* The lookup of the recorded relationships fails open: it answers "none".
Dependencies(i, blind) == BodyDependencies(i) \cup IF blind THEN {} ELSE Related[i]

\* A number no Issue of the repository has is unknown, and unknown is not closed.
ClosedIn(now, n) == n \in Issues /\ ~now[n].open
OpenDependencies(i, now, blind) == {n \in Dependencies(i, blind) : ~ClosedIn(now, n)}
Unresolved(i) == BodyDependencies(i) \ Issues

PassesLabelGate(is) == ~is.progress /\ ~is.aside
RecoveryIsEligible(is, role) == is.block = Nobody \/ is.number[role] > is.since[role]
Requested(is, role) ==
  role \in is.asked /\ PassesLabelGate(is) /\ RecoveryIsEligible(is, role)

Selectable(list, now, i, role, blind) ==
  /\ Requested(list[i], role)
  /\ role = "worker" => OpenDependencies(i, now, blind) = {}

\* the listing is of the open Issues
Candidates(list, now, role, blind) ==
  {i \in Issues : list[i].open /\ Selectable(list, now, i, role, blind)}
Lowest(S) == CHOOSE i \in S : \A j \in S : i <= j

\* exploration before implementation, and within a role the lowest number
SelectedRole(list, now, blind) ==
  IF Candidates(list, now, "explorer", blind) # {} THEN "explorer"
  ELSE IF Candidates(list, now, "worker", blind) # {} THEN "worker" ELSE "none"
SelectedIssue(list, now, blind) ==
  Lowest(Candidates(list, now, SelectedRole(list, now, blind), blind))

HasImplementationContract(is) == is.text # "bare"
IsBlockedPlanningIssue(is) == is.text = "plan"
PlanKind(is, role) ==
  IF role = "explorer" THEN "explorer"
  ELSE IF ~HasImplementationContract(is) THEN "contract_missing"
  ELSE IF IsBlockedPlanningIssue(is) THEN "planning_blocked" ELSE "worker"

\* mutant: the revalidation does not ask for the recorded relationships
LiveKindByText(now, i, blind) ==
  IF Selectable(now, now, i, "explorer", TRUE) THEN "explorer"
  ELSE IF Selectable(now, now, i, "worker", TRUE) THEN PlanKind(now[i], "worker") ELSE "none"
\* What the same decision says of one live Issue, for every role in turn; it
\* does not ask whether the Issue is still open.
LiveKind(now, i, blind) ==
  IF Selectable(now, now, i, "explorer", blind) THEN "explorer"
  ELSE IF Selectable(now, now, i, "worker", blind) THEN PlanKind(now[i], "worker") ELSE "none"

SkippedAsUnknown(list, now, blind) ==
  {i \in Issues : list[i].open /\ Requested(list[i], "worker") /\ Unresolved(i) # {}
                  /\ OpenDependencies(i, now, blind) # {}}

--------------------------------------------------------------------------
(* The required-verification stop *)

\* only the first marker of an Issue's comments is read
FirstMark(is) == IF is.marks = <<>> THEN Nobody ELSE Head(is.marks)
IsMarked(is, print) == \E k \in DOMAIN is.marks : is.marks[k] = print
IsExactDurableStop(is) ==
  /\ is.open /\ is.block # Nobody /\ is.marks # <<>>
  /\ "worker" \notin is.asked /\ ~is.progress
IsResumableStop(is, print) == is.open /\ FirstMark(is) = print /\ ~IsExactDurableStop(is)

Blocked(is, who) ==
  IF is.block = Nobody THEN [is EXCEPT !.block = who, !.since = is.number] ELSE is
Unblocked(is) == [is EXCEPT !.block = Nobody, !.since = [r \in Roles |-> 0]]
WithoutRequest(is, role) ==
  [is EXCEPT !.asked = @ \ {role},
             !.removed = IF role \in is.asked THEN [@ EXCEPT ![role] = is.number[role]] ELSE @]

StopComment(is, print) == [is EXCEPT !.marks = Append(@, print)]
StopMove(is) == Blocked([WithoutRequest(is, "worker") EXCEPT !.progress = FALSE], "stop")
================================================================================

--------------------------- MODULE IssueTimeline ---------------------------
(***************************************************************************)
(* The public timeline of one GitHub Issue and the questions the code in   *)
(* src/issue-request-transition.cts asks of it.                            *)
(*                                                                         *)
(* GitHub orders an Issue's events; an event's id is its position here, so *)
(* `compareIssueTimelineEvents` (time, then id) is the order on positions. *)
(* Every question is a function of a timeline `evs`, which may be only the *)
(* part of the public timeline a host has been shown. 0 is "no event".     *)
(***************************************************************************)
EXTENDS Naturals, Sequences, FiniteSets

CONSTANTS
  Logins,   \* the authorized automation identities (automationLogins)
  Person    \* every other author: a human, or an unauthorized account

ASSUME PersonAssumption == Person \notin Logins

RequestLabels == {"explore", "implement"}
Labels  == RequestLabels \cup {"inProgress", "blocked"}
Authors == Logins \cup {Person}
Event   == [act : {"labeled", "unlabeled"}, label : Labels, by : Authors]

Latest(S)   == IF S = {} THEN 0 ELSE CHOOSE i \in S : \A j \in S : j <= i
Earliest(S) == IF S = {} THEN 0 ELSE CHOOSE i \in S : \A j \in S : i <= j

(* The newest event that touched a label, and whether it left it present.  *)
LabelEvent(evs, l) == Latest({i \in DOMAIN evs : evs[i].label = l})

IssueLabelIsActive(evs, l) ==
  LET i == LabelEvent(evs, l) IN i # 0 /\ evs[i].act = "labeled"

ActiveIssueRequestEvent(evs, l) ==
  IF IssueLabelIsActive(evs, l) THEN LabelEvent(evs, l) ELSE 0

(* The label set GitHub shows when the timeline is evs.                    *)
LiveLabels(evs) == {l \in Labels : IssueLabelIsActive(evs, l)}

(* GitHub adds a label idempotently (no second event) and answers 404 to   *)
(* the removal of an absent label (no event).                              *)
WithLabel(evs, l, who) ==
  IF l \in LiveLabels(evs) THEN evs
  ELSE Append(evs, [act |-> "labeled", label |-> l, by |-> who])

WithoutLabel(evs, l, who) ==
  IF l \notin LiveLabels(evs) THEN evs
  ELSE Append(evs, [act |-> "unlabeled", label |-> l, by |-> who])

(* A block is a stop the request r answers only when r is newer than it.   *)
RecoveryBlockCanBeCleared(evs, r) ==
  LET b == LabelEvent(evs, "blocked") IN
  /\ b # 0 /\ evs[b].act = "labeled"
  /\ r \in DOMAIN evs /\ evs[r].act = "labeled" /\ b < r

RecoveryRequestIsEligible(evs, l) ==
  LET r == ActiveIssueRequestEvent(evs, l) IN
  r # 0 /\ RecoveryBlockCanBeCleared(evs, r)

(* The last proof before the active-state event a that nothing was in      *)
(* flight: a released active state, or a stop raised or cleared.           *)
AttemptWindowStart(evs, a) ==
  Latest({i \in DOMAIN evs :
            /\ i < a
            /\ \/ evs[i].label = "inProgress" /\ evs[i].act = "unlabeled"
               \/ evs[i].label = "blocked"})

Consumptions(evs, a) ==
  {i \in DOMAIN evs :
     /\ i < a /\ AttemptWindowStart(evs, a) < i
     /\ evs[i].act = "unlabeled" /\ evs[i].label \in RequestLabels
     /\ evs[i].by \in Logins}

(* The consumption that owns the active state a: the last one of the       *)
(* highest-priority role (exploration first) inside a's window.            *)
ActiveStateOwner(evs, a) ==
  LET cs == Consumptions(evs, a)
      explorations == {i \in cs : evs[i].label = "explore"}
  IN  IF explorations # {} THEN Latest(explorations) ELSE Latest(cs)

(* The event of the active state in force.                                 *)
LiveActiveState(evs) == ActiveIssueRequestEvent(evs, "inProgress")

=============================================================================

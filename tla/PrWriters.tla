------------------------------ MODULE PrWriters ------------------------------
(***************************************************************************)
(* The attempts that push: a repair and a branch update.  Their agents go  *)
(* through a finalizer (pr-review-repair-finalize.cts,                     *)
(* pr-branch-update-finalize.cts) that pushes with a lease on the head it  *)
(* read; what the finalizer did is reported, commented and turned into a   *)
(* review request by pr-review-repair-complete.cts, or by                  *)
(* pr-branch-update-complete.cts and persist-attempt-result.cts.           *)
(* A push to the branch of a closed pull request is not modelled.          *)
(***************************************************************************)
EXTENDS PrClosure

Agent(a, change) == attempts' = [attempts EXCEPT ![a] = change]
Reported(j, report, out) == [j EXCEPT !.report = report, !.out = out, !.agent = "idle"]
Writes(a) == attempts[a].role # "reviewer"
Alone == UNCHANGED <<said, host>> /\ Smooth

(* A reviewer only reads.                                                  *)
ReviewerReports(a) ==
  /\ attempts[a].agent = "working" /\ ~Writes(a) /\ Alone /\ UNCHANGED pr
  /\ \E report \in Outcomes \cap Reports.reviewer :
       Agent(a, Reported(attempts[a], report, 0))
(* A writer that gives up before its push.                                 *)
WriterGivesUp(a) ==
  /\ attempts[a].agent = "working" /\ Writes(a) /\ "blocked" \in Outcomes
  /\ Alone /\ UNCHANGED pr /\ Agent(a, Reported(attempts[a], "blocked", 0))

(* decidePushGuard, decideRepairPushGuard and, for a repair only, the look *)
(* at its claim immediately before the push.                               *)
MayPush(a) == /\ OnTarget(attempts[a].head)
              /\ attempts[a].role = "review-repair" => Managed
MayPushUnclaimed(a) == OnTarget(attempts[a].head)
Finalize(a) ==
  /\ attempts[a].agent = "working" /\ Writes(a) /\ Alone /\ UNCHANGED pr
  /\ Agent(a, CASE MayPush(a) -> [attempts[a] EXCEPT !.agent = "checked"]
                [] Open /\ pr.head # attempts[a].head ->
                     Reported(attempts[a], "stale_head", pr.head)
                [] OTHER -> Reported(attempts[a], "blocked", 0))

(* `git push --force-with-lease`: refused when the head moved.             *)
LeaseHolds(a) == pr.head = attempts[a].head
PushConditionally(a) ==
  /\ attempts[a].agent = "checked" /\ Alone
  /\ IF Open /\ LeaseHolds(a)
     THEN /\ pr' = [pr EXCEPT !.head = @ + 1, !.history = @ + 1,
                              !.conflict = @ /\ ~(/\ attempts[a].role = "branch-update"
                                                  /\ attempts[a].base = pr.base)]
          /\ Agent(a, [attempts[a] EXCEPT !.agent = "pushed", !.out = pr.head + 1])
     ELSE /\ UNCHANGED pr
          /\ Agent(a, IF Open THEN Reported(attempts[a], "stale_head", pr.head)
                      ELSE Reported(attempts[a], "blocked", 0))
ReportPush(a) ==
  /\ attempts[a].agent = "pushed" /\ Alone /\ UNCHANGED pr
  /\ Agent(a, Reported(attempts[a], "pushed", attempts[a].out))

Agents == \E a \in AttemptIds : \/ ReviewerReports(a) \/ WriterGivesUp(a) \/ Finalize(a)
                                \/ PushConditionally(a) \/ ReportPush(a)

-----------------------------------------------------------------------------
(* A repair's completion.  What it refuses, processRepair takes as handled *)
(* and keeps the workspace; reconciliation hears of the refusal.           *)
Pushed == Journal.report = "pushed"
OnResult == OnTarget(IF Pushed THEN Journal.out ELSE Journal.head) /\ Managed
Leave == IF ByReconciliation THEN Retain ELSE Settle
ThrowRepair == IF ByReconciliation THEN Go("refused") /\ UNCHANGED attempts ELSE Settle
CloseWriter == UNCHANGED attempts /\ ThenClose("writer")

RepairCompletion ==
  /\ At("repair") /\ UNCHANGED <<pr, said>> /\ Smooth
  /\ CASE ~Open -> Leave
       [] Open /\ Journal.report = "stale_head" /\ pr.head # Journal.head -> CloseWriter
       [] Open /\ Journal.report = "pushed" /\ OnResult ->
            /\ Go(IF ResultPersisted THEN "repair_move" ELSE "repair_say")
            /\ UNCHANGED attempts
       [] Open /\ Journal.report = "blocked" /\ OnResult ->
            /\ Go(IF said[host.a].block > 0 THEN "repair_stop_move" ELSE "repair_stop")
            /\ UNCHANGED attempts
       [] OTHER -> Leave
RepairSay ==
  /\ At("repair_say") /\ Smooth
  /\ IF ~OnResult THEN ThrowRepair /\ UNCHANGED <<pr, said>>
     ELSE Commented /\ Told(host.a, "result") /\ Go("repair_look") /\ UNCHANGED attempts
(* The comment is taken back when the target changed while it was posted.  *)
RepairLook ==
  /\ At("repair_look") /\ Smooth
  /\ IF OnResult THEN Go("repair_move") /\ UNCHANGED <<pr, said, attempts>>
     ELSE /\ Leave /\ said' = [said EXCEPT ![host.a].result = 0]
          /\ pr' = [pr EXCEPT !.history = @ + 1]
RepairMove ==
  /\ At("repair_move") /\ UNCHANGED said /\ Smooth
  /\ IF OnResult THEN Moved({"progress"}, {"review"}) /\ CloseWriter
     ELSE ThrowRepair /\ UNCHANGED pr
RepairStop ==
  /\ At("repair_stop") /\ Smooth
  /\ IF ~OnResult THEN ThrowRepair /\ UNCHANGED <<pr, said>>
     ELSE Commented /\ Told(host.a, "block") /\ Go("repair_stop_move") /\ UNCHANGED attempts
RepairStopMove ==
  /\ At("repair_stop_move") /\ UNCHANGED said /\ Smooth
  /\ IF OnResult THEN Moved(Requests \cup {"progress"}, {"blocked"}) /\ Leave
     ELSE ThrowRepair /\ UNCHANGED pr

-----------------------------------------------------------------------------
(* A branch update's completion: the claim, and no request beside it.      *)
UpdateHandled == /\ UNCHANGED attempts
                 /\ IF ByReconciliation THEN To("patrol") ELSE Go("update_say")
UpdateCompletion ==
  /\ At("update") /\ UNCHANGED said /\ Smooth
  /\ CASE Journal.report = "blocked" -> Leave /\ UNCHANGED pr
       [] Journal.report = "stale_head" -> CloseWriter /\ UNCHANGED pr
       [] Pushed /\ OnTarget(Journal.out) /\ pr.labels = {"review"} ->
            UpdateHandled /\ UNCHANGED pr
       [] Pushed /\ OnTarget(Journal.out) /\ pr.labels = {"progress"} ->
            Moved({"progress"}, {"review"}) /\ UpdateHandled
       [] OTHER -> Refuse /\ UNCHANGED pr
(* persist-attempt-result.cts: the marker, once, while the head is its own.*)
UpdateSay ==
  /\ At("update_say") /\ Smooth
  /\ CASE ~OnTarget(Journal.out) -> Retain /\ UNCHANGED <<pr, said>>
       [] OnTarget(Journal.out) /\ ResultPersisted -> CloseWriter /\ UNCHANGED <<pr, said>>
       [] OTHER -> Commented /\ Told(host.a, "result") /\ CloseWriter

Completions ==
  \/ RepairCompletion \/ RepairSay \/ RepairLook \/ RepairMove \/ RepairStop
  \/ RepairStopMove \/ UpdateCompletion \/ UpdateSay
=============================================================================

------------------------------ MODULE PrReview ------------------------------
(***************************************************************************)
(* What becomes of a reviewer's report:                                    *)
(* complete-deterministic-pr-attempt.cts `processReviewer` and what it     *)
(* runs: pr-review-repair-dispatch.cts (the report judged against the      *)
(* review history, the comment, the label move), handoff-reviewed-pr.cts,  *)
(* merge-reviewed-pr.cts and complete-attempt-workspace.cts, which closes  *)
(* the workspace of every role.                                            *)
(***************************************************************************)
EXTENDS PrState

(* The history the report is judged against: the one saved after this      *)
(* attempt's own comment, else the one the reviewer was launched with.     *)
Baseline == IF Journal.accepted # 0 THEN Journal.accepted ELSE Journal.history
Unchanged == pr.history = Baseline
TargetUnchanged == OnTarget(Journal.head)
Claimed == TargetUnchanged /\ Managed
(* assertSameLaunchTarget: nothing the judge saw has changed.              *)
SameTarget == TargetUnchanged /\ pr.labels = host.saw

(* What processReviewer does after a dispatch that released the claim.     *)
ThenClose(want) ==
  IF ByReconciliation THEN To("patrol")
  ELSE host' = [host EXCEPT !.pc = "close", !.want = want]
(* Mutant: the claim is left on, as if the release could wait.             *)
ReleaseNothing == ThenClose("stale") /\ UNCHANGED pr
(* releaseObservedStaleReviewHistory.                                      *)
ReleaseStale ==
  /\ ThenClose("stale")
  /\ IF Claimed THEN Moved({"progress"}, {"review"}) ELSE UNCHANGED pr

(* The technical failures already recorded at this head.                   *)
TechnicalFailures == {a \in AttemptIds : /\ attempts[a].head = Journal.head
                                         /\ said[a].technical > 0}
(* A review of this head asked for a repair before; an equal list of       *)
(* findings is that repair, and an attempt's own list is equal to itself.  *)
RepairAsked == \E a \in AttemptIds : /\ attempts[a].head = Journal.head
                                     /\ attempts[a].report = "changes_requested"
                                     /\ said[a].result > 0
SameFindings == IF said[host.a].result > 0 THEN {TRUE} ELSE {FALSE, RepairAsked}
Transition(again) ==
  CASE Journal.report = "storage" -> "block_say"
    [] Journal.report = "blocked" -> IF TechnicalFailures = {} THEN "retry_say" ELSE "block_say"
    [] Journal.report = "changes_requested" /\ again -> "queue"
    [] OTHER -> "say"

(* The required verification of the worktree runs first when it approved.  *)
Judge ==
  /\ At("judge") /\ UNCHANGED said /\ Smooth
  /\ IF Journal.report = "approved"
     THEN \E outcome \in {"passed", "failed"} :
            Write("verified", IF Journal.verified = "none" THEN outcome ELSE Journal.verified)
     ELSE UNCHANGED attempts
  /\ IF ~Unchanged THEN ReleaseStale
     ELSE /\ \E again \in SameFindings :
               host' = [host EXCEPT !.pc = Transition(again), !.saw = pr.labels]
          /\ UNCHANGED pr

-----------------------------------------------------------------------------
(* Mutant: the comment is posted on every run.                             *)
SayAgain == TRUE
(* A push or a close after the first look is found by a later one, of the  *)
(* history or of the head, which leaves the labels to reconciliation.      *)
SeenLater == ~TargetUnchanged /\ ThenClose("stale")
(* The comment of a review result, at most once for its fingerprint.       *)
ToSay == said[host.a].result = 0
Say ==
  /\ At("say") /\ Smooth /\ UNCHANGED attempts
  /\ CASE ~(SameTarget /\ Managed) -> (Refuse \/ SeenLater) /\ UNCHANGED <<pr, said>>
       [] SameTarget /\ Managed /\ ~Unchanged -> ReleaseStale /\ UNCHANGED said
       [] SameTarget /\ Managed /\ Unchanged
          /\ Journal.report = "approved" /\ Journal.verified # "passed" ->
            Go("stop_say") /\ UNCHANGED <<pr, said>>
       [] OTHER ->
            /\ host' = [host EXCEPT !.pc = "accept", !.made = IF ToSay THEN 1 ELSE 0]
            /\ IF ToSay THEN Commented /\ Told(host.a, "result") ELSE UNCHANGED <<pr, said>>

(* The history must have moved by that comment and nothing else.           *)
AfterAccept ==
  CASE Journal.report = "approved"       -> IF Journal.auto THEN "gate" ELSE "handoff"
    [] Journal.report = "human_required" -> "ready"
    [] OTHER                             -> "close"
Accept ==
  /\ At("accept") /\ UNCHANGED said /\ Smooth
  /\ IF pr.history # Baseline + host.made THEN ReleaseStale /\ UNCHANGED attempts
     ELSE /\ Write("accepted", pr.history) /\ UNCHANGED pr
          /\ host' = [host EXCEPT !.pc = AfterAccept, !.want = "progress"]

-----------------------------------------------------------------------------
(* A person must decide: the draft leaves first, then every agent label.   *)
AgentWorkflowLabels == Labels
(* Mutant: the labels go and the draft stays.                              *)
HumanStillDraft ==
  /\ At("ready") /\ UNCHANGED <<pr, said, attempts>> /\ Smooth
  /\ IF Claimed THEN Go("release") ELSE Refuse
HumanReady ==
  /\ At("ready") /\ UNCHANGED <<said, attempts>> /\ Smooth
  /\ IF Claimed THEN /\ pr' = [pr EXCEPT !.draft = FALSE] /\ Go("release")
     ELSE Refuse /\ UNCHANGED pr
HumanRelease ==
  /\ At("release") /\ UNCHANGED said /\ Smooth
  /\ IF ~Claimed THEN Refuse /\ UNCHANGED pr
     ELSE /\ Moved(AgentWorkflowLabels, {}) /\ UNCHANGED attempts
          /\ ThenClose("handoff")

(* queueRepairRequest: the request goes on before the claim comes off.     *)
Queue ==
  /\ At("queue") /\ UNCHANGED said /\ Smooth
  /\ CASE ~TargetUnchanged -> Retain /\ UNCHANGED pr
       [] TargetUnchanged /\ ~Managed -> Settle /\ UNCHANGED pr
       [] OTHER -> Moved({}, {"implement"}) /\ Go("queue_move") /\ UNCHANGED attempts
QueueMove ==
  /\ At("queue_move") /\ UNCHANGED said /\ Smooth
  /\ IF Claimed THEN Moved({"progress"}, {}) /\ Settle ELSE Retain /\ UNCHANGED pr

-----------------------------------------------------------------------------
(* A reviewer that failed: once per head the review is asked for again,    *)
(* then, and when the host's disk is full, the pull request is blocked.    *)
SayUnderClaim(stage, what, next) ==
  /\ At(stage) /\ Smooth /\ UNCHANGED attempts
  /\ CASE ~(SameTarget /\ Managed) -> Refuse /\ UNCHANGED <<pr, said>>
       [] SameTarget /\ Managed /\ ~Unchanged -> ReleaseStale /\ UNCHANGED said
       [] OTHER -> Commented /\ Told(host.a, what) /\ Go(next)
RetrySay == SayUnderClaim("retry_say", "technical", "retry_move")
RetryMove ==
  /\ At("retry_move") /\ UNCHANGED <<said, attempts>> /\ Smooth
  /\ IF ~Claimed THEN Refuse /\ UNCHANGED pr
     ELSE Moved({"progress"}, {"review"}) /\ ThenClose("review")
BlockSay == SayUnderClaim("block_say", "block", "block_move")
BlockMove ==
  /\ At("block_move") /\ UNCHANGED said /\ Smooth
  /\ IF ~Claimed THEN Retain /\ UNCHANGED pr
     ELSE Moved(Requests \cup {"progress"}, {"blocked"}) /\ Settle

(* The verification did not pass: the review stays asked for, blocked.     *)
StopHolds == /\ TargetUnchanged
             /\ \/ "progress" \in pr.labels
                \/ "blocked" \in pr.labels /\ \E a \in AttemptIds : said[a].stop > 0
StopSay ==
  /\ At("stop_say") /\ Smooth /\ UNCHANGED attempts
  /\ IF ~StopHolds THEN Refuse /\ UNCHANGED <<pr, said>>
     ELSE /\ Go("stop_move")
          /\ IF said[host.a].stop > 0 THEN UNCHANGED <<pr, said>>
             ELSE Commented /\ Told(host.a, "stop")
StopMove ==
  /\ At("stop_move") /\ UNCHANGED said /\ Smooth
  /\ IF ~StopHolds THEN Retain /\ UNCHANGED pr
     ELSE Moved({"implement", "update", "progress"}, {"review", "blocked"}) /\ Settle
=============================================================================

------------------------------- MODULE PrMerge -------------------------------
(***************************************************************************)
(* What follows an approval: the merge when the project's policy merges    *)
(* automatically (merge-reviewed-pr.cts), else the handoff of a ready pull *)
(* request to people (handoff-reviewed-pr.cts).  Both hold the enablement  *)
(* lock throughout, which keeps no person out of GitHub: every observation *)
(* the code makes before its write is a step, two in a row with no write   *)
(* between them are one.                                                   *)
(***************************************************************************)
EXTENDS PrReview

AssertReviewHistoryFresh == pr.history = Journal.accepted
(* assertMergeTargetUnchanged; what GitHub itself asks of a merge.         *)
AssertMergeTargetUnchanged == Claimed
Mergeable == ~pr.draft /\ ~pr.conflict

(* ci-fallback-gate.cts: the checks of the head allow the merge or stop it.*)
CiFallbackGate ==
  /\ At("gate") /\ UNCHANGED <<pr, said>> /\ Smooth
  /\ \/ Go("merge") /\ UNCHANGED attempts
     \/ Retain

(* Policy, approval, verification, history and target, then ready.         *)
MarkReadyForMerge ==
  /\ At("merge") /\ UNCHANGED said /\ Smooth
  /\ IF host.auto /\ AssertReviewHistoryFresh /\ AssertMergeTargetUnchanged
     THEN /\ pr' = [pr EXCEPT !.draft = FALSE]
          /\ Go("merge_fresh") /\ UNCHANGED attempts
     ELSE Retain /\ UNCHANGED pr
AssertFreshBeforeMerge ==
  /\ At("merge_fresh") /\ UNCHANGED <<pr, said>> /\ Smooth
  /\ IF /\ host.auto /\ AssertReviewHistoryFresh
        /\ AssertMergeTargetUnchanged /\ Mergeable
     THEN Go("merge_target") /\ UNCHANGED attempts ELSE Retain
(* After the last look at the history: eligibility and target once more.   *)
RevalidateMergeTarget ==
  /\ At("merge_target") /\ UNCHANGED <<pr, said>> /\ Smooth
  /\ IF AssertMergeTargetUnchanged /\ Mergeable
     THEN Go("merge_now") /\ UNCHANGED attempts ELSE Retain
(* `gh pr merge --match-head-commit`: GitHub compares the head, not labels.*)
MatchAnyHead    == Open     \* mutant: the option is left out
MatchHeadCommit == OnTarget(Journal.head)
MergeReviewedPr ==
  /\ At("merge_now") /\ UNCHANGED said /\ Smooth
  /\ IF MatchHeadCommit /\ Mergeable
     THEN /\ pr' = [pr EXCEPT !.state = "merged", !.history = @ + 1]
          /\ host' = [host EXCEPT !.pc = "close", !.want = "progress"]
          /\ UNCHANGED attempts
     ELSE Retain /\ UNCHANGED pr

-----------------------------------------------------------------------------
(* Another review for a history that changed: the claim is not looked at.  *)
ReleaseStaleClaim ==
  /\ Moved({"progress"}, {"review"})
  /\ host' = [host EXCEPT !.pc = "close", !.want = "handoff"]

HandoffReviewedPr ==
  /\ At("handoff") /\ UNCHANGED <<said, attempts>> /\ Smooth
  /\ CASE host.auto -> Retain /\ UNCHANGED pr
       [] ~host.auto /\ ~AssertReviewHistoryFresh -> ReleaseStaleClaim
       [] ~host.auto /\ AssertReviewHistoryFresh /\ ~Claimed -> Retain /\ UNCHANGED pr
       [] OTHER -> Go("hand_ready") /\ UNCHANGED pr
HandoffReady ==
  /\ At("hand_ready") /\ UNCHANGED <<said, attempts>> /\ Smooth
  /\ IF pr.draft /\ ~Open THEN Retain /\ UNCHANGED pr
     ELSE Go("hand_labels") /\ pr' = [pr EXCEPT !.draft = FALSE]
HandoffLabels ==
  /\ At("hand_labels") /\ UNCHANGED <<said, attempts>> /\ Smooth
  /\ Moved(AgentWorkflowLabels, {}) /\ Go("hand_confirm")
(* The shared definition of a handoff: ready, and no agent label left.     *)
HumanHandoffComplete == ~pr.draft /\ pr.labels \cap AgentWorkflowLabels = {}
(* Anything else by now: the claim is put back and the handoff kept.       *)
AssertHandoffApplied ==
  /\ At("hand_confirm") /\ UNCHANGED <<said, attempts>> /\ Smooth
  /\ IF TargetUnchanged /\ HumanHandoffComplete /\ AssertReviewHistoryFresh
     THEN /\ host' = [host EXCEPT !.pc = "close", !.want = "handoff"]
          /\ UNCHANGED pr
     ELSE Moved({}, {"progress"}) /\ Retain
=============================================================================

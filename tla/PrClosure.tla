------------------------------ MODULE PrClosure ------------------------------
(***************************************************************************)
(* complete-attempt-workspace.cts: an attempt's workspace is closed once   *)
(* the pull request shows that its result was published and the claim was  *)
(* moved on, and src/attempt-workspace-lifecycle.ts decides what shows it. *)
(* Every completion ends here; so does the patrol of the journals          *)
(* (index.ts) and the closing of a workspace whose handoff is settled      *)
(* (src/settled-workspace-closure.cts).                                    *)
(***************************************************************************)
EXTENDS PrMerge

(* The head the pull request must show: the one it pushed or found, else   *)
(* the one it read.                                                        *)
OutputRevision == IF Journal.out # 0 THEN Journal.out ELSE Journal.head
(* Mutant: a report is taken for its publication.                          *)
ReportIsEnough == Complete(host.a)
ResultPersisted == said[host.a].result > 0

(* Mutant: nothing but the result's own marker closes a workspace.         *)
MarkerOnly == FALSE
(* staleReviewReleaseConfirmed: a review this attempt did not consume is   *)
(* asked for, and nothing older.                                           *)
StaleReviewReleaseConfirmed ==
  /\ pr.head = Journal.head
  /\ pr.labels \cap {"progress", "blocked"} = {}
  /\ Waiting(pr.labels)
  /\ \A l \in pr.labels \cap Requests : pr.born[l] > Journal.born

(* evaluateCompletionPersistence, with the labels each caller expects.     *)
CompletionPersisted ==
  CASE host.want = "stale"    -> \/ StaleReviewReleaseConfirmed
                                 \/ ResultPersisted /\ pr.labels = {"review"}
    [] host.want = "review"   -> ResultPersisted /\ pr.labels = {"review"}
    [] host.want = "progress" -> ResultPersisted /\ pr.labels = {"progress"}
    [] host.want = "both"     -> /\ ResultPersisted
                                 /\ pr.labels \ {"implement", "update"} = {"review", "progress"}
    [] host.want = "handoff"  -> ResultPersisted /\ HumanHandoffComplete
    [] host.want = "writer"   -> IF Journal.report = "pushed" THEN ResultPersisted
                                 ELSE Journal.report = "stale_head" /\ ~ResultPersisted

(* Another attempt that owns its work has this worktree open.              *)
NewerOwner(a) == \E b \in Owners \ {a} : attempts[b].open

(* The report is recorded, even when the workspace is kept, and GitHub is  *)
(* looked at: labels, head and comments of one `gh pr view`.               *)
CompleteLocked ==
  /\ At("close") /\ UNCHANGED <<pr, said>> /\ Smooth
  /\ CASE Journal.phase = "workspace_closed"  -> Go("shut") /\ UNCHANGED attempts
       [] Journal.phase = "github_persisted"  ->
            IF NewerOwner(host.a) THEN Retain ELSE Go("shut") /\ UNCHANGED attempts
       [] Journal.phase \in {"agent_started", "report_received"} ->
            IF /\ Complete(host.a)
               /\ pr.head = OutputRevision
               /\ Journal.open /\ ~NewerOwner(host.a)
               /\ CompletionPersisted
            THEN Go("persist") /\ Write("phase", "report_received")
            ELSE Rest("idle") /\ Write("phase", "report_received")
       [] OTHER -> Retain
(* The journal takes down what that look showed, whatever people do since. *)
MarkPersisted == /\ At("persist") /\ UNCHANGED <<pr, said>> /\ Smooth
                 /\ Go("shut") /\ Write("phase", "github_persisted")

(* The workspace closes and the journal says so.  Requested changes then   *)
(* queue their repair; any other completion is over.                       *)
RepairFollows == host.by = "monitor" /\ Journal.report = "changes_requested"
                 /\ host.want = "progress"
CloseWorkspace ==
  /\ At("shut") /\ UNCHANGED <<pr, said>> /\ Smooth
  /\ attempts' = [attempts EXCEPT
       ![host.a] = [@ EXCEPT !.phase = "workspace_closed", !.open = FALSE, !.agent = "gone",
                             !.handoff = Journal.handoff /\ (RepairFollows \/ host.by # "monitor")]]
  /\ IF RepairFollows THEN Go("queue") ELSE Rest("drive")
=============================================================================

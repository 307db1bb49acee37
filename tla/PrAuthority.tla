----------------------------- MODULE PrAuthority -----------------------------
(***************************************************************************)
(* The tick before the driver runs: reconcile-pr-work-authority.cts asks   *)
(* the runtime what became of the attempts on the pull request and         *)
(* finishes, restores or blocks; the journals are patrolled (index.ts);    *)
(* the retained handoff is delivered (src/automation-runner.ts), an agent  *)
(* that ended without a report being stopped (contain-terminal-monitor.cts)*)
(*                                                                         *)
(* The runtime lists an agent until it is gone, whatever it does.  The     *)
(* patrol takes one journal per tick.                                      *)
(***************************************************************************)
EXTENDS PrWriters

Live(a)    == attempts[a].agent # "gone"
(* Persisted on GitHub and its workspace gone: nothing left to hold.       *)
Finished   == {a \in Owners : attempts[a].phase = "github_persisted" /\ ~attempts[a].open}
Journals   == Owners \ Finished
Stopped    == {a \in Journals : ~Live(a) /\ attempts[a].open}
Unlaunched == {a \in AttemptIds : attempts[a].phase = "never_launched"}
RuntimeAnswer ==
  CASE \E a \in Journals : Live(a) -> "running"
    [] ~(\E a \in Journals : Live(a)) /\ Journals # Stopped -> "ambiguous"
    [] Journals = {} -> "absent"
    [] OTHER -> "stopped"
(* A launch that failed is dated with `born`.                              *)
NewerRequestThanFailure ==
  Unlaunched # {} /\ \E l \in Requests : \A a \in Unlaunched : pr.born[l] > attempts[a].born
StorageExhaustion == \E a \in Journals : attempts[a].report = "storage"
Decide(refused) ==
  ReconcilePrWorkAuthority(RuntimeAnswer, refused, Unlaunched # {},
                           NewerRequestThanFailure, StorageExhaustion)

(* completeProvenStoppedAttempt: a push, or a review report, at this head. *)
ProvesCompletion(a) ==
  CASE Writes(a) -> attempts[a].report = "pushed" /\ pr.head \in {attempts[a].out, attempts[a].head}
    [] OTHER     -> Complete(a) /\ pr.head = attempts[a].head
Handler(a) ==
  CASE Writes(a) /\ pr.head = attempts[a].head -> "patrol"
    [] Writes(a) /\ pr.head # attempts[a].head ->
         IF attempts[a].role = "review-repair" THEN "repair" ELSE "update"
    [] ~Writes(a) -> IF attempts[a].report = "human_required" THEN "judge" ELSE "refused"
Proven == {a \in Stopped : ProvesCompletion(a)}
First(set) == CHOOSE a \in set : \A b \in set : a <= b

Released(set, keepOpen) ==
  [a \in AttemptIds |-> IF a \in set
     THEN [attempts[a] EXCEPT !.phase = "authority_released", !.agent = "gone",
                              !.open = @ /\ keepOpen]
     ELSE attempts[a]]

ReconcileWorkAuthority ==
  /\ At("idle") /\ UNCHANGED <<pr, said>> /\ Smooth
  /\ attempts' = Released(IF Open THEN Finished ELSE {}, FALSE)
  /\ CASE \/ ~Open
          \/ "progress" \notin pr.labels /\ Journals = {} /\ ~host.receipt
          \/ RuntimeAnswer \in {"running", "ambiguous"} -> Go("patrol")
       [] OTHER ->
            IF RuntimeAnswer = "stopped" /\ Proven # {}
            THEN IF Handler(First(Proven)) = "patrol" THEN Go("patrol")
                 ELSE host' = [host EXCEPT !.pc = Handler(First(Proven)), !.a = First(Proven),
                                           !.by = "reconcile", !.saw = pr.labels, !.head = pr.head]
            ELSE host' = [host EXCEPT !.by = "reconcile", !.saw = pr.labels, !.head = pr.head,
                            !.pc = IF Decide(FALSE) = "block" THEN "block" ELSE "restore"]

(* Every write of the recovery finds the head and the labels that were     *)
(* listed, or the reconciliation ends there.                               *)
Revalidated == OnTarget(host.head) /\ pr.labels = host.saw
GiveUp == To("idle") /\ UNCHANGED <<pr, said, attempts>>
BlockPut ==
  /\ At("block") \/ At("refused")
  /\ Smooth
  /\ IF ~Revalidated THEN GiveUp
     ELSE /\ pr' = Edited(pr, Blocked(pr.labels))
          /\ host' = [host EXCEPT !.pc = "block_note", !.saw = {"blocked"},
                                  !.receipt = @ \/ pr.labels # {"blocked"}]
          /\ UNCHANGED <<said, attempts>>
BlockNote ==
  /\ At("block_note") /\ Smooth
  /\ IF ~Revalidated THEN GiveUp
     ELSE /\ Commented /\ UNCHANGED said
          /\ attempts' = Released(Stopped, FALSE)
          /\ host' = [host EXCEPT !.pc = "patrol", !.by = "monitor", !.a = 0, !.saw = {},
                                  !.head = 0, !.made = 0, !.want = "writer", !.receipt = FALSE]
RestoreRequest ==
  /\ At("restore") /\ UNCHANGED said /\ Smooth
  /\ IF ~Revalidated THEN GiveUp
     ELSE /\ pr' = Edited(pr, RestoreRequestLabels(pr.labels,
                     IF Journals = {} THEN {} ELSE {attempts[First(Journals)].role}))
          /\ Go("restored") /\ UNCHANGED attempts
CloseStopped ==
  /\ At("restored") /\ UNCHANGED <<pr, said>> /\ Smooth
  /\ attempts' = Released(Stopped, FALSE) /\ To("patrol")

-----------------------------------------------------------------------------
(* The patrol: a completed attempt is closed, a released one's workspace.  *)
PatrolExpects(a) ==
  CASE Writes(a) -> "writer"
    [] ~Writes(a) /\ attempts[a].report # "changes_requested" /\ ~attempts[a].auto -> "handoff"
    [] OTHER -> "both"
Patrolled == {a \in Owners : Complete(a) \/ attempts[a].phase = "github_persisted"}
LeftOpen == {a \in AttemptIds : attempts[a].phase = "authority_released" /\ attempts[a].open}
PatrolAttempt ==
  /\ At("patrol") /\ UNCHANGED <<pr, said>> /\ Smooth
  /\ CASE LeftOpen # {} -> attempts' = Released(LeftOpen, FALSE) /\ Go("deliver")
       [] LeftOpen = {} /\ Patrolled # {} ->
            /\ \E a \in Patrolled :
                 host' = [host EXCEPT !.pc = "close", !.a = a, !.by = "patrol",
                                      !.want = PatrolExpects(a)]
            /\ UNCHANGED attempts
       [] OTHER -> Go("deliver") /\ UNCHANGED attempts

-----------------------------------------------------------------------------
(* deliverPendingDriverHandoff: while a handoff is retained the driver     *)
(* does not run.                                                           *)
CompletionOf(a) == CASE attempts[a].role = "reviewer"      -> "judge"
                     [] attempts[a].role = "review-repair" -> "repair"
                     [] attempts[a].role = "branch-update" -> "update"
SettlementProven(a) == \/ ReleasesOwnership(attempts[a].phase)
                       \/ attempts[a].phase = "github_persisted"
                       \/ ~Open
(* Mutant: the conflict is asked of every role.                            *)
StopTargetInConflict(a) == OnTarget(attempts[a].head) /\ pr.conflict
(* exactTarget: what a stop may be written on.                             *)
StopTarget(a) == /\ OnTarget(attempts[a].head)
                 /\ attempts[a].role = "branch-update" => pr.conflict
AlreadyStopped == pr.labels = {"blocked"}
NewerUpdateRequest(a) == /\ attempts[a].role = "branch-update"
                         /\ pr.born["update"] # attempts[a].born
DeliverHandoff == \E a \in HandedOver :
  LET drop == attempts' = [attempts EXCEPT ![a].handoff = FALSE] /\ Go("drive")
      keep == Go("idle") /\ UNCHANGED attempts
      go(stage) == host' = [host EXCEPT !.pc = stage, !.a = a] /\ UNCHANGED attempts IN
  /\ At("deliver") /\ UNCHANGED <<pr, said>> /\ Smooth
  /\ CASE SettlementProven(a) ->
            /\ Go("drive")
            /\ attempts' = [attempts EXCEPT ![a] =
                 [@ EXCEPT !.handoff = FALSE, !.open = attempts[a].open /\ NewerOwner(a),
                           !.agent = IF NewerOwner(a) THEN attempts[a].agent ELSE "gone"]]
       [] ~SettlementProven(a) /\ attempts[a].report # "none" -> go(CompletionOf(a))
       [] ~SettlementProven(a) /\ attempts[a].report = "none"
          /\ attempts[a].agent \notin {"idle", "gone"} -> keep
       [] OTHER ->
            CASE ~StopTarget(a) -> drop
              [] StopTarget(a) /\ AlreadyStopped -> go("stop_note")
              [] StopTarget(a) /\ ~AlreadyStopped /\ "progress" \notin pr.labels -> keep
              [] OTHER -> IF NewerUpdateRequest(a) THEN drop ELSE go("stop_put")
NothingHandedOver ==
  /\ At("deliver") /\ HandedOver = {} /\ Go("drive")
  /\ UNCHANGED <<pr, said, attempts>> /\ Smooth

(* The stop: the whole label set is put as it was read, less what deadloop *)
(* manages; then the comment and the release.                              *)
ReplaceStoppedLabels ==
  /\ At("stop_put") /\ UNCHANGED <<said, attempts>> /\ Smooth
  /\ pr' = Edited(pr, Blocked(pr.labels)) /\ Go("stop_note")
ExplainStop ==
  /\ At("stop_note") /\ Smooth
  /\ IF said[host.a].stop > 0 THEN UNCHANGED <<pr, said>> ELSE Commented /\ Told(host.a, "stop")
  /\ attempts' = [attempts EXCEPT ![host.a] =
       [@ EXCEPT !.phase = "authority_released", !.handoff = FALSE, !.stopped = TRUE,
                 !.open = Journal.open /\ Journal.agent = "gone",
                 !.agent = "gone"]]
  /\ To("drive")

Authority ==
  \/ ReconcileWorkAuthority \/ BlockPut \/ BlockNote \/ RestoreRequest \/ CloseStopped
  \/ PatrolAttempt \/ DeliverHandoff \/ NothingHandedOver \/ ReplaceStoppedLabels \/ ExplainStop
=============================================================================

------------------------------ MODULE PrWorkflow ------------------------------
(***************************************************************************)
(* One pull request from its first Agent request to the merge or the       *)
(* handoff: the driver (PrDriver), the agents and the completions of what  *)
(* they report (PrReview, PrMerge, PrClosure, PrWriters), the              *)
(* reconciliation of the work authority (PrAuthority), and people who      *)
(* comment, push and relabel at any moment.                                *)
(***************************************************************************)
EXTENDS PrDriver

(* What people do.                                                         *)
PersonActs(kind) == kind \in PersonMay /\ Spend("acts", MaxActs) /\ UNCHANGED said
Relabels(l) == /\ PersonActs(l) /\ Open /\ l \notin pr.labels
               /\ pr' = Edited(pr, pr.labels \cup {l}) /\ UNCHANGED <<attempts, host>>
Unlabels(kind, l) == /\ PersonActs(kind) /\ Open /\ l \in pr.labels
                     /\ Moved({l}, {}) /\ UNCHANGED <<attempts, host>>
Comments == /\ PersonActs("comment") /\ Open /\ Commented /\ UNCHANGED <<attempts, host>>
Pushes   == /\ PersonActs("push") /\ Open /\ UNCHANGED <<attempts, host>>
            /\ pr' = [pr EXCEPT !.head = @ + 1, !.history = @ + 1]
BaseMoves == /\ PersonActs("base") /\ Open /\ UNCHANGED <<attempts, host>>
             /\ pr' = [pr EXCEPT !.base = @ + 1, !.conflict = TRUE, !.history = @ + 1]
Closes   == /\ PersonActs("close") /\ Open /\ UNCHANGED <<attempts, host>>
            /\ pr' = [pr EXCEPT !.state = "closed", !.history = @ + 1]
TogglesPolicy == /\ PersonActs("policy") /\ UNCHANGED <<pr, attempts>>
                 /\ host' = [host EXCEPT !.auto = ~@]
(* Disable and enable again: a handoff of the old enablement is discarded. *)
EnablesAgain == /\ PersonActs("enable") /\ At("idle") /\ HandedOver # {}
                /\ UNCHANGED <<pr, host>>
                /\ attempts' = [a \in AttemptIds |-> [attempts[a] EXCEPT !.handoff = FALSE]]
People ==
  \/ \E l \in Requests \cup {"blocked"} : Relabels(l)
  \/ Unlabels("unclaim", "progress") \/ Unlabels("unblock", "blocked")
  \/ Comments \/ Pushes \/ BaseMoves \/ Closes \/ TogglesPolicy \/ EnablesAgain

(* A process dies or a call fails: the tick starts over, what is written   *)
(* stays.  An agent is lost, or its turn ends without a report.            *)
TickDies == /\ ~At("idle") /\ Spend("faults", MaxFaults) /\ To("idle")
            /\ UNCHANGED <<pr, said, attempts>>
AgentEnds == \E a \in Owners, how \in {"idle", "gone"} :
  /\ attempts[a].agent \notin {how, "gone"}
  /\ Spend("faults", MaxFaults) /\ Agent(a, [attempts[a] EXCEPT !.agent = how])
  /\ UNCHANGED <<pr, said, host>>

ReviewSteps ==
  \/ Judge \/ Say \/ Accept \/ HumanReady \/ HumanRelease \/ Queue \/ QueueMove
  \/ RetrySay \/ RetryMove \/ BlockSay \/ BlockMove \/ StopSay \/ StopMove
MergeSteps ==
  \/ CiFallbackGate \/ MarkReadyForMerge \/ AssertFreshBeforeMerge
  \/ RevalidateMergeTarget \/ MergeReviewedPr
  \/ HandoffReviewedPr \/ HandoffReady \/ HandoffLabels \/ AssertHandoffApplied
ClosureSteps == CompleteLocked \/ MarkPersisted \/ CloseWorkspace
Tick == ReviewSteps \/ MergeSteps \/ ClosureSteps \/ Completions \/ Authority \/ Driver

Next == Tick \/ Agents \/ People \/ TickDies \/ AgentEnds
Spec == Init /\ [][Next]_vars

(* The scheduler ticks and agents end their turn; neither people nor       *)
(* faults are owed.                                                        *)
Fairness == WF_vars(Tick) /\ WF_vars(Agents)
FairSpec == Spec /\ Fairness

-----------------------------------------------------------------------------
(* What reaches the base branch is a head whose own review approved it,    *)
(* published that, and passed the required verification: between the last  *)
(* look and the merge people may push, and another tick may have started.  *)
Merges == pr.state # "merged" /\ pr'.state = "merged"
MergesWhatWasReviewed ==
  [][Merges => \E a \in AttemptIds :
       /\ attempts[a].report = "approved" /\ attempts[a].verified = "passed"
       /\ attempts[a].head = pr.head /\ said[a].result > 0]_vars

(* However often a completion is interrupted and started again, by the     *)
(* monitor or by reconciliation, its result is commented at most once.     *)
OneResultPerAttempt == \A a \in AttemptIds : said[a].result <= 1

(* A head's review is retried once for a technical failure: two attempts on*)
(* one head never both announce the retry.                                 *)
TechnicalRetryOncePerHead ==
  \A a, b \in AttemptIds :
    said[a].technical > 0 /\ said[b].technical > 0 /\ attempts[a].head = attempts[b].head
      => a = b /\ said[a].technical = 1

(* One pair of head and base gets one branch update: a second on the same  *)
(* pair runs only after the first was stopped for want of a report.        *)
OneUpdatePerPair ==
  \A a, b \in AttemptIds :
    /\ a < b /\ {attempts[a].role, attempts[b].role} = {"branch-update"}
    /\ {attempts[a].phase, attempts[b].phase} \cap {"unused", "never_launched"} = {}
    /\ attempts[a].head = attempts[b].head /\ attempts[a].base = attempts[b].base
    => attempts[a].stopped

(* The draft leaves before the labels: deadloop never takes the last agent *)
(* label off a pull request that is still a draft, which nobody waits on.  *)
(* The exception is a reconciliation that restores a request when no       *)
(* attempt is left that says which (README.md, NoRestoreAbandons).         *)
Abandons == Open /\ pr.labels # {} /\ pr'.labels = {} /\ pr.draft
RestoresNothing == At("restore") /\ Journals = {}
NoDraftIsAbandoned == [][Tick /\ Abandons => RestoresNothing]_vars
(* pr-work-authority-reconciliation.cts:97-99: a request newer than every  *)
(* launch failure is a fresh demand, so the next launch is attempted: what *)
(* reconciliation leaves has a request, or a block.                        *)
NoRestoreAbandons == [][Tick => ~Abandons]_vars

(* A journal says github_persisted, upon which its workspace is closed for *)
(* good, only while a result of that attempt is on the pull request, or its*)
(* agent reported that the head moved, or some request is there to be      *)
(* served: the look and the write are two calls with people between them.  *)
ClosedWorkspaceHasResult ==
  [][\A a \in AttemptIds :
       (attempts[a].phase # "github_persisted" /\ attempts'[a].phase = "github_persisted") =>
         \/ said[a].result > 0
         \/ attempts[a].report = "stale_head"
         \/ Waiting(pr.labels)]_vars

-----------------------------------------------------------------------------
(* A claim does not outlive the work under it: with one death of a process *)
(* or an agent and people only commenting or closing, it is taken off.     *)
ClaimIsResolved ==
  (Open /\ "progress" \in pr.labels) ~> (~Open \/ "progress" \notin pr.labels)
(* A request is served, or turned into a stop that shows, while a launch is*)
(* left: what an interrupted or discarded review leaves behind does not    *)
(* keep the next one out.                                                  *)
RequestIsAnswered ==
  (Open /\ Waiting(pr.labels) /\ "blocked" \notin pr.labels) ~>
    (\/ ~Open \/ ~Waiting(pr.labels) \/ "blocked" \in pr.labels
     \/ spent.attempts = MaxAttempts)
(* README.md:239: any addition, edit, deletion, head or base change        *)
(* discards the stale result and returns the pull request to a fresh       *)
(* review request; or, when the host stops there, it shows a block.        *)
StaleResultReturnsToReview ==
  \A a \in AttemptIds :
    (/\ Open /\ attempts[a].handoff /\ attempts[a].report = "approved"
     /\ said[a].result = 0 /\ pr.history # attempts[a].history)
    ~> (~Open \/ pr.labels \cap {"review", "blocked"} # {})

(* acceptance/features/bounded-pr-recovery.feature.md:159: deadloop retries*)
(* the review exactly once, so another reviewer starts.                    *)
TechnicalRetryStarts ==
  \A a \in AttemptIds :
    (Open /\ said[a].technical = 1)
    ~> (\/ ~Open \/ "blocked" \in pr.labels
        \/ \E b \in AttemptIds : b > a /\ attempts[b].phase # "unused")
=============================================================================

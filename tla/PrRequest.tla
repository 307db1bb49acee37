------------------------------ MODULE PrRequest ------------------------------
(***************************************************************************)
(* How Automation hosts consume the Agent requests of one pull request     *)
(* (extensions/deadloop/automations/pr-reviewer-driver.cts,                *)
(* `consumeRequestEvent` and its callers), call by call, while people edit *)
(* the same labels, push and comment, and what the next tick makes of a    *)
(* consumption that did not end.                                           *)
(*                                                                         *)
(* GitHub has no compare-and-swap for labels.  A consumption is a sequence *)
(* of writes, each between two observations; an observation reads the head *)
(* and the label events first and the labels in a second call.  Where the  *)
(* code observes twice in a row with no write between, one observation is  *)
(* modelled.  A fault is a call that fails, a write having taken effect or *)
(* not, or the death of the host; nothing written is taken back.           *)
(*                                                                         *)
(* What an attempt does once its agent runs is PrWorkflow's; here it runs  *)
(* or it stops without a report.                                           *)
(***************************************************************************)
EXTENDS PullRequest

CONSTANTS
  Hosts,         \* the Automation hosts serving the repository
  Asked,         \* the sets of requests people may have begun with
  PersonAdds,    \* the labels people may add in this model
  PersonRemoves, \* the labels people may remove
  MaxPersonActs, \* bound on what people do
  MaxAttempts,   \* bound on the attempts and the consumptions without one
  MaxFaults,     \* bound on failing calls, deaths and agents that stop
  None           \* no attempt

ASSUME BoundAssumption ==
  /\ Asked \subseteq SUBSET Requests
  /\ PersonAdds \subseteq Labels /\ PersonRemoves \subseteq Labels
  /\ MaxPersonActs \in Nat /\ MaxAttempts \in Nat \ {0} /\ MaxFaults \in Nat

VARIABLES
  pr,       \* the pull request: labels, their seconds, head, history
  attempts, \* the attempt journals
  host,     \* where each host is, and what its consumption holds in memory
  spent     \* what the bounds bound

vars == <<pr, attempts, host, spent>>

AttemptIds == 1..MaxAttempts
Phases == {"unused", "prepared", "github_claimed", "running", "stopped",
           "launch_failed", "released"}
Ids == [Requests -> Nat]
NoIds == [l \in Requests |-> 0]
Stages == {"idle", "patrol", "baseline", "baseline_labels", "claim",
           "events", "labels", "delete", "state", "generation", "launch",
           "note", "move", "tell", "block", "stop", "explain", "settle"}

PrType == [labels : SUBSET Labels, born : [Labels -> Nat], second : Nat,
           head : Nat, history : Nat]
AttemptType == [phase : Phases, role : Roles, host : Hosts \cup {None}, ids : Ids,
                head : Nat, claimed : BOOLEAN, failed : Nat, lost : BOOLEAN]
HostType == [pc : Stages, mine : AttemptIds \cup {None}, label : Requests, ids : Ids,
             want : SUBSET Labels, todo : SUBSET Labels, took : Ids,
             head : Nat, history : Nat]

(* Labels, journals and memories are what the code can hold.               *)
TypeOK ==
  /\ pr \in PrType
  /\ attempts \in [AttemptIds -> AttemptType]
  /\ host \in [Hosts -> HostType]
  /\ spent \in [acts : 0..MaxPersonActs, attempts : 0..MaxAttempts,
                faults : 0..MaxFaults]

Idle == [pc |-> "idle", mine |-> None, label |-> "review", ids |-> NoIds,
         want |-> {}, todo |-> {}, took |-> NoIds, head |-> 0, history |-> 0]
Unused == [phase |-> "unused", role |-> "reviewer", host |-> None, ids |-> NoIds,
           head |-> 0, claimed |-> FALSE, failed |-> 0, lost |-> FALSE]

(* Somebody has asked for something, with one edit.                        *)
Init ==
  /\ \E asked \in Asked :
       pr = [labels |-> asked, born |-> [l \in Labels |-> IF l \in asked THEN 1 ELSE 0],
             second |-> 1, head |-> 0, history |-> 0]
  /\ attempts = [a \in AttemptIds |-> Unused]
  /\ host = [h \in Hosts |-> Idle]
  /\ spent = [acts |-> 0, attempts |-> 0, faults |-> 0]

-----------------------------------------------------------------------------
At(h, stage) == host[h].pc = stage
Go(h, stage) == host' = [host EXCEPT ![h].pc = stage]
Rest(h)      == host' = [host EXCEPT ![h] = Idle]
Turn(h, stage, a) == host' = [host EXCEPT ![h] = [Idle EXCEPT !.pc = stage, !.mine = a]]
Smooth       == UNCHANGED spent
Spend(what, bound) == /\ spent[what] < bound
                      /\ spent' = [spent EXCEPT ![what] = @ + 1]
Fault        == Spend("faults", MaxFaults)

(* An edit of the labels; adding a label that is there writes no event.    *)
Edited(new) ==
  [pr EXCEPT !.labels = new,
             !.second = IF new \subseteq pr.labels THEN @ ELSE @ + 1,
             !.born = Stamped(@, pr.labels, new, pr.second + 1)]
(* A comment is part of the history others compare.                        *)
Commented(p) == [p EXCEPT !.history = @ + 1]

RequestEventIds == [l \in Requests |-> pr.born[l]]

(* The journals of this host that own their work.                          *)
Owned(h) == {a \in AttemptIds : /\ attempts[a].host = h
                                /\ attempts[a].phase \notin {"unused", "released"}}
In(h, phases) == {a \in Owned(h) : attempts[a].phase \in phases}
Write(a, phase) == attempts' = [attempts EXCEPT ![a].phase = phase]

-----------------------------------------------------------------------------
(* The tick: work-authority reconciliation, then the journals, then, when  *)
(* no consumption is unresolved, one run of the driver.                    *)

(* A launch that failed before a workspace was opened is released first.   *)
(* `lost` marks the released attempts whose failure is on record.          *)
LaunchFailures(h) == {a \in AttemptIds : /\ attempts[a].host = h
                                         /\ \/ attempts[a].phase = "launch_failed"
                                            \/ attempts[a].lost}
NewerRequestThanFailure(h) ==
  /\ LaunchFailures(h) # {}
  /\ \E l \in Requests : \A a \in LaunchFailures(h) : pr.born[l] > attempts[a].failed
(* A prepared or claimed journal has no workspace to observe: ambiguous.   *)
Runtime(h) ==
  LET live == Owned(h) \ In(h, {"launch_failed"}) IN
  IF In(h, {"running"}) # {} THEN "running"
  ELSE IF In(h, {"prepared", "github_claimed"}) # {} THEN "ambiguous"
  ELSE IF live = {} THEN "absent" ELSE "stopped"
Decision(h) == ReconcilePrWorkAuthority(Runtime(h), FALSE,
                 LaunchFailures(h) # {}, NewerRequestThanFailure(h), FALSE)

Settled(h, phases) ==
  [a \in AttemptIds |->
     IF a \in In(h, {"launch_failed"})
     THEN [attempts[a] EXCEPT !.phase = "released", !.lost = TRUE]
     ELSE IF a \in In(h, phases) THEN [attempts[a] EXCEPT !.phase = "released"]
     ELSE attempts[a]]

(* The first journal decides what is restored; directories have no order.  *)
FirstRole(h) == IF In(h, {"stopped"}) = {} THEN {{}}
                ELSE {{attempts[a].role} : a \in In(h, {"stopped"})}

ReconcileWorkAuthority(h) ==
  /\ At(h, "idle") /\ Smooth /\ Go(h, "patrol")
  /\ IF "progress" \notin pr.labels /\ Owned(h) = {} THEN UNCHANGED <<pr, attempts>>
     ELSE CASE Decision(h) = "keep_active" ->
                 attempts' = Settled(h, {}) /\ UNCHANGED pr
            [] Decision(h) = "restore_request" ->
                 /\ \E roles \in FirstRole(h) :
                      pr' = Edited(RestoreRequestLabels(pr.labels, roles))
                 /\ attempts' = Settled(h, {"stopped"})
            [] OTHER ->
                 /\ pr' = Commented(Edited(Blocked(pr.labels)))
                 /\ attempts' = Settled(h, {"stopped"})

(* A prepared repair whose consumption left the claim on the same head is  *)
(* taken for consumed; any other prepared repair is stopped and released.  *)
(* The comment the code looks for as well is the one that asked for this   *)
(* repair: the attempt has its key for a name.  Every other prepared       *)
(* attempt stays as it is.                                                 *)
ExactRequestConsumption(a) ==
  pr.head = attempts[a].head /\ "progress" \in pr.labels /\ "blocked" \notin pr.labels
NeedsNoStop == Waiting(pr.labels) \/ "blocked" \in pr.labels
ReconcilePrepared(h) == \E a \in In(h, {"prepared"}) :
  /\ At(h, "patrol") /\ attempts[a].role = "review-repair" /\ Smooth /\ UNCHANGED pr
  /\ IF ExactRequestConsumption(a)
     THEN Write(a, "github_claimed") /\ UNCHANGED host
     ELSE Turn(h, IF NeedsNoStop THEN "settle" ELSE "stop", a) /\ UNCHANGED attempts

(* The labels first, then the comment, then the journal; a call that fails *)
(* keeps the claim for the next tick.                                      *)
StopPrepared(h) ==
  /\ At(h, "stop") /\ Smooth /\ Go(h, "explain")
  /\ pr' = Edited(Blocked(pr.labels)) /\ UNCHANGED attempts
ExplainPrepared(h) ==
  /\ At(h, "explain") /\ Smooth /\ Go(h, "settle")
  /\ pr' = Commented(pr) /\ UNCHANGED attempts
ReleasePrepared(h) ==
  /\ At(h, "settle") /\ Smooth /\ Write(host[h].mine, "released")
  /\ Turn(h, "patrol", None) /\ UNCHANGED pr

(* A claim without a workspace keeps the host from scheduling anything.    *)
BlockScheduling(h) ==
  /\ At(h, "patrol") /\ Smooth /\ Rest(h)
  /\ \E a \in In(h, {"prepared", "github_claimed"}) :
       attempts[a].phase = "prepared" => attempts[a].role # "review-repair"
  /\ UNCHANGED <<pr, attempts>>

-----------------------------------------------------------------------------
(* Selection and the launch's preparation.                                 *)

Shown == Exposed(pr.labels, pr.born)
Selectable(h) ==
  /\ Waiting(Shown) /\ "blocked" \notin Shown
  /\ ~("progress" \in Shown /\ Owned(h) # {})

(* A candidate's launch is never certain: the tick may have run out of time*)
(* or another pull request may come first.                                 *)
Schedulable(h) == At(h, "patrol") /\ In(h, {"prepared", "github_claimed"}) = {}
NoCandidate(h) ==
  /\ Schedulable(h) /\ Smooth /\ Rest(h)
  /\ UNCHANGED <<pr, attempts>>

Begin(h, ids, a, stage) ==
  host' = [host EXCEPT ![h] = [Idle EXCEPT !.pc = stage, !.mine = a, !.ids = ids,
             !.label = SelectPrRequest(Shown), !.want = Shown,
             !.head = pr.head, !.history = pr.history]]

(* The attempt is journaled, bound to the newest event of every request,   *)
(* before its first write.                                                 *)
PrepareAttempt(h) == \E a \in AttemptIds :
  /\ Schedulable(h) /\ Selectable(h) /\ Spend("attempts", MaxAttempts)
  /\ attempts[a].phase = "unused" /\ \A b \in AttemptIds : b < a => attempts[b].phase # "unused"
  /\ RequestEventIds[SelectPrRequest(Shown)] # 0
  /\ attempts' = [attempts EXCEPT ![a] =
       [Unused EXCEPT !.phase = "prepared", !.role = RoleOf(SelectPrRequest(Shown)),
                      !.host = h, !.ids = RequestEventIds, !.head = pr.head]]
  /\ Begin(h, RequestEventIds, a, "baseline")
  /\ UNCHANGED pr

(* A request that is not to be launched (a conflicting head, an update or  *)
(* a repair that is no longer needed) is consumed without an attempt.      *)
BeginObsolete(h) ==
  /\ Schedulable(h) /\ Selectable(h) /\ Spend("attempts", MaxAttempts)
  /\ Begin(h, NoIds, None, "baseline")
  /\ UNCHANGED <<pr, attempts>>

(* An update that is unsafe, comes from elsewhere or was tried already is  *)
(* blocked with its request still on.                                      *)
BeginBlock(h) ==
  /\ Schedulable(h) /\ Selectable(h) /\ SelectPrRequest(Shown) = "update"
  /\ Spend("attempts", MaxAttempts) /\ Begin(h, NoIds, None, "tell")
  /\ UNCHANGED <<pr, attempts>>

-----------------------------------------------------------------------------
(* consumeRequestEvent.                                                    *)

Job(h) == host[h]
(* The consumption ends here: what it wrote stays, and so does a prepared  *)
(* attempt.                                                                *)
Stale(h) == Smooth /\ Rest(h) /\ UNCHANGED <<pr, attempts>>

(* The baseline: the bound events still the newest, the request there.     *)
ReadBaseline(h) ==
  /\ At(h, "baseline")
  /\ IF pr.head = Job(h).head /\ (Job(h).mine # None => RequestEventIds = Job(h).ids)
     THEN /\ host' = [host EXCEPT ![h] =
                [@ EXCEPT !.pc = "baseline_labels", !.ids = RequestEventIds]]
          /\ Smooth /\ UNCHANGED <<pr, attempts>>
     ELSE Stale(h)

ReadBaselineLabels(h) ==
  /\ At(h, "baseline_labels")
  /\ IF Job(h).label \in pr.labels /\ Job(h).ids[Job(h).label] # 0
     THEN /\ host' = [host EXCEPT ![h] = [@ EXCEPT !.pc = "claim", !.want = pr.labels,
                !.todo = pr.labels \ {"progress", Job(h).label}]]
          /\ Smooth /\ UNCHANGED <<pr, attempts>>
     ELSE Stale(h)

AddInProgress(h) ==
  /\ At(h, "claim") /\ Smooth
  /\ pr' = Edited(pr.labels \cup {"progress"})
  /\ host' = [host EXCEPT ![h] =
                [@ EXCEPT !.pc = "events", !.want = Job(h).want \cup {"progress"}]]
  /\ UNCHANGED attempts

(* The observation around every write: head and events, then the labels.   *)
(* Mutant: only the labels are compared, not who added them when.          *)
AnyGeneration(h) == TRUE
SameGenerations(h) == RequestEventIds = Job(h).ids
SameRevision(h) == pr.head = Job(h).head
SameManagedLabels(h) == pr.labels = Job(h).want

ObserveEvents(h) ==
  /\ At(h, "events")
  /\ IF SameRevision(h) /\ SameGenerations(h)
     THEN Go(h, "labels") /\ Smooth /\ UNCHANGED <<pr, attempts>>
     ELSE Stale(h)

ObserveLabels(h) ==
  /\ At(h, "labels")
  /\ IF SameManagedLabels(h)
     THEN /\ Smooth /\ UNCHANGED <<pr, attempts>>
          /\ Go(h, IF Job(h).label \in Job(h).want THEN "delete"
                   ELSE IF Job(h).mine = None THEN "note" ELSE "state")
     ELSE Stale(h)

(* The other labels of the baseline go first, the selected request last.   *)
NextRemoval(h) == IF Job(h).todo = {} THEN Job(h).label
            ELSE IF Job(h).todo \cap Requests = {} THEN "blocked"
            ELSE SelectPrRequest(Job(h).todo)
Took(h, l) == IF l \in Requests
              THEN [host EXCEPT ![h].pc = "events", ![h].want = @ \ {l},
                      ![h].todo = @ \ {l}, ![h].took[l] = pr.born[l]]
              ELSE [host EXCEPT ![h].pc = "events", ![h].want = @ \ {l},
                      ![h].todo = @ \ {l}]

(* Mutant: a label that somebody else removed counts as removed.           *)
DeleteWhatever(h) ==
  /\ At(h, "delete") /\ Smooth /\ UNCHANGED attempts
  /\ pr' = [pr EXCEPT !.labels = @ \ {NextRemoval(h)}]
  /\ host' = Took(h, NextRemoval(h))
(* Only a DELETE that removed the label, a 200, counts.                    *)
DeleteLabel(h) ==
  LET l == NextRemoval(h) IN
  /\ At(h, "delete")
  /\ IF l \in pr.labels
     THEN /\ pr' = [pr EXCEPT !.labels = @ \ {l}]
          /\ host' = Took(h, l)
          /\ Smooth /\ UNCHANGED attempts
     ELSE Stale(h)

-----------------------------------------------------------------------------
(* After the consumption: the launch's last look, or the redirection.      *)

RevalidateState(h) ==
  /\ At(h, "state")
  /\ IF SameRevision(h) /\ pr.labels = {"progress"}
     THEN Go(h, "generation") /\ Smooth /\ UNCHANGED <<pr, attempts>>
     ELSE Stale(h)

(* Reviews and repairs also need the history they were selected on.        *)
RevalidateGeneration(h) ==
  /\ At(h, "generation")
  /\ IF /\ SameGenerations(h)
        /\ Job(h).label # "update" => pr.history = Job(h).history
     THEN /\ Go(h, "launch") /\ Smooth /\ UNCHANGED pr
          /\ attempts' = [attempts EXCEPT ![Job(h).mine] =
                            [@ EXCEPT !.phase = "github_claimed", !.claimed = TRUE]]
     ELSE Stale(h)

LaunchAgent(h) ==
  /\ At(h, "launch") /\ Rest(h) /\ UNCHANGED pr
  /\ \/ Smooth /\ Write(Job(h).mine, "running")
     \/ Fault /\ attempts' = [attempts EXCEPT ![Job(h).mine] =
                            [@ EXCEPT !.phase = "launch_failed", !.failed = pr.second]]

CommentRedirection(h) ==
  /\ At(h, "note") /\ Smooth /\ Go(h, "move")
  /\ pr' = Commented(pr) /\ UNCHANGED attempts
ToNextRequest(h) ==
  Edited((pr.labels \ {"progress"})
           \cup {IF Job(h).label = "review" THEN "update" ELSE "review"})
MoveToNextRequest(h) ==
  /\ At(h, "move") /\ Smooth /\ Rest(h)
  /\ pr' = ToNextRequest(h) /\ UNCHANGED attempts

(* A call fails, its write having taken effect or not, or the host dies.   *)
Interrupted(h) == host[h].pc \in Stages \ {"idle", "patrol", "launch"}
Effects(h) ==
  {pr} \cup CASE At(h, "claim")  -> {Edited(pr.labels \cup {"progress"})}
              [] At(h, "delete") -> {[pr EXCEPT !.labels = @ \ {NextRemoval(h)}]}
              [] At(h, "move")   -> {ToNextRequest(h)}
              [] host[h].pc \in {"note", "tell", "explain"} -> {Commented(pr)}
              [] host[h].pc \in {"block", "stop"} -> {Edited(Blocked(pr.labels))}
              [] OTHER -> {}
Fail(h) ==
  /\ Interrupted(h) /\ Fault /\ Rest(h) /\ UNCHANGED attempts
  /\ pr' \in Effects(h)

(* An update launch that failed on a pull request that is still what was   *)
(* selected blocks it.  A repair's own block consumes the request first,   *)
(* with no account for it to act as, which its first look refuses: it is a *)
(* call that fails.                                                        *)
StillSelected(h) == /\ Selectable(h) /\ pr.head = Job(h).head
                    /\ Shown = Job(h).want \ {"blocked"}
BlockFailedLaunch(h) ==
  /\ host[h].pc \in {"baseline", "baseline_labels", "claim"} /\ Fault
  /\ Job(h).mine # None /\ Job(h).label = "update" /\ StillSelected(h)
  /\ Turn(h, "tell", None) /\ UNCHANGED <<pr, attempts>>
CommentBlock(h) ==
  /\ At(h, "tell") /\ Smooth /\ Go(h, "block")
  /\ pr' = Commented(pr) /\ UNCHANGED attempts
MoveToBlocked(h) ==
  /\ At(h, "block") /\ Smooth /\ Rest(h)
  /\ pr' = Edited(Blocked(pr.labels)) /\ UNCHANGED attempts

-----------------------------------------------------------------------------
(* Everyone else.                                                          *)

(* A person adds a label, maybe together with the block, removes one,      *)
(* pushes or comments.                                                     *)
PersonActs ==
  /\ Spend("acts", MaxPersonActs) /\ UNCHANGED <<attempts, host>>
  /\ \/ \E l \in PersonAdds \ pr.labels :
          pr' \in {Edited(pr.labels \cup {l})}
                \cup (IF "blocked" \in PersonAdds THEN {Edited(pr.labels \cup {l, "blocked"})} ELSE {})
     \/ \E l \in PersonRemoves \cap pr.labels : pr' = [pr EXCEPT !.labels = @ \ {l}]
     \/ pr' = [pr EXCEPT !.head = @ + 1, !.history = @ + 1]
     \/ pr' = [pr EXCEPT !.history = @ + 1]

AgentStops == \E a \in AttemptIds :
  /\ attempts[a].phase = "running" /\ Fault /\ Write(a, "stopped")
  /\ UNCHANGED <<pr, host>>

Step(h) ==
  \/ ReconcileWorkAuthority(h) \/ ReconcilePrepared(h) \/ StopPrepared(h)
  \/ ExplainPrepared(h) \/ ReleasePrepared(h) \/ BlockScheduling(h)
  \/ NoCandidate(h) \/ PrepareAttempt(h) \/ BeginObsolete(h) \/ BeginBlock(h)
  \/ ReadBaseline(h) \/ ReadBaselineLabels(h) \/ AddInProgress(h)
  \/ ObserveEvents(h) \/ ObserveLabels(h) \/ DeleteLabel(h)
  \/ RevalidateState(h) \/ RevalidateGeneration(h) \/ LaunchAgent(h)
  \/ CommentRedirection(h) \/ MoveToNextRequest(h)
  \/ CommentBlock(h) \/ MoveToBlocked(h)

Next ==
  \/ \E h \in Hosts : Step(h) \/ Fail(h) \/ BlockFailedLaunch(h)
  \/ PersonActs \/ AgentStops

(* The host's timer keeps firing, and a tick runs to its end.              *)
Fairness == \A h \in Hosts : WF_vars(Step(h))
Spec == Init /\ [][Next]_vars /\ Fairness

-----------------------------------------------------------------------------
(* A host whose tick meets a claim without a workspace gets past it, so    *)
(* that no journal keeps a live request waiting for ever                   *)
(* (docs/adr/0032: a stale journal "cannot strand a live request").        *)
NoJournalStrandsARequest ==
  \A h \in Hosts :
    Waiting(pr.labels) /\ In(h, {"prepared", "github_claimed"}) # {}
      ~> ~Waiting(pr.labels) \/ In(h, {"prepared", "github_claimed"}) = {}

(* A stop people asked for by hand is never undone by a request that is    *)
(* older than the stop.                                                    *)
StopOutranksEarlierRequests ==
  [][\A a \in AttemptIds :
       /\ attempts[a].phase = "unused" /\ attempts'[a].phase = "prepared"
       /\ "blocked" \in pr.labels
       => attempts'[a].ids[RequestOf[attempts'[a].role]] > pr.born["blocked"]]_vars

(* Two attempts never hold the same request: of all the hosts that race for*)
(* one label event, at most one gets the 200 and claims it.                *)
OneClaimPerRequest ==
  \A a, b \in AttemptIds :
    LET l == RequestOf[attempts[a].role] IN
    a # b /\ attempts[a].claimed /\ attempts[b].claimed /\ attempts[a].role = attempts[b].role
      => attempts[a].ids[l] # attempts[b].ids[l]

(* An attempt is launched only for what it was prepared for: every label   *)
(* event its consumption removed is one it had seen when it was bound, so  *)
(* a person who asks again in the middle is never launched over.           *)
ConsumesWhatItBound ==
  \A h \in Hosts : At(h, "launch") =>
    \A l \in Requests : Job(h).took[l] \in {0, attempts[Job(h).mine].ids[l]}
=============================================================================

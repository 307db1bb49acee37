---------------------------- MODULE IssueRequest ----------------------------
(***************************************************************************)
(* How Automation hosts on several machines consume the Agent requests of  *)
(* one Issue (src/issue-request-transition.cts, `consumeIssueRequest` and  *)
(* what it calls), while people add and remove the same labels.            *)
(*                                                                         *)
(* GitHub has no compare-and-swap for labels: each read and each write is  *)
(* a call of its own, so each is an action of its own here, and anything   *)
(* may happen in between.  An observation is two calls, the events first   *)
(* and the labels second, so the decision taken on it combines the labels  *)
(* of now with events that may lack some of the newest: at most MaxLag of  *)
(* them, which covers both the gap between the calls and an event list     *)
(* that GitHub serves with a delay.                                        *)
(*                                                                         *)
(* A host runs one attempt on the Issue at a time.  A fault is a GitHub    *)
(* call (or the local receipt) that fails, a write having taken effect or  *)
(* not, or the death of the process; the attempt's journal then stays      *)
(* `prepared` and `Reconcile` picks it up.                                 *)
(***************************************************************************)
EXTENDS IssueTimeline

CONSTANTS
  Hosts,         \* the Automation hosts serving the repository
  Login,         \* the identity each host writes to GitHub with
  PersonAdds,    \* the labels people may add in this model
  PersonRemoves, \* the labels people may remove
  MaxPersonActs, \* bound on what people do
  MaxAttempts,   \* bound on the attempts the hosts prepare
  MaxFaults,     \* bound on failing calls and deaths
  MaxLag         \* newest events an observation may miss

ASSUME LoginAssumption == Login \in [Hosts -> Logins]
ASSUME BoundAssumption ==
  /\ PersonAdds \subseteq Labels /\ PersonRemoves \subseteq Labels
  /\ MaxPersonActs \in Nat /\ MaxAttempts \in Nat
  /\ MaxFaults \in Nat /\ MaxLag \in Nat

VARIABLES
  timeline,  \* the Issue's label events, in GitHub's order
  comments,  \* what the hosts explained on the Issue: [host, req, kind]
  receipts,  \* durable `github_claimed` receipts: [host, req, own, act]
  pc,        \* where each host's transition is, or how the last one ended
  attempt,   \* the prepared journal: bound request event, being recovered
  local,     \* what the running transition holds in memory
  spent      \* what people did, attempts prepared and faults so far

vars == <<timeline, comments, receipts, pc, attempt, local, spent>>

Outcomes == {"consumed", "cancelled", "raced", "recovery_blocked",
             "blocked_after_consumption", "superseded", "ambiguous_blocked"}
(* A host in a resting state holds no prepared attempt.                    *)
Resting  == Outcomes \cup {"idle", "prepared_request_released"}
Stages ==
  {"clear", "unblock", "cleared", "before", "delete", "after",
   "restore_newer", "check", "activate", "prove", "receipt", "release",
   "unlabel", "released", "restore", "requeue", "requeued", "explain",
   "stop", "amb", "amb_add", "amb_explain", "amb_prove"}
Notes == {"ambiguous", "ambiguous_leftover", "blocked", "blocked_leftover",
          "superseded", "superseded_restored"}

Whys == {"none", "blocked", "newer", "unproven", "failed"}
(* What a running transition remembers: the removal it found to be its     *)
(* own, the active state it saw, why it releases it, what it will explain. *)
Memory == [own : Nat, act : Nat, why : Whys, note : Notes \cup {"none"}]

NoLocal == [own |-> 0, act |-> 0, why |-> "none", note |-> "none"]

TypeOK ==
  /\ timeline \in Seq(Event)
  /\ pc \in [Hosts -> Resting \cup Stages \cup {"retained"}]
  /\ attempt \in [Hosts -> [req : Nat, rec : BOOLEAN]]
  /\ local \in [Hosts -> Memory]
  /\ comments \subseteq [host : Hosts, req : DOMAIN timeline, kind : Notes]
  /\ receipts \subseteq [host : Hosts, req : DOMAIN timeline,
                       own : DOMAIN timeline, act : DOMAIN timeline]
  /\ spent \in [acts : 0..MaxPersonActs, attempts : 0..MaxAttempts,
                faults : 0..MaxFaults]

Init ==
  /\ timeline = <<>> /\ comments = {} /\ receipts = {}
  /\ pc = [h \in Hosts |-> "idle"]
  /\ attempt = [h \in Hosts |-> [req |-> 0, rec |-> FALSE]]
  /\ local = [h \in Hosts |-> NoLocal]
  /\ spent = [acts |-> 0, attempts |-> 0, faults |-> 0]

-----------------------------------------------------------------------------
(* What a host knows: the events it is shown and its request's label.      *)

Views == {SubSeq(timeline, 1, n) :
            n \in (IF MaxLag < Len(timeline) THEN Len(timeline) - MaxLag ELSE 0)
                    .. Len(timeline)}
Req(h)   == attempt[h].req
Label(h) == timeline[Req(h)].label
Shown    == LiveLabels(timeline)

(* This host's own removal of the request r, on the events evs.            *)
OwnRemoval(evs, r, who) ==
  Earliest({i \in DOMAIN evs : /\ r < i
                               /\ evs[i].act = "unlabeled"
                               /\ evs[i].label = evs[r].label
                               /\ evs[i].by = who})

NewerRequest(evs, r) ==
  \E i \in DOMAIN evs : /\ r < i
                        /\ evs[i].act = "labeled"
                        /\ evs[i].label = evs[r].label

(* A block in force whose newest event shown an authorized identity wrote. *)
AutomationAuthoredBlock(evs) ==
  LET b == ActiveIssueRequestEvent(evs, "blocked") IN
  "blocked" \in Shown /\ b # 0 /\ evs[b].by \in Logins

(* The timeline after the write this host's stage is about to perform.     *)
Written(h) ==
  CASE pc[h] = "unblock"  -> WithoutLabel(timeline, "blocked", Login[h])
    [] pc[h] = "delete"   -> WithoutLabel(timeline, Label(h), Login[h])
    [] pc[h] = "activate" -> WithLabel(timeline, "inProgress", Login[h])
    [] pc[h] = "unlabel"  -> WithoutLabel(timeline, "inProgress", Login[h])
    [] pc[h] = "amb_add"  -> WithLabel(timeline, "blocked", Login[h])
    [] pc[h] \in {"restore_newer", "requeue"}
                          -> WithLabel(timeline, Label(h), Login[h])
    [] OTHER              -> timeline

Go(h, stage) == pc' = [pc EXCEPT ![h] = stage]
Keep(h, field, value) == local' = [local EXCEPT ![h] = [@ EXCEPT ![field] = value]]
GoNoting(h, stage, note) == Go(h, stage) /\ Keep(h, "note", note)
Finish(h, kind) ==
  /\ Go(h, kind)
  /\ local' = [local EXCEPT ![h] = [@ EXCEPT !.why = "none", !.note = "none"]]
ReadOnly  == UNCHANGED <<timeline, comments, receipts>>
SameBudget == UNCHANGED spent
Spend(what, bound) ==
  /\ spent[what] < bound
  /\ spent' = [spent EXCEPT ![what] = @ + 1]

Ambiguous(h, leftover) ==
  GoNoting(h, "amb", IF leftover THEN "ambiguous_leftover" ELSE "ambiguous")
StopConsumed(h, leftover) ==
  GoNoting(h, "stop", IF leftover THEN "blocked_leftover" ELSE "blocked")

-----------------------------------------------------------------------------
(* Selection, and clearing the block a newer request answers.              *)

(* The coordinator selects a request, exploration first, revalidates it    *)
(* and durably prepares an attempt bound to its event.                     *)
Eligible(evs, l) ==
  /\ l \in Shown
  /\ "inProgress" \notin Shown
  /\ "blocked" \in Shown => RecoveryRequestIsEligible(evs, l)

Select(h) ==
  /\ pc[h] \in Resting \ {"consumed"}
  /\ \E evs \in Views, l \in RequestLabels :
       /\ Eligible(evs, l)
       /\ l = "implement" => ~Eligible(evs, "explore")
       /\ ActiveIssueRequestEvent(evs, l) # 0
       /\ attempt' = [attempt EXCEPT ![h] =
                        [req |-> ActiveIssueRequestEvent(evs, l), rec |-> FALSE]]
  /\ Go(h, "clear")
  /\ local' = [local EXCEPT ![h] = NoLocal]
  /\ Spend("attempts", MaxAttempts)
  /\ ReadOnly

(* clearIssueRecoveryBlock: a block newer than the request ends the launch *)
(* with an error, which leaves the attempt prepared.                       *)
ReadBlock(h) == \E evs \in Views :
  /\ pc[h] = "clear"
  /\ Go(h, IF "blocked" \notin Shown THEN "before"
           ELSE IF RecoveryBlockCanBeCleared(evs, Req(h)) THEN "unblock"
           ELSE "retained")
  /\ ReadOnly /\ SameBudget /\ UNCHANGED <<attempt, local>>

ClearBlock(h) ==
  /\ pc[h] = "unblock"
  /\ timeline' = Written(h)
  /\ Go(h, "cleared")
  /\ SameBudget /\ UNCHANGED <<comments, receipts, attempt, local>>

ProveCleared(h) == \E evs \in Views :
  /\ pc[h] = "cleared"
  /\ Go(h, IF "blocked" \in Shown \/ IssueLabelIsActive(evs, "blocked")
           THEN "retained" ELSE "before")
  /\ ReadOnly /\ SameBudget /\ UNCHANGED <<attempt, local>>

-----------------------------------------------------------------------------
(* consumeIssueRequest.                                                    *)

DecideBefore(h) == \E evs \in Views :
  LET r == Req(h)  latest == LabelEvent(evs, Label(h))
      end(kind) == Go(h, kind) /\ UNCHANGED local
  IN
  /\ pc[h] = "before"
  /\ \/ r \notin DOMAIN evs /\ end("cancelled")
     \/ /\ r \in DOMAIN evs
        /\ "blocked" \in Shown \/ IssueLabelIsActive(evs, "blocked")
        /\ end("recovery_blocked")
     \/ /\ r \in DOMAIN evs
        /\ "blocked" \notin Shown /\ ~IssueLabelIsActive(evs, "blocked")
        /\ \/ latest = r /\ end(IF Label(h) \in Shown THEN "delete" ELSE "cancelled")
           \/ /\ latest # r
              /\ evs[latest].act = "labeled" /\ Label(h) \in Shown
              /\ end("raced")
           \/ /\ latest # r
              /\ ~(evs[latest].act = "labeled" /\ Label(h) \in Shown)
              /\ IF \E i \in DOMAIN evs : /\ r < i /\ evs[i].act = "unlabeled"
                                          /\ evs[i].label = Label(h)
                                          /\ evs[i].by \in Logins
                 THEN Ambiguous(h, FALSE) ELSE end("cancelled")
  /\ ReadOnly /\ SameBudget /\ UNCHANGED attempt

DeleteRequest(h) ==
  /\ pc[h] = "delete"
  /\ timeline' = Written(h)
  /\ Go(h, IF Label(h) \in Shown THEN "after" ELSE "cancelled")
  /\ SameBudget /\ UNCHANGED <<comments, receipts, attempt, local>>

DecideAfter(h) == \E evs \in Views :
  LET r == Req(h)
      own == IF r \in DOMAIN evs THEN OwnRemoval(evs, r, Login[h]) ELSE 0
      latest == LabelEvent(evs, Label(h))
      blocked == "blocked" \in Shown \/ IssueLabelIsActive(evs, "blocked")
      keepOwn(stage) == Go(h, stage) /\ Keep(h, "own", own)
  IN
  /\ pc[h] = "after"
  /\ \/ own = 0 /\ Ambiguous(h, FALSE)
     \/ own # 0 /\ blocked /\ StopConsumed(h, FALSE)
     \/ /\ own # 0 /\ ~blocked
        /\ keepOwn(IF NewerRequest(evs, r)
                   THEN IF /\ Label(h) \notin Shown
                           /\ evs[latest].act = "labeled" \/ latest = own
                        THEN "restore_newer" ELSE "raced"
                   ELSE IF Label(h) \in Shown THEN "raced" ELSE "check")
  /\ ReadOnly /\ SameBudget /\ UNCHANGED attempt

(* Mutant: the newer generation is noticed and not put back.               *)
RestoreNewerForgets(h) ==
  /\ pc[h] = "restore_newer"
  /\ Go(h, "raced")
  /\ ReadOnly /\ SameBudget /\ UNCHANGED <<attempt, local>>

RestoreNewer(h) ==
  /\ pc[h] = "restore_newer"
  /\ timeline' = Written(h)
  /\ Go(h, "raced")
  /\ SameBudget /\ UNCHANGED <<comments, receipts, attempt, local>>

-----------------------------------------------------------------------------
(* createActiveState.                                                      *)

CheckNoActiveState(h) ==
  /\ pc[h] = "check"
  /\ IF "inProgress" \in Shown THEN Ambiguous(h, TRUE)
     ELSE Go(h, "activate") /\ UNCHANGED local
  /\ ReadOnly /\ SameBudget /\ UNCHANGED attempt

AddActiveState(h) ==
  /\ pc[h] = "activate"
  /\ timeline' = Written(h)
  /\ Go(h, "prove")
  /\ SameBudget /\ UNCHANGED <<comments, receipts, attempt, local>>

(* Mutants: any authorized active state adopted; the creator of the label  *)
(* taken for its owner; a winner treated like nobody.                      *)
ContestAdopts(h, evs, act) ==
  IF act = 0 THEN "none" ELSE IF evs[act].by \in Logins THEN "won" ELSE "foreign"
ContestByCreator(h, evs, act) ==
  IF act = 0 THEN "none" ELSE IF evs[act].by = Login[h] THEN "won" ELSE "lost"
ContestIgnoresWinner(h, evs, act) ==
  LET owner == ActiveStateOwner(evs, act) IN
  IF act = 0 \/ owner # local[h].own THEN "none" ELSE "won"

(* Whose active state it is, in the eyes of a host that sees events evs.   *)
Contest(h, evs, act) ==
  LET owner == ActiveStateOwner(evs, act) IN
  IF act = 0 THEN "none"
  ELSE IF evs[act].by \notin Logins \/ owner = 0 THEN "foreign"
  ELSE IF owner = local[h].own THEN "won" ELSE "lost"

ProveActiveState(h) == \E evs \in Views :
  LET r == Req(h)
      act == IF "inProgress" \in Shown THEN LiveActiveState(evs) ELSE 0
      contest == Contest(h, evs, act)
      blocked == "blocked" \in Shown \/ IssueLabelIsActive(evs, "blocked")
      newer == Label(h) \in Shown \/ (r \in DOMAIN evs /\ NewerRequest(evs, r))
      keepAct(stage, why) ==
        /\ Go(h, stage)
        /\ local' = [local EXCEPT ![h] = [@ EXCEPT !.act = act, !.why = why]]
  IN
  /\ pc[h] = "prove"
  /\ \/ contest = "foreign" /\ Ambiguous(h, TRUE)
     \/ contest = "lost" /\ keepAct("restore", "none")
     \/ /\ contest = "none" \/ (contest = "won" /\ (blocked \/ newer))
        /\ keepAct("release", IF blocked THEN "blocked"
                              ELSE IF newer THEN "newer" ELSE "unproven")
     \/ contest = "won" /\ ~blocked /\ ~newer /\ keepAct("receipt", "none")
  /\ ReadOnly /\ SameBudget /\ UNCHANGED attempt

(* persistConsumed: the durable receipt is written last.  A recovering     *)
(* transition has none to write and fails here on purpose.                 *)
PersistConsumed(h) ==
  /\ pc[h] = "receipt"
  /\ IF attempt[h].rec
     THEN Go(h, "release") /\ Keep(h, "why", "failed") /\ UNCHANGED receipts
     ELSE /\ Go(h, "consumed")
          /\ receipts' = receipts \cup
               {[host |-> h, req |-> Req(h), own |-> local[h].own, act |-> local[h].act]}
          /\ UNCHANGED local
  /\ SameBudget /\ UNCHANGED <<timeline, comments, attempt>>

-----------------------------------------------------------------------------
(* releaseActiveState, and what each caller does with its answer.          *)

(* Mutant: a newer generation ends the transition, released or not.        *)
AfterReleaseAssumed(h, released) ==
  CASE local[h].why = "failed"  -> Ambiguous(h, ~released)
    [] local[h].why = "blocked" -> StopConsumed(h, ~released)
    [] local[h].why = "newer"   -> Finish(h, "raced")
    [] OTHER                    -> Ambiguous(h, ~released)

AfterRelease(h, released) ==
  CASE local[h].why = "failed"  -> Ambiguous(h, ~released)
    [] local[h].why = "blocked" -> StopConsumed(h, ~released)
    [] local[h].why = "newer" /\ released -> Finish(h, "raced")
    [] OTHER                    -> Ambiguous(h, ~released)

ReadActiveState(h) ==
  /\ pc[h] = "release"
  /\ IF "inProgress" \in Shown THEN Go(h, "unlabel") /\ UNCHANGED local
     ELSE AfterRelease(h, TRUE)
  /\ ReadOnly /\ SameBudget /\ UNCHANGED attempt

RemoveActiveState(h) ==
  /\ pc[h] = "unlabel"
  /\ timeline' = Written(h)
  /\ Go(h, "released")
  /\ SameBudget /\ UNCHANGED <<comments, receipts, attempt, local>>

ProveReleased(h) ==
  /\ pc[h] = "released"
  /\ AfterRelease(h, "inProgress" \notin Shown)
  /\ ReadOnly /\ SameBudget /\ UNCHANGED attempt

-----------------------------------------------------------------------------
(* restoreConsumedRequest, and the superseded explanation.                 *)

DecideRestore(h) ==
  /\ pc[h] = "restore"
  /\ \/ Label(h) \in Shown /\ GoNoting(h, "explain", "superseded_restored")
     \/ /\ Label(h) \notin Shown
        /\ \E evs \in Views :
             IF LabelEvent(evs, Label(h)) = local[h].own
             THEN Go(h, "requeue") /\ UNCHANGED local
             ELSE GoNoting(h, "explain", "superseded")
  /\ ReadOnly /\ SameBudget /\ UNCHANGED attempt

Requeue(h) ==
  /\ pc[h] = "requeue"
  /\ timeline' = Written(h)
  /\ Go(h, "requeued")
  /\ SameBudget /\ UNCHANGED <<comments, receipts, attempt, local>>

ProveRequeued(h) ==
  /\ pc[h] = "requeued"
  /\ GoNoting(h, "explain", IF Label(h) \in Shown THEN "superseded_restored"
                                                 ELSE "superseded")
  /\ ReadOnly /\ SameBudget /\ UNCHANGED attempt

Comment(h) ==
  comments' = comments \cup {[host |-> h, req |-> Req(h), kind |-> local[h].note]}

(* proveConsumedRequestExplanation, for a superseded or a stopped request. *)
ExplainConsumed(h) ==
  /\ \/ pc[h] = "explain" /\ Finish(h, "superseded")
     \/ pc[h] = "stop"    /\ Finish(h, "blocked_after_consumption")
  /\ Comment(h)
  /\ SameBudget /\ UNCHANGED <<timeline, receipts, attempt>>

-----------------------------------------------------------------------------
(* blockAmbiguousConsumption: a visible stop, then its explanation.  A     *)
(* block somebody else holds, or one that vanishes, ends in an error.      *)

ReadStop(h) == \E evs \in Views :
  /\ pc[h] = "amb"
  /\ Go(h, IF AutomationAuthoredBlock(evs) THEN "amb_explain"
           ELSE IF "blocked" \in Shown THEN "retained" ELSE "amb_add")
  /\ ReadOnly /\ SameBudget /\ UNCHANGED <<attempt, local>>

AddStop(h) ==
  /\ pc[h] = "amb_add"
  /\ timeline' = Written(h)
  /\ Go(h, "amb_explain")
  /\ SameBudget /\ UNCHANGED <<comments, receipts, attempt, local>>

ExplainStop(h) == \E evs \in Views :
  /\ pc[h] = "amb_explain"
  /\ \/ AutomationAuthoredBlock(evs) /\ Comment(h) /\ Go(h, "amb_prove")
     \/ ~AutomationAuthoredBlock(evs) /\ Go(h, "retained") /\ UNCHANGED comments
  /\ SameBudget /\ UNCHANGED <<timeline, receipts, attempt, local>>

ProveStop(h) == \E evs \in Views :
  /\ pc[h] = "amb_prove"
  /\ Finish(h, IF AutomationAuthoredBlock(evs) THEN "ambiguous_blocked" ELSE "retained")
  /\ ReadOnly /\ SameBudget /\ UNCHANGED attempt

-----------------------------------------------------------------------------
(* Faults, recovery, and people.                                           *)

(* The stages whose failure the code catches; elsewhere it propagates.     *)
Caught == {"delete", "after"} \cup
          {"check", "activate", "prove", "receipt"} \cup
          {"release", "unlabel", "released"} \cup
          {"restore", "requeue", "requeued"}

Fail(h) ==
  /\ pc[h] \in Stages /\ Spend("faults", MaxFaults)
  /\ timeline' \in {timeline, Written(h)}
  /\ \/ pc[h] \in {"delete", "after"} /\ Ambiguous(h, FALSE)
     \/ /\ pc[h] \in {"check", "activate", "prove", "receipt"}
        /\ Go(h, "release") /\ Keep(h, "why", "failed")
     \/ pc[h] \in {"release", "unlabel", "released"} /\ AfterRelease(h, FALSE)
     \/ /\ pc[h] \in {"restore", "requeue", "requeued"}
        /\ GoNoting(h, "explain", "superseded")
     \/ /\ pc[h] \notin Caught
        /\ Go(h, "retained") /\ local' = [local EXCEPT ![h] = NoLocal]
  /\ UNCHANGED <<comments, receipts, attempt>>

Crash(h) ==
  /\ pc[h] \in Stages /\ Spend("faults", MaxFaults)
  /\ Go(h, "retained")
  /\ local' = [local EXCEPT ![h] = NoLocal]
  /\ UNCHANGED <<timeline, comments, receipts, attempt>>

(* reconcile-prepared-attempt: with the request gone, the transition is    *)
(* rerun without a receipt to write; with the request waiting and nothing  *)
(* in progress, the attempt is released; otherwise it stays retained.      *)
Reconcile(h) ==
  /\ pc[h] = "retained"
  /\ local' = [local EXCEPT ![h] = NoLocal]
  /\ \/ /\ Label(h) \notin Shown
        /\ attempt' = [attempt EXCEPT ![h] = [@ EXCEPT !.rec = TRUE]]
        /\ Go(h, "before")
     \/ /\ Label(h) \in Shown /\ "inProgress" \notin Shown
        /\ Go(h, "prepared_request_released")
        /\ UNCHANGED attempt
  /\ ReadOnly /\ SameBudget

PersonAct ==
  /\ Spend("acts", MaxPersonActs)
  /\ \/ \E l \in PersonAdds \ Shown : timeline' = WithLabel(timeline, l, Person)
     \/ \E l \in PersonRemoves \cap Shown : timeline' = WithoutLabel(timeline, l, Person)
  /\ UNCHANGED <<comments, receipts, pc, attempt, local>>

HostStep(h) ==
  \/ Select(h) \/ ReadBlock(h) \/ ClearBlock(h) \/ ProveCleared(h)
  \/ DecideBefore(h) \/ DeleteRequest(h) \/ DecideAfter(h)
  \/ RestoreNewer(h) \/ CheckNoActiveState(h) \/ AddActiveState(h)
  \/ ProveActiveState(h) \/ PersistConsumed(h)
  \/ ReadActiveState(h) \/ RemoveActiveState(h) \/ ProveReleased(h)
  \/ DecideRestore(h) \/ Requeue(h) \/ ProveRequeued(h) \/ ExplainConsumed(h)
  \/ ReadStop(h) \/ AddStop(h) \/ ExplainStop(h) \/ ProveStop(h)
  \/ Reconcile(h)

Next == PersonAct \/ \E h \in Hosts : HostStep(h) \/ Fail(h) \/ Crash(h)

Spec == Init /\ [][Next]_vars

-----------------------------------------------------------------------------
(* Correctness.                                                            *)

(* Every durable receipt names the consumption the public timeline gives   *)
(* the active state to: whatever part of the timeline a host had seen when *)
(* it decided, every host that reads the timeline later derives the same   *)
(* owner, and an implementation never starts beside an exploration of the  *)
(* same window.                                                            *)
ReceiptsAreOwned ==
  \A r \in receipts : r.own = ActiveStateOwner(timeline, r.act)

(* One active state starts one attempt: no two receipts share one, unless  *)
(* two hosts write to GitHub under a single identity.                      *)
OneAttemptPerActiveState ==
  \A r, s \in receipts :
    r.act = s.act /\ (Login[r.host] = Login[s.host] => r.host = s.host) => r = s

(* A host takes off the active state in force.                             *)
Releases(h) == /\ LiveActiveState(timeline) # 0
               /\ LiveActiveState(timeline') # LiveActiveState(timeline)
               /\ pc'[h] # pc[h]

(* A host that looked at an active state and found it another's keeps its  *)
(* hands off it for good, whatever fails and however little of the events  *)
(* it was shown ("never releases an active state another consumption       *)
(* owns").                                                                 *)
LoserHandsOff ==
  [][\A h \in Hosts :
       /\ local[h].act # 0 /\ local[h].act = LiveActiveState(timeline)
       /\ ActiveStateOwner(timeline, local[h].act) # local[h].own
       => ~Releases(h)]_vars

(* The stronger reading, which the code does not keep: a host never takes  *)
(* off the state a different host's attempt runs under, seen or not.       *)
HandsOffWinner ==
  [][\A r \in receipts, h \in Hosts :
       r.act = LiveActiveState(timeline) /\ Login[r.host] # Login[h]
         => ~Releases(h)]_vars

(* A request deadloop took off the Issue is never lost in silence: an      *)
(* attempt holds it, it is back on the Issue (or somebody touched it       *)
(* since), a comment explains it, or the host is still at work on it.      *)
AccountedFor(i) ==
  \/ \E j \in DOMAIN timeline : i < j /\ timeline[j].label = timeline[i].label
  \/ \E r \in receipts : r.own = i
  \/ \E c \in comments : /\ Login[c.host] = timeline[i].by /\ c.req < i
                         /\ timeline[c.req].label = timeline[i].label
  \/ \E h \in Hosts : /\ pc[h] \in Stages \cup {"retained"}
                      /\ Login[h] = timeline[i].by
                      /\ Label(h) = timeline[i].label
Taken == {i \in DOMAIN timeline : /\ timeline[i].act = "unlabeled"
                                  /\ timeline[i].label \in RequestLabels
                                  /\ timeline[i].by \in Logins}
NoSilentLoss == \A i \in Taken : AccountedFor(i)

(* The weaker promise that holds even when recovery finds the Issue        *)
(* stopped: a request taken and not accounted for has a stop newer than    *)
(* itself, so an Issue never loses a request without any sign of it.       *)
StoppedSince(i) ==
  \E b \in DOMAIN timeline :
    /\ timeline[b].act = "labeled" /\ timeline[b].label = "blocked"
    /\ \A j \in 1..i : timeline[j].act = "labeled"
                         /\ timeline[j].label = timeline[i].label => j < b
LossIsVisible == \A i \in Taken : AccountedFor(i) \/ StoppedSince(i)

(* An attempt that proved the live active state its own and then yielded   *)
(* has removed that state, or named it as a leftover in its comment: "a    *)
(* stop must never be reported beside a live active state".                *)
ReleasedOrNamed ==
  \A h \in Hosts :
    /\ pc[h] \in {"raced", "blocked_after_consumption", "ambiguous_blocked"}
    /\ local[h].act # 0 /\ local[h].act = LiveActiveState(timeline)
    => \E c \in comments : /\ c.host = h /\ c.req = Req(h)
                           /\ c.kind \in {"ambiguous_leftover", "blocked_leftover"}

(* What a superseded request's comment promises: "the attempt that owns    *)
(* that state was left running".                                           *)
SupersededLeavesOwnerRunning ==
  \A h, g \in Hosts :
    /\ pc[h] = "superseded" /\ local[h].act = LiveActiveState(timeline)
    /\ local[h].act # 0
    /\ local[g].own # 0 /\ local[g].own = ActiveStateOwner(timeline, local[h].act)
    => pc[g] \in Stages \cup {"retained", "consumed"}

=============================================================================

------------------------------- MODULE PrState -------------------------------
(***************************************************************************)
(* One pull request, the attempts on it and the Automation host that serves*)
(* it: the state PrReview, PrWriters, PrAuthority and PrWorkflow act on.   *)
(*                                                                         *)
(* A head is a number that every push raises.  `history` counts what the   *)
(* observation of a review history covers (src/pr-review-history.cts):     *)
(* comments, commits, the state; labels and readiness are not in it.  What *)
(* is written below a deadloop marker is counted per attempt in `said`.    *)
(* A guard the code evaluates right before a write and the write are one   *)
(* step; whatever GitHub or another process can do between two calls can   *)
(* happen between two steps.  How a request is consumed, call by call, is  *)
(* PrRequest; here a consumption is one step that leaves the claim.        *)
(***************************************************************************)
EXTENDS PullRequest, Integers

CONSTANTS
  Asked,        \* the requests people may begin with
  MayAutoMerge, \* the merge policies people may choose: a subset of BOOLEAN
  Outcomes,     \* the reports agents may write
  PersonMay,    \* the kinds of things people may do meanwhile
  MaxActs,      \* bound on what people do
  MaxAttempts,  \* bound on launches
  MaxFaults     \* bound on deaths of a process, failing calls and lost agents

Reports == [reviewer |-> {"approved", "human_required", "changes_requested",
                          "blocked", "storage"},
            writer   |-> {"pushed", "stale_head", "blocked"}]
ASSUME WorkflowAssumption ==
  /\ Asked \subseteq Requests /\ MayAutoMerge \subseteq BOOLEAN
  /\ Outcomes \subseteq Reports.reviewer \cup Reports.writer
  /\ MaxActs \in Nat /\ MaxAttempts \in Nat \ {0} /\ MaxFaults \in Nat

VARIABLES
  pr,       \* the pull request
  said,     \* the marked comments of each attempt
  attempts, \* the attempt journals, their reports, agents and workspaces
  host,     \* the tick, the completion it is in, and the merge policy
  spent     \* what the bounds bound

vars == <<pr, said, attempts, host, spent>>

AttemptIds == 1..MaxAttempts
Phases == {"unused", "agent_started", "report_received", "github_persisted",
           "workspace_closed", "authority_released", "never_launched"}
Stages == {"idle", "patrol", "deliver", "drive",
           "judge", "say", "accept", "ready", "release", "queue", "queue_move",
           "retry_say", "retry_move", "block_say", "block_move", "stop_say",
           "stop_move", "gate", "merge", "merge_fresh",
           "merge_target", "merge_now", "handoff", "hand_ready",
           "hand_labels", "hand_confirm", "close", "persist", "shut",
           "repair", "repair_say", "repair_look", "repair_move", "repair_stop",
           "repair_stop_move", "update", "update_say",
           "refused", "block", "block_note", "restore", "restored",
           "stop_put", "stop_note"}
Closings == {"stale", "review", "progress", "handoff", "both", "writer"}

PullRequests ==
  [state : {"open", "merged", "closed"}, draft : BOOLEAN, conflict : BOOLEAN,
   head : Nat, base : Nat, history : Nat,
   labels : SUBSET Labels, second : Nat, born : [Labels -> Nat]]
Marks == [result : Nat, technical : Nat, block : Nat, stop : Nat]
AttemptRecords ==
  [phase : Phases, role : Roles, head : Nat, base : Nat, born : Nat, history : Nat,
   accepted : Nat, out : Nat,
   report : {"none"} \cup Reports.reviewer \cup Reports.writer,
   agent : {"working", "checked", "pushed", "idle", "gone"},
   verified : {"none", "passed", "failed"},
   auto : BOOLEAN, open : BOOLEAN, handoff : BOOLEAN, stopped : BOOLEAN]
Hosts == [pc : Stages, a : {0} \cup AttemptIds, saw : SUBSET Labels, head : Nat,
          made : {0, 1}, want : Closings, by : {"monitor", "reconcile", "patrol"},
          auto : BOOLEAN, receipt : BOOLEAN]
Budgets == [acts : 0..MaxActs, attempts : 0..MaxAttempts, faults : 0..MaxFaults]

TypeOK ==
  /\ pr \in PullRequests
  /\ said \in [AttemptIds -> Marks]
  /\ attempts \in [AttemptIds -> AttemptRecords]
  /\ host \in Hosts
  /\ spent \in Budgets

Unused == [phase |-> "unused", role |-> "reviewer", head |-> 0, base |-> 0,
           born |-> 0, history |-> 0, accepted |-> 0, out |-> 0,
           report |-> "none", agent |-> "gone", verified |-> "none",
           auto |-> FALSE, open |-> FALSE, handoff |-> FALSE, stopped |-> FALSE]

(* A draft that somebody has asked deadloop to work on.                    *)
Init ==
  /\ \E asked \in Asked :
       pr = [state |-> "open", draft |-> TRUE, conflict |-> asked = "update",
             head |-> 1, base |-> 1, history |-> 0, labels |-> {asked}, second |-> 1,
             born |-> [l \in Labels |-> IF l = asked THEN 1 ELSE 0]]
  /\ said = [a \in AttemptIds |-> [result |-> 0, technical |-> 0,
                                  block |-> 0, stop |-> 0]]
  /\ attempts = [a \in AttemptIds |-> Unused]
  /\ \E auto \in MayAutoMerge :
       host = [pc |-> "idle", a |-> 0, saw |-> {}, head |-> 0, made |-> 0, want |-> "writer",
               by |-> "monitor", auto |-> auto, receipt |-> FALSE]
  /\ spent = [acts |-> 0, attempts |-> 0, faults |-> 0]

-----------------------------------------------------------------------------
(* What the steps of the host are made of.                                 *)
Journal       == attempts[host.a]
At(stage)     == host.pc = stage
Go(stage)     == host' = [host EXCEPT !.pc = stage]
Smooth        == UNCHANGED spent
Spend(what, bound) == spent[what] < bound /\ spent' = [spent EXCEPT ![what] = @ + 1]
Write(field, value) == attempts' = [attempts EXCEPT ![host.a][field] = value]

(* A completion ends.  The monitor's drops its handoff, and the driver may *)
(* run, or keeps it, and the driver waits; reconciliation's and the        *)
(* patrol's let the tick go on.                                            *)
ByReconciliation == host.by = "reconcile"
To(stage) == host' = [host EXCEPT !.pc = stage, !.by = "monitor", !.a = 0,
                                  !.saw = {}, !.head = 0, !.made = 0, !.want = "writer"]
Rest(stage) == To(CASE host.by = "monitor"   -> stage
                    [] host.by = "reconcile" -> "patrol"
                    [] host.by = "patrol"    -> "deliver")
Retain == Rest("idle") /\ UNCHANGED attempts
Settle == Rest("drive") /\ Write("handoff", Journal.handoff /\ host.by # "monitor")
(* The handler throws: a monitor retries it, reconciliation blocks.        *)
Refuse == UNCHANGED attempts /\ IF ByReconciliation THEN Go("refused") ELSE To("idle")

(* An edit of the labels; adding a label that is there writes no event.    *)
Edited(p, new) ==
  [p EXCEPT !.labels = new,
            !.second = IF new \subseteq p.labels THEN @ ELSE @ + 1,
            !.born = Stamped(@, p.labels, new, p.second + 1)]
(* `movePrLabels`: some off, some on, the others as they are.              *)
Moved(off, on) == pr' = Edited(pr, (pr.labels \ off) \cup on)
Commented      == pr' = [pr EXCEPT !.history = @ + 1]
Told(a, what)  == said' = [said EXCEPT ![a][what] = @ + 1]

Open          == pr.state = "open"
Managed       == "progress" \in pr.labels /\ "blocked" \notin pr.labels
OnTarget(head) == Open /\ pr.head = head
(* Phases after which a journal owns nothing.                              *)
ReleasesOwnership(phase) ==
  phase \in {"unused", "workspace_closed", "authority_released", "never_launched"}
Owners     == {a \in AttemptIds : ~ReleasesOwnership(attempts[a].phase)}
HandedOver == {a \in AttemptIds : attempts[a].handoff}
Complete(a) == attempts[a].report \notin {"none", "blocked", "storage"}
=============================================================================

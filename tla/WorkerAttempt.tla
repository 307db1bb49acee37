---------------------------- MODULE WorkerAttempt ----------------------------
(***************************************************************************)
(* The life of one implementation attempt after its Issue was claimed: the *)
(* launch (src/agent-launch-flow.cts), the handoff to the host and its     *)
(* adoption (src/automation-runner.ts, src/launch-handoff-sidecar.cts),    *)
(* the scheduler tick with its journal patrol (extensions/deadloop/index.ts,*)
(* src/scheduler-tick.ts), monitoring, the completion chain, containment,  *)
(* the recovery of attempts nobody monitors, and the operator's abandonment.*)
(*                                                                         *)
(* One host runs these steps one after the other; host.pc is where it is.  *)
(* The agent, people, the runtime and time move in between.  A step is one *)
(* write to GitHub, to the journal or to the runtime, with the reads its   *)
(* code does just before.  A fault is any call of the step that fails, a   *)
(* write having taken effect or not, including a lock that is busy, or a   *)
(* process that dies; MaxFaults bounds them.                               *)
(*                                                                         *)
(* Several programs of the completion chain take the enablement lock, which*)
(* is not reentrant.  The recovery of an unmonitored attempt runs that     *)
(* chain with the lock held; its programs then find the lock busy.         *)
(***************************************************************************)
EXTENDS Naturals

CONSTANTS
  MaxFaults,   \* failing calls and deaths
  MaxTurns,    \* turns a model provider refuses, or that are started again
  MaxMishaps   \* agents that die, workspaces that vanish, Issues that close

ASSUME BoundAssumption ==
  MaxFaults \in Nat /\ MaxTurns \in Nat /\ MaxMishaps \in Nat

VARIABLES
  phase, last, \* the journal
  workspace,   \* the attempt's workspace in Herdr
  agent,       \* the agent in it: its turn's state, or gone
  report,      \* the completion report the journal points to
  issue,       \* the Issue: open, its labels, whether a stop is explained
  published,   \* how far the result is on GitHub
  watch,       \* the host's handoff, the launch's sidecar, the clocks
  marks,       \* the receipts beside the journal
  host,        \* the host: its step, whose chain it runs, what it observed
  spent        \* what the bounds bound

journal == <<phase, last>>
runtime == <<workspace, agent, report>>
github  == <<issue, published>>
vars == <<journal, runtime, github, watch, marks, host, spent>>

Journal == INSTANCE AttemptJournal

Live  == {"working", "idle", "refused"}
(* A report whose output is its input is complete if GitHub already holds  *)
(* the pull request of an earlier attempt for it, and a no-op if not.      *)
Valid == {"blocked", "noop", "complete"}
Pushed    == 1 \* the branch is pushed
Requested == 2 \* a draft pull request carries the review request
Marked    == 3 \* the persistence marker is on it

LaunchSteps == {"open", "record", "prepare", "start", "confirm", "clean_up",
                "hand_over", "result"}
ChainSteps  == {"verify", "push", "pr", "persist", "complete",
                "say", "move", "conclude"}
StopSteps   == {"stop", "block", "explain", "clear", "settle"}
ContainSteps == {"check", "relabel", "tell", "shut", "release"}
Steps == {"claim", "adopt", "idle", "reconcile", "recover", "collect",
          "deliver", "select"}
           \cup LaunchSteps \cup ChainSteps \cup StopSteps \cup ContainSteps

Issues   == [open : BOOLEAN, active : BOOLEAN, blocked : BOOLEAN, told : BOOLEAN]
Watches  == [handoff : {"none", "kept", "waiting"}, sidecar : BOOLEAN,
             clock : {"fresh", "running", "overdue"}]
Receipts == [closing : BOOLEAN, abandoning : BOOLEAN, cleaned : BOOLEAN,
             retired : BOOLEAN]
Chains   == {"none", "patrol", "recovery", "monitor"}
Reasons  == {"none", "timeout", "missing", "invalid"}
Hosts    == [pc : Steps, chain : Chains, why : Reasons, live : BOOLEAN]
Budgets  == [faults : 0..MaxFaults, turns : 0..MaxTurns, mishaps : 0..MaxMishaps]

TypeOK ==
  /\ phase \in Journal!Phases /\ last \in Journal!Successes
  /\ workspace \in {"none", "open", "closed"}
  /\ agent \in Live \cup {"none", "gone"}
  /\ report \in Valid \cup {"none", "invalid"}
  /\ issue \in Issues /\ published \in 0..Marked
  /\ watch \in Watches /\ marks \in Receipts
  /\ host \in Hosts /\ spent \in Budgets

Init ==
  /\ phase = "prepared" /\ last = "prepared"
  /\ workspace = "none" /\ agent = "none" /\ report = "none"
  /\ issue = [open |-> TRUE, active |-> FALSE, blocked |-> FALSE, told |-> FALSE]
  /\ published = 0
  /\ watch = [handoff |-> "none", sidecar |-> FALSE, clock |-> "fresh"]
  /\ marks = [closing |-> FALSE, abandoning |-> FALSE,
              cleaned |-> FALSE, retired |-> FALSE]
  /\ host = [pc |-> "claim", chain |-> "none", why |-> "none", live |-> FALSE]
  /\ spent = [faults |-> 0, turns |-> 0, mishaps |-> 0]

-----------------------------------------------------------------------------
At(step) == host.pc = step
Go(step) == host' = [host EXCEPT !.pc = step]

Smooth == UNCHANGED spent
Fault  == /\ spent.faults < MaxFaults
          /\ spent' = [spent EXCEPT !.faults = @ + 1]
Spend(what, bound) == /\ spent[what] < bound
                      /\ spent' = [spent EXCEPT ![what] = @ + 1]

(* The journal's writers.                                                  *)
Advance(p) == phase' = p /\ last' = p
FailLaunch == phase' = "launch_failed" /\ UNCHANGED last
ReleaseAuthority == phase' = "authority_released" /\ UNCHANGED last
Releases == phase \in Journal!ReleasingPhases

(* A closed workspace takes its agent along.                               *)
CloseWorkspace == /\ workspace' = "closed"
                  /\ agent' = IF agent \in Live THEN "gone" ELSE agent
                  /\ UNCHANGED report

Monitored == watch.handoff # "none"
Forget == watch' = [watch EXCEPT !.handoff = "none",
                                 !.clock = IF @ = "overdue" THEN "running" ELSE @]
(* An exception in a delivery makes the host forget the attempt.           *)
Drop == Forget /\ Go("select")

(* A chain is over; its caller goes on.                                    *)
ChainEnds(applied) ==
  /\ host' = [host EXCEPT !.chain = "none",
                          !.pc = CASE host.chain = "monitor"  -> "select"
                                   [] host.chain = "recovery" -> "collect"
                                   [] OTHER -> "deliver"]
  /\ IF applied /\ host.chain = "monitor" THEN Forget ELSE UNCHANGED watch
(* The caller of the chain holds the lock this program needs.              *)
LockIsOurs == host.chain = "recovery"

-----------------------------------------------------------------------------
(* The launch, under the enablement lock.                                  *)

Claim ==
  /\ At("claim") /\ Smooth
  /\ Advance("github_claimed")
  /\ issue' = [issue EXCEPT !.active = TRUE]
  /\ Go("open")
  /\ UNCHANGED <<runtime, published, watch, marks>>

OpenWorkspace ==
  /\ At("open")
  /\ \/ Smooth /\ workspace' = "open" /\ Go("record") /\ UNCHANGED journal
     \/ Fault /\ workspace' \in {"none", "open"} /\ FailLaunch /\ Go("adopt")
  /\ UNCHANGED <<agent, report, github, watch, marks>>

RecordWorkspaceOpened ==
  /\ At("record")
  /\ \/ Smooth /\ Advance("workspace_opened") /\ Go("prepare")
     \/ Fault /\ UNCHANGED journal /\ Go("clean_up")
  /\ UNCHANGED <<runtime, github, watch, marks>>

PrepareAgent ==
  /\ At("prepare")
  /\ \/ Smooth /\ Go("start")
     \/ Fault /\ Go("clean_up")
  /\ UNCHANGED <<journal, runtime, github, watch, marks>>

(* From here on a failing launch leaves everything as it is.               *)
StartAgent ==
  /\ At("start")
  /\ \/ /\ Smooth /\ workspace = "open"
        /\ agent' \in {"working", "idle"} /\ Go("confirm") /\ UNCHANGED journal
     \/ /\ Fault /\ FailLaunch /\ Go("adopt")
        /\ agent' \in IF workspace = "open" THEN {"none", "working"} ELSE {"none"}
     \/ /\ Smooth /\ workspace # "open"
        /\ FailLaunch /\ Go("adopt") /\ UNCHANGED agent
  /\ UNCHANGED <<workspace, report, github, watch, marks>>

ConfirmAgent ==
  /\ At("confirm")
  /\ \/ Smooth /\ agent \in Live /\ Advance("agent_started") /\ Go("hand_over")
     \/ Smooth /\ agent \notin Live /\ FailLaunch /\ Go("adopt")
     \/ Fault /\ FailLaunch /\ Go("adopt")
  /\ UNCHANGED <<runtime, github, watch, marks>>

CleanUpLaunch ==
  /\ At("clean_up") /\ FailLaunch /\ Go("adopt")
  /\ \/ Smooth /\ CloseWorkspace
     \/ Fault /\ UNCHANGED runtime
  /\ UNCHANGED <<github, watch, marks>>

WriteLaunchHandoff ==
  /\ At("hand_over")
  /\ \/ Smooth /\ watch' = [watch EXCEPT !.sidecar = TRUE] /\ Go("result")
     \/ Fault /\ UNCHANGED watch /\ Go("adopt")
  /\ UNCHANGED <<journal, runtime, github, marks>>

(* The host registers the driver's result, unless the result is lost; a    *)
(* sidecar that cannot be removed stays.                                   *)
RegisterHandoff ==
  /\ At("result")
  /\ \/ /\ Smooth /\ Go("deliver")
        /\ watch' = [watch EXCEPT !.handoff = "kept", !.sidecar = FALSE]
     \/ /\ Fault /\ Go("deliver")
        /\ watch' = [watch EXCEPT !.handoff = "kept"]
     \/ Fault /\ Go("adopt") /\ UNCHANGED watch
  /\ UNCHANGED <<journal, runtime, github, marks>>

DriverDies ==
  /\ host.pc \in LaunchSteps /\ Fault /\ Go("adopt")
  /\ UNCHANGED <<journal, runtime, github, watch, marks>>

(* After every run of the launching driver.                                *)
AdoptOrphan ==
  /\ At("adopt") /\ Smooth /\ Go("idle")
  /\ watch' = IF watch.sidecar /\ phase = "agent_started" /\ ~Monitored
              THEN [watch EXCEPT !.handoff = "kept", !.sidecar = FALSE]
              ELSE watch
  /\ UNCHANGED <<journal, runtime, github, marks>>

-----------------------------------------------------------------------------
(* The tick: the journal patrol, one delivery, maybe a run of the driver.  *)

Tick ==
  /\ At("idle") /\ Smooth /\ Go("reconcile")
  /\ UNCHANGED <<journal, runtime, github, watch, marks>>

HasWorkspaceRecord == last \notin {"prepared", "github_claimed"}
Unmonitored == phase \in {"agent_started", "report_received"} /\ ~Monitored

(* An unresolved claim keeps the host from scheduling anything.            *)
BlockScheduling ==
  /\ At("reconcile") /\ phase = "github_claimed" /\ Smooth /\ Go("idle")
  /\ UNCHANGED <<journal, runtime, github, watch, marks>>

(* A released attempt's workspace is closed by the patrol once: a failed   *)
(* close leaves its receipt as well.                                       *)
PatrolReleased ==
  /\ At("reconcile") /\ phase = "authority_released" /\ ~marks.cleaned
  /\ marks' = [marks EXCEPT !.cleaned = TRUE]
  /\ \/ Smooth /\ CloseWorkspace
     \/ Fault /\ UNCHANGED runtime
  /\ Go("deliver")
  /\ UNCHANGED <<journal, github, watch>>

(* A target that is closed, or a worktree that somebody removed, whose     *)
(* absence is a failing call wherever else it is met.                      *)
RetireClosedTarget ==
  /\ At("reconcile") /\ Unmonitored /\ ~marks.retired
  /\ \/ /\ (~issue.open /\ Smooth) \/ Spend("mishaps", MaxMishaps)
        /\ marks' = [marks EXCEPT !.retired = TRUE] /\ Go("deliver")
     \/ ~issue.open /\ Fault /\ UNCHANGED marks /\ Go("recover")
  /\ UNCHANGED <<journal, runtime, github, watch>>

PatrolOther ==
  /\ At("reconcile") /\ Smooth
  /\ \/ /\ \/ Releases /\ (phase = "authority_released" => marks.cleaned)
           \/ phase = "launch_failed" /\ ~HasWorkspaceRecord
           \/ Unmonitored /\ marks.retired
        /\ Go("deliver")
     \/ Unmonitored /\ ~marks.retired /\ issue.open /\ Go("recover")
     \/ /\ ~Releases /\ HasWorkspaceRecord /\ ~Unmonitored
        /\ Go("collect")
  /\ UNCHANGED <<journal, runtime, github, watch, marks>>

(* What monitoring decides from the report, the runtime and the clocks.    *)
Directive ==
  CASE report \in Valid                            -> "completion"
    [] report \notin Valid /\ agent = "working"
         /\ watch.clock = "overdue" /\ Monitored   -> "timeout"
    [] report \notin Valid /\ agent = "working"
         /\ ~(watch.clock = "overdue" /\ Monitored) -> "working"
    [] report = "invalid" /\ agent # "working"     -> "invalid"
    [] report = "none" /\ agent = "refused"        -> "refused"
    [] report = "none" /\ agent \notin {"working", "refused"}
         /\ watch.clock = "fresh"                  -> "working"
    [] OTHER                                       -> "missing"

(* A blocked report has nothing to publish.                                *)
CompletionStep == IF report = "blocked" THEN "stop" ELSE "verify"

(* reconcile-report-received-attempt: it takes the lock and keeps it.      *)
Recover ==
  /\ At("recover")
  /\ \/ Fault /\ Go("collect")
     \/ /\ Smooth /\ (agent = "working" \/ Directive = "working") /\ Go("collect")
     \/ /\ Smooth /\ agent # "working" /\ Directive = "completion"
        /\ host' = [host EXCEPT !.chain = "recovery", !.pc = CompletionStep]
     \/ /\ Smooth /\ agent # "working" /\ Directive \in {"invalid", "refused", "missing"}
        /\ host' = [host EXCEPT !.chain = "recovery", !.pc = "block"]
  /\ UNCHANGED <<journal, runtime, github, watch, marks>>

(* What a report says is complete, or GitHub already has, is collected.    *)
Collect ==
  /\ At("collect") /\ Smooth
  /\ IF ~Releases /\ HasWorkspaceRecord
        /\ (phase = "github_persisted" \/ report \in {"complete", "noop"})
     THEN host' = [host EXCEPT !.chain = "patrol", !.pc = "complete"]
     ELSE Go("deliver")
  /\ UNCHANGED <<journal, runtime, github, watch, marks>>

Select ==
  /\ At("select") /\ Smooth
  /\ Go("idle") \/ (~Monitored /\ Go("adopt"))
  /\ UNCHANGED <<journal, runtime, github, watch, marks>>

-----------------------------------------------------------------------------
(* The completion chain, one program per step.                             *)

(* The required verification of a policy that changed, or that one failing *)
(* call made pass for changed, stops the attempt; that takes the lock, and *)
(* needs the claim or the stop's own comment.                              *)
PolicyIsStale == Fault \/ Spend("mishaps", MaxMishaps)
MayStopStale == ~LockIsOurs /\ issue.open /\ (issue.active \/ issue.told)

(* A "noop" names its own input as output and is stopped.  One whose result*)
(* a pull request carries already goes the way of "complete": the steps of *)
(* its publication find what they would have written.                      *)
VerifyRequired ==
  /\ At("verify")
  /\ \/ Smooth /\ Go(IF report = "noop" THEN "stop" ELSE "push") /\ UNCHANGED watch
     \/ PolicyIsStale /\ MayStopStale /\ Go("say") /\ UNCHANGED watch
     \/ PolicyIsStale /\ ~MayStopStale /\ ChainEnds(FALSE)
     \/ Fault /\ ChainEnds(FALSE)
  /\ UNCHANGED <<journal, runtime, github, marks>>

(* The stop's comment, then its labels.                                    *)
SayStale ==
  /\ At("say")
  /\ LET said == [issue EXCEPT !.told = TRUE] IN
     \/ Smooth /\ issue' = said /\ Go("move") /\ UNCHANGED watch
     \/ Fault /\ issue' \in {issue, said} /\ ChainEnds(FALSE)
  /\ UNCHANGED <<journal, runtime, published, marks>>

MoveStale ==
  /\ At("move")
  /\ LET moved == [issue EXCEPT !.active = FALSE, !.blocked = TRUE] IN
     \/ Smooth /\ issue' = moved /\ Go("conclude") /\ UNCHANGED watch
     \/ Fault /\ issue' \in {issue, moved} /\ ChainEnds(FALSE)
  /\ UNCHANGED <<journal, runtime, published, marks>>

(* The completion of an attempt that was stopped so: the stop on the Issue *)
(* takes the place of the result.                                          *)
ConcludeStale ==
  /\ At("conclude")
  /\ \/ /\ Smooth /\ UNCHANGED <<runtime, watch, host>>
        /\ \/ phase = "agent_started" /\ Advance("report_received")
           \/ phase = "report_received" /\ issue.open /\ Advance("github_persisted")
     \/ /\ Smooth /\ phase = "github_persisted" /\ workspace = "open"
        /\ CloseWorkspace /\ UNCHANGED <<journal, watch, host>>
     \/ /\ Smooth /\ phase = "github_persisted" /\ workspace # "open"
        /\ Advance("workspace_closed") /\ UNCHANGED runtime /\ ChainEnds(TRUE)
     \/ /\ Fault \/ (Smooth /\ phase = "report_received" /\ ~issue.open)
        /\ UNCHANGED <<journal, runtime>> /\ ChainEnds(FALSE)
  /\ UNCHANGED <<github, marks>>

Publish(step, level, next) ==
  /\ At(step) /\ ~LockIsOurs
  /\ \/ /\ Smooth /\ Go(next) /\ UNCHANGED watch
        /\ published' = IF published < level THEN level ELSE published
     \/ /\ Fault /\ ChainEnds(FALSE)
        /\ published' \in {published, IF published < level THEN level ELSE published}
  /\ UNCHANGED <<journal, runtime, issue, marks>>

GuardedPush     == Publish("push", Pushed, "pr")
EnsureWorkerPr  == Publish("pr", Requested, "persist")
PersistMarker   == Publish("persist", Marked, "complete")

FindLockBusy ==
  /\ host.pc \in {"push", "stop"} /\ LockIsOurs
  /\ Smooth /\ ChainEnds(FALSE)
  /\ UNCHANGED <<journal, runtime, github, marks>>

(* complete-attempt-workspace goes from phase to phase as far as it can.   *)
Persisted == published = Marked /\ report = "complete"
(* Mutant: the pull request is taken for the persisted result.             *)
NextCompletionUnmarked ==
  CASE phase = "workspace_opened" /\ agent \in Live  -> "agent_started"
    [] phase = "agent_started"                       -> "report_received"
    [] phase = "report_received" /\ published >= Requested
         /\ report = "complete" /\ workspace = "open" -> "github_persisted"
    [] phase = "github_persisted" /\ workspace # "open" -> "workspace_closed"
    [] OTHER                                         -> "none"
NextCompletion ==
  CASE phase = "workspace_opened" /\ agent \in Live  -> "agent_started"
    [] phase = "agent_started"                       -> "report_received"
    [] phase = "report_received" /\ Persisted /\ workspace = "open"
                                                     -> "github_persisted"
    [] phase = "github_persisted" /\ workspace # "open" -> "workspace_closed"
    [] OTHER                                         -> "none"

AdvanceCompletion ==
  /\ At("complete") /\ Smooth
  /\ NextCompletion \in {"agent_started", "report_received", "github_persisted"}
  /\ Advance(NextCompletion)
  /\ UNCHANGED <<runtime, github, watch, marks, host>>

(* Mutant: the workspace is closed as soon as the report is recorded.      *)
CloseCompletedEarly ==
  /\ At("complete") /\ phase \in {"report_received", "github_persisted"}
  /\ workspace = "open"
  /\ Smooth /\ CloseWorkspace
  /\ UNCHANGED <<journal, github, watch, marks, host>>
CloseCompleted ==
  /\ At("complete") /\ phase = "github_persisted" /\ workspace = "open"
  /\ Smooth /\ CloseWorkspace
  /\ UNCHANGED <<journal, github, watch, marks, host>>

EndCompletion ==
  /\ At("complete")
  /\ \/ /\ Smooth /\ NextCompletion = "workspace_closed"
        /\ Advance("workspace_closed") /\ ChainEnds(TRUE)
     \/ /\ Smooth /\ NextCompletion = "none"
        /\ ~(phase = "github_persisted" /\ workspace = "open")
        /\ UNCHANGED journal /\ ChainEnds(FALSE)
     \/ Fault /\ UNCHANGED journal /\ ChainEnds(FALSE)
  /\ UNCHANGED <<runtime, github, marks>>

(* A blocked or no-op report is stopped under the lock; the report becomes *)
(* the journal's record first.                                             *)
EnterStop ==
  /\ At("stop") /\ ~LockIsOurs
  /\ \/ /\ Smooth /\ Go("block") /\ UNCHANGED watch
        /\ IF phase = "agent_started" THEN Advance("report_received")
                                      ELSE UNCHANGED journal
     \/ Fault /\ ChainEnds(FALSE) /\ UNCHANGED journal
  /\ UNCHANGED <<runtime, github, marks>>

(* persistIssueAttemptStop, one write to the Issue at a time.              *)
StopWrite(step, field, value, next) ==
  /\ At(step)
  /\ \/ /\ Smooth /\ Go(next) /\ UNCHANGED watch
        /\ issue' = [issue EXCEPT ![field] = value]
     \/ /\ Fault /\ ChainEnds(FALSE)
        /\ issue' \in {issue, [issue EXCEPT ![field] = value]}
  /\ UNCHANGED <<journal, runtime, published, marks>>

BlockIssue   == StopWrite("block", "blocked", TRUE, "explain")
ExplainStop  == StopWrite("explain", "told", TRUE, "clear")
ClearActive  == StopWrite("clear", "active", FALSE, "settle")

(* The closure after it needs the lock that the stop still holds, so the   *)
(* chain never ends applied.                                               *)
SettleStop ==
  /\ At("settle")
  /\ \/ /\ Smooth
        /\ IF host.chain = "recovery" THEN ReleaseAuthority
                                      ELSE Advance("github_persisted")
     \/ Fault /\ UNCHANGED journal
  /\ ChainEnds(FALSE)
  /\ UNCHANGED <<runtime, github, marks>>

-----------------------------------------------------------------------------
(* The delivery of the retained handoff.                                   *)

SettledPhase == phase \in Journal!ReleasingPhases \cup {"github_persisted"}

DeliverNothing ==
  /\ At("deliver") /\ ~Monitored /\ Smooth /\ Go("select")
  /\ UNCHANGED <<journal, runtime, github, watch, marks>>

(* A workspace that will not close is left to the patrol.                  *)
DeliverSettled ==
  /\ At("deliver") /\ Monitored /\ (SettledPhase \/ ~issue.open)
  /\ \/ Smooth /\ CloseWorkspace
     \/ Fault /\ UNCHANGED runtime
  /\ Forget /\ Go("select")
  /\ UNCHANGED <<journal, github, marks>>

(* A closed Issue whose state cannot be read is monitored on.              *)
Undecided == /\ At("deliver") /\ Monitored /\ ~SettledPhase
             /\ IF issue.open THEN Smooth ELSE Fault

DeliverCompletion ==
  /\ Undecided /\ Directive = "completion"
  /\ host' = [host EXCEPT !.chain = "monitor", !.pc = CompletionStep]
  /\ UNCHANGED <<journal, runtime, github, watch, marks>>

DeliverWorking ==
  /\ Undecided /\ Directive = "working" /\ Go("select")
  /\ UNCHANGED <<journal, runtime, github, watch, marks>>

DeliverStop ==
  /\ Undecided /\ Directive \in {"timeout", "invalid", "missing"}
  /\ host' = [host EXCEPT !.why = Directive, !.pc = "check"]
  /\ UNCHANGED <<journal, runtime, github, watch, marks>>

(* A refused turn: the first delivery says so on the Issue and waits, the  *)
(* next one prompts the agent again.                                       *)
DeliverWait ==
  /\ Undecided /\ Directive = "refused" /\ Go("select")
  /\ \/ /\ watch.handoff = "kept" /\ UNCHANGED runtime
        /\ watch' = [watch EXCEPT !.handoff = "waiting"]
     \/ /\ watch.handoff = "waiting"
        /\ agent' = "working" /\ UNCHANGED <<workspace, report>>
        /\ watch' = [watch EXCEPT !.handoff = "kept"]
  /\ UNCHANGED <<journal, github, marks>>

(* An observation that fails keeps the handoff; any other call that fails  *)
(* (the notice, the retry, the chain's own process) throws.                *)
DeliveryFails ==
  /\ At("deliver") /\ Monitored /\ ~SettledPhase /\ Fault
  /\ \/ Go("select") /\ UNCHANGED watch
     \/ Directive \in {"completion", "refused"} /\ Drop
  /\ UNCHANGED <<journal, runtime, github, marks>>

-----------------------------------------------------------------------------
(* contain-terminal-monitor: the stop of an attempt without a result.      *)

(* The disposition read again, here and in decideMonitorContainment: a     *)
(* refused turn is looked at before the report.                            *)
(* Mutant: only a missing report is confirmed without a turn.              *)
StillAppliesUnlessInvalid ==
  IF host.why = "timeout"
  THEN agent = "working"
  ELSE report = "none" /\ watch.clock # "fresh" /\ agent \in {"idle", "none", "gone"}
StillApplies ==
  CASE host.why = "timeout" -> agent = "working"
    [] host.why = "missing" -> /\ report = "none" /\ watch.clock # "fresh"
                               /\ agent \in {"idle", "none", "gone"}
    [] OTHER                -> /\ report = "invalid"
                               /\ agent \in {"idle", "none", "gone"}
RuntimeProven == workspace = "open" \/ marks.closing
(* The attempt still holds its Issue, or the stop has moved the labels.    *)
TargetProven == issue.active \/ issue.blocked

ConfirmStop ==
  /\ At("check")
  /\ \/ /\ Smooth /\ issue.open /\ StillApplies /\ UNCHANGED watch
        /\ TargetProven /\ RuntimeProven
        /\ host' = [host EXCEPT !.live = workspace = "open" /\ agent \in Live,
                                !.pc = "relabel"]
     \/ /\ Smooth /\ Go("select") /\ UNCHANGED watch
        /\ ~StillApplies \/ (issue.open /\ ~(TargetProven /\ RuntimeProven))
     \/ Smooth /\ StillApplies /\ ~issue.open /\ Drop
     \/ Fault /\ Drop
  /\ UNCHANGED <<journal, runtime, github, marks>>

(* Mutant: an Issue that is blocked already is taken for explained.        *)
MoveLabelsOnce ==
  /\ At("relabel")
  /\ LET stopped == [issue EXCEPT !.active = FALSE, !.blocked = TRUE] IN
     \/ /\ Smooth /\ issue' = stopped /\ UNCHANGED watch
        /\ Go(IF issue.blocked THEN "release" ELSE "tell")
     \/ Fault /\ issue' \in {issue, stopped} /\ Drop
  /\ UNCHANGED <<journal, runtime, published, marks>>
(* One PUT of the whole label set.                                         *)
MoveLabels ==
  /\ At("relabel")
  /\ LET stopped == [issue EXCEPT !.active = FALSE, !.blocked = TRUE] IN
     \/ Smooth /\ issue' = stopped /\ Go("tell") /\ UNCHANGED watch
     \/ Fault /\ issue' \in {issue, stopped} /\ Drop
  /\ UNCHANGED <<journal, runtime, published, marks>>

(* A comment GitHub does not list yet keeps the handoff.                   *)
PostStop ==
  /\ At("tell")
  /\ LET told == [issue EXCEPT !.told = TRUE] IN
     \/ Smooth /\ issue' = told /\ UNCHANGED watch
          /\ Go(IF host.live THEN "shut" ELSE "release")
     \/ Fault /\ issue' \in {issue, told} /\ Drop
     \/ Fault /\ issue' = told /\ Go("select") /\ UNCHANGED watch
  /\ UNCHANGED <<journal, runtime, published, marks>>

(* The receipt comes first; a workspace still listed after the close keeps *)
(* the handoff.                                                            *)
ShutWorkspace ==
  /\ At("shut") /\ marks' = [marks EXCEPT !.closing = TRUE]
  /\ \/ Smooth /\ CloseWorkspace /\ Go("release") /\ UNCHANGED watch
     \/ Fault /\ UNCHANGED runtime /\ Drop
     \/ Fault /\ UNCHANGED <<runtime, watch>> /\ Go("select")
  /\ UNCHANGED <<journal, github>>

ReleaseStopped ==
  /\ At("release")
  /\ \/ Smooth /\ ReleaseAuthority
     \/ Fault /\ UNCHANGED journal
  /\ Drop
  /\ UNCHANGED <<runtime, github, marks>>

-----------------------------------------------------------------------------
(* The operator's /deadloop-doctor command for a launch that failed.  It   *)
(* may stop after each of its writes and be run again.                     *)

LockIsHeld == \/ host.pc \in LaunchSteps \cup ContainSteps
              \/ host.pc \in {"block", "explain", "clear", "settle"}
              \/ host.chain # "none"

(* Mutant: any failed launch with a workspace can be abandoned.            *)
AbandonAnyLaunch ==
  /\ phase = "launch_failed" \/ phase = "abandoned"
  /\ issue.open /\ issue.active
  /\ ~LockIsHeld /\ agent \notin Live
  /\ workspace = "open" \/ marks.abandoning
  /\ workspace' = "closed" /\ marks' = [marks EXCEPT !.abandoning = TRUE]
  /\ \/ Smooth /\ phase' = "abandoned" /\ issue' = [issue EXCEPT !.active = FALSE]
     \/ Fault /\ phase' \in {phase, "abandoned"} /\ UNCHANGED issue
  /\ UNCHANGED <<last, agent, report, published, watch, host>>

AbandonLaunchFailed ==
  /\ phase = "launch_failed" \/ phase = "abandoned"
  /\ last = "workspace_opened" /\ issue.open /\ issue.active
  /\ ~LockIsHeld /\ agent \notin Live
  /\ workspace = "open" \/ marks.abandoning
  /\ workspace' = "closed" /\ marks' = [marks EXCEPT !.abandoning = TRUE]
  /\ \/ Smooth /\ phase' = "abandoned" /\ issue' = [issue EXCEPT !.active = FALSE]
     \/ Fault /\ phase' \in {phase, "abandoned"} /\ UNCHANGED issue
  /\ UNCHANGED <<last, agent, report, published, watch, host>>

-----------------------------------------------------------------------------
(* The agent, the runtime, people and time.                                *)

AgentMoves ==
  /\ \/ /\ agent = "working" /\ report \in {"none", "invalid"}
        /\ report' \in Valid \cup {"invalid"} /\ report' # report
        /\ Smooth /\ UNCHANGED agent
     \/ agent = "working" /\ agent' = "idle" /\ Smooth /\ UNCHANGED report
     \/ /\ agent = "working" /\ agent' = "refused"
        /\ Spend("turns", MaxTurns) /\ UNCHANGED report
     \/ /\ agent \in {"idle", "refused"} /\ agent' = "working"
        /\ Spend("turns", MaxTurns) /\ UNCHANGED report
     \/ /\ agent \in Live /\ agent' = "gone"
        /\ Spend("mishaps", MaxMishaps) /\ UNCHANGED report
  /\ UNCHANGED <<journal, workspace, github, watch, marks, host>>

WorkspaceVanishes ==
  /\ workspace = "open" /\ CloseWorkspace /\ Spend("mishaps", MaxMishaps)
  /\ UNCHANGED <<journal, github, watch, marks, host>>

PersonClosesIssue ==
  /\ issue.open /\ issue' = [issue EXCEPT !.open = FALSE]
  /\ phase # "prepared" /\ Spend("mishaps", MaxMishaps)
  /\ UNCHANGED <<journal, runtime, published, watch, marks, host>>

LaunchGraceEnds ==
  /\ watch.clock = "fresh" /\ last \notin {"prepared", "github_claimed", "workspace_opened"}
  /\ watch' = [watch EXCEPT !.clock = "running"]
  /\ UNCHANGED <<journal, runtime, github, marks, host, spent>>

LimitPasses ==
  /\ watch.clock = "running" /\ Monitored /\ agent = "working"
  /\ watch' = [watch EXCEPT !.clock = "overdue"]
  /\ UNCHANGED <<journal, runtime, github, marks, host, spent>>

(* The host's process dies and is started again; what it holds in memory   *)
(* is lost, its state file and the receipts are not.                       *)
Crash ==
  /\ host.pc \notin {"claim", "idle"} /\ Fault
  /\ host' = [host EXCEPT !.chain = "none", !.pc = "idle"]
  /\ UNCHANGED <<journal, runtime, github, watch, marks>>

-----------------------------------------------------------------------------
LaunchStep ==
  \/ Claim \/ OpenWorkspace \/ RecordWorkspaceOpened \/ PrepareAgent
  \/ StartAgent \/ ConfirmAgent \/ CleanUpLaunch \/ WriteLaunchHandoff
  \/ RegisterHandoff \/ AdoptOrphan
PatrolStep ==
  \/ Tick \/ BlockScheduling \/ PatrolReleased \/ RetireClosedTarget
  \/ PatrolOther \/ Recover \/ Collect \/ Select
ChainStep ==
  \/ VerifyRequired \/ SayStale \/ MoveStale \/ ConcludeStale
  \/ GuardedPush \/ EnsureWorkerPr \/ PersistMarker \/ FindLockBusy
  \/ AdvanceCompletion \/ CloseCompleted \/ EndCompletion
  \/ EnterStop \/ BlockIssue \/ ExplainStop \/ ClearActive \/ SettleStop
DeliveryStep ==
  \/ DeliverNothing \/ DeliverSettled \/ DeliverCompletion \/ DeliverWorking
  \/ DeliverStop \/ DeliverWait \/ DeliveryFails
ContainStep ==
  \/ ConfirmStop \/ MoveLabels \/ PostStop \/ ShutWorkspace \/ ReleaseStopped
HostStep == LaunchStep \/ PatrolStep \/ ChainStep \/ DeliveryStep \/ ContainStep
OutsideStep ==
  \/ AbandonLaunchFailed \/ AgentMoves \/ WorkspaceVanishes \/ PersonClosesIssue
  \/ LaunchGraceEnds \/ LimitPasses \/ DriverDies \/ Crash

Next == HostStep \/ OutsideStep

(* The host keeps stepping while its session lives, and clocks go on.      *)
Fairness == /\ WF_vars(HostStep)
            /\ WF_vars(LaunchGraceEnds) /\ WF_vars(LimitPasses)

Spec == Init /\ [][Next]_vars /\ Fairness

-----------------------------------------------------------------------------
(* Authority is released by a stop only, and a stop is on the Issue, with  *)
(* its reason and without the active label, before the journal says so:    *)
(* the two orders of writes, containment's and recovery's, both keep this. *)
ReleasedIsExplained ==
  phase = "authority_released" => issue.told /\ issue.blocked /\ ~issue.active

(* The journal claims persistence only of a result or a stop that is       *)
(* completely on GitHub.                                                   *)
PersistedIsPublic ==
  phase \in {"github_persisted", "workspace_closed"} =>
    Persisted \/ (issue.told /\ issue.blocked /\ ~issue.active)

(* The host closes a workspace over a live agent only after the stop was   *)
(* explained, the result was persisted or the Issue was closed.            *)
LiveWorkEndsForAReason ==
  [][(agent \in Live /\ agent' = "gone" /\ spent.mishaps' = spent.mishaps)
       => issue.told \/ Persisted \/ ~issue.open]_vars

(* No write of the launch, the chains, the patrol, recovery, containment   *)
(* or abandonment, in any interleaving, is one the journal refuses.        *)
JournalSpec == Journal!Spec

(* The ways an attempt can stay where it is for ever although its host     *)
(* keeps going.                                                            *)
RejectedInvalid == Monitored /\ report = "invalid" /\ agent = "refused"
Vanished        == /\ workspace = "closed"
                   /\ phase \in {"agent_started", "report_received"}
                   /\ \/ report = "complete"
                      \/ Monitored /\ report \notin Valid /\ ~marks.closing
NeverPersisted  == ~Monitored /\ report \in Valid
NeverTimedOut   == ~Monitored /\ agent = "working"
Stuck == RejectedInvalid \/ Vanished \/ NeverPersisted \/ NeverTimedOut

(* An attempt the host once monitored ends up released, retired or in one  *)
(* of the named ways of being stuck, whatever fails a bounded number of    *)
(* times.                                                                  *)
MonitoredSettles ==
  [](Monitored => <>[](Releases \/ marks.retired \/ Stuck))

(* A bound completion report nobody monitors is persisted by recovery, as  *)
(* extensions/deadloop/README.md says.                                     *)
RecoveryPersists ==
  (Unmonitored /\ report = "complete" /\ agent # "working") ~>
    (phase = "workspace_closed")
=============================================================================

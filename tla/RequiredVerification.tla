------------------------- MODULE RequiredVerification -------------------------
(***************************************************************************)
(* One attempt from its completion report to its push: the host verifies a *)
(* Worker (run-worker-required-verification.cts, guarded-push.cts) and a   *)
(* Reviewer (up to the authorization of the approval); the agents of a     *)
(* review repair and of a branch update run a finalizer that verifies and  *)
(* pushes (finalizer-required-verification.cts and the two *-finalize.cts).*)
(* The attempt's role is chosen initially.                                 *)
(*                                                                         *)
(* The agent's pane stays open, so it may change the checkout, its report  *)
(* and the attempt-local files between any two steps of the host.  A step  *)
(* is one observation or one write; MaxFaults bounds failing calls,        *)
(* timeouts, signals and deaths, MaxActs the agent, MaxMoves the world.    *)
(***************************************************************************)
EXTENDS VerificationPolicy

CONSTANTS MaxActs, MaxMoves, MaxFaults, MaxRuns \* MaxRuns: finalizer runs

ASSUME VerificationBounds ==
  MaxActs \in Nat /\ MaxMoves \in Nat /\ MaxFaults \in Nat /\ MaxRuns \in Nat

VARIABLES
  attempt,   \* role, whether its journal is as launched, tracked scratch files
  policy,    \* the trusted policy now
  tree,      \* the checkout: HEAD, clean, where the agent's scratch areas are
  report,    \* the commit the completion report names
  record, evidence, \* the attempt-local record, the host's evidence
  check,     \* the command that runs or just ran
  run,       \* the program that verifies or pushes, and where it is
  target,    \* the Issue or the pull request, as far as this program reads it
  remote,    \* the branch on GitHub
  ran,       \* ghost: commits the host saw pass, and stand still
  spent

files == <<record, evidence>>
vars == <<attempt, policy, tree, report, record, evidence, check, run, target,
          remote, ran, spent>>

Finalizers == {"review-repair", "branch-update"}
Roles == Finalizers \cup {"worker", "reviewer"}
Finalizing == attempt.role \in Finalizers
Other == "other" \* a commit somebody else pushed
ASSUME OtherAssumption == Other \notin Commits

HostSteps == {"idle", "gate", "clean", "checking", "post", "evidence", "record",
              "notice", "say", "move", "shut", "push", "locked", "boundary",
              "pushing", "pr", "persist", "close", "noop", "approve", "approved",
              "done"}
FinalizerSteps == {"off", "ensure", "check", "last", "between", "guard"}
(* The handlers of SIGINT and SIGTERM are installed.                       *)
Holding == Finalizing /\ run.pc \in {"ensure", "check", "checking", "post",
                                     "evidence", "record", "last"}

Targets == [open : BOOLEAN, active : BOOLEAN, blocked : BOOLEAN,
            said : SUBSET {"fixed", "current"}, told : SUBSET Commits]
TypeOK ==
  /\ attempt \in [role : Roles, intact : BOOLEAN, tracked : BOOLEAN]
  /\ policy \in Policies
  /\ tree \in [head : Commits, clean : BOOLEAN,
               scratch : {"home", "away", "retained"}]
  /\ report \in Commits
  /\ record \in Records \cup {NoRecord} /\ evidence \subseteq Records
  /\ check \in [verdict : Outcomes \cup {None}, steady : BOOLEAN]
  /\ run \in [pc : HostSteps \cup FinalizerSteps, out : Commits,
              why : {None, "fixed", "current"}, round : 1..2, signal : BOOLEAN]
  /\ target \in Targets
  /\ remote \in Commits \cup {None, Other}
  /\ ran \subseteq Commits
  /\ spent \in [acts : 0..MaxActs, moves : 0..MaxMoves, faults : 0..MaxFaults,
                runs : 0..MaxRuns]

NoCheck == [verdict |-> None, steady |-> TRUE]
Rest(r) == [pc |-> IF r \in Finalizers THEN "off" ELSE "idle", out |-> Start,
            why |-> None, round |-> 1, signal |-> FALSE]

(* The agent has worked, and has reported the commit it stands on.         *)
Init ==
  /\ attempt \in [role : Roles, intact : {TRUE}, tracked : BOOLEAN]
  /\ policy = Contract
  /\ \E c \in Commits : /\ attempt.role = "reviewer" => c = Start
                        /\ tree = [head |-> c, clean |-> TRUE, scratch |-> "home"]
                        /\ report = c
  /\ record = NoRecord /\ evidence = {} /\ check = NoCheck
  /\ run = Rest(attempt.role)
  /\ target = [open |-> TRUE, active |-> TRUE, blocked |-> FALSE,
               said |-> {}, told |-> {}]
  /\ remote = IF attempt.role = "worker" THEN None ELSE Start
  /\ ran = {}
  /\ spent = [acts |-> 0, moves |-> 0, faults |-> 0, runs |-> 0]

-----------------------------------------------------------------------------
At(pc) == run.pc = pc
Go(pc) == run' = [run EXCEPT !.pc = pc]
Spend(what, bound) == /\ spent[what] < bound
                      /\ spent' = [spent EXCEPT ![what] = @ + 1]
Smooth == UNCHANGED spent
Fault  == Spend("faults", MaxFaults)
(* The program throws: the host keeps a Worker's attempt for a later tick, *)
(* a finalizer reports to its agent, and what a Reviewer's verification    *)
(* throws is swallowed, its result dispatched all the same.                *)
Thrown == IF attempt.role = "reviewer" /\ run.pc # "approve"
          THEN [Rest("reviewer") EXCEPT !.pc = "approve", !.out = run.out]
          ELSE Rest(attempt.role)
Exits == run' = Thrown /\ check' = NoCheck
(* A step that observes: it goes on as told, or its call fails.            *)
OrFails(step) == \/ Smooth /\ step
                 \/ Fault /\ Exits
Settled == tree.head = run.out /\ tree.clean
Allowed(commit) == Authorized(attempt.intact, policy, record, evidence, commit)

-----------------------------------------------------------------------------
(* The host's tick over a reported attempt.                                *)

(* A passed record that still binds the report is not verified again.      *)
Tick ==
  /\ At("idle")
  /\ \/ /\ Smooth
        /\ run' = [run EXCEPT !.out = report,
             !.pc = IF attempt.role # "worker" \/ ~Allowed(report) THEN "gate"
                    ELSE IF report = Start /\ remote # Start THEN "noop" ELSE "push"]
     \/ Fault /\ run' = [run EXCEPT !.out = report, !.pc = "gate"]
  /\ UNCHANGED <<attempt, policy, tree, report, files, check, target, remote, ran>>

(* The trusted base is fetched only from a source gh names; when it cannot *)
(* name it, that passes for a stale policy too (authenticatedFetchUrl), and*)
(* a Worker is stopped whose policy may be current.                        *)
SourceUnnamed == Fault /\ attempt.role = "worker" /\ attempt.intact

(* A journal that differs from the snapshot, and every block of a Reviewer,*)
(* is an exception; a Worker's block is a stop.                            *)
ContractGate ==
  /\ At("gate")
  /\ \/ SourceUnnamed /\ run' = [run EXCEPT !.pc = "say", !.why = "fixed"] /\ UNCHANGED check
     \/ OrFails(IF attempt.intact /\ Current(policy) THEN Go("clean") /\ UNCHANGED check
                ELSE IF attempt.intact /\ attempt.role = "worker"
                THEN /\ run' = [run EXCEPT !.pc = "say", !.why = Scope(policy)]
                     /\ UNCHANGED check
                ELSE Exits)
  /\ UNCHANGED <<attempt, policy, tree, report, files, target, remote, ran>>

(* Mutant: whatever failed before is checked again and said nothing of.    *)
KnownFailureNever == FALSE
(* Mutant: a check that was cut short is taken for a failure.              *)
KnownUnlessPassed == /\ record.outcome \notin {"none", "passed"} /\ Bound(record, run.out)
                     /\ Authentic(record, evidence)
KnownFailure == /\ record.outcome = "failed" /\ Bound(record, run.out)
                /\ Authentic(record, evidence)
(* The scratch areas move to the quarantine.  A repository that tracks     *)
(* files in one is refused; an area that cannot be moved brings the others *)
(* back, or the quarantine stays and a record of it is filed.              *)
HideScratch(after) ==
  \/ /\ Smooth /\ ~attempt.tracked
     /\ tree' = [tree EXCEPT !.scratch = IF @ = "home" THEN "away" ELSE @]
     /\ check' = NoCheck /\ Go("checking")
  \/ /\ Smooth /\ attempt.tracked /\ UNCHANGED tree
     /\ check' = [NoCheck EXCEPT !.verdict = "failed"] /\ Go(after)
  \/ /\ Fault /\ ~attempt.tracked
     /\ tree' \in {tree, [tree EXCEPT !.scratch = "retained"]}
     /\ check' = [NoCheck EXCEPT !.verdict = "failed"] /\ Go(after)

CleanGate ==
  /\ At("clean")
  /\ \/ /\ ~Settled /\ Smooth
        /\ Exits /\ UNCHANGED tree
     \/ /\ Settled /\ KnownFailure /\ Smooth
        /\ Go("notice") /\ UNCHANGED <<tree, check>>
     \/ /\ Settled /\ ~KnownFailure
        /\ HideScratch("post")
  /\ UNCHANGED <<attempt, policy, report, files, target, remote, ran>>

(* The failure of these inputs is published once, and only on an Issue.    *)
FailureNotice ==
  /\ At("notice")
  /\ \/ /\ Smooth
        /\ target' = IF attempt.role = "worker" /\ target.open
                     THEN [target EXCEPT !.told = @ \cup {record.of}] ELSE target
     \/ Fault /\ UNCHANGED target
  /\ Exits
  /\ UNCHANGED <<attempt, policy, tree, report, files, remote, ran>>

-----------------------------------------------------------------------------
(* The check, in whichever program started it.                             *)

(* What the command may say of a tree nobody touched meanwhile; of any     *)
(* other tree it may say anything.                                         *)
Verdicts == IF check.steady
            THEN {IF tree.head \in Passing THEN "passed" ELSE "failed"}
            ELSE {"passed", "failed"}

(* A finalizer that saw a signal discards what the command said.  Only a   *)
(* passed command goes on to the post-check there.                         *)
CheckEnds ==
  /\ At("checking")
  /\ \E verdict \in Outcomes, retained \in BOOLEAN :
       /\ \/ /\ Smooth /\ ~run.signal /\ verdict \in Verdicts /\ ~retained
          \/ /\ Smooth /\ run.signal /\ verdict = "interrupted" /\ ~retained
          \/ /\ Fault
             /\ \/ verdict \in {"timed_out", "failed"}
                \/ verdict = "interrupted" /\ (Finalizing => run.signal)
       /\ tree' = [tree EXCEPT !.scratch = CASE retained /\ @ = "away" -> "retained"
                                             [] @ = "away" -> "home"
                                             [] OTHER -> @]
       /\ check' = [check EXCEPT !.verdict = verdict]
       /\ Go(IF Finalizing /\ verdict # "passed" THEN "evidence" ELSE "post")
  /\ UNCHANGED <<attempt, policy, report, files, target, remote, ran>>

(* Mutant: the tree that passed is not looked at again.                    *)
StandsAnyway == attempt.intact /\ Current(policy)
StandsStill == Settled /\ attempt.intact /\ Current(policy)

(* A commit passed if the command did and the tree and the contract still  *)
(* are what was checked; a call that fails here fails the verification, and*)
(* stops a Worker when it is the one that names the source.                *)
PostCheck ==
  /\ At("post")
  /\ LET blocked == attempt.role = "worker" /\ Settled /\ attempt.intact /\ ~Current(policy)
         holds   == check.verdict = "passed" /\ StandsStill
     IN \/ /\ Smooth
           /\ check' = [check EXCEPT !.verdict = IF @ = "passed" /\ ~StandsStill
                                                 THEN "failed" ELSE @]
           /\ run' = [run EXCEPT !.pc = "evidence",
                                 !.why = IF blocked THEN Scope(policy) ELSE None]
           /\ ran' = IF check.verdict = "passed" /\ Settled /\ Current(policy)
                     THEN ran \cup {run.out} ELSE ran
        \/ /\ \/ Fault /\ Go("evidence")
              \/ /\ SourceUnnamed /\ Settled
                 /\ run' = [run EXCEPT !.pc = "evidence", !.why = "fixed"]
           /\ check' = [check EXCEPT !.verdict = IF @ = "passed" THEN "failed" ELSE @]
           /\ UNCHANGED ran
  /\ UNCHANGED <<attempt, policy, tree, report, files, target, remote>>

Written == [of |-> run.out, by_host |-> TRUE,
            outcome |-> IF run.signal THEN "interrupted" ELSE check.verdict]

(* A Worker that reports its input is stopped, unless it is on GitHub.     *)
AfterVerification == IF run.out = Start /\ remote # Start THEN "noop" ELSE "push"

(* The host's copy first.  A finalizer looks for a signal before it.       *)
PersistEvidence ==
  /\ At("evidence")
  /\ \/ /\ Smooth
        /\ evidence' = evidence \cup {Written}
        /\ check' = [check EXCEPT !.verdict = Written.outcome] /\ Go("record")
     \/ Fault /\ Exits /\ UNCHANGED evidence
  /\ UNCHANGED <<attempt, policy, tree, report, record, target, remote, ran>>

PersistRecord ==
  /\ At("record")
  /\ \/ /\ Smooth
        /\ record' = [of |-> run.out, outcome |-> check.verdict, by_host |-> TRUE]
        /\ check' = NoCheck
        /\ run' = CASE check.verdict = "passed" /\ Finalizing -> [run EXCEPT !.pc = "last"]
                    [] run.why # None -> [run EXCEPT !.pc = "say"]
                    [] check.verdict = "passed" /\ attempt.role = "worker" ->
                         [run EXCEPT !.pc = AfterVerification]
                    [] OTHER -> Thrown
     \/ Fault /\ Exits /\ UNCHANGED record
  /\ UNCHANGED <<attempt, policy, tree, report, evidence, target, remote, ran>>

-----------------------------------------------------------------------------
(* A Worker whose policy went stale: the stop, under the enablement lock.  *)

(* Mutant: a stop that lost its claim is not taken up again.               *)
StopNeedsClaim == target.open /\ target.active
StopApplies == target.open /\ (target.active \/ run.why \in target.said)

(* A write that may fail before or after it took effect.                   *)
Write(after, next) == \/ Smooth /\ target' = after /\ Go(next) /\ UNCHANGED check
                      \/ Fault /\ target' \in {target, after} /\ Exits

StopSay ==
  /\ At("say")
  /\ IF StopApplies
     THEN Write([target EXCEPT !.said = @ \cup {run.why}], "move")
     ELSE Smooth /\ Exits /\ UNCHANGED target
  /\ UNCHANGED <<attempt, policy, tree, report, files, remote, ran>>

StopMove ==
  /\ At("move")
  /\ Write([target EXCEPT !.active = FALSE, !.blocked = TRUE], "shut")
  /\ UNCHANGED <<attempt, policy, tree, report, files, remote, ran>>

(* The workspace closes only over the exact stop.                          *)
StopShut ==
  /\ At("shut")
  /\ OrFails(IF target.open /\ target.blocked /\ ~target.active /\ run.why \in target.said
             THEN run' = [Rest("worker") EXCEPT !.pc = "done"] /\ UNCHANGED check
             ELSE Exits)
  /\ UNCHANGED <<attempt, policy, tree, report, files, target, remote, ran>>

-----------------------------------------------------------------------------
(* guarded-push and what follows it.  The push is authorized three times,  *)
(* and the commit authorized last is the one that is pushed.               *)

AuthorizePush ==
  /\ At("push")
  /\ OrFails(IF Allowed(report) THEN Go("locked") /\ UNCHANGED check ELSE Exits)
  /\ UNCHANGED <<attempt, policy, tree, report, files, target, remote, ran>>

AuthorizeLocked ==
  /\ At("locked")
  /\ OrFails(IF Allowed(report) /\ tree.head = report
             THEN run' = [run EXCEPT !.pc = "boundary", !.out = report] /\ UNCHANGED check
             ELSE Exits)
  /\ UNCHANGED <<attempt, policy, tree, report, files, target, remote, ran>>

(* A repair looks at its pull request again, an update does not.           *)
Unmoved == attempt.role = "review-repair" => target.open /\ target.active /\ ~target.blocked
AuthorizeBoundary ==
  /\ At("boundary")
  /\ OrFails(IF /\ tree.head = run.out
                /\ IF Finalizing THEN remote = Start /\ Unmoved
                   ELSE Allowed(report) /\ report = run.out
             THEN Go("pushing") /\ UNCHANGED check ELSE Exits)
  /\ UNCHANGED <<attempt, policy, tree, report, files, target, remote, ran>>

(* A Worker's push must extend the branch, a finalizer's leases its head.  *)
Accepted == IF Finalizing THEN remote = Start
            ELSE remote \in {None, run.out}
                 \/ (remote \in Commits /\ run.out \notin Straying \cup {Start})
Pushes ==
  /\ At("pushing")
  /\ \/ /\ Smooth
        /\ remote' = IF Accepted THEN run.out ELSE remote
        /\ IF Accepted /\ ~Finalizing THEN Go("pr") /\ UNCHANGED check ELSE Exits
     \/ /\ Fault /\ Exits
        /\ remote' \in {remote} \cup IF Accepted THEN {run.out} ELSE {}
  /\ UNCHANGED <<attempt, policy, tree, report, files, target, ran>>

(* guarded-worker-pr, persist-attempt-result, complete-attempt-workspace   *)
(* authorize once more; the pull request must show the reported commit.    *)
Publish(pc, next) ==
  /\ At(pc)
  /\ OrFails(IF Allowed(report) /\ remote = report
             THEN Go(next) /\ UNCHANGED check ELSE Exits)
  /\ UNCHANGED <<attempt, policy, tree, report, files, target, remote, ran>>
OpenPr  == Publish("pr", "persist")
Persist == Publish("persist", "close")
CloseWorkspace == Publish("close", "done")

(* A Worker that did nothing: its attempt is stopped and its Issue blocked.*)
StopNoop ==
  /\ At("noop")
  /\ Write([target EXCEPT !.active = FALSE, !.blocked = TRUE], "done")
  /\ UNCHANGED <<attempt, policy, tree, report, files, remote, ran>>

-----------------------------------------------------------------------------
(* The finalizers.                                                         *)

MayVerify == /\ tree.head \notin Straying \cup {Start}
             /\ attempt.role = "review-repair" => tree.clean
FinalizerStarts ==
  /\ At("off") /\ Spend("runs", MaxRuns) /\ MayVerify
  /\ run' = [run EXCEPT !.pc = "ensure", !.out = tree.head]
  /\ UNCHANGED <<attempt, policy, tree, report, files, check, target, remote, ran>>

(* Only an exact authentic passed record is reused.                        *)
EnsureVerification ==
  /\ At("ensure")
  /\ OrFails(IF attempt.intact /\ Current(policy)
             THEN /\ Go(IF Allowed(run.out) THEN "last" ELSE "check")
                  /\ UNCHANGED check
             ELSE Exits)
  /\ UNCHANGED <<attempt, policy, tree, report, files, target, remote, ran>>

ExecuteCheck ==
  /\ At("check") /\ HideScratch("evidence")
  /\ UNCHANGED <<attempt, policy, report, files, target, remote, ran>>

(* Mutant: the durable record is the end of it.                            *)
LastUnobserved == FALSE
LastSignal == run.signal
(* The last look for a signal; then the handlers go.                       *)
LastObservation ==
  /\ At("last") /\ Smooth
  /\ IF LastSignal
     THEN /\ check' = [check EXCEPT !.verdict = "interrupted"] /\ Go("evidence")
     ELSE /\ Go(IF run.round = 1 THEN "between" ELSE "guard")
          /\ UNCHANGED check
  /\ UNCHANGED <<attempt, policy, tree, report, files, target, remote, ran>>

(* Clean and unmoved; then, with the enablement lock, once more.           *)
EnterPush ==
  /\ At("between")
  /\ OrFails(IF Settled THEN run' = [run EXCEPT !.pc = "ensure", !.round = 2] /\ UNCHANGED check
             ELSE Exits)
  /\ UNCHANGED <<attempt, policy, tree, report, files, target, remote, ran>>

PushGuard ==
  /\ At("guard")
  /\ OrFails(IF target.open /\ remote = Start THEN Go("boundary") /\ UNCHANGED check
             ELSE Exits)
  /\ UNCHANGED <<attempt, policy, tree, report, files, target, remote, ran>>

Signal ==
  /\ Holding /\ ~run.signal /\ Fault
  /\ run' = [run EXCEPT !.signal = TRUE]
  /\ UNCHANGED <<attempt, policy, tree, report, files, check, target, remote, ran>>

-----------------------------------------------------------------------------
(* The agent, the world, deaths.                                           *)

Acting == Spend("acts", MaxActs) /\ run.pc \notin {"done", "approved"}

Work ==
  /\ Acting
  /\ \E c \in Commits, clean \in BOOLEAN :
       tree' = [tree EXCEPT !.head = c, !.clean = clean] /\ report' \in {report, c}
  /\ tree' # tree
  /\ check' = [check EXCEPT !.steady = @ /\ ~At("checking")]
  /\ UNCHANGED <<attempt, policy, files, run, target, remote, ran>>

Reports ==
  /\ Acting /\ report' \in Commits \ {report}
  /\ UNCHANGED <<attempt, policy, tree, files, check, run, target, remote, ran>>

(* The attempt-local record is the agent's to write: what it makes up has  *)
(* no twin, and an old one can be put back.                                *)
WritesRecord ==
  /\ Acting
  /\ record' \in evidence \cup {NoRecord} \cup
       [of : {report, tree.head}, outcome : {"passed"}, by_host : {FALSE}]
  /\ record' # record
  /\ UNCHANGED <<attempt, policy, tree, report, evidence, check, run, target, remote, ran>>

EditsJournal ==
  /\ Acting /\ attempt.intact /\ attempt' = [attempt EXCEPT !.intact = FALSE]
  /\ UNCHANGED <<policy, tree, report, files, check, run, target, remote, ran>>

World ==
  /\ Spend("moves", MaxMoves)
  /\ \/ /\ policy' \in Policies \ {policy}
        /\ policy.base = "moved" => policy'.base = "moved"
        /\ UNCHANGED <<target, remote>>
     \/ target.open /\ target' = [target EXCEPT !.open = FALSE] /\ UNCHANGED <<policy, remote>>
     \/ remote # Other /\ remote' = Other /\ UNCHANGED <<policy, target>>
  /\ UNCHANGED <<attempt, tree, report, files, check, run, ran>>

(* A program dies where it stands; hidden areas stay where they were put.  *)
Crash ==
  /\ run.pc \notin {"idle", "off", "done", "approved"} /\ Fault
  /\ run' = Rest(attempt.role) /\ check' = NoCheck
  /\ UNCHANGED <<attempt, policy, tree, report, files, target, remote, ran>>

(* The approval of a Reviewer is authorized like a push.                   *)
Approve ==
  /\ At("approve")
  /\ OrFails(IF Allowed(report) /\ report = Start
             THEN Go("approved") /\ UNCHANGED check ELSE Exits)
  /\ UNCHANGED <<attempt, policy, tree, report, files, target, remote, ran>>

CheckStep == CheckEnds \/ PostCheck \/ PersistEvidence \/ PersistRecord
HostStep == \/ Tick \/ ContractGate \/ CleanGate \/ FailureNotice \/ Approve
            \/ StopSay \/ StopMove \/ StopShut \/ StopNoop
            \/ AuthorizePush \/ AuthorizeLocked \/ OpenPr \/ Persist \/ CloseWorkspace
FinalizerStep == EnsureVerification \/ ExecuteCheck \/ LastObservation
                 \/ EnterPush \/ PushGuard
ProgramStep == CheckStep \/ HostStep \/ FinalizerStep \/ AuthorizeBoundary \/ Pushes
OutsideStep == FinalizerStarts \/ Signal \/ Work \/ Reports \/ WritesRecord
               \/ EditsJournal \/ World \/ Crash
Next == ProgramStep \/ OutsideStep

(* The scheduler ticks, and a program that runs goes on: a call returns or *)
(* times out, the command ends or is killed.  Nothing is assumed of agents,*)
(* people, or of a finalizer being started.                                *)
Fairness == WF_vars(ProgramStep)
Spec == Init /\ [][Next]_vars /\ Fairness

-----------------------------------------------------------------------------
(* What reaches GitHub is a commit the host saw pass under the contract,   *)
(* standing still, whatever the agent does to its checkout, its report and *)
(* its records in between (assertRequiredVerificationAuthorized).          *)
PushIsVerified == remote \in Commits \ {Start} => remote \in ran

(* A finalizer that was signalled while it verified does not push          *)
(* (withFinalizerInterruption).                                            *)
SignalStopsThePush == [][Pushes => ~run.signal]_vars

(* A failed verification that will not be repeated is told on the Issue    *)
(* (applyVerificationFailureNotice), unless its inputs change first or the *)
(* attempt ends in a stop that says why: the policy is stale, or one call  *)
(* failed and it passes for stale (isRequiredVerificationPolicyBlock).     *)
Repeats(c) == /\ attempt.role = "worker" /\ attempt.intact /\ Current(policy)
              /\ report = c /\ tree.head = c /\ tree.clean /\ target.open
Known(c) == record = [of |-> c, outcome |-> "failed", by_host |-> TRUE]
StopIsSaid == At("done") /\ target.blocked /\ target.said # {}
FailureIsTold == \A c \in Commits :
  (Repeats(c) /\ Known(c)) ~>
    (c \in target.told \/ StopIsSaid \/ ~(Repeats(c) /\ Known(c)))

(* A Worker's stale attempt is stopped, its workspace closed, as long as   *)
(* the stop keeps its reason (applyCompletionRequiredVerificationStop).    *)
Stale(s) == /\ attempt.role = "worker" /\ attempt.intact
            /\ ~Current(policy) /\ Scope(policy) = s
            /\ target.open /\ (target.active \/ s \in target.said)
StaleIsStopped == \A s \in {"fixed", "current"} :
  Stale(s) ~> (At("done") \/ ~Stale(s))

(* A Worker's passing commit reaches GitHub, as long as nothing moves and  *)
(* the Worker is not stopped: for an earlier report of having done nothing,*)
(* or because one call failed and its current policy passed for stale.  A  *)
(* call that failed once may also have left a failure never repeated.      *)
Deserves(c) == /\ Repeats(c) /\ c \in Passing \ (Straying \cup {Start}) /\ ~attempt.tracked
               /\ remote # Other /\ ~Known(c) /\ ~target.blocked /\ run.pc \notin {"noop", "done"}
PassingIsPushed == \A c \in Commits : Deserves(c) ~> (remote = c \/ ~Deserves(c))

-----------------------------------------------------------------------------
(* Not so.  A failed verification of the same inputs would fail again      *)
(* (run-worker-required-verification.cts): one failed call is enough.      *)
FailureIsTheCommands == \A c \in Passing :
  Repeats(c) /\ Known(c) /\ spent.acts = 0 => attempt.tracked

(* Not so.  A stopped attempt does not resume because the policy is back   *)
(* (README.md:164): it does if its workspace stayed open.                  *)
StopIsFinal == [][Pushes /\ ~Finalizing => ~target.blocked]_vars
=============================================================================

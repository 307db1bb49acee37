# deadloop in TLA+

deadloop watches the Issues and pull requests of a GitHub repository, starts
coding agents in Herdr workspaces, monitors them, verifies and publishes what
they produce. Several *Automation hosts* (machines, sessions) may serve one
repository. They share no database: workflow state is the labels and the event
timeline of each Issue and pull request on GitHub, which offers no
compare-and-swap, and local state is a directory of JSON files guarded by lock
files.

This directory holds TLA+ models of the parts where that makes correctness
hard, the TLC runs that check them and the TLAPS proofs of the main safety
properties. `PROJECT.json` is the machine-readable index: what each definition
models (`map`, with source lines), what each run checks, the hazards of the
code, the findings, the theorems.

## Inventory

| Part (source) | State it keeps | Operations | What is hard | Correct when |
|---|---|---|---|---|
| Agent request consumption (`src/issue-request-transition.cts`, `reconcile-prepared-attempt.cts`) | labels and timeline of an Issue; the attempt's journal | select, clear a recovery block, delete the request label, add `in-progress`, prove ownership, write the receipt, release, requeue, stop, recover | every read and write is a call of its own; other hosts and people act in between; any call may fail, the process may die; event lists lag | one attempt per active state; no active state without an owner or an explanation; no request lost silently |
| Issue coordinator and worktree cleanup (`issue-coordinator-*.cts`, `issue-required-verification-stop.cts`, `worktree-cleanup.cts`, `src/dispatch-lock.cts`) | Issues, worktrees, the dispatch lock | select, gate, stop, resume a stop, launch, settle, clean up | what was observed before a lock or an `await` is acted on after it; a tick that throws is repeated for ever | stops are explained, work is kept, requests are answered |
| Enablement lock (`src/enablement-lock.cjs`) | lock, claim and captured files | acquire, reclaim, release | stale-lock reclaim by several processes through renames and links | mutual exclusion; a dead owner's lock never keeps others out |
| Scheduler lock (`src/scheduler-lock.cjs`, `src/kernel-file-lock.cjs`) | lock inode, flock, metadata | acquire, release | flock is on an inode, exclusion is meant on a path | one serving host; a dead host's lock is free |
| Enablement (`extensions/deadloop/index.ts`, `src/enablement.ts`, `src/enabled-operation.cjs`, `src/driver-enablement.cjs`, `src/disable-generation.cjs`, `guarded-operation.cts`) | enabled record, disable generation, enable attempt | enable, disable, guarded operation, rollbacks | commands release the lock between sections; disable publishes its intent without the lock | a disable stops work at once and for good; a failing enable undoes its own record only |
| Scheduling (`extensions/deadloop/index.ts` from the scheduler down, `src/scheduler-tick.ts`, `src/one-shot-execution.cjs`, `src/code-identity.ts`) | per session: timer, tick in flight, held lock, pending start; shared: enabled and one-shot record | start, stop, tick, poll, run once, reload | a session changes hands at every `await`; records change under a tick | never two authorized drivers; a stop frees the repository; what was started is served |
| Attempt journal (`src/attempt-lifecycle.ts`, `src/agent-launch-flow.cts`) | one record per attempt: phase, workspace, report, persistence | prepare, claim, open, start, report, persist, close, fail, abandon, release | read-check-rename by several processes | phases only advance; a terminal record stays |
| Issue completion (`persistIssueAttemptStop`, `persistSuccessfulExploration`) | labels, comments, journal | publish a result or a stop, then release | retried after every failure; people re-request meanwhile | result before release; a newer request survives |
| Attempt workspaces (`src/attempt-workspace-lifecycle.ts`, `complete-attempt-workspace.cts`) | runner workspaces, worktrees | reconcile, close | the runner's answers may be uncertain | nothing closed before it is persisted |
| Monitoring, handoffs (`src/automation-runner.ts`, `src/attempt-monitoring.cts`, `src/launch-handoff-sidecar.cts`) | automation state, retained handoffs | deliver, monitor, adopt | a delivery that fails, a poll that races with a report | every launched attempt is monitored until it settles |
| Pull-request requests (`pr-request-selection.cts`, `pr-reviewer-driver.cts`) | labels, their events, journals | select, consume, claim, launch, recover | as for Issues, with three requests and a head that moves | consumed is what was bound; one claim per request |
| Review, repair, branch update (`complete-deterministic-pr-attempt.cts`, `pr-review-repair-*.cts`, `pr-branch-update-*.cts`) | comments with fingerprints, review history, labels, heads | judge, comment, retry, block, queue a repair, push, complete | every write sits between two observations of something people edit | one result per attempt; one update per head and base; every request answered |
| Merge and human handoff (`merge-reviewed-pr.cts`, `handoff-reviewed-pr.cts`) | the pull request | gate, revalidate, ready, merge, hand off | the head moves under every decision | only the reviewed head is merged; no draft is left to nobody |
| Pull-request work authority (`src/pr-work-authority-reconciliation.cts`, `reconcile-pr-work-authority.cts`) | claims, journals, runtime | keep, restore, finish, stop, block | GitHub, the journal and the runtime disagree | no claim outlives its work |
| Required verification (`src/worker-required-verification-runtime.cjs`, `run-worker-required-verification.cts`, `finalizer-required-verification.cts`, `guarded-push.cts`) | contract, record and its host copy, evidence | bind, check, record, authorize, push, stop | the agent can write the checkout, the report and its own record at any moment; signals; policy changes | what is pushed has passed; a verdict leads somewhere |
| CI fallback (`ci-fallback-gate.cts`, `ci-base-blocking.cts`, `ci-repair.cts`, `run-ci-equivalent-verification.cts`) | diagnosis, base block, repair episodes | gate, verify, diagnose the base, block, queue a repair | base and head move under the diagnosis | one repair per episode; a failed check leads to a decision (it does not, see the finding) |
| Doctor, status and reports; model usage; Herdr runner and GitHub operations | none of their own that others act on | | | not modelled, see below |

The parts meet as follows. A session's timer starts a tick under the scheduler
lock of its repository. The tick reconciles claims, patrols journals, delivers
retained handoffs, and, when nothing is handed over, runs one driver: the issue
coordinator or the pull-request driver. A driver takes the dispatch lock of the
one Issue or pull request it decides about and launches an attempt through
`withEnabledDriverLaunch`, which holds the enablement lock and re-checks the
permission before each effect; one of the effects consumes the Agent request on
GitHub. The launched agent is monitored by later ticks; its report is verified,
published and persisted; its workspace is closed. `/deadloop-enable` and
`/deadloop-disable` write the permission all of this rests on, and
`/deadloop-run-once` a temporary one.

## Modules

| Module | Models | Lines of code it stands for |
|---|---|---|
| `IssueTimeline` | an Issue's label events and the questions the code asks of them (owner of an active state, attempt window, recovery blocks) | `issue-request-transition.cts` |
| `IssueRequest`, `MCIssueRequest` | `consumeIssueRequest` run by several hosts, with people, faults, deaths and recovery; its instance | the same, `reconcile-prepared-attempt.cts` |
| `IssueSelection` | which Issue is selected for what, which gate its text meets, what a stop or its resumption plans | `issue-coordinator-decisions.cts`, `issue-coordinator-flow.cts` |
| `IssueCoordinator`, `MCIssueCoordinator` | the coordinator's ticks on several machines over changing Issues; its instance | `issue-coordinator-driver.cts`, `worktree-cleanup.cts` |
| `Exclusion` | the abstract lock: nobody enters while another is inside, unless it is spoiled | |
| `EnablementLock` | `acquireLock`, `reclaimStale`, `releaseOwned`, one action per system call; implements `Exclusion` until a process dies | `enablement-lock.cjs` |
| `SchedulerLock` | `acquireSchedulerLock`, `releaseSchedulerLock` over successive inodes; implements `Exclusion` until an owner releases it | `scheduler-lock.cjs` |
| `SchedulerHost`, `MCScheduling` | all sessions of one machine for one repository: timers, ticks, commands, one-shot runs, reloads; the instance of it and of `SchedulerLock` | `index.ts`, second half |
| `Enablement` | enable, disable and guarded operations over an exclusion lock | `index.ts`, `enabled-operation.cjs` |
| `AttemptJournal` | the abstract life of an attempt: which phase may follow which | `attempt-lifecycle.ts` |
| `WorkerAttempt` | one implementation attempt from its claim to its end; implements `AttemptJournal` | launch flow, runner, monitoring, completion, containment |
| `PullRequest` | the labels of a pull request and what is read from them | `pr-request-selection.cts` |
| `PrRequest`, `MCPrRequest` | consumption of a pull request's Agent requests, call by call, by several hosts; its instance | `pr-reviewer-driver.cts` |
| `PrState` | one pull request, its attempts and the host that serves it: the state of the next six | `pr-review-history.cts` |
| `PrReview` | what becomes of a reviewer's report | `pr-review-repair-dispatch.cts`, `complete-deterministic-pr-attempt.cts` |
| `PrMerge` | the automatic merge and the handoff to people | `merge-reviewed-pr.cts`, `handoff-reviewed-pr.cts` |
| `PrClosure` | when an attempt's workspace is closed | `complete-attempt-workspace.cts` |
| `PrWriters` | repair and branch update, from the finalizer's push to completion | the `pr-review-repair-*` and `pr-branch-update-*` programs |
| `PrAuthority` | reconciliation, patrol and delivery before the driver | `pr-work-authority-reconciliation.cts` |
| `PrDriver` | the driver's selection and launch | `pr-reviewer-driver.cts` |
| `PrWorkflow` | the composition, with people | |
| `VerificationPolicy` | what a verification is bound to, and when a record authorizes | `worker-required-verification-runtime.cjs` |
| `RequiredVerification` | one attempt of any role from report to push | the verification programs and `guarded-push.cts` |
| `CiFallback`, `MCVerification` | the gate over failed checks across successive reviews; the instance of both | `ci-fallback-gate.cts`, `ci-base-blocking.cts` |
| `IssueRequestProofs` (with the lemmas about `IssueTimeline`), `IssueCoordinatorProofs`, `EnablementProofs` (of `Enablement` and `EnablementLock`), `SchedulingProofs` (of `SchedulerLock` and `SchedulerHost`), `WorkerAttemptProofs`, `PrRequestProofs`, `PrWorkflowProofs`, `RequiredVerificationProofs` (of `RequiredVerification` and `CiFallback`) | lemmas, inductive invariants, theorems | |

The rule of all of them: an action is one write that others can see, with the
guard the code evaluates right before it; whatever GitHub, people, agents or
another process can do between two calls can happen between two actions. Reads
that follow each other with no write between them are one observation, unless
what changes in between is what a property is about. A call that fails, with or
without its effect, goes where the code's catch goes. Texts are known by what the
code finds in them.

### IssueRequest

`timeline` is the Issue's event list; an event's position is its id, so the
code's order (time, then id) is the order on positions, and the labels GitHub
shows are a function of it. `pc[h]` is the stage of the transition host `h` runs;
each stage ends at the next GitHub call or journal write. `attempt[h].req` is the
event the prepared journal is bound to. `local[h]` is what the transition holds
in memory and loses with the process; `receipts` are the `github_claimed`
journals, and keep for the properties which removal and active state the host
relied on. An observation is two calls, events first and labels second: the
labels are those of now, the events may lack the newest `MaxLag`. `Fail` makes a
call fail with or without effect and goes where the code's catch blocks go;
`Crash` leaves the journal prepared; `Reconcile` is `reconcileLocked`.

### IssueSelection, IssueCoordinator

`issue[i]` is the Issue on GitHub, `attempts` the journals, `tree[m][i]` the
worktree of an Issue on a machine, `failed[m]` the base recorded as failing,
`driver[d]` a driver's process with what it observed. Its tick is `drive()`: the failed-base
suppression, the cleanup of finished worktrees, the settling of an interrupted
consumption, the resumption of an interrupted stop, the selection, and under the
dispatch lock and the enablement lock the gate, the stop or the launch.
Consumption is one step with its outcomes, for `IssueRequest` has its
interleavings; what a finished agent leaves behind is one step too, for
`WorkerAttempt` has them.

Modelling it showed, beyond what the runs state: a dependency GitHub records as a
relationship is not waited for when its lookup fails, while one named in the text
is; the contract and planning gates move the labels before they comment, so a
call that fails in between leaves a block without its reason until the next tick
writes it; a host that loses the race for the request after it observed the Issue
goes on to block the winner's Issue; the revalidation before a launch does not ask
whether the Issue is still open. A journal that was claimed without a workspace
stops scheduling on its machine. Cleanup removes a worktree a released journal
still vouches for, after which the Issue's next launch finds no checkout; and a
candidate whose cleanup always fails makes every tick of that machine an
exception. The last three are `Hindered`, the exception of `RequestIsAnswered`.

### EnablementLock, SchedulerLock

`lock`, `claim`, `captured` (and `path`) are the inode a path names, 0 for no
file; `made[i]` is the process that wrote inode `i` and stands for its pid and
start identity, so a lock is stale exactly when that process is dead. Each
action is one system call that others can see; private pending files are left
out, and so is a lock that is malformed: the code publishes complete files only.
`sameFile` is two actions because it is two `stat` calls.

### SchedulerHost

`permit`, `scoped` and `granted` are the enabled record, the one-shot record and
the enabledAt values given out; `lock` is the scheduler lock; `host[s]`, `tick[s]`,
`shot[s]` are a session's scheduler, the tick in flight and the one-shot command. A
session is one thread and changes hands at an `await` only, so the stages of a tick
are its awaits, and commands, timers and other sessions act between them. The code
compares the record before the driver; the reconciliations and deliveries before it
run on whatever was true when the tick began (the comment at
`src/scheduler-tick.ts:149` says every mutating stage rechecks its guard; the
driver's stage does). `Save` keeps an existing enabledAt, as the code does.

`/deadloop-run-once` is `shot`: the record it issues, the stages of its one tick,
and the end that clears the machine's one-shot record whatever became of the
command, also when it was refused, which revokes the tick of another command
(`extensions/deadloop/README.md:79` speaks of the authorization of the tick that
finishes). A one-shot that dies leaves its authority until it expires. Code
reload is the comparison of the loaded with the deployed commit, one reload
request per commit, and the reload itself, which keeps the session and replaces the
scheduler. The owner message of "another session" cannot be reached: the lock names
its owner first. A failed enable is rolled back by a command that throws when code
changed meanwhile, which leaves the record.

Overlapping enables of several sessions are `Enablement`'s subject and excluded
here. The dispatch lock limits what two authorized drivers can do to the same Issue
or pull request, which the coordinator's model has.

### Enablement

Four files: the enabled record (`rec`), the repository's disable generation
(`gen`), the enable attempt (`attempt`), the lock (`holder`). A section of the
lock that reads the generation and acts on it later is two actions, because
`/deadloop-disable` advances the generation without the enablement lock; other
sections are one. A rollback that throws skips the end of the attempt and
leaves its file behind. `sealed` and `late` are history: the newest permission a
completed disable ended, and the effects an operation had after its permission
was withdrawn. The lock is taken as an exclusion lock, which is what
`EnablementLock` implements as long as nobody dies inside it (see the findings
for what happens then).

### AttemptJournal, WorkerAttempt

`AttemptJournal` is what `transitionAttempt`, `abandonPersistedAttempt` and
`releasePersistedAttemptAuthority` accept; the code throws on anything else. `last` is
`lastSuccessfulPhase`, which a failure keeps.

In `WorkerAttempt` one host runs its steps one after the other; `host.pc` is the
step, `host.chain` says on whose behalf the completion chain runs (live
monitoring, recovery, the patrol), `host.why` and `host.live` what a stop observed
before it took the lock. The groups of actions are the code's programs:

| Group | Code |
|---|---|
| `LaunchStep` | `launchAgentFlow` with its two cleanup regimes (before the start the workspace is closed, after it everything is left), the sidecar, the registration of the handoff, `adoptOrphanedLaunchHandoffs` |
| `PatrolStep` | the start of a tick: unresolved claims block scheduling, released attempts are cleaned up, attempts nobody monitors are retired or recovered (retired for good when the Issue is closed or the worktree gone), what is persisted is collected; `Select` is the possible run of the driver at its end |
| `DeliveryStep` | `deliverPendingDriverHandoff` on the retained handoff: settled, completed, working, stopped, waiting for the model provider, or an exception |
| `ChainStep` | required verification and its stop when the policy is stale (`SayStale`, `MoveStale`, `ConcludeStale`), `guarded-push`, `guarded-worker-pr`, `persist-attempt-result`, `complete-attempt-workspace`, and `persistIssueAttemptStop` for a report with nothing to publish, unless a pull request already carries its result |
| `ContainStep` | `contain-terminal-monitor`: check again (an Issue with neither the active nor the blocked label refuses), move the labels, comment, close, release |
| `OutsideStep` | the agent, people, the clocks, `/deadloop-doctor`'s abandonment, a workspace that vanishes, a driver or a host that dies |

A step is one write to GitHub, to the journal or to the runtime, with the reads the
code does just before it. A fault is any call of the step that fails, with or
without its effect, and includes a lock that is busy; where it goes is where the
code's catch goes, which differs from step to step: some keep the handoff, some
make the host forget the attempt, some end the chain. `LockIsOurs` is the one case
in which a chain's own caller holds the enablement lock its programs need.

Left out: several attempts on one checkout, the roles that do not write
(exploration, review), the proofs a closure demands of the worktree and branch, a
required verification that never passes (`RequiredVerification` has it), children
that outlive a dead host, the provider's retry time, and the label history, which
`IssueRequest` has.

### PullRequest, PrRequest

GitHub's event list is kept as the second of each label's newest `labeled` event,
`born`, which also is that event's identity: labels one edit adds share their
second, and the code's comparisons (`pr-request-selection.cts`) are comparisons of
seconds. In `PrRequest` an attempt remembers the events it was bound to (`ids`)
and a host's job what its deletions took (`took`). Each of the writes of
`consumeRequestEvent` is an action between two observations: add the claim, delete
each request the selected one makes obsolete, delete the selected one, revalidate. What the
next tick makes of a consumption that did not end (`ReconcilePrepared`,
`ReconcileWorkAuthority`, `BlockScheduling`) belongs to it, and so does a
redirection, where a review becomes a repair or a branch update. A stop takes its
calls one after the other, here and in the driver's block of a failed launch.

Modelling it showed: the stop of a prepared attempt moves the labels first, so a
comment that fails leaves the pull request blocked with nothing said, and the next
tick finds the block and settles the journal. `blockRepairLaunch`
(`pr-reviewer-driver.cts:1497`) hands its first look an empty enabled record, that
look refuses it and throws: a repair that could not be launched is never blocked nor
explained, and the driver ends in an error.

### PrState to PrWorkflow

`PrState` has the state, six modules the programs over it, `PrWorkflow` the composition.
`host.head` is the head a reconciliation decided about: it observes the pull request
again before it writes (`Revalidated`) and gives up when that moved. `pr.history` counts
what the observation of the review history covers (comments, commits, the state; labels
and readiness are not in it); `said[a]` counts what was written below an attempt's
markers. `host.pc` is the step of the program that runs, `host.by` on whose behalf
(monitoring or reconciliation), `host.want` the labels a closure expects. A closure
looks at GitHub in one step and says so in the journal in the next (`MarkPersisted`),
and people act between the two; a review that is said may find that the head has moved
since it was looked at (`SeenLater`). People comment, push, relabel, close, change the
policy, or disable and enable at any step.

### RequiredVerification, VerificationPolicy

`tree`, `report` and `record` are the agent's to change between any two steps,
`attempt.intact` says whether it edited the journal; `evidence` is the host's own
copy. `policy` is what the comparison with the contract tells apart: the base moved
or not, the operator's configuration the same, different or unreadable. `ran` is
history: commits whose check passed on a tree that stood still. The role is chosen
initially: a Worker's host verifies and pushes, a Reviewer's authorizes the
approval, the agents of a repair and of a branch update run a finalizer that
hears signals while it verifies.

`assertCurrentWorkerContract` reports a `gh repo view` that failed as
`stale_policy` (`worker-required-verification-runtime.cjs:128`), and the caller
takes any such report for a stale policy. One failed call (`SourceUnnamed`) therefore
blocks the Issue and closes the attempt under a policy that is current, before the
check or after it. The liveness properties count such a stop as an end, because it
is explained on the Issue; nothing is pushed under it.

Modelling it showed: a stop whose diagnosis changes after it has moved the labels
throws at every later tick; a command that cannot run because the repository tracks
files in a scratch area is recorded as failed; `createCommandRunner` ends every
command after 20 seconds unless told otherwise, which is why every step may fault.
A Worker's own `blocked` report is `WorkerAttempt`'s, not here.

### CiFallback

Several reviews of one pull request whose checks fail, over successive heads and
bases: `ci-fallback-gate.cts` step by step, the base block of `ci-base-blocking.cts`
with the launches it holds back, and the repair episodes counted from the labels and
comments. `ModeIsGiven` is whether the gate passes the verifier the `--mode` it
requires: FALSE is the program (see the finding), TRUE lets what stands behind the
verifier be checked as well. `Contracted` are the bases from whose policy one
command follows; over any other the gate stops with
`ci_fallback_contract_unavailable` before it has run anything, at every tick and with
the claim still there. That a failed check is eventually decided is therefore
not claimed in either case. Modelling it showed: a base that cannot be read lets a
block stand or fall depending on where the read is; a diagnosis that timed out
blocks a base that is healthy; of all a person can do only adding the review request
counts as asking for a new episode; the gate closes the reviewer's workspace before
it posts or queues, so an interrupted dispatch does not complete its own transition,
as the comment at `ci-fallback-gate.cts:264` has it: the reconciliation gives the
claim back, and another review finds the failed checks again.

## Runs

| Run | Question | Bounds and why they are enough | Distinct states |
|---|---|---|---|
| `issue_request` | Is the receipt exclusive, is an active state never left without a word, and does a loser keep its hands off what it saw to be another's, when calls fail and event lists lag? | 2 hosts, 2 attempts, 2 acts of people (any label), 1 fault, lag 1: both hosts race for both labels while a person interferes twice | 685,452 |
| `issue_request_hosts` | Without faults, is every lost request visible? | 3 hosts, 3 attempts, 2 acts of people who add either request or the block: one winner, two losers of different labels, a person's own stop among them | 193,433 |
| `issue_coordinator` | Are stops explained, is work in checkouts kept, is every request answered? | 2 machines, 2 Issues of which one waits for the other, 1 fault, 1 act of a person, reviewer or operator: a gate and a launch of one machine meet a stop and a cleanup of the other | 293,286 |
| `enablement_lock` | Does the lock exclude until the first death, and does it survive deaths? | 3 processes (owner, two reclaimers), 3 lock files, 2 deaths, 2 attempts each: a reclaim, a lost reclaim and a retry | 177,711 |
| `scheduling` | Does the scheduler lock exclude until a release and survive deaths? Do two sessions ever drive with authority at once, does a stop free the repository, is what was started served? | lock: 3 hosts, 4 inodes, 2 deaths. Sessions: 2, 2 grants, 3 commands, 1 mishap (death, unanswered check, failed start), 2 versions of the code: an enable, a disable and another enable or a run-once around any tick. With 4 commands, 2 mishaps and 3 grants (2,012,044 states) the invariant holds as well | 176,509 |
| `enablement` | Does a disable stop what is under way and keep it stopped? Do rollbacks spare later permission? | 2 enables, 1 disabler twice, 1 operation of 2 effects; `e2` is not killed, which only removes repetitions of what `e1` shows | 1,239,810 |
| `worker_attempt` | Is every end explained or published, is live work closed for a reason only, is no write refused by the journal, and does a monitored attempt end? | 2 faults (a failed launch whose cleanup fails takes two, so does a lost handoff followed by a failing recovery), 1 extra or refused turn, 1 mishap (agent gone, workspace gone or Issue closed): every exception of a delivery meets every kind of report and turn | 335,038 |
| `pr_request` | Is what a host consumed what it had bound, and is a request claimed once? | 2 hosts, 2 attempts, 2 acts of people, 1 fault: both hosts are in the middle of a consumption when a person takes a request back and gives it again | 938,270 |
| `pr_workflow` | Is only the reviewed head merged, is a result said once, a pair updated once, no draft abandoned, no workspace closed for nothing? | 2 attempts (a review and what follows from it, or two updates), every outcome, 1 act out of every kind a person has, 1 fault. 2 acts (4.80 million states) hold as well | 295,883 |
| `pr_progress` | Is every claim resolved, every request answered, every stale review returned? | 3 attempts, approvals and human decisions, 2 acts of people who comment or close, 1 death | 86,543 |
| `verification` | Is only a verified commit pushed, does a signal stop the push, is a failure told, a stale attempt stopped, a passing one pushed? One repair per episode? | 3 commits (the input, one that passes, one that fails), 1 act of the agent, 1 move of the world, 1 fault, every role; 3 heads, 2 bases one of them broken, 1 request of a person, 1 mishap; the verifier is given its mode here, so that the repairs behind it are reached (`OneRepair` is proved for both values) | 344,589 |
| `fallback_unreachable` | counterexample to what ADR 0030 says, see below | 2 heads, 2 bases, no fault | 252 |

`scheduling` and `verification` each check two models that share no state; the
initial state says which one, and the other rests. Deadlock checking is off where
commands are bounded, for their budget runs out; it is on for `WorkerAttempt`
and `PrWorkflow`, whose hosts tick for ever.

### Fairness

The timer of a session keeps firing while the session lives, and every awaited call
has a time limit, after which the program goes on with a failure. That is the
fairness assumed of every program: weak fairness of its steps.

- `EnablementLock`, `SchedulerLock`: of a process inside an acquisition or a
  release. Nobody is assumed to ask for a lock, and nobody to leave it early.
  Liveness speaks of a *lone survivor*; against live competitors the code retries a
  bounded number of times and may legitimately give up.
- `SchedulerHost`: of each session's polls, tick steps, one-shot steps, the start
  that follows a saved enable, and the loading of new code. No command is assumed.
- `WorkerAttempt`: of the host's steps as one action, and of the two clocks
  (`LaunchGraceEnds`, `LimitPasses`).
- `IssueCoordinator`: of each driver's next step, and of the end of a running agent
  (`AgentEnds`), because monitoring ends it at a limit.
- `PrRequest`: of each host's step. `PrWorkflow` (`FairSpec`): of the tick as one
  action, and of the agents, which monitoring ends at a limit.
- `RequiredVerification`: of the program's step; the command is killed at its time
  limit. Nothing of agents, or of a finalizer being started. `CiFallback`: of the
  gate's and the driver's step.

Nothing is assumed of people or of a particular outcome of a step; faults and acts
are bounded, so liveness is a claim about what happens once they stop.
`IssueRequest` and `Enablement` state safety only.

## Findings

One disagreement between the code and its documents is among the runs:

- **Failed checks are never replaced by a verification** (`fallback_unreachable`):
  the gate starts the verifier without `--mode`, the verifier refuses to run, the gate
  stops with `gate_error`, and the same happens at every tick, the claim still on the
  pull request. Behind it the merge asks for `CLEAN`, which GitHub does not report
  while checks fail, so that even with the mode given (`ModeIsGiven = TRUE`) no
  success could be merged.

The following were found while modelling. Their formulas stand in the modules, and
`tlc` reproduces each in seconds with the configuration named; they are not among
the runs, which ask for what holds.

| Configuration, formula | What happens, against what is written |
|---|---|
| `SupersededLeavesOwnerRunning` (`MCIssueRequest`, constants of `HandsOffWinner.cfg` with `MaxAttempts = 2`, `MaxPersonActs = 2`, as an INVARIANT) | A superseded request may leave nobody running. A consumes `agent:explore`, B consumes `agent:implement` and adds `in-progress`; A sees that label before adding its own and stops as ambiguous; B finds A's consumption outranks its own and tells the person that A's attempt was left running. |
| `HandsOffWinner` (`MCIssueRequest`) | "The loser keeps its hands off the winner — no receipt, no release of that state" (`src/issue-request-transition.cts:766`). A running attempt loses its active state although nothing fails, with two hosts and three acts of a person: A takes `agent:explore`, B takes `agent:implement`, both add `in-progress`. A owns it, sees a newer request and releases it; B then looks, sees no active state and goes on to release; meanwhile A consumes the newer request and adds `in-progress` again. B's release removes whatever carries the name. With `MaxFaults = 1` two acts are enough: the catch block of `createActiveState` releases as well. What the code does keep is `LoserHandsOff` (`issue_request`, proved): a state a host *saw* to be another's it never removes. |
| `NoSilentLoss` (`MCIssueRequest`, constants of `HandsOffWinner.cfg` with `PersonAdds = {"explore", "blocked"}`, `MaxAttempts = 2`, `MaxPersonActs = 2`, `MaxFaults = 1`, as an INVARIANT) | A consumed request can disappear without a word: recovery under a block returns `recovery_blocked` before looking at the removal. |
| `OneInside` (`EnablementLock`, constants of `EnablementLock.cfg`, as an INVARIANT) | Two live processes inside the lock after one death: a live reclaimer's claim is unlinked, its check then fails and it renames the stale lock over the new one. A second consequence, the exception `Stranded` of `SurvivorEnters`: a lock its live owner already released can be renamed back to the path, after which nobody, that owner included, can take it until it exits. |
| `SchedulerLockOrphan` (`SchedulerLock`) | Two hosts hold the scheduler lock: nothing checks after `flock` that the locked inode is still the file at the path. |
| `TwoAuthorities` (`SchedulerHost`) | "Two scheduling authorities must never coexist" (`index.ts:2394`). A poll whose `gh repo view` gets no answer invalidates the scheduler for good and gives the lock away under a running tick; another session's enable keeps the same enabledAt, so both drivers are authorized. Or: a tick in `resolve` takes over a record saved by a later enable. These are the two exceptions (`spent.silent`, `spent.carried`) of `OneAuthorizedDriver`. |
| `StartedIsServed` (`SchedulerHost`, constants of `TwoAuthorities.cfg`, as a PROPERTY) | An enable reports success and nothing is served: it starts during an early `await` of a tick that was told to stop, the end of that tick releases the lock silently. `ServedOrShown` has it as its exception `LateStart`. |
| `RecoveryPersists` (`WorkerAttempt`) | Recovery cannot persist a completed report: it runs the completion chain with the enablement lock held, and the chain's programs take that lock themselves. Live monitoring, which holds no lock, does persist it. |
| `RunningUnmarked` (`MCIssueCoordinator`) | `issue-required-verification-stop.cts:97`: "the next pass can safely resume from the marked, still-claimed Issue". The resumption takes every open Issue whose stop comment matches today's block; an Issue that was stopped properly and is then explored matches too, and its running exploration loses `in-progress` and is blocked. |
| `StrandedRequest` (`MCPrRequest`) | ADR 0032, line 31: a stale journal "cannot strand a live request". A push in the middle of a consumption makes the host give it up; its prepared journal without a workspace stays, which `index.ts:2111` takes at every tick as a reason not to schedule. Neither this request nor any other is served on that host. |
| `StopOutranksEarlierRequests` (`MCPrRequest`, constants of `StrandedRequest.cfg` with `Asked = {{"update"}}`, `PersonAdds = {"review", "blocked"}`, `MaxPersonActs = 2`) | ADR 0023, line 34: a person's stop must not be undone by earlier requests. A later review request lifts it, and the older branch update is consumed first. |
| `DraftAbandoned` (`PrWorkflow`), `NoRestoreAbandons` | `src/pr-work-authority-reconciliation.cts:97` lets a request newer than every failure outrank the failures, as a demand they "never answered". The code compares with the newest request event, answered or not (`reconcile-pr-work-authority.cts:325`). A launch fails, the person asks again, the review that follows is answered; when a later claim is left without a journal, the old failure counts as outranked and no request as restorable: the claim is taken off and a draft is left with no agent label at all. The proof of `NoDraftIsAbandoned` met it; `RestoresNothing` is the property's one exception. |
| `StaleResult` (`PrWorkflow`) | `README.md:239`: a head change discards the stale result and returns the pull request to a review request. After a push the release demands the head the reviewer read and does nothing, the closure as well; the claim stays and the same is tried at every tick. For comments and closings the property holds (`pr_progress`). |
| `TechnicalRetryStarts` (`PrWorkflow`, constants of `StaleResult.cfg` with `Outcomes = {"blocked"}`, `PersonMay = {}`) | `acceptance/features/bounded-pr-recovery.feature.md:159`: a first technical failure is retried. The retry is announced and the review requested, but the workspace of a blocked report is never closed, its handoff stays, and a driver does not run beside a handoff. |
| `FailureIsTheCommands` (`RequiredVerification`, constants of `StopIsFinal.cfg`, as an INVARIANT) | `run-worker-required-verification.cts:205`: a failed run of the same binding "cannot produce a different result". One failed observation after the command passed is recorded as its failure and never repeated. |
| `StopIsFinal` (`RequiredVerification`) | `README.md:164` of the repository: a blocked Issue "does not resume merely because configuration changes". If the last step of the stop failed, so that the workspace stayed open, and the policy is what it was again, the next tick verifies and pushes for an Issue that is blocked. |

`MonitoredSettles` says that an attempt the host once monitored ends, or stays in
one of the states it names; each of these is reachable, and nothing the host does
leaves it (leave one out of `Stuck` and TLC finds an attempt that stays there):

- `RejectedInvalid`: an invalid report under a refused turn. Monitoring says the
  report is invalid, containment looks at the turn first and finds nothing to do.
- `Vanished`: the workspace is gone before the result is persisted, which both the
  completion and the stop take for unproven.
- `NeverPersisted`: what `RecoveryPersists` shows, for an attempt nobody monitors.
- `NeverTimedOut`: an agent that works on with nobody monitoring has no limit.

## Proofs

Every theorem is about the specification of its module, for all values of the
constants that satisfy the module's named assumptions; the bounds on acts, faults and
deaths are natural numbers and otherwise free, and no proof uses fairness. The
inductive invariants were checked by TLC first, on the instances of the runs.

`IssueRequestProofs` proves, for any set of hosts and identities, any bounds and
any lag (from the assumptions `PersonAssumption`, `LoginAssumption`,
`BoundAssumption` only):

- `TypeCorrect`: `Spec => []TypeOK`.
- `ReceiptsOwned`: `Spec => []ReceiptsAreOwned`: the removal a receipt rests on is
  its host's own, of the request its journal is bound to, and owns the receipt's
  active state.
- `OneAttempt`: `Spec => []OneAttemptPerActiveState`.
- `ReleasesAreNamed`: `Spec => []ReleasedOrNamed`: who proved the active state its own
  and then yielded has removed it or names it as a leftover.
- `LosersKeepOff`: `Spec => LoserHandsOff`: what a host saw to be another's it never
  takes off.
- `LossesAreVisible`: `Calm => (Spec => []LossIsVisible)`: no request that was taken
  disappears without a sign, where `Calm` means no faults, no lag and a login of its own
  for every host. Nothing is assumed of the number of hosts, of attempts, or of what
  people do.

The properties are not inductive. The invariant `IInv` adds what a running
transition's memory means: `local[h].own` is an event of the timeline by `h`'s
identity removing the bound request, and at stage `receipt` it is the owner of
the active state remembered. The point of the argument is that the timeline only
grows at its end: the first part of the module shows that the questions about an event
`a` (window, consumptions, owner) look only at events before `a`, so their answer
on any prefix shown to a host, however late, is their answer for ever; two hosts
that both won an active state therefore name the same removal, and a removal has
one author.

Three further invariants stand on it. `LeftoversAreNamed` follows the active state a host
remembers: once it is no longer in force it stays so (`NothingIsRevived`), so a host that
saw the label gone owes no word about it, and every other way to yield carries the
leftover in its note until the comment is written. `ReleasersOwn` says that a host on its
way to a release owns the state it remembers or remembers none; only the removal of the
label ends a state in force (`OtherWritesKeepIt`), which makes the action property a
matter of one step. `LossInv` says who holds each request taken (`Holding`, which differs
from stage to stage) until it is settled (`Settled`: in a receipt, explained, touched
since, or stopped since), and that an attempt takes its label once (`TakesOnce`).

`Calm` is what TLC asks for: `LossIsVisible` is false with a lag of two events, with one
fault and a lag of one, with two faults and three attempts, and with two hosts under one
login. The run therefore has neither faults nor lag, and the theorem has its hypotheses.

`EnablementProofs` proves, for any sets of commands and operations and any budgets
(from `ActorAssumption`, `StepAssumption` and `EnablementBounds`):

- `EnablementTypes`: `Spec => []TypeOK`.
- `LateEffects`: `Spec => []AtMostOneLateEffect`: an operation has at most the one
  effect already checked after its permission was withdrawn.
- `DisableIsFinal`: `Spec => NothingRevives`: what a completed disable ended stays
  ended; only an enable that began later permits anything again.
- `RollbacksSpareLater`: `Spec => RollbackSparesLater`: a failing enable removes no
  record of a later attempt.

The invariant adds that whoever is inside a section holds the lock
(`SectionsAreHeld`), that generations, record ages and attempt tokens remembered
by a command never exceed those published (`GenerationsGrow`, `RecordsAge`,
`TokensGrow`), that an enable about to save began after every disable that has
completed (`EnablesAreCurrent`), and that an operation whose permission is gone is
on its way out (`OperationsAreBounded`). The argument: nobody writes the record
while another is inside the lock, and nothing ever lowers a generation or a token,
so what a command compared inside its section is still what it compared, except for
the one thing `/deadloop-disable` does without the lock, which is to publish a newer
generation; that only makes the checks stricter.

The same module proves of `EnablementLock` (from `LockBounds`), for any number of
contenders, lock files and deaths:

- `LockTypes`: `LockSpec => []LockTypeOK`.
- `EnablementLockExcludes`: `LockSpec => ImplementsExclusion`: until a contender dies
  the reclaim by link and rename changes nothing about exclusion. While everybody
  lives no lock is stale, so nobody gets as far as taking one away, and who is inside
  is the one whose file is at the path (`LockInv`). `OneInside` without the exception
  is false, see the findings.

`SchedulingProofs` proves, for any number of hosts and inodes (from `HostAssumption`,
`SchedulerBounds`) and of sessions, commands, deaths and versions of the code (from
`SessionAssumption`, `HostBounds`):

- `LockTypeSafety`, `HostTypeSafety`: the types of `SchedulerLock` and `SchedulerHost`.
- `LockExcludes`: `Spec => ImplementsExclusion`: until an owner releases it, the
  kernel's lock implements `Exclusion`, deaths included. Before the first release one
  inode at most was ever created, it stays at the path and every descriptor names it
  (`LockInv`), and its flock has one holder.
- `OneDriver`: `HostSpec => []OneAuthorizedDriver`: two drivers both run with
  authority only after one of the two named events. The invariant says that whoever
  serves, continuously or once, holds the scheduler lock (`LockIsHeld`), that no
  one-shot number is ever the lasting one (`NumbersDiffer`), and that a tick past its
  resolution which works under the record in force is that of a session serving under
  this record (`WorksForItsRun`). The last is where the two exceptions are needed:
  after an unanswered check a session has given its lock away under such a tick, and a
  record saved by a later enable is one such a tick may have carried into it.

`IssueCoordinatorProofs` proves, for any set of Issues with any texts and references,
any drivers on any machines and any budgets (from `IssuesAreNumbers`,
`ReferencesAreNumbers`, `NobodyIsNobody`, `StartsAreRequests`, `DriversRunSomewhere`,
`BoundsAreNumbers`):

- `TypeCorrect`: `Spec => []TypeOK`, what a driver holds in memory included.
- `StopsAreExplained`: `Spec => []StopIsExplained`.
- `WorkStays`: `Spec => WorkIsKept`.

The types need what a driver holds at each point of its tick (`Holds`): a target from
the selection on, the Issue as it was seen up to the gate, the journal afterwards. The
invariant of the explanation (`Explained`) is about a stop that is under way, on
whatever machine: whether its comment has to be written it decides from the Issue the
gate saw, which by then others may have changed; it holds because no writer takes
comments back (`Calm`, which every write of every actor is), because the stop says
before it moves, and because a resumption moves only what carries the comment. That
cleanup keeps work needs no more than the types: it looks at the checkout once more in
the step that removes it.

`WorkerAttemptProofs` proves, for any bounds (from `BoundAssumption`) and without
fairness:

- `TypeCorrect`: `Spec => []TypeOK`.
- `ReleasesAreExplained`: `Spec => []ReleasedIsExplained`: authority is released
  only of an attempt whose Issue says why, blocked and without the active label.
- `PersistenceIsPublic`: `Spec => []PersistedIsPublic`: the journal claims
  persistence only of what is completely on GitHub.
- `ImplementsJournal`: `Spec => JournalSpec`: no program's write is ever refused.
- `LiveWorkIsKept`: `Spec => LiveWorkEndsForAReason`: the host closes a workspace over
  a live agent only after the stop was explained, the result was persisted or the Issue
  was closed. With the invariant this needs that there is no agent before the launch
  starts one (`NoAgentYet`), since a failed launch does close its workspace.

The properties are not inductive: a release is one step, what it rests on was
written several steps, and possibly a death, before. The invariant adds what each
step of a stop finds written (`StopsAreTold`), the phase at each step of the launch
(`LaunchPhases`) and the phases in which a handoff, a chain or a stop can exist
(`StopPhases`). The argument: no action takes back an explanation, a block, the
removal of the active label or a published result, so the step a stop has reached
tells what people can read; and the journal has one writer while a launch, a chain
or a stop is under way, the operator's abandonment included, because it needs the
lock and an attempt that never started. Lemmas come in threes per group of actions:
its steps keep the types, keep the invariant, and are steps of the journal.

`RequiredVerificationProofs` proves, for any set of commits, whichever of them pass
or stray, and any bounds (from `CommitAssumption`, `OtherAssumption` and
`VerificationBounds`):

- `TypeCorrect`: `Spec => []TypeOK`. The types need two facts with them: who is
  about to write a verdict has one (`VerdictIsSaid`), and a stop that is about to be
  said has a reason (`ReasonIsGiven`).
- `PushesAreVerified`: `Spec => []PushIsVerified`: what the attempt pushes is a commit
  the host saw pass, standing still.
- `SignalsStopPushes`: `Spec => SignalStopsThePush`: a signalled finalizer does not
  push.

The push's invariant, `PushInv`, says why the agent's freedom does no harm: whatever
it writes beside the journal, a record counts only with its host copy, and the
evidence says "passed" of what passed only (`EvidenceIsTrue`); what a program is
about to record of its check is true (`VerdictIsTrue`); and from the last
authorization on, the commit a program holds has passed (`PushedHasPassed`), which
the boundary compares with the checkout's head and the push uses in place of it. That
of the signal, `SignalInv`, says a signal is remembered only while the handlers are
installed, and every way from there to the push passes the last observation.

The same module proves of `CiFallback` (from `FallbackAssumption`), for any number of
heads, bases, requests and mishaps, whichever heads fit which bases:

- `OneRepair`: `FallbackSpec => []OneRepairPerEpisode`: an episode of failed checks gets
  one automatic repair, and one more only for each use a mishap kept from being written.
  The invariant `EpisodeInv` says that the stored episode is never ahead of the base and
  the requests (`EpisodeIsPast`), that nothing was queued for a later one
  (`LaterUnqueued`), that a repair on its way was decided in this episode and finds its
  use free (`UseIsFree`), which holds because the gate has the claim all the while
  (`GateHoldsClaim`), and that the repairs queued are the use, the one about to be
  written and those a mishap left unwritten (`RepairsCounted`).

`PrRequestProofs` proves, for any set of hosts, whatever people may ask, and any
bounds (from `BoundAssumption`):

- `TypeCorrect`: `Spec => []TypeOK`.
- `OneClaim`: `Spec => []OneClaimPerRequest`: of all the hosts that race for one
  label event, at most one claims it.
- `LaunchedForItsOwn`: `Spec => []ConsumesWhatItBound`: an attempt is launched only
  for the request events it was bound to.

Neither is inductive. The invariant `IInv` follows an addition of a label, known by
its second, to its end: once deleted it is `Over`, the label is gone or has a later
event, and no edit brings it back because every edit has a later second
(`StepsGrow`). What a host took is over (`TakenIsOver`), so what another host can
still take is something else (`TakenOnce`); who claims has taken the selected request
(`SelectedIsTaken`), and what it took lies between the events it is bound to and
those of now, which the last look finds equal. A deletion that removed nothing does
not count as taken, and that is all the code has in place of a compare-and-swap.

`PrWorkflowProofs` proves, for any number of attempts, acts and faults, whatever people
may do and agents may report (from `WorkflowAssumption`):

- `TypeCorrect`: `Spec => []TypeOK`.
- `OneResultAtMost`: `Spec => []OneResultPerAttempt`.
- `OneUpdateAtMost`: `Spec => []OneUpdatePerPair`.
- `MergesReviewed`: `Spec => MergesWhatWasReviewed`: what deadloop merges is the head
  that attempt's own review approved, said so on the pull request, and verified.
- `DraftsAreKept`: `Spec => NoDraftIsAbandoned`, with the one exception of the findings.
- `ClosuresAreBacked`: `Spec => ClosedWorkspaceHasResult`.

The invariant says what the step the host is at has published of the attempt it works on
(`WorksOnAnAttempt`, `Published`), that what a closure's look found on GitHub is still
there when the journal says so, because nobody takes back a result that was said and the
requests it counts are removed by the host only (`Backed`), what the pull request looks
like between the two writes of a handoff or a queued repair (`Prepared`), that an agent
with a report is quiet (`ReportersAreQuiet`) and that attempts are used in order
(`Prefix`). The argument: a journal keeps its role, head and base, and its report and
verification once they are there (`Kept`), so what was true of the attempt when its
result was said is true at the merge, and every other write, of people as well, is to
the pull request, which the host compares with the attempt's head in the step that
merges. A merge, a closure or a removed label is then the step of one or two actions,
which the proofs of the action properties name.

Every invariant and action property of the runs is proved, but for those named here.
Left to TLC: all
liveness (`MonitoredSettles`, `RequestIsAnswered`, `FailureIsTold`, `ServedOrShown`, the
survivors of the locks and the others), which is beyond the prover. So is
`StaleResultReturnsToReview`, a leads-to.

Properties that hold on the same instances, stated in the modules, but are not among the
runs, because another says more: `DependenciesCloseFirst` (`IssueCoordinator`),
`TechnicalRetryOncePerHead` (`PrWorkflow`), `RefusedByTheOwner` (`SchedulerLock`). The
type invariants hold as TLC invariants of their modules and are all proved.

## What is left

Not modelled and why:

- Doctor, status and reports: read-only rendering of what others keep (the
  abandonment the doctor offers is an action of `WorkerAttempt`).
- Model usage: costs that no other part acts on.
- The adapters to `gh`, `git` and Herdr: pure I/O, whose answers are choices here.
- The acceptance rules: a lint of feature files, text in, messages out.
- How a verification policy is discovered in workflow files and put to the operator:
  text.
- Code snapshots of launched attempts: copies that no modelled state depends on.

Modelled in part, in the order in which it would be worth going on:

1. `AttemptWorkspace`: several attempts, launched and retired, on one checkout and its
   branch; closures under a runner whose answers are uncertain; what a host that dies
   inside a launch leaves behind; the handoff of an earlier enablement.
2. The label history that completions and stops leave (`persistSuccessfulExploration`,
   the label merge of containment) over `IssueTimeline`.
3. The due slots and the round-robin of several automations, which are one choice in
   `SchedulerHost`.
4. One-shot authority as a second kind of permission in `Enablement`; several
   repositories in one state file.
5. A write of the attempt journal as three steps, read, check and rename, for two
   writers that both passed their check.
6. Proofs: exclusion of the dispatch and
   enablement locks inside `IssueCoordinator`.

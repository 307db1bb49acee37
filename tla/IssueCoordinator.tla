--------------------------- MODULE IssueCoordinator ----------------------------
(***************************************************************************)
(* The ticks of issue-coordinator-driver.cts against Issues that people    *)
(* and agents keep changing: suppression by a failed base, cleanup of      *)
(* finished worktrees, settling of an interrupted consumption, resumption  *)
(* of an interrupted stop, selection, and under the Issue's dispatch lock  *)
(* and the enablement lock the gate, the stop or the launch.  A driver is  *)
(* a process of a machine; processes die and calls fail between any two    *)
(* writes.  consumeIssueRequest is one step here with its outcomes (its    *)
(* interleavings are IssueRequest.tla), and so is what an agent's          *)
(* completion leaves behind (WorkerAttempt.tla).                           *)
(***************************************************************************)
EXTENDS IssueSelection

CONSTANTS
  Drivers, Machines, MachineOf,   \* the driver processes and where they run
  Texts,        \* the texts people write
  Starts,       \* what is asked at first, on what text, after which pull request
  MaxActs,      \* bound: acts of people, reviewers and operators
  MaxFaults,    \* bound: failing calls and dying processes
  MaxRequests   \* bound: request events of a role per Issue

\* none: no journal names one; gone: a journal does and the directory is missing;
\* ahead: its HEAD is no recorded revision; scratch: it tracks scratch files
Trees == {"none", "open", "kept", "dirty", "ahead", "scratch", "gone"}
Pulls == {"none", "open", "merged", "closed"}

ASSUME StartsAreRequests ==
  Texts \subseteq AllTexts /\ Starts \subseteq [Issues -> Roles \X Texts \X Pulls]
ASSUME DriversRunSomewhere == MachineOf \in [Drivers -> Machines]
ASSUME BoundsAreNumbers == MaxActs \in Nat /\ MaxFaults \in Nat /\ MaxRequests \in Nat

VARIABLES
  issue,     \* the Issues on GitHub
  pr,        \* pr[i]: the pull request of Issue i's Worker
  tree,      \* tree[m][i]: the Worker checkout a stopped journal of m names
  attempts,  \* the attempt journals
  policy,    \* policy[m]: resolved, or the fingerprint of its block
  base,      \* the trusted base revision
  failed,    \* failed[m]: the base recorded as failing required verification
  driver,    \* driver[d]: what the process d holds in memory
  dispatch,  \* dispatch[m][i]: the process that holds the Issue's dispatch lock
  guard,     \* guard[m]: the process that holds the enablement lock
  acts, faults

vars == <<issue, pr, tree, attempts, policy, base, failed, driver, dispatch, guard, acts, faults>>
github == <<issue, pr>>
locks == <<dispatch, guard>>
settings == <<policy, base, failed>>
bounds == <<acts, faults>>

Bases == 0 .. 1
NoBase == 2
Phases == {"prepared", "claimed", "running", "failed"}
Pcs == {"idle", "clean", "apply", "remove", "select", "settle", "resume", "target", "decided",
        "move", "say", "consume", "start"}
Kinds == {"explorer", "worker", "contract_missing", "planning_blocked", "stop", "none"}
Attempt == [issue: Issues, role: Roles, number: Nat, on: Machines, phase: Phases,
            waited: SUBSET Nat, blind: BOOLEAN]

Process == [pc: Pcs, kind: Kinds, target: Issues \cup {Nobody},
            seen: {Nobody} \cup Issue \cup Attempt, policy: Prints \cup {"resolved"}, base: Bases,
            plan: SUBSET Issues, from: {"fresh", "kept"}, number: Nat, blind: BOOLEAN]

Idle == [pc |-> "idle", kind |-> "none", target |-> Nobody, seen |-> Nobody,
         policy |-> "resolved", base |-> 0, plan |-> {}, from |-> "fresh",
         number |-> 0, blind |-> FALSE]
Mine(d) == MachineOf[d]
Target(d) == driver[d].target

TypeOK ==
  /\ issue \in [Issues -> Issue] /\ pr \in [Issues -> Pulls]
  /\ tree \in [Machines -> [Issues -> Trees]] /\ attempts \subseteq Attempt
  /\ policy \in [Machines -> Prints \cup {"resolved"}]
  /\ base \in Bases /\ failed \in [Machines -> Bases \cup {NoBase}]
  /\ dispatch \in [Machines -> [Issues -> Drivers \cup {Nobody}]]
  /\ guard \in [Machines -> Drivers \cup {Nobody}]
  /\ driver \in [Drivers -> Process]
  /\ acts \in 0 .. MaxActs /\ faults \in 0 .. MaxFaults

Asking(role, text) ==
  [open |-> TRUE, asked |-> {role}, number |-> [r \in Roles |-> IF r = role THEN 1 ELSE 0],
   since |-> [r \in Roles |-> 0],
   removed |-> [r \in Roles |-> 0], progress |-> FALSE,
   triage |-> FALSE, aside |-> FALSE, block |-> Nobody, text |-> text, marks |-> <<>>, said |-> {}]
Init ==
  /\ \E start \in Starts :
       /\ issue = [i \in Issues |-> Asking(start[i][1], start[i][2])]
       /\ pr = [i \in Issues |-> start[i][3]]
       /\ tree = [m \in Machines |-> [i \in Issues |->
                   IF start[i][3] = "none" THEN "none" ELSE "kept"]]
  /\ attempts = {}
  /\ \E p \in Prints \cup {"resolved"} : policy = [m \in Machines |-> p]
  /\ base = 0 /\ failed = [m \in Machines |-> NoBase]
  /\ driver = [d \in Drivers |-> Idle]
  /\ dispatch = [m \in Machines |-> [i \in Issues |-> Nobody]]
  /\ guard = [m \in Machines |-> Nobody]
  /\ acts = 0 /\ faults = 0

--------------------------------------------------------------------------
(* How a process ends a tick, and the locks *)

\* mutant: the dispatch lock outlives the decision
UnlockedGuard(d) ==
  /\ guard' = [guard EXCEPT ![Mine(d)] = IF @ = d THEN Nobody ELSE @] /\ UNCHANGED dispatch
\* the kernel drops a dispatch lock with its descriptor
Unlocked(d) ==
  /\ dispatch' = [dispatch EXCEPT ![Mine(d)] =
       [i \in Issues |-> IF @[i] = d THEN Nobody ELSE @[i]]]
  /\ guard' = [guard EXCEPT ![Mine(d)] = IF @ = d THEN Nobody ELSE @]
EndTick(d) == driver' = [driver EXCEPT ![d] = Idle] /\ Unlocked(d)
Goes(d, process) == driver' = [driver EXCEPT ![d] = process]
LockIsFree(d) == guard[Mine(d)] = Nobody
Locks(d) == guard' = [guard EXCEPT ![Mine(d)] = d]
Faulty == faults < MaxFaults /\ faults' = faults + 1

\* An exception ends the tick; the death of the process ends it as well, and
\* what it wrote stays.
Fails(d) ==
  /\ driver[d].pc # "idle" /\ Faulty /\ EndTick(d)
  /\ UNCHANGED <<github, tree, attempts, settings, acts>>

--------------------------------------------------------------------------
(* The tick up to its target *)

\* Before the drivers the scheduler settles prepared journals: one whose
\* request still waits is released; a journal that claimed and has no
\* workspace stops all scheduling (index.ts, reconcile-prepared-attempt.cts).
StillWaiting(m) ==
  {a \in attempts : a.on = m /\ a.phase = "prepared" /\ a.role \in issue[a.issue].asked}
Held(m) ==
  \/ \E a \in attempts : a.on = m /\ a.phase = "claimed"
  \/ \E a \in StillWaiting(m) : issue[a.issue].progress

\* A failed pair of base and contract suppresses every launch; a stale record
\* is cleared.
Tick(d) ==
  /\ driver[d].pc = "idle" /\ LockIsFree(d) /\ ~Held(Mine(d)) /\ failed[Mine(d)] # base
  /\ failed' = [failed EXCEPT ![Mine(d)] = NoBase]
  /\ attempts' = attempts \ StillWaiting(Mine(d))
  /\ Goes(d, [driver[d] EXCEPT !.pc = "clean", !.policy = policy[Mine(d)]])
  /\ UNCHANGED <<github, tree, policy, base, locks, bounds>>

\* selectCleanupPlan: the clean closed checkouts whose work is on GitHub
CleanupCandidates(m) ==
  {i \in Issues : pr[i] \in {"merged", "closed"}
     /\ (tree[m][i] \in {"kept", "scratch"} \/ (tree[m][i] = "ahead" /\ pr[i] = "merged"))}
PlanCleanup(d) ==
  /\ driver[d].pc = "clean"
  /\ Goes(d, [driver[d] EXCEPT !.pc =
                IF CleanupCandidates(Mine(d)) = {} THEN "select" ELSE "apply"])
  /\ UNCHANGED <<github, tree, attempts, settings, locks, bounds>>

\* The program started with --apply plans again.
ApplyCleanup(d) ==
  /\ driver[d].pc = "apply"
  /\ LET found == CleanupCandidates(Mine(d)) IN
     IF found = {} THEN EndTick(d)
     ELSE Goes(d, [driver[d] EXCEPT !.pc = "remove", !.plan = found]) /\ UNCHANGED locks
  /\ UNCHANGED <<github, tree, attempts, settings, bounds>>

\* mutant: the plan is not looked at again
RemovableAsPlanned(m, i) == tree[m][i] \in {"kept", "ahead", "dirty"}
\* What is no longer closed and clean, or tracks a scratch file, is kept; one
\* such candidate makes the result of the whole tick an exception.
Removable(m, i) == tree[m][i] \in {"kept", "ahead"}
RemoveWorktree(d) ==
  /\ driver[d].pc = "remove" /\ LockIsFree(d)
  /\ \E i \in driver[d].plan :
     /\ tree' = [tree EXCEPT ![Mine(d)][i] = IF Removable(Mine(d), i) THEN "gone" ELSE @]
     /\ LET left == driver[d].plan \ {i} IN
        IF left = {} THEN EndTick(d)
        ELSE Goes(d, [driver[d] EXCEPT !.plan = left]) /\ UNCHANGED locks
  /\ UNCHANGED <<github, attempts, settings, bounds>>

\* reconcileAmbiguousPreparedWorkerConsumption: prepared journals whose
\* request is no longer on its listed Issue
Ambiguous(m) ==
  {a \in attempts : a.on = m /\ a.phase = "prepared" /\ issue[a.issue].open
                    /\ a.role \notin issue[a.issue].asked}
Resumable(d) ==
  {i \in Issues : driver[d].policy # "resolved" /\ IsResumableStop(issue[i], driver[d].policy)}

SelectTarget(d, blind) ==
  LET role == SelectedRole(issue, issue, blind)
      i    == SelectedIssue(issue, issue, blind)
  IN  /\ role # "none"
      /\ Goes(d, [driver[d] EXCEPT
                    !.pc = "target", !.target = i, !.seen = issue[i], !.blind = blind,
                    !.kind = IF PlanKind(issue[i], role) = "worker" /\ driver[d].policy # "resolved"
                             THEN "stop" ELSE PlanKind(issue[i], role)])
      /\ UNCHANGED <<issue, locks>>

\* skip_no_candidate: each unknown reference is told once
ReportUnknown(d, blind) ==
  /\ SelectedRole(issue, issue, blind) = "none" /\ LockIsFree(d)
  /\ issue' = [i \in Issues |-> IF i \in SkippedAsUnknown(issue, issue, blind)
                               THEN [issue[i] EXCEPT !.said = @ \cup {"unknown"}] ELSE issue[i]]
  /\ EndTick(d)

Select(d) ==
  /\ driver[d].pc = "select"
  /\ IF Ambiguous(Mine(d)) # {} THEN
       \E a \in Ambiguous(Mine(d)) : Goes(d, [driver[d] EXCEPT !.pc = "settle", !.seen = a])
         /\ UNCHANGED <<issue, locks, faults>>
     ELSE IF Resumable(d) # {} THEN
       \E i \in Resumable(d) : Goes(d, [driver[d] EXCEPT !.pc = "resume", !.target = i])
         /\ UNCHANGED <<issue, locks, faults>>
     ELSE \E blind \in BOOLEAN :
       /\ (blind /\ Faulty) \/ (~blind /\ UNCHANGED faults)
       /\ SelectTarget(d, blind) \/ ReportUnknown(d, blind)
  /\ UNCHANGED <<pr, tree, attempts, settings, acts>>

\* The receipt is missing: when an automation identity removed the request,
\* the transition can only stop the Issue; the journal lets go either way.
Confiscated(is, role, number) ==
  role \notin is.asked /\ is.removed[role] >= number /\ is.block = Nobody
Settle(d) ==
  /\ driver[d].pc = "settle" /\ LockIsFree(d)
  /\ LET a == driver[d].seen
         stops == a \in attempts /\ Confiscated(issue[a.issue], a.role, a.number)
     IN  /\ attempts' = attempts \ {a}
         /\ issue' = IF stops THEN [issue EXCEPT ![a.issue] = Blocked(@, "ambiguous")] ELSE issue
         /\ IF stops THEN EndTick(d)
            ELSE Goes(d, [driver[d] EXCEPT !.pc = "select", !.seen = Nobody]) /\ UNCHANGED locks
  /\ UNCHANGED <<pr, tree, settings, bounds>>

\* resumeRequiredVerificationStop looks at the live Issue's state and marker only
Resume(d) ==
  /\ driver[d].pc = "resume" /\ LockIsFree(d)
  /\ LET i == Target(d) IN
     issue' = IF issue[i].open /\ FirstMark(issue[i]) = driver[d].policy
              THEN [issue EXCEPT ![i] = StopMove(@)] ELSE issue
  /\ EndTick(d)
  /\ UNCHANGED <<pr, tree, attempts, settings, bounds>>

--------------------------------------------------------------------------
(* One Issue's dispatch decision, under its lock *)

\* A refused lock ends the tick.
TakeDispatch(d) ==
  /\ driver[d].pc = "target"
  /\ IF dispatch[Mine(d)][Target(d)] # Nobody THEN EndTick(d)
     ELSE /\ dispatch' = [dispatch EXCEPT ![Mine(d)][Target(d)] = d]
          /\ Goes(d, [driver[d] EXCEPT !.pc = "decided"]) /\ UNCHANGED guard
  /\ UNCHANGED <<github, tree, attempts, settings, bounds>>

\* launchIssueWorker, launchIssueExplorer: the base, the request event and,
\* for a Worker, the checkout a stopped journal names.  A checkout that is
\* gone or has moved on is an exception; without one the branch is fresh.
Survey(d, role, at) ==
  /\ driver[d].pc = "decided" /\ driver[d].kind = role /\ driver[d].number = 0
  /\ LET is == issue[Target(d)] IN
     IF role \in is.asked /\ at \notin {"gone", "ahead"}
     THEN /\ Goes(d, [driver[d] EXCEPT !.number = is.number[role], !.base = base,
                                      !.from = IF at = "none" THEN "fresh" ELSE "kept"])
          /\ UNCHANGED locks
     ELSE EndTick(d)
  /\ UNCHANGED <<github, tree, attempts, settings, bounds>>
SurveyWorker(d) == Survey(d, "worker", tree[Mine(d)][Target(d)])
SurveyExplorer(d) == Survey(d, "explorer", "none")

Expected(d) == IF driver[d].kind = "stop" THEN "worker" ELSE driver[d].kind
\* assertRecoverableWorkerCheckout: closed, unoccupied, at its head and clean
Recoverable(d) == driver[d].from = "fresh" \/ tree[Mine(d)][Target(d)] \in {"kept", "scratch"}
StillEligible(d, blind) ==
  /\ SameLaunchTarget(driver[d].seen, issue[Target(d)])
  /\ LiveKind(issue, Target(d), blind) = Expected(d)

\* mutant: the stop moves the labels first, like the other gates
MovesFirst(d) == FALSE
\* The contract gate and the planning gate move the labels and comment then;
\* the stop comments first and moves then.
SaysFirst(d) == driver[d].kind = "stop"

\* applyIssueTransition: under the enablement lock the live Issue must be open
\* and still be planned the same way.
EnterGate(d) ==
  /\ driver[d].pc = "decided" /\ driver[d].kind \notin Roles /\ LockIsFree(d)
  /\ IF issue[Target(d)].open /\ StillEligible(d, FALSE)
     THEN /\ Goes(d, [driver[d] EXCEPT !.pc = IF SaysFirst(d) THEN "say" ELSE "move",
                                      !.seen = issue[Target(d)]])
          /\ Locks(d) /\ UNCHANGED dispatch
     ELSE EndTick(d)
  /\ UNCHANGED <<github, tree, attempts, settings, bounds>>

\* What the stop changes was planned from the Issue the gate saw.
GateMoved(is, kind, seen) ==
  CASE kind = "contract_missing" -> [WithoutRequest(is, "worker") EXCEPT !.triage = TRUE]
    [] kind = "planning_blocked" -> Blocked(WithoutRequest(is, "worker"), "planning")
    [] OTHER -> IF seen.block = Nobody THEN Blocked(WithoutRequest(is, "worker"), "stop")
                ELSE WithoutRequest(is, "worker")
GateSaid(is, kind, seen, print) ==
  CASE kind = "contract_missing" -> [is EXCEPT !.said = @ \cup {"contract"}]
    [] kind = "planning_blocked" -> [is EXCEPT !.said = @ \cup {"planning"}]
    [] OTHER -> IF IsMarked(seen, print) THEN is ELSE StopComment(is, print)
SecondWrite(d) == IF SaysFirst(d) THEN "move" ELSE "say"
GateStep(d, pc, is) ==
  /\ driver[d].pc = pc
  /\ issue' = [issue EXCEPT ![Target(d)] = is]
  /\ IF pc = SecondWrite(d) THEN EndTick(d)
     ELSE Goes(d, [driver[d] EXCEPT !.pc = SecondWrite(d)]) /\ UNCHANGED locks
  /\ UNCHANGED <<pr, tree, attempts, settings, bounds>>
Move(d) == GateStep(d, "move", GateMoved(issue[Target(d)], driver[d].kind, driver[d].seen))
Say(d) ==
  GateStep(d, "say", GateSaid(issue[Target(d)], driver[d].kind, driver[d].seen, driver[d].policy))

\* withEnabledDriverLaunch: revalidate, then publish the prepared attempt.
\* waited records, for the properties, what was open at this moment.
Prepared(d, blind) ==
  [issue |-> Target(d), role |-> driver[d].kind, number |-> driver[d].number,
   on |-> Mine(d), phase |-> "prepared", blind |-> blind /\ driver[d].blind,
   waited |-> IF driver[d].kind = "worker" THEN OpenDependencies(Target(d), issue, FALSE) ELSE {}]
EnterLaunch(d, role, usable) ==
  /\ driver[d].pc = "decided" /\ driver[d].kind = role /\ driver[d].number # 0 /\ LockIsFree(d)
  /\ \E blind \in BOOLEAN :
     /\ (blind /\ Faulty) \/ (~blind /\ UNCHANGED faults)
     /\ IF StillEligible(d, blind) /\ base = driver[d].base /\ usable
        THEN /\ attempts' = attempts \cup {Prepared(d, blind)}
             /\ Goes(d, [driver[d] EXCEPT !.pc = "consume", !.seen = Prepared(d, blind)])
             /\ Locks(d) /\ UNCHANGED dispatch
        ELSE EndTick(d) /\ UNCHANGED attempts
  /\ UNCHANGED <<github, tree, settings, acts>>
LaunchWorker(d) == EnterLaunch(d, "worker", Recoverable(d))
LaunchExplorer(d) == EnterLaunch(d, "explorer", TRUE)

Becomes(d, phase) ==
  attempts' = (attempts \ {driver[d].seen}) \cup {[driver[d].seen EXCEPT !.phase = phase]}
GivesUp(d) == attempts' = attempts \ {driver[d].seen} /\ EndTick(d)

\* The contract is still current and the block is older than the request: the
\* block goes, and the request that was selected is exchanged for the active
\* state.  A request another host took, or an active state already there, stops
\* the Issue visibly; a withdrawn or renewed request costs only the attempt.
Consume(d) ==
  /\ driver[d].pc = "consume"
  /\ LET i == Target(d)
         role == driver[d].kind
         n == driver[d].number
         is == Unblocked(issue[i])
         taken == WithoutRequest(is, role)
         current == /\ role = "worker" => policy[Mine(d)] = driver[d].policy
                    /\ issue[i].block = Nobody \/ n > issue[i].since[role]
         chosen == current /\ role \in is.asked /\ is.number[role] = n
     IN  \/ ~current /\ EndTick(d) /\ UNCHANGED <<issue, attempts, faults>>
         \/ /\ chosen /\ ~is.progress
            /\ issue' = [issue EXCEPT ![i] = [taken EXCEPT !.progress = TRUE]]
            /\ Becomes(d, "claimed")
            /\ Goes(d, [driver[d] EXCEPT !.pc = "start",
                                        !.seen = [driver[d].seen EXCEPT !.phase = "claimed"]])
            /\ UNCHANGED <<locks, faults>>
         \/ /\ chosen /\ is.progress
            /\ issue' = [issue EXCEPT ![i] = Blocked(taken, "ambiguous")]
            /\ GivesUp(d) /\ UNCHANGED faults
         \/ /\ current /\ ~chosen
            /\ issue' = [issue EXCEPT ![i] =
                           IF Confiscated(is, role, n) THEN Blocked(is, "ambiguous") ELSE is]
            /\ GivesUp(d) /\ UNCHANGED faults
         \* the process dies with the label removed and no receipt
         \/ /\ chosen /\ ~is.progress /\ Faulty
            /\ issue' = [issue EXCEPT ![i] = taken]
            /\ EndTick(d) /\ UNCHANGED attempts
  /\ UNCHANGED <<pr, tree, settings, acts>>

\* launchAgentFlow: the workspace, the agent and its record
Start(d) ==
  /\ driver[d].pc = "start" /\ EndTick(d)
  /\ \/ /\ Becomes(d, "running") /\ UNCHANGED faults
        /\ tree' = IF driver[d].kind = "worker"
                   THEN [tree EXCEPT ![Mine(d)][Target(d)] = "open"] ELSE tree
     \/ Faulty /\ Becomes(d, "failed") /\ UNCHANGED tree
  /\ UNCHANGED <<github, settings, acts>>

--------------------------------------------------------------------------
(* What changes around the drivers *)

Ended(is) == [is EXCEPT !.progress = FALSE]
\* a stop of an attempt clears the requests and raises the block
Stopped(is) == Blocked([Ended(is) EXCEPT !.asked = {}], "attempt")

\* The completion of a running attempt: a Worker leaves a closed checkout and
\* a pull request, or a stop; an explorer its result, or a stop.
Completes(a) ==
  /\ a \in attempts /\ a.phase = "running" /\ attempts' = attempts \ {a}
  /\ \/ /\ issue' = [issue EXCEPT ![a.issue] = Ended(@)]
        /\ pr' = IF a.role = "worker" THEN [pr EXCEPT ![a.issue] = "open"] ELSE pr
     \/ issue' = [issue EXCEPT ![a.issue] = Stopped(@)] /\ UNCHANGED pr
  /\ \E left \in {"kept", "scratch"} :
     tree' = IF a.role = "worker" THEN [tree EXCEPT ![a.on][a.issue] = left] ELSE tree
  /\ UNCHANGED <<settings, driver, locks, bounds>>
AgentEnds == \E a \in attempts : Completes(a)

Acts == acts < MaxActs /\ acts' = acts + 1
Edits(i, is) == issue' = [issue EXCEPT ![i] = is] /\ UNCHANGED <<pr, tree, attempts, settings>>
Asks(i, role) ==
  /\ role \notin issue[i].asked /\ issue[i].number[role] < MaxRequests
  /\ Edits(i, [issue[i] EXCEPT !.asked = @ \cup {role}, !.number[role] = @ + 1])
Withdraws(i, role) ==
  /\ role \in issue[i].asked
  /\ Edits(i, [issue[i] EXCEPT !.asked = @ \ {role}])
Person(i) ==
  \/ \E role \in Roles : Asks(i, role) \/ Withdraws(i, role)
  \/ \E t \in Texts \ {issue[i].text} : Edits(i, [issue[i] EXCEPT !.text = t])
  \/ Edits(i, [issue[i] EXCEPT !.open = ~@])
  \/ Edits(i, [issue[i] EXCEPT !.aside = ~@])
  \/ IF issue[i].block = Nobody THEN Edits(i, Blocked(issue[i], "person"))
     ELSE Edits(i, Unblocked(issue[i]))

\* A pull request is merged, which closes its Issue, or rejected.
Reviewer(i) ==
  /\ pr[i] = "open" /\ UNCHANGED <<tree, attempts, settings>>
  /\ \/ pr' = [pr EXCEPT ![i] = "merged"] /\ issue' = [issue EXCEPT ![i].open = FALSE]
     \/ pr' = [pr EXCEPT ![i] = "closed"] /\ UNCHANGED issue

\* Somebody works in a closed checkout, or repairs what is in the way.
After(t) == CASE t = "kept" -> {"dirty", "ahead", "gone"} [] t \in {"dirty", "ahead"} -> {"kept"}
              [] t = "gone" -> {"none"} [] OTHER -> {}
Operator(m) ==
  \/ /\ UNCHANGED <<github, attempts, settings>>
     /\ \E i \in Issues : \E t \in After(tree[m][i]) : tree' = [tree EXCEPT ![m][i] = t]
  \/ /\ UNCHANGED <<github, tree, attempts>>
     /\ \/ /\ \E p \in (Prints \cup {"resolved"}) \ {policy[m]} : policy' = [policy EXCEPT ![m] = p]
           /\ UNCHANGED <<base, failed>>
        \/ base < 1 /\ base' = base + 1 /\ UNCHANGED <<policy, failed>>
        \/ failed' = [failed EXCEPT ![m] = base] /\ UNCHANGED <<policy, base>>
  \/ \* abandonment of a journal that claimed and never started
     \E a \in attempts :
       /\ a.on = m /\ a.phase \in {"claimed", "failed"}
       /\ \A d \in Drivers : driver[d].pc = "start" => Mine(d) # m \/ Target(d) # a.issue
       /\ attempts' = attempts \ {a} /\ issue' = [issue EXCEPT ![a.issue] = Stopped(@)]
       /\ UNCHANGED <<pr, tree, settings>>

Around ==
  /\ Acts /\ UNCHANGED <<driver, locks, faults>>
  /\ (\E i \in Issues : Person(i) \/ Reviewer(i)) \/ (\E m \in Machines : Operator(m))

--------------------------------------------------------------------------
Drive(d) ==
  \/ Tick(d) \/ PlanCleanup(d) \/ ApplyCleanup(d) \/ RemoveWorktree(d)
  \/ Select(d) \/ Settle(d) \/ Resume(d) \/ TakeDispatch(d)
  \/ SurveyWorker(d) \/ SurveyExplorer(d) \/ EnterGate(d) \/ Move(d) \/ Say(d)
  \/ LaunchWorker(d) \/ LaunchExplorer(d) \/ Consume(d) \/ Start(d)
Next == (\E d \in Drivers : Drive(d) \/ Fails(d)) \/ AgentEnds \/ Around

\* The scheduler starts the next tick and the driver's calls return; the
\* runtime or the limit of active work ends every agent.
Spec == Init /\ [][Next]_vars /\ (\A d \in Drivers : WF_vars(Drive(d))) /\ WF_vars(AgentEnds)

--------------------------------------------------------------------------
(* Properties *)

\* An Issue that a required-verification stop blocked carries the stop's
\* comment, whichever process wrote the label and whatever died in between.
StopIsExplained == \A i \in Issues : issue[i].block = "stop" => issue[i].marks # <<>>

\* A Worker runs only on an Issue whose dependencies were closed when the
\* launch looked at the live Issue; the recorded relationships alone may be
\* missed, and only by two failing lookups of one tick.
DependenciesCloseFirst ==
  \A a \in attempts : a.phase = "running" =>
    a.waited = {} \/ (a.blind /\ a.waited \cap BodyDependencies(a.issue) = {})

\* A checkout that is open or holds uncommitted work is never removed, although
\* cleanup is planned by one look and applied after another.
WorkIsKept ==
  [][\A m \in Machines : \A i \in Issues :
       tree[m][i] \in {"open", "dirty"} => tree'[m][i] # "gone"]_vars

\* While an attempt runs, its Issue shows the active state.
RunningIsMarked == \A a \in attempts : a.phase = "running" => issue[a.issue].progress

Waiting(i, role) ==
  /\ issue[i].open /\ Requested(issue[i], role)
  /\ role = "worker" => OpenDependencies(i, issue, FALSE) = {}
\* What keeps a machine from answering any other Issue: a journal without a
\* workspace, a failed base, a worktree that cleanup never gets rid of, or a
\* selected Issue whose stopped checkout cannot be used.
Hindered(m) ==
  \/ Held(m) \/ failed[m] = base
  \/ \E i \in CleanupCandidates(m) : ~Removable(m, i)
  \/ \E i \in Issues : Waiting(i, "worker") /\ tree[m][i] \in {"gone", "ahead", "dirty", "open"}
\* Every live request is answered, by a launch, a gate or a stop, or withdrawn,
\* unless every machine is hindered in a way named above.
RequestIsAnswered ==
  \A i \in Issues :
    (\E role \in Roles : Waiting(i, role))
      ~> ((\A role \in Roles : ~Waiting(i, role)) \/ \A m \in Machines : Hindered(m))
================================================================================

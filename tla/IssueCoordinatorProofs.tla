------------------------ MODULE IssueCoordinatorProofs -------------------------
(***************************************************************************)
(* The issue coordinator keeps its types, a required-verification stop     *)
(* never leaves an Issue blocked without its comment, and cleanup never    *)
(* removes a checkout that is in use or holds uncommitted work.  For any   *)
(* number of Issues, drivers and machines, any texts and references, and   *)
(* any number of acts, failures and requests.                              *)
(***************************************************************************)
EXTENDS IssueCoordinator, WellFoundedInduction, TLAPS

\* What a driver holds in memory at each point of its tick.
AtTarget == {"resume", "target", "decided", "move", "say", "consume", "start"}
WithIssue == {"target", "decided", "move", "say"}
WithKind == {"target", "decided", "move", "say", "consume", "start"}
GateKinds == {"contract_missing", "planning_blocked", "stop"}
Holds(r) ==
  /\ r.pc \in AtTarget => r.target \in Issues
  /\ r.pc \in {"settle", "consume", "start"} => r.seen \in Attempt
  /\ r.pc \in WithIssue => r.seen \in Issue
  /\ r.pc \in {"move", "say"} => r.kind \in GateKinds
  /\ r.pc \in {"consume", "start"} => r.kind \in Roles
  /\ r.pc \in WithKind <=> r.kind # "none"
  /\ r.kind = "stop" => r.policy # "resolved"

\* A stop that is under way has not lost the comment it relies on: it says
\* before it moves, and no comment is ever taken back.
Explained(r, now) ==
  r.kind = "stop" =>
    /\ r.pc = "say" => (r.seen.marks # <<>> => now[r.target].marks # <<>>)
    /\ r.pc = "move" => now[r.target].marks # <<>>

Fits(r, now) == Holds(r) /\ Explained(r, now)

\* The inductive invariant.
CoordinatorInv ==
  /\ TypeOK
  /\ \A d \in Drivers : Fits(driver[d], issue)
  /\ StopIsExplained

--------------------------------------------------------------------------
(* What a write does to one Issue *)

\* A write of anybody: comments are not taken back, and nothing is newly
\* blocked by a stop without a comment.
Calm(was, is) ==
  /\ is \in Issue
  /\ was.marks # <<>> => is.marks # <<>>
  /\ is.block = "stop" => was.block = "stop" \/ is.marks # <<>>

\* Raising and clearing a block, and withdrawing a request, only touch labels.
LEMMA BlockedIsCalm ==
  ASSUME NEW is \in Issue, NEW who \in Blockers
  PROVE  /\ Blocked(is, who) \in Issue /\ Blocked(is, who).marks = is.marks
         /\ is.block = Nobody => Blocked(is, who).block = who
         /\ is.block # Nobody => Blocked(is, who).block = is.block
BY DEF Blocked, Issue

LEMMA UnblockedIsCalm ==
  ASSUME NEW is \in Issue
  PROVE  /\ Unblocked(is) \in Issue /\ Unblocked(is).marks = is.marks
         /\ Unblocked(is).block = Nobody
BY DEF Unblocked, Issue

LEMMA WithoutRequestIsCalm ==
  ASSUME NEW is \in Issue, NEW role \in Roles
  PROVE  /\ WithoutRequest(is, role) \in Issue /\ WithoutRequest(is, role).marks = is.marks
         /\ WithoutRequest(is, role).block = is.block
BY DEF WithoutRequest, Issue

LEMMA BlockedWithoutStop ==
  ASSUME NEW is \in Issue, NEW who \in Blockers \ {"stop"}
  PROVE  Calm(is, Blocked(is, who))
<1>1. is.block \in Blockers \cup {Nobody}
  BY DEF Issue
<1> QED BY <1>1, BlockedIsCalm, NobodyIsNobody DEF Calm

LEMMA CalmIsTransitive ==
  ASSUME NEW a, NEW b, NEW c, Calm(a, b), Calm(b, c)
  PROVE  Calm(a, c)
BY DEF Calm

\* The writes of this module that are single labels.
LEMMA ProgressIsCalm ==
  ASSUME NEW is \in Issue, NEW flag \in BOOLEAN
  PROVE  Calm(is, [is EXCEPT !.progress = flag])
BY DEF Calm, Issue

LEMMA TriageIsCalm ==
  ASSUME NEW is \in Issue, NEW flag \in BOOLEAN
  PROVE  Calm(is, [is EXCEPT !.triage = flag])
BY DEF Calm, Issue

LEMMA AsideIsCalm ==
  ASSUME NEW is \in Issue, NEW flag \in BOOLEAN
  PROVE  Calm(is, [is EXCEPT !.aside = flag])
BY DEF Calm, Issue

LEMMA OpenIsCalm ==
  ASSUME NEW is \in Issue, NEW flag \in BOOLEAN
  PROVE  Calm(is, [is EXCEPT !.open = flag])
BY DEF Calm, Issue

LEMMA TextIsCalm ==
  ASSUME NEW is \in Issue, NEW t \in AllTexts
  PROVE  Calm(is, [is EXCEPT !.text = t])
BY DEF Calm, Issue

LEMMA AskedIsCalm ==
  ASSUME NEW is \in Issue, NEW roles \in SUBSET Roles
  PROVE  Calm(is, [is EXCEPT !.asked = roles])
BY DEF Calm, Issue

LEMMA SaidIsCalm ==
  ASSUME NEW is \in Issue, NEW word \in {"contract", "planning", "unknown"}
  PROVE  Calm(is, [is EXCEPT !.said = @ \cup {word}])
BY DEF Calm, Issue

LEMMA SameIsCalm ==
  ASSUME NEW is \in Issue
  PROVE  Calm(is, is)
BY DEF Calm

LEMMA CommentIsCalm ==
  ASSUME NEW is \in Issue, NEW print \in Prints
  PROVE  /\ Calm(is, StopComment(is, print))
         /\ StopComment(is, print).marks # <<>>
<1>1. is.marks \in Seq(Prints)
  BY DEF Issue
<1>2. Append(is.marks, print) \in Seq(Prints) /\ Append(is.marks, print) # <<>>
  BY <1>1
<1> DEFINE more == Append(is.marks, print)
<1>3. StopComment(is, print) = [is EXCEPT !.marks = more]
  BY DEF StopComment
<1>4. more \in Seq(Prints) /\ more # <<>>
  BY <1>2
<1> HIDE DEF more
<1>5. [is EXCEPT !.marks = more] \in Issue /\ [is EXCEPT !.marks = more].marks = more
  BY <1>4 DEF Issue
<1> QED BY <1>3, <1>4, <1>5 DEF Calm

\* The move of a stop is calm on an Issue that carries the comment.
LEMMA StopMoveIsCalm ==
  ASSUME NEW is \in Issue, is.marks # <<>>
  PROVE  Calm(is, StopMove(is))
<1> DEFINE bare == WithoutRequest(is, "worker")
<1> DEFINE off == FALSE
<1>0. "worker" \in Roles /\ "stop" \in Blockers /\ off \in BOOLEAN
  BY DEF Roles, Blockers
<1>1. bare \in Issue /\ bare.marks = is.marks /\ bare.block = is.block
  BY <1>0, WithoutRequestIsCalm
<1>2. StopMove(is) = Blocked([bare EXCEPT !.progress = off], "stop")
  BY DEF StopMove
<1> HIDE DEF bare, off
<1>3. /\ [bare EXCEPT !.progress = off] \in Issue
      /\ [bare EXCEPT !.progress = off].marks = is.marks
  BY <1>0, <1>1 DEF Issue
<1>4. StopMove(is) \in Issue /\ StopMove(is).marks = is.marks
  BY <1>0, <1>2, <1>3, BlockedIsCalm
<1> QED BY <1>4 DEF Calm

LEMMA WithoutRequestCalm ==
  ASSUME NEW is \in Issue, NEW role \in Roles
  PROVE  Calm(is, WithoutRequest(is, role))
BY WithoutRequestIsCalm DEF Calm

LEMMA UnblockedCalm ==
  ASSUME NEW is \in Issue
  PROVE  Calm(is, Unblocked(is))
<1>1. Nobody # "stop"
  BY NobodyIsNobody DEF Blockers
<1> QED BY <1>1, UnblockedIsCalm DEF Calm

LEMMA StoppedIsCalm ==
  ASSUME NEW is \in Issue
  PROVE  Calm(is, Ended(is)) /\ Calm(is, Stopped(is))
<1> DEFINE off == FALSE
<1> DEFINE ended == [is EXCEPT !.progress = off]
<1> DEFINE nothing == {}
<1> DEFINE cleared == [ended EXCEPT !.asked = nothing]
<1>1. off \in BOOLEAN /\ nothing \in SUBSET Roles
  OBVIOUS
<1>2. Ended(is) = ended /\ Stopped(is) = Blocked(cleared, "attempt")
  BY DEF Ended, Stopped
<1> HIDE DEF off, nothing
<1>3. Calm(is, ended) /\ ended \in Issue
  BY <1>1, ProgressIsCalm DEF Calm
<1> HIDE DEF ended
<1>4. Calm(ended, cleared) /\ cleared \in Issue
  BY <1>1, <1>3, AskedIsCalm DEF Calm
<1> HIDE DEF cleared
<1>5. Calm(cleared, Blocked(cleared, "attempt"))
  BY <1>4, BlockedWithoutStop DEF Blockers
<1> QED BY <1>2, <1>3, <1>4, <1>5, CalmIsTransitive

LEMMA GateMovedIsCalm ==
  ASSUME NEW is \in Issue, NEW seen \in Issue, NEW kind \in GateKinds,
         kind = "stop" => is.marks # <<>>
  PROVE  Calm(is, GateMoved(is, kind, seen))
<1> DEFINE bare == WithoutRequest(is, "worker")
<1> DEFINE on == TRUE
<1>0. on \in BOOLEAN /\ "worker" \in Roles /\ {"planning", "stop"} \subseteq Blockers
  BY DEF Roles, Blockers
<1>1. bare \in Issue /\ bare.marks = is.marks /\ Calm(is, bare)
  BY <1>0, WithoutRequestIsCalm, WithoutRequestCalm
<1>a. CASE kind = "contract_missing"
  <2>1. GateMoved(is, kind, seen) = [bare EXCEPT !.triage = on]
    BY <1>a DEF GateMoved
  <2> HIDE DEF bare, on
  <2>2. Calm(bare, [bare EXCEPT !.triage = on])
    BY <1>0, <1>1, TriageIsCalm
  <2> QED BY <1>1, <2>1, <2>2, CalmIsTransitive
<1>b. CASE kind = "planning_blocked"
  <2>1. GateMoved(is, kind, seen) = Blocked(bare, "planning")
    BY <1>b DEF GateMoved
  <2> HIDE DEF bare
  <2>2. Calm(bare, Blocked(bare, "planning"))
    BY <1>0, <1>1, BlockedWithoutStop
  <2> QED BY <1>1, <2>1, <2>2, CalmIsTransitive
<1>c. CASE kind = "stop"
  <2>1. GateMoved(is, kind, seen) =
          IF seen.block = Nobody THEN Blocked(bare, "stop") ELSE bare
    BY <1>c DEF GateMoved
  <2> HIDE DEF bare
  <2>2. Blocked(bare, "stop") \in Issue /\ Blocked(bare, "stop").marks = is.marks
    BY <1>0, <1>1, BlockedIsCalm
  <2> QED BY <1>1, <1>c, <2>1, <2>2 DEF Calm
<1> QED BY <1>a, <1>b, <1>c DEF GateKinds

LEMMA GateSaidIsCalm ==
  ASSUME NEW is \in Issue, NEW seen \in Issue, NEW kind \in GateKinds, NEW print,
         kind = "stop" => print \in Prints
  PROVE  /\ Calm(is, GateSaid(is, kind, seen, print))
         /\ kind = "stop" /\ (seen.marks # <<>> => is.marks # <<>>)
              => GateSaid(is, kind, seen, print).marks # <<>>
<1>a. CASE kind = "contract_missing"
  <2>1. GateSaid(is, kind, seen, print) = [is EXCEPT !.said = @ \cup {"contract"}]
    BY <1>a DEF GateSaid
  <2>2. Calm(is, [is EXCEPT !.said = @ \cup {"contract"}])
    BY SaidIsCalm
  <2> QED BY <1>a, <2>1, <2>2
<1>b. CASE kind = "planning_blocked"
  <2>1. GateSaid(is, kind, seen, print) = [is EXCEPT !.said = @ \cup {"planning"}]
    BY <1>b DEF GateSaid
  <2>2. Calm(is, [is EXCEPT !.said = @ \cup {"planning"}])
    BY SaidIsCalm
  <2> QED BY <1>b, <2>1, <2>2
<1>c. CASE kind = "stop"
  <2>1. GateSaid(is, kind, seen, print) =
          IF IsMarked(seen, print) THEN is ELSE StopComment(is, print)
    BY <1>c DEF GateSaid
  <2>2. IsMarked(seen, print) => seen.marks # <<>>
    BY DEF IsMarked
  <2>3. Calm(is, StopComment(is, print)) /\ StopComment(is, print).marks # <<>>
    BY <1>c, CommentIsCalm
  <2> QED BY <2>1, <2>2, <2>3, SameIsCalm
<1> QED BY <1>a, <1>b, <1>c DEF GateKinds

--------------------------------------------------------------------------
(* Steps of the whole state *)

CalmStep == issue' \in [Issues -> Issue] /\ \A i \in Issues : Calm(issue[i], issue'[i])

LockTypes ==
  /\ dispatch \in [Machines -> [Issues -> Drivers \cup {Nobody}]]
  /\ guard \in [Machines -> Drivers \cup {Nobody}]
WorkTypes ==
  /\ pr \in [Issues -> Pulls] /\ tree \in [Machines -> [Issues -> Trees]]
  /\ attempts \subseteq Attempt
SettingTypes ==
  /\ policy \in [Machines -> Prints \cup {"resolved"}]
  /\ base \in Bases /\ failed \in [Machines -> Bases \cup {NoBase}]
BoundTypes == acts \in 0 .. MaxActs /\ faults \in 0 .. MaxFaults
RestTypes == LockTypes /\ WorkTypes /\ SettingTypes /\ BoundTypes

LEMMA TypesInParts ==
  TypeOK <=> issue \in [Issues -> Issue] /\ driver \in [Drivers -> Process] /\ RestTypes
BY DEF TypeOK, RestTypes, LockTypes, WorkTypes, SettingTypes, BoundTypes

LEMMA TypesInPartsNext ==
  TypeOK' <=> issue' \in [Issues -> Issue] /\ driver' \in [Drivers -> Process] /\ RestTypes'
BY DEF TypeOK, RestTypes, LockTypes, WorkTypes, SettingTypes, BoundTypes

LEMMA OneWriteIsCalm ==
  ASSUME issue \in [Issues -> Issue], NEW i \in Issues, NEW b, Calm(issue[i], b),
         issue' = [issue EXCEPT ![i] = b]
  PROVE  CalmStep /\ issue'[i] = b
<1>1. b \in Issue
  BY DEF Calm
<1>2. issue' \in [Issues -> Issue] /\ issue'[i] = b
  BY <1>1
<1>3. ASSUME NEW j \in Issues PROVE Calm(issue[j], issue'[j])
  <2>1. CASE j = i
    BY <1>2, <2>1
  <2>2. CASE j # i
    <3>1. issue'[j] = issue[j] /\ issue[j] \in Issue
      BY <2>2
    <3> QED BY <3>1, SameIsCalm
  <2> QED BY <2>1, <2>2
<1> QED BY <1>2, <1>3 DEF CalmStep

LEMMA NoWriteIsCalm ==
  ASSUME issue \in [Issues -> Issue], UNCHANGED issue
  PROVE  CalmStep
<1>1. ASSUME NEW j \in Issues PROVE Calm(issue[j], issue'[j])
  BY SameIsCalm
<1> QED BY <1>1 DEF CalmStep

\* The explanations of all Issues, and what other drivers rely on, survive a
\* calm step.
LEMMA CalmKeepsPromises ==
  ASSUME CoordinatorInv, CalmStep
  PROVE  StopIsExplained' /\ \A d \in Drivers : Fits(driver[d], issue')
<1>1. StopIsExplained'
  BY DEF CoordinatorInv, CalmStep, Calm, StopIsExplained
<1>2. ASSUME NEW d \in Drivers PROVE Fits(driver[d], issue')
  <2> DEFINE r == driver[d]
  <2>1. Holds(r) /\ Explained(r, issue)
    BY DEF CoordinatorInv, Fits
  <2> HIDE DEF r
  <2>2. r.pc \in {"say", "move"} => r.target \in Issues
    BY <2>1 DEF Holds, AtTarget
  <2>3. \A i \in Issues : issue[i].marks # <<>> => issue'[i].marks # <<>>
    BY DEF CalmStep, Calm
  <2>4. Explained(r, issue')
    BY <2>1, <2>2, <2>3 DEF Explained
  <2> QED BY <2>1, <2>4 DEF Fits, r
<1> QED BY <1>1, <1>2

LEMMA OneDriverMoves ==
  ASSUME CoordinatorInv, CalmStep, RestTypes', NEW d \in Drivers, NEW r \in Process,
         Goes(d, r), Fits(r, issue')
  PROVE  CoordinatorInv'
<1>1. driver \in [Drivers -> Process]
  BY DEF CoordinatorInv, TypeOK
<1>2. driver' \in [Drivers -> Process] /\ driver'[d] = r
  BY <1>1 DEF Goes
<1>3. \A e \in Drivers : e # d => driver'[e] = driver[e]
  BY <1>1 DEF Goes
<1>4. StopIsExplained' /\ \A e \in Drivers : Fits(driver[e], issue')
  BY CalmKeepsPromises
<1>5. \A e \in Drivers : Fits(driver'[e], issue')
  BY <1>2, <1>3, <1>4
<1>6. TypeOK'
  BY <1>2, TypesInPartsNext DEF CalmStep
<1> QED BY <1>4, <1>5, <1>6 DEF CoordinatorInv

LEMMA NoDriverMoves ==
  ASSUME CoordinatorInv, CalmStep, RestTypes', UNCHANGED driver
  PROVE  CoordinatorInv'
<1>1. StopIsExplained' /\ \A e \in Drivers : Fits(driver'[e], issue')
  BY CalmKeepsPromises
<1>2. TypeOK'
  BY TypesInPartsNext DEF CalmStep, CoordinatorInv, TypeOK
<1> QED BY <1>1, <1>2 DEF CoordinatorInv

LEMMA IdleFits == Idle \in Process /\ \A now : Fits(Idle, now)
<1>1. Idle \in Process
  BY DEF Idle, Process, Pcs, Kinds, Bases
<1>2. /\ Idle.pc = "idle" /\ Idle.kind = "none"
  BY DEF Idle
<1>3. \A now : Fits(Idle, now)
  BY <1>2 DEF Fits, Holds, Explained, AtTarget, WithIssue, WithKind
<1> QED BY <1>1, <1>3

LEMMA UnlockedTypes ==
  ASSUME TypeOK, NEW d \in Drivers, Unlocked(d)
  PROVE  LockTypes'
<1>1. Mine(d) \in Machines
  BY DriversRunSomewhere DEF Mine
<1>2. guard' \in [Machines -> Drivers \cup {Nobody}]
  BY <1>1 DEF TypeOK, Unlocked
<1>3. dispatch[Mine(d)] \in [Issues -> Drivers \cup {Nobody}]
  BY <1>1 DEF TypeOK
<1> DEFINE freed == [i \in Issues |-> IF dispatch[Mine(d)][i] = d THEN Nobody
                                      ELSE dispatch[Mine(d)][i]]
<1>4. freed \in [Issues -> Drivers \cup {Nobody}]
  BY <1>3
<1>5. dispatch' = [dispatch EXCEPT ![Mine(d)] = freed]
  BY <1>1 DEF Unlocked, TypeOK
<1> HIDE DEF freed
<1>6. dispatch' \in [Machines -> [Issues -> Drivers \cup {Nobody}]]
  BY <1>1, <1>4, <1>5 DEF TypeOK
<1> QED BY <1>2, <1>6 DEF LockTypes

\* A tick that ends forgets what the driver held and drops its locks.
LEMMA TickEnds ==
  ASSUME CoordinatorInv, CalmStep, NEW d \in Drivers, EndTick(d),
         WorkTypes', SettingTypes', BoundTypes'
  PROVE  CoordinatorInv'
<1>1. LockTypes'
  BY UnlockedTypes DEF EndTick, CoordinatorInv
<1>2. Goes(d, Idle)
  BY DEF EndTick, Goes
<1> QED BY <1>1, <1>2, IdleFits, OneDriverMoves DEF RestTypes

--------------------------------------------------------------------------
(* What the actions start from *)

LEMMA DriverFacts ==
  ASSUME CoordinatorInv, NEW d \in Drivers
  PROVE  /\ driver[d] \in Process /\ Holds(driver[d]) /\ Explained(driver[d], issue)
         /\ Mine(d) \in Machines /\ policy[Mine(d)] \in Prints \cup {"resolved"}
         /\ issue \in [Issues -> Issue]
         /\ LockTypes /\ WorkTypes /\ SettingTypes /\ BoundTypes
<1>1. Mine(d) \in Machines
  BY DriversRunSomewhere DEF Mine
<1>2. TypeOK /\ RestTypes
  BY TypesInParts DEF CoordinatorInv
<1> QED BY <1>1, <1>2 DEF CoordinatorInv, TypeOK, Fits, RestTypes

LEMMA PartsStay ==
  /\ RestTypes /\ UNCHANGED locks => LockTypes'
  /\ RestTypes /\ UNCHANGED <<pr, tree, attempts>> => WorkTypes'
  /\ RestTypes /\ UNCHANGED settings => SettingTypes'
  /\ RestTypes /\ UNCHANGED bounds => BoundTypes'
BY DEF RestTypes, LockTypes, WorkTypes, SettingTypes, BoundTypes, locks, settings, bounds

LEMMA FaultyTypes ==
  ASSUME BoundTypes, Faulty \/ UNCHANGED faults, UNCHANGED acts
  PROVE  BoundTypes'
BY BoundsAreNumbers DEF BoundTypes, Faulty

LEMMA LocksTypes ==
  ASSUME LockTypes, NEW d \in Drivers, Locks(d), UNCHANGED dispatch
  PROVE  LockTypes'
<1>1. Mine(d) \in Machines
  BY DriversRunSomewhere DEF Mine
<1> QED BY <1>1 DEF LockTypes, Locks

\* Only the point in the tick changes.
LEMMA OnlyThePoint ==
  ASSUME NEW r \in Process, NEW p \in Pcs
  PROVE  /\ [r EXCEPT !.pc = p] \in Process /\ [r EXCEPT !.pc = p].pc = p
         /\ [r EXCEPT !.pc = p].kind = r.kind /\ [r EXCEPT !.pc = p].target = r.target
         /\ [r EXCEPT !.pc = p].seen = r.seen /\ [r EXCEPT !.pc = p].policy = r.policy
BY DEF Process

\* A driver without a target holds nothing that others could spoil.
LEMMA EarlyFits ==
  ASSUME NEW r \in Process, r.kind = "none",
         r.pc \in {"idle", "clean", "apply", "remove", "select"}
  PROVE  \A now : Fits(r, now)
BY DEF Fits, Holds, Explained, AtTarget, WithIssue, WithKind

LEMMA EarlyHasNoKind ==
  ASSUME NEW r, Holds(r), r.pc \notin WithKind
  PROVE  r.kind = "none"
BY DEF Holds

\* The lowest of a nonempty set of Issues is one of them.
LEMMA LowestIsMember ==
  ASSUME NEW S \in SUBSET Issues, S # {}
  PROVE  Lowest(S) \in S
<1>1. S \subseteq Nat
  BY IssuesAreNumbers
<1>2. PICK i \in S : \A j \in S : ~(<<j, i>> \in OpToRel(<, Nat))
  BY <1>1, NatLessThanWellFounded, WFMin
<1>3. ASSUME NEW j \in S, j < i PROVE FALSE
  <2>1. <<j, i>> \in Nat \X Nat /\ <<j, i>>[1] < <<j, i>>[2]
    BY <1>1, <1>3
  <2>2. <<j, i>> \in {ss \in Nat \X Nat : ss[1] < ss[2]}
    BY <2>1
  <2> QED BY <1>2, <2>2 DEF OpToRel
<1>4. \A j \in S : i <= j
  BY <1>1, <1>3
<1> QED BY <1>4 DEF Lowest

LEMMA SelectedIsAnIssue ==
  ASSUME NEW now, NEW blind, SelectedRole(now, now, blind) # "none"
  PROVE  /\ SelectedRole(now, now, blind) \in Roles
         /\ SelectedIssue(now, now, blind) \in Issues
<1> DEFINE role == SelectedRole(now, now, blind)
<1>1. role \in Roles /\ Candidates(now, now, role, blind) # {}
  BY DEF SelectedRole, Roles
<1>2. Candidates(now, now, role, blind) \subseteq Issues
  BY DEF Candidates
<1> HIDE DEF role
<1>3. Lowest(Candidates(now, now, role, blind)) \in Issues
  BY <1>1, <1>2, LowestIsMember
<1> QED BY <1>1, <1>3 DEF SelectedIssue, role

--------------------------------------------------------------------------
(* Each action keeps the invariant *)

LEMMA TickKeeps ==
  ASSUME CoordinatorInv, NEW d \in Drivers, Tick(d)
  PROVE  CoordinatorInv'
<1> USE DriverFacts
<1> DEFINE h == driver[d]
<1> DEFINE p == policy[Mine(d)]
<1> DEFINE r == [h EXCEPT !.pc = "clean", !.policy = p]
<1>1. Goes(d, r) /\ h.pc = "idle"
  BY DEF Tick
<1>2. h \in Process /\ p \in Prints \cup {"resolved"} /\ Holds(h)
  OBVIOUS
<1>3. CalmStep
  BY NoWriteIsCalm DEF Tick, github
<1>4. /\ attempts' \subseteq attempts /\ UNCHANGED <<pr, tree, policy, base, locks, bounds>>
      /\ failed' = [failed EXCEPT ![Mine(d)] = NoBase]
  BY DEF Tick, github
<1>5. WorkTypes'
  BY <1>4 DEF WorkTypes
<1>6. SettingTypes'
  BY <1>4 DEF SettingTypes
<1>7. RestTypes'
  BY <1>4, <1>5, <1>6, PartsStay DEF RestTypes
<1> HIDE DEF h, p
<1>8. r \in Process /\ r.pc = "clean" /\ r.kind = h.kind
  BY <1>2 DEF Process, Pcs
<1>9. h.kind = "none"
  BY <1>1, <1>2, EarlyHasNoKind DEF WithKind
<1> HIDE DEF r
<1> QED BY <1>1, <1>3, <1>7, <1>8, <1>9, EarlyFits, OneDriverMoves

LEMMA PlanCleanupKeeps ==
  ASSUME CoordinatorInv, NEW d \in Drivers, PlanCleanup(d)
  PROVE  CoordinatorInv'
<1> USE DriverFacts
<1> DEFINE h == driver[d]
<1> DEFINE p == IF CleanupCandidates(Mine(d)) = {} THEN "select" ELSE "apply"
<1> DEFINE r == [h EXCEPT !.pc = p]
<1>1. Goes(d, r) /\ h.pc = "clean" /\ h \in Process /\ Holds(h)
  BY DEF PlanCleanup
<1>2. CalmStep /\ RestTypes'
  BY NoWriteIsCalm, PartsStay DEF PlanCleanup, github, RestTypes
<1>3. p \in {"select", "apply"} /\ p \in Pcs
  BY DEF Pcs
<1> HIDE DEF h, p
<1>4. r \in Process /\ r.pc = p /\ r.kind = h.kind
  BY <1>1, <1>3, OnlyThePoint
<1>5. h.kind = "none"
  BY <1>1, EarlyHasNoKind DEF WithKind
<1> HIDE DEF r
<1> QED BY <1>1, <1>2, <1>3, <1>4, <1>5, EarlyFits, OneDriverMoves

LEMMA ApplyCleanupKeeps ==
  ASSUME CoordinatorInv, NEW d \in Drivers, ApplyCleanup(d)
  PROVE  CoordinatorInv'
<1> USE DriverFacts
<1> DEFINE h == driver[d]
<1> DEFINE found == CleanupCandidates(Mine(d))
<1> DEFINE r == [h EXCEPT !.pc = "remove", !.plan = found]
<1>1. h.pc = "apply" /\ h \in Process /\ Holds(h)
  BY DEF ApplyCleanup
<1>2. CalmStep /\ WorkTypes' /\ SettingTypes' /\ BoundTypes'
  BY NoWriteIsCalm, PartsStay DEF ApplyCleanup, github, RestTypes
<1>3. EndTick(d) \/ (Goes(d, r) /\ UNCHANGED locks)
  BY DEF ApplyCleanup
<1>a. CASE EndTick(d)
  BY <1>a, <1>2, TickEnds
<1>b. CASE Goes(d, r) /\ UNCHANGED locks
  <2>1. RestTypes'
    BY <1>b, <1>2, PartsStay DEF RestTypes
  <2>2. found \in SUBSET Issues
    BY DEF CleanupCandidates
  <2>3. Goes(d, r)
    BY <1>b
  <2> HIDE DEF h, found
  <2>4. r \in Process /\ r.pc = "remove" /\ r.kind = h.kind
    BY <1>1, <2>2 DEF Process, Pcs
  <2>5. h.kind = "none"
    BY <1>1, EarlyHasNoKind DEF WithKind
  <2> HIDE DEF r
  <2> QED BY <1>2, <2>1, <2>3, <2>4, <2>5, EarlyFits, OneDriverMoves
<1> QED BY <1>3, <1>a, <1>b

LEMMA RemoveWorktreeKeeps ==
  ASSUME CoordinatorInv, NEW d \in Drivers, RemoveWorktree(d)
  PROVE  CoordinatorInv'
<1> USE DriverFacts
<1> DEFINE h == driver[d]
<1>1. h.pc = "remove" /\ h \in Process /\ Holds(h)
  BY DEF RemoveWorktree
<1>2. CalmStep /\ SettingTypes' /\ BoundTypes'
  BY NoWriteIsCalm, PartsStay DEF RemoveWorktree, github, RestTypes
<1>3. PICK i \in h.plan :
        /\ tree' = [tree EXCEPT ![Mine(d)][i] = IF Removable(Mine(d), i) THEN "gone" ELSE @]
        /\ IF h.plan \ {i} = {} THEN EndTick(d)
           ELSE Goes(d, [h EXCEPT !.plan = h.plan \ {i}]) /\ UNCHANGED locks
  BY DEF RemoveWorktree
<1> DEFINE left == h.plan \ {i}
<1> DEFINE r == [h EXCEPT !.plan = left]
<1>4. WorkTypes'
  <2>1. tree' \in [Machines -> [Issues -> Trees]]
    BY <1>3 DEF WorkTypes, Trees
  <2> QED BY <2>1 DEF WorkTypes, RemoveWorktree, github
<1>a. CASE EndTick(d)
  BY <1>a, <1>2, <1>4, TickEnds
<1>b. CASE Goes(d, r) /\ UNCHANGED locks
  <2>1. RestTypes'
    BY <1>b, <1>2, <1>4, PartsStay DEF RestTypes
  <2>2. left \in SUBSET Issues
    BY <1>1 DEF Process
  <2>3. Goes(d, r)
    BY <1>b
  <2> HIDE DEF h, left
  <2>4. r \in Process /\ r.pc = h.pc /\ r.kind = h.kind
    BY <1>1, <2>2 DEF Process
  <2>5. h.kind = "none"
    BY <1>1, EarlyHasNoKind DEF WithKind
  <2> HIDE DEF r
  <2> QED BY <1>1, <1>2, <2>1, <2>3, <2>4, <2>5, EarlyFits, OneDriverMoves
<1> QED BY <1>3, <1>a, <1>b

LEMMA FailsKeeps ==
  ASSUME CoordinatorInv, NEW d \in Drivers, Fails(d)
  PROVE  CoordinatorInv'
<1> USE DriverFacts
<1>1. EndTick(d) /\ CalmStep
  BY NoWriteIsCalm DEF Fails, github
<1>2. WorkTypes' /\ SettingTypes'
  BY PartsStay DEF Fails, github, RestTypes
<1>3. BoundTypes'
  BY FaultyTypes DEF Fails
<1> QED BY <1>1, <1>2, <1>3, TickEnds

LEMMA SettleKeeps ==
  ASSUME CoordinatorInv, NEW d \in Drivers, Settle(d)
  PROVE  CoordinatorInv'
<1> USE DriverFacts
<1> DEFINE h == driver[d]
<1> DEFINE a == h.seen
<1> DEFINE stops == a \in attempts /\ Confiscated(issue[a.issue], a.role, a.number)
<1> DEFINE r == [h EXCEPT !.pc = "select", !.seen = Nobody]
<1>1. h.pc = "settle" /\ h \in Process /\ Holds(h)
  BY DEF Settle
<1>2. a.issue \in Issues
  <2>1. a \in Attempt
    BY <1>1 DEF Holds
  <2> QED BY <2>1 DEF Attempt
<1>3. issue' = IF stops THEN [issue EXCEPT ![a.issue] = Blocked(@, "ambiguous")] ELSE issue
  BY DEF Settle
<1>4. CalmStep
  <2>1. CASE issue' = issue
    BY <2>1, NoWriteIsCalm
  <2>2. CASE issue' = [issue EXCEPT ![a.issue] = Blocked(@, "ambiguous")]
    <3> DEFINE i == a.issue
    <3> DEFINE b == Blocked(issue[i], "ambiguous")
    <3>1. issue' = [issue EXCEPT ![i] = b] /\ i \in Issues
      BY <1>2, <2>2
    <3> HIDE DEF i
    <3>2. Calm(issue[i], b)
      BY <3>1, BlockedWithoutStop DEF Blockers
    <3> HIDE DEF b
    <3> QED BY <3>1, <3>2, OneWriteIsCalm
  <2> QED BY <1>3, <2>1, <2>2
<1>5. /\ WorkTypes' /\ SettingTypes' /\ BoundTypes'
  <2>1. attempts' \subseteq attempts /\ UNCHANGED <<pr, tree, settings, bounds>>
    BY DEF Settle
  <2>2. WorkTypes'
    BY <2>1 DEF WorkTypes
  <2> QED BY <2>1, <2>2, PartsStay DEF RestTypes
<1>6. EndTick(d) \/ (Goes(d, r) /\ UNCHANGED locks)
  BY DEF Settle
<1>a. CASE EndTick(d)
  BY <1>a, <1>4, <1>5, TickEnds
<1>b. CASE Goes(d, r) /\ UNCHANGED locks
  <2>1. RestTypes'
    BY <1>b, <1>5, PartsStay DEF RestTypes
  <2>3. Goes(d, r)
    BY <1>b
  <2> HIDE DEF h
  <2>4. r \in Process /\ r.pc = "select" /\ r.kind = h.kind
    BY <1>1 DEF Process, Pcs
  <2>5. h.kind = "none"
    BY <1>1, EarlyHasNoKind DEF WithKind
  <2> HIDE DEF r
  <2> QED BY <1>4, <2>1, <2>3, <2>4, <2>5, EarlyFits, OneDriverMoves
<1> QED BY <1>6, <1>a, <1>b

LEMMA ResumeKeeps ==
  ASSUME CoordinatorInv, NEW d \in Drivers, Resume(d)
  PROVE  CoordinatorInv'
<1> USE DriverFacts
<1> DEFINE h == driver[d]
<1> DEFINE i == Target(d)
<1> DEFINE b == StopMove(issue[i])
<1>1. h.pc = "resume" /\ h \in Process /\ Holds(h) /\ EndTick(d)
  BY DEF Resume
<1>2. i \in Issues
  BY <1>1 DEF Holds, AtTarget, Target
<1>3. issue' = IF issue[i].open /\ FirstMark(issue[i]) = h.policy
               THEN [issue EXCEPT ![i] = b] ELSE issue
  BY DEF Resume
<1>4. CalmStep
  <2>1. CASE issue' = issue
    BY <2>1, NoWriteIsCalm
  <2>2. CASE FirstMark(issue[i]) = h.policy /\ issue' = [issue EXCEPT ![i] = b]
    <3>1. h.policy # Nobody
      BY <1>1, NobodyIsNobody DEF Process
    <3> HIDE DEF h, i
    <3>2. issue[i].marks # <<>> /\ issue[i] \in Issue
      BY <1>2, <2>2, <3>1 DEF FirstMark
    <3>3. Calm(issue[i], b)
      BY <3>2, StopMoveIsCalm
    <3> HIDE DEF b
    <3> QED BY <1>2, <2>2, <3>3, OneWriteIsCalm
  <2> QED BY <1>3, <2>1, <2>2
<1>5. WorkTypes' /\ SettingTypes' /\ BoundTypes'
  BY PartsStay DEF Resume, RestTypes
<1> QED BY <1>1, <1>4, <1>5, TickEnds

LEMMA PlanKindIsKnown ==
  ASSUME NEW is, NEW role \in Roles
  PROVE  PlanKind(is, role) \in {"explorer", "contract_missing", "planning_blocked", "worker"}
BY DEF PlanKind, Roles

LEMMA SelectTargetKeeps ==
  ASSUME CoordinatorInv, NEW d \in Drivers, NEW blind \in BOOLEAN, driver[d].pc = "select",
         SelectTarget(d, blind), WorkTypes', SettingTypes', BoundTypes'
  PROVE  CoordinatorInv'
<1> USE DriverFacts
<1> DEFINE h == driver[d]
<1> DEFINE i == SelectedIssue(issue, issue, blind)
<1> DEFINE role == SelectedRole(issue, issue, blind)
<1> DEFINE live == issue[i]
<1> DEFINE k == IF PlanKind(live, role) = "worker" /\ h.policy # "resolved"
                THEN "stop" ELSE PlanKind(live, role)
<1> DEFINE f == blind
<1> DEFINE r == [h EXCEPT !.pc = "target", !.target = i, !.seen = live, !.blind = f, !.kind = k]
<1>1. role # "none" /\ Goes(d, r) /\ UNCHANGED <<issue, locks>> /\ h \in Process
  BY DEF SelectTarget
<1>2. i \in Issues /\ role \in Roles
  BY <1>1, SelectedIsAnIssue
<1>3. live \in Issue
  BY <1>2
<1> HIDE DEF i, role, live, h
<1>4. /\ k \in Kinds \ {"none"}
      /\ k = "stop" => h.policy # "resolved"
  BY <1>2, PlanKindIsKnown DEF Kinds
<1>f. f \in BOOLEAN
  OBVIOUS
<1> HIDE DEF k, f
<1>5. /\ r \in Process /\ r.pc = "target" /\ r.target = i /\ r.seen = live /\ r.kind = k
      /\ r.policy = h.policy
  BY <1>1, <1>2, <1>3, <1>4, <1>f DEF Process, Pcs
<1> HIDE DEF r
<1>6. Fits(r, issue')
  BY <1>2, <1>3, <1>4, <1>5 DEF Fits, Holds, Explained, AtTarget, WithIssue, WithKind
<1>7. CalmStep /\ RestTypes'
  BY <1>1, NoWriteIsCalm, PartsStay DEF RestTypes
<1> QED BY <1>1, <1>5, <1>6, <1>7, OneDriverMoves

LEMMA ReportUnknownKeeps ==
  ASSUME CoordinatorInv, NEW d \in Drivers, NEW blind \in BOOLEAN,
         ReportUnknown(d, blind), WorkTypes', SettingTypes', BoundTypes'
  PROVE  CoordinatorInv'
<1> USE DriverFacts
<1> DEFINE skipped == SkippedAsUnknown(issue, issue, blind)
<1>1. /\ issue' = [i \in Issues |-> IF i \in skipped
                                   THEN [issue[i] EXCEPT !.said = @ \cup {"unknown"}] ELSE issue[i]]
      /\ EndTick(d)
  BY DEF ReportUnknown
<1> HIDE DEF skipped
<1>2. ASSUME NEW i \in Issues PROVE Calm(issue[i], issue'[i])
  <2>1. issue[i] \in Issue
    OBVIOUS
  <2>2. Calm(issue[i], [issue[i] EXCEPT !.said = @ \cup {"unknown"}])
    BY <2>1, SaidIsCalm
  <2>3. issue'[i] = IF i \in skipped
                    THEN [issue[i] EXCEPT !.said = @ \cup {"unknown"}] ELSE issue[i]
    BY <1>1
  <2> QED BY <2>1, <2>2, <2>3, SameIsCalm
<1>3. issue' = [i \in Issues |-> issue'[i]]
  BY <1>1
<1>4. issue' \in [Issues -> Issue]
  BY <1>2, <1>3 DEF Calm
<1>5. CalmStep
  BY <1>2, <1>4 DEF CalmStep
<1> QED BY <1>1, <1>5, TickEnds

LEMMA SelectKeeps ==
  ASSUME CoordinatorInv, NEW d \in Drivers, Select(d)
  PROVE  CoordinatorInv'
<1> USE DriverFacts
<1> DEFINE h == driver[d]
<1>1. /\ h.pc = "select" /\ h \in Process /\ Holds(h)
      /\ UNCHANGED <<pr, tree, attempts, settings, acts>>
  BY DEF Select
<1>2. h.kind = "none"
  BY <1>1, EarlyHasNoKind DEF WithKind
<1>3. WorkTypes' /\ SettingTypes'
  BY <1>1, PartsStay DEF RestTypes
<1>a. CASE \E a \in Ambiguous(Mine(d)) : Goes(d, [h EXCEPT !.pc = "settle", !.seen = a])
             /\ UNCHANGED <<issue, locks, faults>>
  <2>1. PICK a \in Ambiguous(Mine(d)) : Goes(d, [h EXCEPT !.pc = "settle", !.seen = a])
             /\ UNCHANGED <<issue, locks, faults>>
    BY <1>a
  <2> DEFINE r == [h EXCEPT !.pc = "settle", !.seen = a]
  <2>2. a \in Attempt
    BY DEF Ambiguous, WorkTypes
  <2>3. CalmStep /\ RestTypes'
    BY <1>1, <1>3, <2>1, NoWriteIsCalm, PartsStay, FaultyTypes DEF RestTypes
  <2>4. Goes(d, r)
    BY <2>1
  <2> HIDE DEF h
  <2>5. r \in Process /\ r.pc = "settle" /\ r.kind = h.kind /\ r.seen = a
    BY <1>1, <2>2 DEF Process, Pcs
  <2> HIDE DEF r
  <2>6. Fits(r, issue')
    BY <1>2, <2>2, <2>5 DEF Fits, Holds, Explained, AtTarget, WithIssue, WithKind
  <2> QED BY <2>3, <2>4, <2>5, <2>6, OneDriverMoves
<1>b. CASE \E i \in Resumable(d) : Goes(d, [h EXCEPT !.pc = "resume", !.target = i])
             /\ UNCHANGED <<issue, locks, faults>>
  <2>1. PICK i \in Resumable(d) : Goes(d, [h EXCEPT !.pc = "resume", !.target = i])
             /\ UNCHANGED <<issue, locks, faults>>
    BY <1>b
  <2> DEFINE r == [h EXCEPT !.pc = "resume", !.target = i]
  <2>2. i \in Issues
    BY DEF Resumable
  <2>3. CalmStep /\ RestTypes'
    BY <1>1, <1>3, <2>1, NoWriteIsCalm, PartsStay, FaultyTypes DEF RestTypes
  <2>4. Goes(d, r)
    BY <2>1
  <2> HIDE DEF h
  <2>5. r \in Process /\ r.pc = "resume" /\ r.kind = h.kind /\ r.target = i
    BY <1>1, <2>2 DEF Process, Pcs
  <2> HIDE DEF r
  <2>6. Fits(r, issue')
    BY <1>2, <2>2, <2>5 DEF Fits, Holds, Explained, AtTarget, WithIssue, WithKind
  <2> QED BY <2>3, <2>4, <2>5, <2>6, OneDriverMoves
<1>c. CASE \E blind \in BOOLEAN :
             /\ (blind /\ Faulty) \/ (~blind /\ UNCHANGED faults)
             /\ SelectTarget(d, blind) \/ ReportUnknown(d, blind)
  <2>1. PICK blind \in BOOLEAN :
             /\ (blind /\ Faulty) \/ (~blind /\ UNCHANGED faults)
             /\ SelectTarget(d, blind) \/ ReportUnknown(d, blind)
    BY <1>c
  <2>2. BoundTypes'
    BY <1>1, <2>1, FaultyTypes
  <2> QED BY <1>1, <1>3, <2>1, <2>2, SelectTargetKeeps, ReportUnknownKeeps
<1> QED BY <1>a, <1>b, <1>c DEF Select

LEMMA TakeDispatchKeeps ==
  ASSUME CoordinatorInv, NEW d \in Drivers, TakeDispatch(d)
  PROVE  CoordinatorInv'
<1> USE DriverFacts
<1> DEFINE h == driver[d]
<1> DEFINE r == [h EXCEPT !.pc = "decided"]
<1>1. h.pc = "target" /\ h \in Process /\ Holds(h)
  BY DEF TakeDispatch
<1>2. CalmStep /\ WorkTypes' /\ SettingTypes' /\ BoundTypes'
  BY NoWriteIsCalm, PartsStay DEF TakeDispatch, github, RestTypes
<1>a. CASE EndTick(d)
  BY <1>a, <1>2, TickEnds
<1>b. CASE /\ dispatch' = [dispatch EXCEPT ![Mine(d)][Target(d)] = d]
           /\ Goes(d, r) /\ UNCHANGED guard
  <2>1. LockTypes'
    BY <1>b DEF LockTypes
  <2>2. RestTypes' /\ Goes(d, r) /\ issue' = issue
    BY <1>2, <1>b, <2>1 DEF RestTypes, TakeDispatch, github
  <2> HIDE DEF h
  <2>3. "decided" \in Pcs
    BY DEF Pcs
  <2>4. /\ r \in Process /\ r.pc = "decided" /\ r.kind = h.kind /\ r.target = h.target
        /\ r.seen = h.seen /\ r.policy = h.policy
    BY <1>1, <2>3, OnlyThePoint
  <2> HIDE DEF r
  <2>5. Fits(r, issue')
    BY <1>1, <2>4 DEF Fits, Holds, Explained, AtTarget, WithIssue, WithKind
  <2> QED BY <1>2, <2>2, <2>4, <2>5, OneDriverMoves
<1> QED BY <1>a, <1>b DEF TakeDispatch

LEMMA SurveyKeeps ==
  ASSUME CoordinatorInv, NEW d \in Drivers, NEW role \in Roles, NEW at, Survey(d, role, at)
  PROVE  CoordinatorInv'
<1> USE DriverFacts
<1> DEFINE h == driver[d]
<1> DEFINE n == issue[Target(d)].number[role]
<1> DEFINE b == base
<1> DEFINE from == IF at = "none" THEN "fresh" ELSE "kept"
<1> DEFINE r == [h EXCEPT !.number = n, !.base = b, !.from = from]
<1>1. h.pc = "decided" /\ h \in Process /\ Holds(h)
  BY DEF Survey
<1>2. CalmStep /\ WorkTypes' /\ SettingTypes' /\ BoundTypes'
  BY NoWriteIsCalm, PartsStay DEF Survey, github, RestTypes
<1>3. EndTick(d) \/ (Goes(d, r) /\ UNCHANGED locks)
  BY DEF Survey
<1>a. CASE EndTick(d)
  BY <1>a, <1>2, TickEnds
<1>b. CASE Goes(d, r) /\ UNCHANGED locks
  <2>1. RestTypes'
    BY <1>b, <1>2, PartsStay DEF RestTypes
  <2>2. Target(d) \in Issues
    BY <1>1 DEF Holds, AtTarget, Target
  <2>3. n \in Nat
    <3>1. issue[Target(d)] \in Issue
      BY <2>2
    <3> QED BY <3>1 DEF Issue
  <2>4. b \in Bases /\ from \in {"fresh", "kept"}
    BY DEF SettingTypes
  <2>5. Goes(d, r) /\ issue' = issue
    BY <1>b DEF Survey, github
  <2> HIDE DEF h, n, b, from
  <2>6. /\ r \in Process /\ r.pc = h.pc /\ r.kind = h.kind /\ r.target = h.target
        /\ r.seen = h.seen /\ r.policy = h.policy
    BY <1>1, <2>3, <2>4 DEF Process
  <2> HIDE DEF r
  <2>7. Fits(r, issue')
    BY <1>1, <2>6 DEF Fits, Holds, Explained, AtTarget, WithIssue, WithKind
  <2> QED BY <1>2, <2>1, <2>5, <2>6, <2>7, OneDriverMoves
<1> QED BY <1>3, <1>a, <1>b

LEMMA EnterGateKeeps ==
  ASSUME CoordinatorInv, NEW d \in Drivers, EnterGate(d)
  PROVE  CoordinatorInv'
<1> USE DriverFacts
<1> DEFINE h == driver[d]
<1> DEFINE live == issue[Target(d)]
<1> DEFINE p == IF SaysFirst(d) THEN "say" ELSE "move"
<1> DEFINE r == [h EXCEPT !.pc = p, !.seen = live]
<1>1. h.pc = "decided" /\ h \in Process /\ Holds(h) /\ h.kind \notin Roles
  BY DEF EnterGate
<1>2. CalmStep /\ WorkTypes' /\ SettingTypes' /\ BoundTypes'
  BY NoWriteIsCalm, PartsStay DEF EnterGate, github, RestTypes
<1>a. CASE EndTick(d)
  BY <1>a, <1>2, TickEnds
<1>b. CASE Goes(d, r) /\ Locks(d) /\ UNCHANGED dispatch
  <2>1. LockTypes'
    BY <1>b, LocksTypes
  <2>2. RestTypes' /\ Goes(d, r) /\ issue' = issue
    BY <1>b, <1>2, <2>1 DEF RestTypes, EnterGate, github
  <2>3. Target(d) \in Issues /\ h.target = Target(d)
    BY <1>1 DEF Holds, AtTarget, Target
  <2>4. live \in Issue /\ live = issue[h.target]
    BY <2>3
  <2>5. h.kind \in GateKinds
    BY <1>1 DEF Holds, WithKind, Process, Kinds, Roles, GateKinds
  <2>6. p \in {"say", "move"} /\ (h.kind = "stop" => p = "say")
    BY DEF SaysFirst
  <2> HIDE DEF h, live, p
  <2>7. /\ r \in Process /\ r.pc = p /\ r.kind = h.kind /\ r.target = h.target
        /\ r.seen = live /\ r.policy = h.policy
    BY <1>1, <2>4, <2>6 DEF Process, Pcs
  <2> HIDE DEF r
  <2>8. Holds(r)
    BY <1>1, <2>3, <2>4, <2>5, <2>6, <2>7
    DEF Holds, AtTarget, WithIssue, WithKind, GateKinds
  <2>9. Explained(r, issue')
    BY <2>2, <2>4, <2>6, <2>7 DEF Explained
  <2> QED BY <1>2, <2>2, <2>7, <2>8, <2>9, OneDriverMoves DEF Fits
<1> QED BY <1>a, <1>b DEF EnterGate

\* The two writes of a gate: what is written, where the driver goes.
LEMMA MoveKeeps ==
  ASSUME CoordinatorInv, NEW d \in Drivers, Move(d)
  PROVE  CoordinatorInv'
<1> USE DriverFacts
<1> DEFINE h == driver[d]
<1> DEFINE b == GateMoved(issue[Target(d)], h.kind, h.seen)
<1> DEFINE r == [h EXCEPT !.pc = "say"]
<1>1. /\ h.pc = "move" /\ h \in Process /\ Holds(h) /\ Explained(h, issue)
      /\ issue' = [issue EXCEPT ![Target(d)] = b]
      /\ UNCHANGED <<pr, tree, attempts, settings, bounds>>
  BY DEF Move, GateStep
<1>2. IF "move" = SecondWrite(d) THEN EndTick(d)
      ELSE Goes(d, [h EXCEPT !.pc = SecondWrite(d)]) /\ UNCHANGED locks
  BY DEF Move, GateStep
<1>3. /\ Target(d) \in Issues /\ h.target = Target(d) /\ h.seen \in Issue
      /\ h.kind \in GateKinds
  BY <1>1 DEF Holds, AtTarget, WithIssue, Target
<1>4. issue[Target(d)] \in Issue /\ (h.kind = "stop" => issue[Target(d)].marks # <<>>)
  BY <1>1, <1>3 DEF Explained
<1>5. Calm(issue[Target(d)], b)
  BY <1>3, <1>4, GateMovedIsCalm
<1>6. WorkTypes' /\ SettingTypes' /\ BoundTypes'
  BY <1>1, PartsStay DEF RestTypes
<1>7. CalmStep
  <2> HIDE DEF b
  <2> QED BY <1>1, <1>3, <1>5, OneWriteIsCalm
<1>a. CASE h.kind = "stop"
  <2>1. EndTick(d)
    BY <1>a, <1>2 DEF SecondWrite, SaysFirst
  <2> QED BY <2>1, <1>6, <1>7, TickEnds
<1>b. CASE h.kind # "stop"
  <2>1. Goes(d, r) /\ UNCHANGED locks
    BY <1>b, <1>2 DEF SecondWrite, SaysFirst
  <2>2. RestTypes'
    BY <2>1, <1>6, PartsStay DEF RestTypes
  <2>3. "say" \in Pcs
    BY DEF Pcs
  <2> HIDE DEF h, b
  <2>4. /\ r \in Process /\ r.pc = "say" /\ r.kind = h.kind /\ r.target = h.target
        /\ r.seen = h.seen /\ r.policy = h.policy
    BY <1>1, <2>3, OnlyThePoint
  <2> HIDE DEF r
  <2>5. Fits(r, issue')
    BY <1>1, <1>3, <1>b, <2>4 DEF Fits, Holds, Explained, AtTarget, WithIssue, WithKind
  <2> QED BY <1>7, <2>1, <2>2, <2>4, <2>5, OneDriverMoves
<1> QED BY <1>a, <1>b

LEMMA SayKeeps ==
  ASSUME CoordinatorInv, NEW d \in Drivers, Say(d)
  PROVE  CoordinatorInv'
<1> USE DriverFacts
<1> DEFINE h == driver[d]
<1> DEFINE b == GateSaid(issue[Target(d)], h.kind, h.seen, h.policy)
<1> DEFINE r == [h EXCEPT !.pc = "move"]
<1>1. /\ h.pc = "say" /\ h \in Process /\ Holds(h) /\ Explained(h, issue)
      /\ issue' = [issue EXCEPT ![Target(d)] = b]
      /\ UNCHANGED <<pr, tree, attempts, settings, bounds>>
  BY DEF Say, GateStep
<1>2. IF "say" = SecondWrite(d) THEN EndTick(d)
      ELSE Goes(d, [h EXCEPT !.pc = SecondWrite(d)]) /\ UNCHANGED locks
  BY DEF Say, GateStep
<1>3. /\ Target(d) \in Issues /\ h.target = Target(d) /\ h.seen \in Issue
      /\ h.kind \in GateKinds
  BY <1>1 DEF Holds, AtTarget, WithIssue, Target
<1>4. /\ issue[Target(d)] \in Issue
      /\ h.kind = "stop" =>
           h.policy \in Prints /\ (h.seen.marks # <<>> => issue[Target(d)].marks # <<>>)
  BY <1>1, <1>3 DEF Explained, Holds, Process
<1>5. Calm(issue[Target(d)], b) /\ (h.kind = "stop" => b.marks # <<>>)
  BY <1>3, <1>4, GateSaidIsCalm
<1>6. WorkTypes' /\ SettingTypes' /\ BoundTypes'
  BY <1>1, PartsStay DEF RestTypes
<1>7. CalmStep /\ issue'[Target(d)] = b
  <2> HIDE DEF b
  <2> QED BY <1>1, <1>3, <1>5, OneWriteIsCalm
<1>a. CASE h.kind # "stop"
  <2>1. EndTick(d)
    BY <1>a, <1>2 DEF SecondWrite, SaysFirst
  <2> QED BY <2>1, <1>6, <1>7, TickEnds
<1>b. CASE h.kind = "stop"
  <2>1. Goes(d, r) /\ UNCHANGED locks
    BY <1>b, <1>2 DEF SecondWrite, SaysFirst
  <2>2. RestTypes'
    BY <2>1, <1>6, PartsStay DEF RestTypes
  <2>3. "move" \in Pcs
    BY DEF Pcs
  <2> HIDE DEF h, b
  <2>4. /\ r \in Process /\ r.pc = "move" /\ r.kind = h.kind /\ r.target = h.target
        /\ r.seen = h.seen /\ r.policy = h.policy
    BY <1>1, <2>3, OnlyThePoint
  <2> HIDE DEF r
  <2>5. Holds(r)
    BY <1>1, <1>3, <2>4 DEF Holds, AtTarget, WithIssue, WithKind
  <2>6. Explained(r, issue')
    BY <1>3, <1>5, <1>7, <1>b, <2>4 DEF Explained
  <2> QED BY <1>7, <2>1, <2>2, <2>4, <2>5, <2>6, OneDriverMoves DEF Fits
<1> QED BY <1>a, <1>b

LEMMA PreparedIsAttempt ==
  ASSUME CoordinatorInv, NEW d \in Drivers, NEW blind \in BOOLEAN,
         driver[d].pc = "decided", driver[d].kind \in Roles
  PROVE  Prepared(d, blind) \in Attempt
<1> USE DriverFacts
<1> DEFINE h == driver[d]
<1> DEFINE both == blind /\ h.blind
<1> DEFINE open == IF h.kind = "worker" THEN OpenDependencies(Target(d), issue, FALSE) ELSE {}
<1> DEFINE m == Mine(d)
<1>1. h \in Process /\ Target(d) \in Issues
  BY DEF Holds, AtTarget, Target
<1>2. both \in BOOLEAN /\ h.number \in Nat /\ m \in Machines
  BY <1>1 DEF Process
<1>3. open \in SUBSET Nat
  <2>1. BodyDependencies(Target(d)) \subseteq Nat
    BY <1>1, ReferencesAreNumbers DEF BodyDependencies
  <2>2. Related[Target(d)] \subseteq Nat
    BY <1>1, ReferencesAreNumbers, IssuesAreNumbers
  <2>3. OpenDependencies(Target(d), issue, FALSE) \subseteq
          BodyDependencies(Target(d)) \cup Related[Target(d)]
    BY DEF OpenDependencies, Dependencies
  <2> QED BY <2>1, <2>2, <2>3
<1>4. Prepared(d, blind) =
        [issue |-> Target(d), role |-> h.kind, number |-> h.number, on |-> m,
         phase |-> "prepared", blind |-> both, waited |-> open]
  BY DEF Prepared
<1> HIDE DEF h, both, open, m
<1>5. h.kind \in Roles
  BY DEF h
<1> QED BY <1>1, <1>2, <1>3, <1>4, <1>5 DEF Attempt, Phases

LEMMA EnterLaunchKeeps ==
  ASSUME CoordinatorInv, NEW d \in Drivers, NEW role \in Roles, NEW usable,
         EnterLaunch(d, role, usable)
  PROVE  CoordinatorInv'
<1> USE DriverFacts
<1> DEFINE h == driver[d]
<1>1. /\ h.pc = "decided" /\ h \in Process /\ Holds(h) /\ h.kind = role
      /\ UNCHANGED <<issue, pr, tree, settings, acts>>
  BY DEF EnterLaunch, github
<1>2. PICK blind \in BOOLEAN :
        /\ (blind /\ Faulty) \/ (~blind /\ UNCHANGED faults)
        /\ \/ /\ attempts' = attempts \cup {Prepared(d, blind)}
              /\ Goes(d, [h EXCEPT !.pc = "consume", !.seen = Prepared(d, blind)])
              /\ Locks(d) /\ UNCHANGED dispatch
           \/ EndTick(d) /\ UNCHANGED attempts
  BY DEF EnterLaunch
<1> DEFINE a == Prepared(d, blind)
<1> DEFINE r == [h EXCEPT !.pc = "consume", !.seen = a]
<1>3. a \in Attempt
  BY <1>1, PreparedIsAttempt
<1>4. CalmStep /\ SettingTypes' /\ BoundTypes'
  BY <1>1, <1>2, NoWriteIsCalm, PartsStay, FaultyTypes DEF RestTypes
<1>a. CASE EndTick(d) /\ UNCHANGED attempts
  <2>1. WorkTypes'
    BY <1>a, <1>1 DEF WorkTypes
  <2> QED BY <1>a, <1>4, <2>1, TickEnds
<1>b. CASE /\ attempts' = attempts \cup {a} /\ Goes(d, r) /\ Locks(d) /\ UNCHANGED dispatch
  <2>1. WorkTypes'
    BY <1>b, <1>1, <1>3 DEF WorkTypes
  <2>2. LockTypes'
    BY <1>b, LocksTypes
  <2>3. RestTypes' /\ Goes(d, r)
    BY <1>b, <1>4, <2>1, <2>2 DEF RestTypes
  <2> HIDE DEF h, a
  <2>4. /\ r \in Process /\ r.pc = "consume" /\ r.kind = h.kind /\ r.target = h.target
        /\ r.seen = a /\ r.policy = h.policy
    BY <1>1, <1>3 DEF Process, Pcs
  <2> HIDE DEF r
  <2>5. Fits(r, issue')
    BY <1>1, <1>3, <2>4 DEF Fits, Holds, Explained, AtTarget, WithIssue, WithKind, Roles
  <2> QED BY <1>4, <2>3, <2>4, <2>5, OneDriverMoves
<1> QED BY <1>2, <1>a, <1>b

LEMMA BecomesTypes ==
  ASSUME WorkTypes, NEW d \in Drivers, NEW phase \in Phases, driver[d].seen \in Attempt,
         Becomes(d, phase)
  PROVE  attempts' \subseteq Attempt
<1> DEFINE a == driver[d].seen
<1> DEFINE b == [a EXCEPT !.phase = phase]
<1>1. a \in Attempt /\ attempts' = (attempts \ {a}) \cup {b}
  BY DEF Becomes
<1> HIDE DEF a
<1>2. b \in Attempt
  BY <1>1 DEF Attempt
<1> QED BY <1>1, <1>2 DEF WorkTypes

LEMMA ConsumeKeeps ==
  ASSUME CoordinatorInv, NEW d \in Drivers, Consume(d)
  PROVE  CoordinatorInv'
<1> USE DriverFacts
<1> DEFINE h == driver[d]
<1> DEFINE i == Target(d)
<1> DEFINE role == h.kind
<1> DEFINE is == Unblocked(issue[i])
<1> DEFINE taken == WithoutRequest(is, role)
<1> DEFINE on == TRUE
<1> DEFINE busy == [taken EXCEPT !.progress = on]
<1> DEFINE lost == IF Confiscated(is, role, h.number) THEN Blocked(is, "ambiguous") ELSE is
<1> DEFINE a == [h.seen EXCEPT !.phase = "claimed"]
<1> DEFINE r == [h EXCEPT !.pc = "start", !.seen = a]
<1>1. /\ h.pc = "consume" /\ h \in Process /\ Holds(h)
      /\ UNCHANGED <<pr, tree, settings, acts>>
  BY DEF Consume
<1>2. \/ EndTick(d) /\ UNCHANGED <<issue, attempts, faults>>
      \/ /\ issue' = [issue EXCEPT ![i] = busy] /\ Becomes(d, "claimed")
         /\ Goes(d, r) /\ UNCHANGED <<locks, faults>>
      \/ /\ issue' = [issue EXCEPT ![i] = Blocked(taken, "ambiguous")]
         /\ GivesUp(d) /\ UNCHANGED faults
      \/ issue' = [issue EXCEPT ![i] = lost] /\ GivesUp(d) /\ UNCHANGED faults
      \/ Faulty /\ issue' = [issue EXCEPT ![i] = taken] /\ EndTick(d) /\ UNCHANGED attempts
  BY DEF Consume
<1>3. i \in Issues /\ role \in Roles /\ h.seen \in Attempt /\ h.target = i
  BY <1>1 DEF Holds, AtTarget, Target
<1>4. issue[i] \in Issue /\ on \in BOOLEAN
  BY <1>3
<1>5. BoundTypes'
  BY <1>1, <1>2, FaultyTypes
<1>6. SettingTypes'
  BY <1>1, PartsStay DEF RestTypes
<1> DEFINE now == issue[i]
<1>7. /\ Calm(now, taken) /\ Calm(now, busy) /\ Calm(now, Blocked(taken, "ambiguous"))
      /\ Calm(now, lost)
  <2> HIDE DEF h, now, on
  <2>0. /\ now \in Issue /\ role \in Roles /\ "ambiguous" \in Blockers \ {"stop"}
        /\ is = Unblocked(now)
    BY <1>3, <1>4 DEF Blockers, now
  <2>1. Calm(now, is) /\ is \in Issue
    BY <2>0, UnblockedCalm, UnblockedIsCalm
  <2> HIDE DEF is
  <2>2. Calm(is, taken) /\ taken \in Issue
    BY <2>0, <2>1, WithoutRequestCalm DEF Calm
  <2>3. Calm(is, Blocked(is, "ambiguous"))
    BY <2>0, <2>1, BlockedWithoutStop
  <2>4. Calm(is, lost)
    BY <2>1, <2>3, SameIsCalm
  <2> HIDE DEF taken, lost
  <2>5. Calm(taken, busy)
    BY <1>4, <2>2, ProgressIsCalm
  <2>6. Calm(taken, Blocked(taken, "ambiguous"))
    BY <2>0, <2>2, BlockedWithoutStop
  <2> QED BY <2>1, <2>2, <2>4, <2>5, <2>6, CalmIsTransitive
<1>8. ASSUME NEW b, Calm(now, b), issue' = [issue EXCEPT ![i] = b] PROVE CalmStep
  <2> HIDE DEF i, h
  <2> QED BY <1>3, <1>8, OneWriteIsCalm
<1>9. UNCHANGED attempts \/ GivesUp(d) => WorkTypes'
  BY <1>1 DEF WorkTypes, GivesUp
<1> HIDE DEF lost, busy, taken, is, now
<1>a. CASE EndTick(d) /\ UNCHANGED <<issue, attempts, faults>>
  <2>1. CalmStep
    BY <1>a, NoWriteIsCalm
  <2> QED BY <1>a, <1>5, <1>6, <1>9, <2>1, TickEnds
<1>b. CASE /\ issue' = [issue EXCEPT ![i] = busy] /\ Becomes(d, "claimed")
           /\ Goes(d, r) /\ UNCHANGED <<locks, faults>>
  <2>1. CalmStep
    BY <1>b, <1>7, <1>8
  <2>2. attempts' \subseteq Attempt
    BY <1>b, <1>3, BecomesTypes DEF Phases
  <2>3. WorkTypes' /\ LockTypes'
    BY <1>1, <1>b, <2>2, PartsStay DEF WorkTypes, RestTypes
  <2>4. RestTypes' /\ Goes(d, r)
    BY <1>b, <1>5, <1>6, <2>3 DEF RestTypes
  <2> HIDE DEF h
  <2>5. a \in Attempt
    BY <1>3 DEF Attempt, Phases
  <2> HIDE DEF a
  <2>6. /\ r \in Process /\ r.pc = "start" /\ r.kind = h.kind /\ r.target = h.target
        /\ r.seen = a /\ r.policy = h.policy
    BY <1>1, <2>5 DEF Process, Pcs
  <2> HIDE DEF r
  <2>7. Fits(r, issue')
    BY <1>1, <1>3, <2>5, <2>6 DEF Fits, Holds, Explained, AtTarget, WithIssue, WithKind, Roles
  <2> QED BY <2>1, <2>4, <2>6, <2>7, OneDriverMoves
<1>c. CASE issue' = [issue EXCEPT ![i] = Blocked(taken, "ambiguous")] /\ GivesUp(d)
  <2>1. CalmStep
    BY <1>c, <1>7, <1>8
  <2> QED BY <1>c, <1>5, <1>6, <1>9, <2>1, TickEnds DEF GivesUp
<1>d. CASE issue' = [issue EXCEPT ![i] = lost] /\ GivesUp(d)
  <2>1. CalmStep
    BY <1>d, <1>7, <1>8
  <2> QED BY <1>d, <1>5, <1>6, <1>9, <2>1, TickEnds DEF GivesUp
<1>e. CASE issue' = [issue EXCEPT ![i] = taken] /\ EndTick(d) /\ UNCHANGED attempts
  <2>1. CalmStep
    BY <1>e, <1>7, <1>8
  <2> QED BY <1>e, <1>5, <1>6, <1>9, <2>1, TickEnds
<1> QED BY <1>2, <1>a, <1>b, <1>c, <1>d, <1>e

LEMMA StartKeeps ==
  ASSUME CoordinatorInv, NEW d \in Drivers, Start(d)
  PROVE  CoordinatorInv'
<1> USE DriverFacts
<1>1. /\ driver[d].pc = "start" /\ EndTick(d) /\ UNCHANGED <<issue, pr, settings, acts>>
  BY DEF Start, github
<1>2. driver[d].seen \in Attempt
  BY <1>1 DEF Holds
<1>3. /\ Becomes(d, "running") \/ Becomes(d, "failed")
      /\ Faulty \/ UNCHANGED faults
      /\ \/ tree' = [tree EXCEPT ![Mine(d)][Target(d)] = "open"]
         \/ UNCHANGED tree
  BY DEF Start
<1>4. attempts' \subseteq Attempt
  BY <1>2, <1>3, BecomesTypes DEF Phases
<1>5. tree' \in [Machines -> [Issues -> Trees]]
  BY <1>3 DEF WorkTypes, Trees
<1>6. WorkTypes' /\ SettingTypes' /\ BoundTypes' /\ CalmStep
  BY <1>1, <1>3, <1>4, <1>5, FaultyTypes, NoWriteIsCalm, PartsStay DEF WorkTypes, RestTypes
<1> QED BY <1>1, <1>6, TickEnds

LEMMA DriveKeeps ==
  ASSUME CoordinatorInv, NEW d \in Drivers, Drive(d)
  PROVE  CoordinatorInv'
<1>1. "worker" \in Roles /\ "explorer" \in Roles
  BY DEF Roles
<1>2. CASE Tick(d) \/ PlanCleanup(d) \/ ApplyCleanup(d) \/ RemoveWorktree(d)
  BY <1>2, TickKeeps, PlanCleanupKeeps, ApplyCleanupKeeps, RemoveWorktreeKeeps
<1>3. CASE Select(d) \/ Settle(d) \/ Resume(d) \/ TakeDispatch(d)
  BY <1>3, SelectKeeps, SettleKeeps, ResumeKeeps, TakeDispatchKeeps
<1>4. CASE SurveyWorker(d)
  BY <1>1, <1>4, SurveyKeeps DEF SurveyWorker
<1>5. CASE SurveyExplorer(d)
  BY <1>1, <1>5, SurveyKeeps DEF SurveyExplorer
<1>6. CASE EnterGate(d) \/ Move(d) \/ Say(d)
  BY <1>6, EnterGateKeeps, MoveKeeps, SayKeeps
<1>7. CASE LaunchWorker(d)
  BY <1>1, <1>7, EnterLaunchKeeps DEF LaunchWorker
<1>8. CASE LaunchExplorer(d)
  BY <1>1, <1>8, EnterLaunchKeeps DEF LaunchExplorer
<1>9. CASE Consume(d) \/ Start(d)
  BY <1>9, ConsumeKeeps, StartKeeps
<1> QED BY <1>2, <1>3, <1>4, <1>5, <1>6, <1>7, <1>8, <1>9 DEF Drive

LEMMA AgentEndsKeeps ==
  ASSUME CoordinatorInv, AgentEnds
  PROVE  CoordinatorInv'
<1>1. TypeOK /\ RestTypes /\ issue \in [Issues -> Issue] /\ WorkTypes
  BY TypesInParts DEF CoordinatorInv, RestTypes
<1>2. PICK a \in attempts : Completes(a)
  BY DEF AgentEnds
<1>3. /\ a.issue \in Issues /\ a.on \in Machines
  BY <1>1 DEF WorkTypes, Attempt
<1> DEFINE i == a.issue
<1>4. UNCHANGED <<settings, driver, locks, bounds>> /\ attempts' \subseteq attempts
  BY <1>2 DEF Completes
<1>5. \/ issue' = [issue EXCEPT ![i] = Ended(issue[i])]
      \/ issue' = [issue EXCEPT ![i] = Stopped(issue[i])]
  BY <1>2 DEF Completes
<1>6. CalmStep
  <2> HIDE DEF i
  <2>1. i \in Issues /\ issue[i] \in Issue
    BY <1>1, <1>3 DEF i
  <2>2. Calm(issue[i], Ended(issue[i])) /\ Calm(issue[i], Stopped(issue[i]))
    BY <2>1, StoppedIsCalm
  <2> QED BY <1>1, <1>5, <2>1, <2>2, OneWriteIsCalm
<1>7. pr' \in [Issues -> Pulls]
  BY <1>1, <1>2 DEF Completes, WorkTypes, Pulls
<1>8. PICK left \in {"kept", "scratch"} :
        tree' = IF a.role = "worker" THEN [tree EXCEPT ![a.on][a.issue] = left] ELSE tree
  BY <1>2 DEF Completes
<1>9. tree' \in [Machines -> [Issues -> Trees]]
  BY <1>1, <1>8 DEF WorkTypes, Trees
<1>10. RestTypes'
  BY <1>1, <1>4, <1>7, <1>9, PartsStay DEF RestTypes, WorkTypes
<1> QED BY <1>4, <1>6, <1>10, NoDriverMoves

LEMMA PersonIsCalm ==
  ASSUME CoordinatorInv, NEW i \in Issues, Person(i)
  PROVE  CalmStep /\ UNCHANGED <<pr, tree, attempts, settings>>
<1> DEFINE is == issue[i]
<1>1. issue \in [Issues -> Issue] /\ is \in Issue
  BY DEF CoordinatorInv, TypeOK
<1>2. ASSUME NEW b, Calm(is, b), Edits(i, b)
      PROVE  CalmStep /\ UNCHANGED <<pr, tree, attempts, settings>>
  BY <1>1, <1>2, OneWriteIsCalm DEF Edits
<1>3. ASSUME NEW role \in Roles, Asks(i, role)
      PROVE  CalmStep /\ UNCHANGED <<pr, tree, attempts, settings>>
  <2> DEFINE more == is.asked \cup {role}
  <2> DEFINE count == [is.number EXCEPT ![role] = @ + 1]
  <2> DEFINE b == [is EXCEPT !.asked = more, !.number = count]
  <2>1. Edits(i, b)
    BY <1>1, <1>3 DEF Asks
  <2>2. more \in SUBSET Roles /\ count \in [Roles -> Nat]
    BY <1>1 DEF Issue
  <2> HIDE DEF is, more, count
  <2>3. Calm(is, b)
    BY <1>1, <2>2 DEF Calm, Issue
  <2> HIDE DEF b
  <2> QED BY <1>2, <2>1, <2>3
<1>4. ASSUME NEW role \in Roles, Withdraws(i, role)
      PROVE  CalmStep /\ UNCHANGED <<pr, tree, attempts, settings>>
  <2> DEFINE less == is.asked \ {role}
  <2>1. Edits(i, [is EXCEPT !.asked = less])
    BY <1>4 DEF Withdraws
  <2>2. less \in SUBSET Roles
    BY <1>1 DEF Issue
  <2> HIDE DEF is, less
  <2>3. Calm(is, [is EXCEPT !.asked = less])
    BY <1>1, <2>2, AskedIsCalm
  <2> QED BY <1>2, <2>1, <2>3
<1>5. ASSUME NEW t \in Texts, Edits(i, [is EXCEPT !.text = t])
      PROVE  CalmStep /\ UNCHANGED <<pr, tree, attempts, settings>>
  <2>1. t \in AllTexts
    BY StartsAreRequests
  <2> HIDE DEF is
  <2>2. Calm(is, [is EXCEPT !.text = t])
    BY <1>1, <2>1, TextIsCalm
  <2> QED BY <1>2, <1>5, <2>2
<1> DEFINE flipped == ~is.open
<1> DEFINE moved == ~is.aside
<1>6. flipped \in BOOLEAN /\ moved \in BOOLEAN
  OBVIOUS
<1>7. ASSUME Edits(i, [is EXCEPT !.open = flipped])
      PROVE  CalmStep /\ UNCHANGED <<pr, tree, attempts, settings>>
  <2> HIDE DEF is, flipped
  <2>1. Calm(is, [is EXCEPT !.open = flipped])
    BY <1>1, <1>6, OpenIsCalm
  <2> QED BY <1>2, <1>7, <2>1
<1>8. ASSUME Edits(i, [is EXCEPT !.aside = moved])
      PROVE  CalmStep /\ UNCHANGED <<pr, tree, attempts, settings>>
  <2> HIDE DEF is, moved
  <2>1. Calm(is, [is EXCEPT !.aside = moved])
    BY <1>1, <1>6, AsideIsCalm
  <2> QED BY <1>2, <1>8, <2>1
<1>9. ASSUME Edits(i, Blocked(is, "person")) \/ Edits(i, Unblocked(is))
      PROVE  CalmStep /\ UNCHANGED <<pr, tree, attempts, settings>>
  <2>1. Calm(is, Blocked(is, "person")) /\ Calm(is, Unblocked(is))
    BY <1>1, BlockedWithoutStop, UnblockedCalm DEF Blockers
  <2> QED BY <1>2, <1>9, <2>1
<1>10. \/ \E role \in Roles : Asks(i, role) \/ Withdraws(i, role)
       \/ \E t \in Texts : Edits(i, [is EXCEPT !.text = t])
       \/ Edits(i, [is EXCEPT !.open = flipped])
       \/ Edits(i, [is EXCEPT !.aside = moved])
       \/ Edits(i, Blocked(is, "person")) \/ Edits(i, Unblocked(is))
  BY DEF Person
<1> QED BY <1>3, <1>4, <1>5, <1>7, <1>8, <1>9, <1>10

LEMMA ReviewerIsCalm ==
  ASSUME CoordinatorInv, NEW i \in Issues, Reviewer(i)
  PROVE  CalmStep /\ WorkTypes' /\ UNCHANGED settings
<1> DEFINE is == issue[i]
<1> DEFINE shut == FALSE
<1>1. issue \in [Issues -> Issue] /\ is \in Issue /\ shut \in BOOLEAN /\ WorkTypes
  BY TypesInParts DEF CoordinatorInv, TypeOK, RestTypes
<1>2. issue' = [issue EXCEPT ![i] = [is EXCEPT !.open = shut]] \/ UNCHANGED issue
  BY <1>1 DEF Reviewer
<1>3. CalmStep
  <2> HIDE DEF is, shut
  <2> DEFINE b == [is EXCEPT !.open = shut]
  <2>1. Calm(is, b) /\ is = issue[i]
    BY <1>1, OpenIsCalm DEF is
  <2> HIDE DEF b
  <2> QED BY <1>1, <1>2, <2>1, OneWriteIsCalm, NoWriteIsCalm DEF b
<1>4. pr' \in [Issues -> Pulls]
  BY <1>1 DEF Reviewer, WorkTypes, Pulls
<1> QED BY <1>1, <1>3, <1>4 DEF Reviewer, WorkTypes

LEMMA OperatorIsCalm ==
  ASSUME CoordinatorInv, NEW m \in Machines, Operator(m)
  PROVE  CalmStep /\ WorkTypes' /\ SettingTypes'
<1>1. issue \in [Issues -> Issue] /\ WorkTypes /\ SettingTypes /\ RestTypes
  BY TypesInParts DEF CoordinatorInv, TypeOK, RestTypes
<1>a. ASSUME UNCHANGED <<github, attempts, settings>>, NEW i \in Issues,
             NEW t \in After(tree[m][i]), tree' = [tree EXCEPT ![m][i] = t]
      PROVE  CalmStep /\ WorkTypes' /\ SettingTypes'
  <2>1. t \in Trees
    BY <1>a DEF After, Trees
  <2>2. tree' \in [Machines -> [Issues -> Trees]]
    BY <1>1, <1>a, <2>1 DEF WorkTypes
  <2>3. CalmStep
    BY <1>1, <1>a, NoWriteIsCalm DEF github
  <2> QED BY <1>1, <1>a, <2>2, <2>3, PartsStay DEF WorkTypes, github
<1>b. ASSUME UNCHANGED <<github, tree, attempts>>,
             \/ /\ \E p \in (Prints \cup {"resolved"}) \ {policy[m]} :
                     policy' = [policy EXCEPT ![m] = p]
                /\ UNCHANGED <<base, failed>>
             \/ base < 1 /\ base' = base + 1 /\ UNCHANGED <<policy, failed>>
             \/ failed' = [failed EXCEPT ![m] = base] /\ UNCHANGED <<policy, base>>
      PROVE  CalmStep /\ WorkTypes' /\ SettingTypes'
  <2>1. CalmStep /\ WorkTypes'
    BY <1>1, <1>b, NoWriteIsCalm, PartsStay DEF github
  <2>2. SettingTypes'
    BY <1>1, <1>b DEF SettingTypes, Bases
  <2> QED BY <2>1, <2>2
<1>c. ASSUME NEW a \in attempts, attempts' = attempts \ {a},
             issue' = [issue EXCEPT ![a.issue] = Stopped(@)], UNCHANGED <<pr, tree, settings>>
      PROVE  CalmStep /\ WorkTypes' /\ SettingTypes'
  <2> DEFINE i == a.issue
  <2> DEFINE b == Stopped(issue[i])
  <2>1. i \in Issues /\ issue' = [issue EXCEPT ![i] = b]
    BY <1>1, <1>c DEF WorkTypes, Attempt
  <2> HIDE DEF i
  <2>2. Calm(issue[i], b)
    BY <1>1, <2>1, StoppedIsCalm
  <2> HIDE DEF b
  <2>3. CalmStep
    BY <1>1, <2>1, <2>2, OneWriteIsCalm
  <2> QED BY <1>1, <1>c, <2>3, PartsStay DEF WorkTypes
<1> QED BY <1>a, <1>b, <1>c DEF Operator

LEMMA AroundKeeps ==
  ASSUME CoordinatorInv, Around
  PROVE  CoordinatorInv'
<1>1. RestTypes /\ WorkTypes /\ SettingTypes /\ BoundTypes
  BY TypesInParts DEF CoordinatorInv, RestTypes
<1>2. Acts /\ UNCHANGED <<driver, locks, faults>>
  BY DEF Around
<1>3. BoundTypes' /\ LockTypes'
  BY <1>1, <1>2, BoundsAreNumbers, PartsStay DEF BoundTypes, Acts
<1>4. CalmStep /\ WorkTypes' /\ SettingTypes'
  <2>1. ASSUME NEW i \in Issues, Person(i) PROVE CalmStep /\ WorkTypes' /\ SettingTypes'
    BY <1>1, <2>1, PersonIsCalm, PartsStay
  <2>2. ASSUME NEW i \in Issues, Reviewer(i) PROVE CalmStep /\ WorkTypes' /\ SettingTypes'
    BY <1>1, <2>2, ReviewerIsCalm, PartsStay
  <2>3. ASSUME NEW m \in Machines, Operator(m) PROVE CalmStep /\ WorkTypes' /\ SettingTypes'
    BY <2>3, OperatorIsCalm
  <2> QED BY <2>1, <2>2, <2>3 DEF Around
<1> QED BY <1>2, <1>3, <1>4, NoDriverMoves DEF RestTypes

--------------------------------------------------------------------------
(* The theorems *)

LEMMA InitHolds == Init => CoordinatorInv
<1> SUFFICES ASSUME Init PROVE CoordinatorInv
  OBVIOUS
<1>1. PICK start \in Starts :
       /\ issue = [i \in Issues |-> Asking(start[i][1], start[i][2])]
       /\ pr = [i \in Issues |-> start[i][3]]
       /\ tree = [m \in Machines |-> [i \in Issues |->
                   IF start[i][3] = "none" THEN "none" ELSE "kept"]]
  BY DEF Init
<1>2. \A i \in Issues : start[i][1] \in Roles /\ start[i][2] \in AllTexts /\ start[i][3] \in Pulls
  BY StartsAreRequests
<1>3. ASSUME NEW role \in Roles, NEW text \in AllTexts
      PROVE  Asking(role, text) \in Issue /\ Asking(role, text).block = Nobody
  <2> DEFINE numbers == [r \in Roles |-> IF r = role THEN 1 ELSE 0]
  <2> DEFINE zeros == [r \in Roles |-> 0]
  <2> DEFINE yes == TRUE
  <2> DEFINE no == FALSE
  <2> DEFINE marks == <<>>
  <2>1. /\ numbers \in [Roles -> Nat] /\ zeros \in [Roles -> Nat]
        /\ yes \in BOOLEAN /\ no \in BOOLEAN /\ marks \in Seq(Prints)
    OBVIOUS
  <2>2. Asking(role, text) =
          [open |-> yes, asked |-> {role}, number |-> numbers, since |-> zeros,
           removed |-> zeros, progress |-> no, triage |-> no, aside |-> no,
           block |-> Nobody, text |-> text, marks |-> marks, said |-> {}]
    BY DEF Asking
  <2> HIDE DEF numbers, zeros, yes, no, marks
  <2> QED BY <2>1, <2>2 DEF Issue
<1>4. issue \in [Issues -> Issue] /\ \A i \in Issues : issue[i].block = Nobody
  BY <1>1, <1>2, <1>3
<1>5. WorkTypes
  <2>1. pr \in [Issues -> Pulls] /\ tree \in [Machines -> [Issues -> Trees]]
    BY <1>1, <1>2 DEF Trees
  <2> QED BY <2>1 DEF Init, WorkTypes
<1>6. LockTypes /\ SettingTypes /\ BoundTypes
  BY BoundsAreNumbers DEF Init, LockTypes, SettingTypes, BoundTypes, Bases
<1>7. driver \in [Drivers -> Process] /\ \A d \in Drivers : Fits(driver[d], issue)
  BY IdleFits DEF Init
<1>8. StopIsExplained
  BY <1>4, NobodyIsNobody DEF StopIsExplained, Blockers
<1> QED BY <1>4, <1>5, <1>6, <1>7, <1>8, TypesInParts DEF CoordinatorInv, RestTypes

LEMMA NextKeeps == CoordinatorInv /\ [Next]_vars => CoordinatorInv'
<1> SUFFICES ASSUME CoordinatorInv, [Next]_vars PROVE CoordinatorInv'
  OBVIOUS
<1>1. ASSUME NEW d \in Drivers, Drive(d) \/ Fails(d) PROVE CoordinatorInv'
  BY <1>1, DriveKeeps, FailsKeeps
<1>2. CASE UNCHANGED vars
  <2>1. RestTypes' /\ UNCHANGED <<issue, driver>>
    BY <1>2, PartsStay, TypesInParts
    DEF vars, CoordinatorInv, locks, settings, bounds, RestTypes
  <2>2. CalmStep
    BY <2>1, NoWriteIsCalm DEF CoordinatorInv, TypeOK
  <2> QED BY <2>1, <2>2, NoDriverMoves
<1> QED BY <1>1, <1>2, AgentEndsKeeps, AroundKeeps DEF Next

LEMMA CoordinatorInvHolds == Spec => []CoordinatorInv
BY InitHolds, NextKeeps, PTL DEF Spec

\* Every variable keeps its type: what a driver remembers of a tick, an
\* attempt's journal, and the Issue records of GitHub.
THEOREM TypeCorrect == Spec => []TypeOK
<1>1. CoordinatorInv => TypeOK
  BY DEF CoordinatorInv
<1> QED BY <1>1, CoordinatorInvHolds, PTL

\* An Issue that a required-verification stop blocked carries the stop's
\* comment: the stop comments before it moves the labels, the resumption acts
\* only on the comment, and no other writer raises a block of that kind.
THEOREM StopsAreExplained == Spec => []StopIsExplained
<1>1. CoordinatorInv => StopIsExplained
  BY DEF CoordinatorInv
<1> QED BY <1>1, CoordinatorInvHolds, PTL

\* Cleanup plans by one look and removes after another, and still never
\* removes a checkout that an agent has open or that holds uncommitted work.
THEOREM WorkStays == Spec => WorkIsKept
<1> DEFINE Kept == \A m \in Machines : \A i \in Issues :
                     tree[m][i] \in {"open", "dirty"} => tree'[m][i] # "gone"
<1>1. CoordinatorInv /\ [Next]_vars => [Kept]_vars
  <2> SUFFICES ASSUME CoordinatorInv, Next, NEW m \in Machines, NEW i \in Issues,
                      tree[m][i] \in {"open", "dirty"}
               PROVE  tree'[m][i] # "gone"
    OBVIOUS
  <2>0. tree \in [Machines -> [Issues -> Trees]] /\ (UNCHANGED tree => tree'[m][i] # "gone")
    BY DEF CoordinatorInv, TypeOK
  <2>1. ASSUME NEW d \in Drivers, RemoveWorktree(d) PROVE tree'[m][i] # "gone"
    <3>1. PICK j \in driver[d].plan :
            tree' = [tree EXCEPT ![Mine(d)][j] = IF Removable(Mine(d), j) THEN "gone" ELSE @]
      BY <2>1 DEF RemoveWorktree
    <3> QED BY <2>0, <3>1 DEF Removable
  <2>2. ASSUME NEW d \in Drivers, Start(d) PROVE tree'[m][i] # "gone"
    <3>1. \/ tree' = [tree EXCEPT ![Mine(d)][Target(d)] = "open"]
          \/ UNCHANGED tree
      BY <2>2 DEF Start
    <3> QED BY <2>0, <3>1
  <2>3. ASSUME NEW d \in Drivers, Drive(d) \/ Fails(d), ~RemoveWorktree(d), ~Start(d)
        PROVE  UNCHANGED tree
    BY <2>3 DEF Drive, Fails, Tick, PlanCleanup, ApplyCleanup, Select, Settle, Resume,
                TakeDispatch, SurveyWorker, SurveyExplorer, Survey, EnterGate, Move, Say,
                GateStep, LaunchWorker, LaunchExplorer, EnterLaunch, Consume
  <2>4. CASE AgentEnds
    <3>1. PICK a \in attempts : Completes(a)
      BY <2>4 DEF AgentEnds
    <3>2. PICK left \in {"kept", "scratch"} :
            tree' = IF a.role = "worker" THEN [tree EXCEPT ![a.on][a.issue] = left] ELSE tree
      BY <3>1 DEF Completes
    <3> QED BY <2>0, <3>2
  <2>5. CASE Around
    <3>1. \/ UNCHANGED tree
          \/ \E n \in Machines : \E j \in Issues : \E t \in After(tree[n][j]) :
               tree' = [tree EXCEPT ![n][j] = t]
      BY <2>5 DEF Around, Person, Asks, Withdraws, Edits, Reviewer, Operator
    <3>2. ASSUME NEW n \in Machines, NEW j \in Issues, NEW t \in After(tree[n][j]),
                 tree' = [tree EXCEPT ![n][j] = t]
          PROVE  tree'[m][i] # "gone"
      <4>1. CASE n = m /\ j = i
        <5>1. t # "gone"
          BY <4>1 DEF After
        <5>2. tree'[m][i] = t
          BY <2>0, <3>2, <4>1
        <5> QED BY <5>1, <5>2
      <4>2. CASE ~(n = m /\ j = i)
        <5>1. tree'[m][i] = tree[m][i]
          BY <2>0, <3>2, <4>2
        <5> QED BY <5>1
      <4> QED BY <4>1, <4>2
    <3> QED BY <2>0, <3>1, <3>2
  <2> QED BY <2>0, <2>1, <2>2, <2>3, <2>4, <2>5 DEF Next
<1>2. Spec => [][Kept]_vars
  BY <1>1, CoordinatorInvHolds, PTL DEF Spec
<1> QED BY <1>2 DEF WorkIsKept
================================================================================

------------------------------ MODULE CiFallback ------------------------------
(***************************************************************************)
(* An approved pull request whose checks failed (ADR 0030):                *)
(* ci-fallback-gate.cts has the repository's own command run on the        *)
(* prospective merge tree and, when that fails, on the attempt's base.  A  *)
(* base that fails too holds back every launch (ci-base-blocking.cts); on  *)
(* a healthy base one repair is queued per episode.  Several reviews of one*)
(* pull request follow each other; that a review approves, that a repair   *)
(* or a person pushes, and that a claim without an open review is given    *)
(* back (PrAuthority) are single steps here.                               *)
(*                                                                         *)
(* The gate starts run-ci-equivalent-verification.cts, which refuses to run*)
(* without a mode.  ModeIsGiven is whether the gate passes one: FALSE is   *)
(* the program, TRUE lets the steps that stand behind the verifier be      *)
(* checked as well.                                                        *)
(***************************************************************************)
EXTENDS Naturals, FiniteSets

CONSTANTS
  ModeIsGiven,
  Contracted,  \* the bases whose policy yields one complete command
  Fits,        \* <<head, base>>: the merge tree passes the command
  Broken,      \* the bases on which the command fails
  MaxHeads, MaxBases, MaxAsks, MaxMishaps \* bounds; mishaps: deaths, failed calls

FallbackHeads == 1..MaxHeads
Bases == 1..MaxBases
ASSUME FallbackAssumption ==
  /\ MaxHeads \in Nat \ {0} /\ MaxBases \in Nat \ {0}
  /\ MaxAsks \in Nat /\ MaxMishaps \in Nat
  /\ ModeIsGiven \in BOOLEAN
  /\ Fits \subseteq FallbackHeads \X Bases
  /\ Broken \subseteq Bases /\ Contracted \subseteq Bases

VARIABLES
  tip,      \* the trusted base
  pull,     \* the pull request: head, checks, the label it carries
  review,   \* the reviewer's attempt: what it was launched on, workspace open
  gate,     \* where the gate is, and the base it observed
  store,    \* ci-fallback-store.cjs: candidate record, base block, episode
  asks,     \* reviews people asked for; store.episode.asks counts those before it
  queued,   \* ghost: repairs queued, by base and by asks
  mishaps, unwritten \* ghost: repairs queued whose use was never written

fallbackVars == <<tip, pull, review, gate, store, asks, queued, mishaps, unwritten>>

Rollups == {"absent", "all_success", "pending", "unknown", "terminal_failure"}
NoBase == 0
GateStages == {"idle", "verify", "diagnose", "decide", "close", "post", "queue",
               "write", "merge", "health"}

FallbackTypeOK ==
  /\ tip \in Bases
  /\ pull \in [head : FallbackHeads, checks : Rollups,
               label : {"review", "in-progress", "implement", "merged"}]
  /\ review \in [head : FallbackHeads, base : Bases, open : BOOLEAN]
  /\ gate \in [pc : GateStages, base : Bases, asks : 0..MaxAsks]
  /\ store \in [record : [head : FallbackHeads, base : Bases, policy : Bases,
                          outcome : {"none", "passed", "failed"}],
                block : Bases \cup {NoBase},
                episode : [base : Bases \cup {NoBase}, asks : 0..MaxAsks, used : 0..1]]
  /\ asks \in 0..MaxAsks /\ mishaps \in 0..MaxMishaps /\ unwritten \in 0..MaxMishaps
  /\ queued \in [Bases \X (0..MaxAsks) -> Nat]

FallbackRest ==
  /\ gate = [pc |-> "idle", base |-> 1, asks |-> 0]
  /\ store = [record |-> [head |-> 1, base |-> 1, policy |-> 1, outcome |-> "none"],
              block |-> NoBase, episode |-> [base |-> NoBase, asks |-> 0, used |-> 0]]
  /\ asks = 0 /\ mishaps = 0 /\ unwritten = 0
  /\ queued = [e \in Bases \X (0..MaxAsks) |-> 0]
FallbackInit ==
  /\ tip = 1 /\ FallbackRest
  /\ \E checks \in Rollups : pull = [head |-> 1, checks |-> checks, label |-> "review"]
  /\ review = [head |-> 1, base |-> 1, open |-> FALSE]

-----------------------------------------------------------------------------
GateAt(pc) == gate.pc = pc
Onto(pc) == gate' = [gate EXCEPT !.pc = pc]
GateStops == Onto("idle")
Fine   == UNCHANGED <<mishaps, unwritten>>
Mishap == mishaps < MaxMishaps /\ mishaps' = mishaps + 1
BadLuck == Mishap /\ UNCHANGED unwritten
Outside == <<tip, pull, review, asks, queued>>

(* evaluateProjectBaseBlocking: a block stands while the base is the one   *)
(* that failed (its command is read at that base).  A stale block is taken *)
(* away; a base that cannot be read holds nothing back.                    *)
BlockStands == store.block = tip
Evaluated(s) == IF BlockStands THEN s ELSE [s EXCEPT !.block = NoBase]
MayLaunch == \/ Fine /\ ~BlockStands /\ store' = Evaluated(store)
             \/ BadLuck /\ UNCHANGED store

LaunchReview ==
  /\ pull.label = "review" /\ MayLaunch
  /\ pull' = [pull EXCEPT !.label = "in-progress"]
  /\ review' = [head |-> pull.head, base |-> tip, open |-> TRUE]
  /\ UNCHANGED <<tip, gate, asks, queued>>

(* The repair pushes, or gives up; then the pull request is reviewed again.*)
LaunchRepair ==
  /\ pull.label = "implement" /\ MayLaunch
  /\ \E checks \in Rollups, head \in {pull.head, pull.head + 1} \cap FallbackHeads :
       pull' = [head |-> head, checks |-> checks, label |-> "review"]
  /\ UNCHANGED <<tip, review, gate, asks, queued>>

-----------------------------------------------------------------------------
(* The gate over a review that approved.                                   *)

(* ci_fallback_contract_unavailable: the gate stops before it has run      *)
(* anything, and the verifier refuses; so at every tick of this review.    *)
ContractResolved == review.base \in Contracted
ReviewsHead == pull.label = "in-progress" /\ pull.head = review.head
GateObserves ==
  /\ GateAt("idle") /\ review.open /\ ReviewsHead /\ Fine
  /\ \/ pull.checks \in {"absent", "all_success"} /\ Onto("merge")
     \/ /\ pull.checks = "terminal_failure" /\ ContractResolved
        /\ gate' = [gate EXCEPT !.pc = "verify", !.base = tip]
  /\ UNCHANGED <<Outside, store>>

(* prospectiveMergeTree: the head and the base the gate saw, integrated; a *)
(* conflict is a failure.                                                  *)
Passes(head, base) == <<head, base>> \in Fits
VerifierRuns == ModeIsGiven /\ ContractResolved
VerifyCandidate ==
  /\ GateAt("verify") /\ UNCHANGED Outside
  /\ LET ran(outcome) == [store EXCEPT !.record =
           [head |-> review.head, base |-> gate.base, policy |-> review.base,
            outcome |-> outcome]]
     IN \/ ~VerifierRuns /\ Fine /\ GateStops /\ UNCHANGED store
        \/ /\ VerifierRuns /\ Fine
           /\ \/ Passes(review.head, gate.base) /\ store' = ran("passed") /\ Onto("merge")
              \/ ~Passes(review.head, gate.base) /\ store' = ran("failed") /\ Onto("diagnose")
        \/ /\ VerifierRuns /\ BadLuck
           /\ \/ GateStops /\ UNCHANGED store
              \/ store' = ran("failed") /\ Onto("diagnose")

(* The same command on the fixed base; one that times out failed.          *)
DiagnoseBase ==
  /\ GateAt("diagnose") /\ UNCHANGED Outside
  /\ LET blocked == store' = [store EXCEPT !.block = review.base] /\ GateStops
     IN \/ Fine /\ review.base \in Broken /\ blocked
        \/ Fine /\ review.base \notin Broken /\ Onto("decide") /\ UNCHANGED store
        \/ BadLuck /\ (blocked \/ (GateStops /\ UNCHANGED store))

(* episodeKeyFor: one episode per base and command, whatever the head.     *)
SameEpisode(e) == e.base = review.base
(* decideCiFallbackRepair; a review people asked for since begins a new one*)
DecideRepair ==
  /\ GateAt("decide") /\ UNCHANGED Outside
  /\ LET e == store.episode
         reset == ~SameEpisode(e) \/ asks > e.asks
     IN CASE reset -> /\ store' = [store EXCEPT !.episode =
                                    [base |-> review.base, asks |-> asks, used |-> 0]]
                      /\ gate' = [gate EXCEPT !.pc = "close", !.asks = asks] /\ Fine
          [] ~reset /\ e.used = 0 -> /\ gate' = [gate EXCEPT !.pc = "close", !.asks = e.asks]
                                     /\ UNCHANGED store /\ Fine
          [] ~reset /\ e.used = 1 -> GateStops /\ UNCHANGED store /\ Fine

(* Under the enablement lock: the contract still is current, then the      *)
(* reviewer's workspace closes and its journal with it.                    *)
CloseReviewer ==
  /\ GateAt("close") /\ UNCHANGED <<tip, pull, asks, queued, store>>
  /\ \/ Fine /\ tip = review.base /\ review' = [review EXCEPT !.open = FALSE] /\ Onto("post")
     \/ Fine /\ tip # review.base /\ GateStops /\ UNCHANGED review
     \/ BadLuck /\ GateStops /\ \E open \in BOOLEAN : review' = [review EXCEPT !.open = open]

(* The failure is commented once per head and finding.                     *)
PostFailure ==
  /\ GateAt("post") /\ UNCHANGED <<Outside, store>>
  /\ \/ Fine /\ IF pull.head = review.head THEN Onto("queue") ELSE GateStops
     \/ BadLuck /\ GateStops

QueueRepair ==
  /\ GateAt("queue") /\ UNCHANGED <<tip, review, store, asks>>
  /\ LET request == /\ pull' = [pull EXCEPT !.label = "implement"]
                    /\ queued' = [queued EXCEPT ![<<review.base, gate.asks>>] = @ + 1]
     IN \/ Fine /\ ReviewsHead /\ request /\ Onto("write")
        \/ Fine /\ ~ReviewsHead /\ GateStops /\ UNCHANGED <<pull, queued>>
        \/ BadLuck /\ GateStops /\ UNCHANGED <<pull, queued>>
        \/ Mishap /\ ReviewsHead /\ request /\ GateStops /\ unwritten' = unwritten + 1

(* Mutant: a repair is not counted.                                        *)
ForgetUse(e) == e
CountUse(e) == [e EXCEPT !.used = 1]
WriteEpisode ==
  /\ GateAt("write") /\ GateStops /\ UNCHANGED Outside
  /\ \/ Fine /\ store' = [store EXCEPT !.episode = CountUse(@)]
     \/ Mishap /\ unwritten' = unwritten + 1 /\ UNCHANGED store

-----------------------------------------------------------------------------
(* merge-reviewed-pr.cts: the attempt's contract, the head and, with failed*)
(* checks, a record of exactly this tree, all looked at last; GitHub calls *)
(* a pull request CLEAN only while its checks do not fail.                 *)
FallbackRecordMatchesCandidate ==
  store.record = [head |-> pull.head, base |-> tip, policy |-> review.base,
                  outcome |-> "passed"]
Clean == pull.checks \in {"absent", "all_success"}
MergeHealthEvidence == \/ pull.checks \in {"absent", "all_success"}
                       \/ /\ pull.checks = "terminal_failure"
                          /\ FallbackRecordMatchesCandidate
MergeEligible ==
  /\ GateAt("merge") /\ UNCHANGED <<Outside, store>> /\ Fine
  /\ IF tip = review.base /\ ReviewsHead /\ Clean /\ MergeHealthEvidence
     THEN Onto("health") ELSE GateStops
MergePull ==
  /\ GateAt("health") /\ GateStops /\ UNCHANGED <<tip, review, store, asks, queued>>
  /\ \/ /\ Fine
        /\ pull' = IF pull.head = review.head THEN [pull EXCEPT !.label = "merged"] ELSE pull
     \/ BadLuck /\ UNCHANGED pull

GateDies == /\ gate.pc \notin {"idle", "write"} /\ BadLuck /\ GateStops
            /\ UNCHANGED <<Outside, store>>

-----------------------------------------------------------------------------
(* A claim without an open review is given back.                           *)
ClaimReturns ==
  /\ pull.label = "in-progress" /\ ~review.open /\ GateAt("idle") /\ Fine
  /\ pull' = [pull EXCEPT !.label = "review"]
  /\ UNCHANGED <<tip, review, gate, store, asks, queued>>

(* A review whose head moved is discarded, and asked for again.            *)
ReviewIsStale ==
  /\ pull.label = "in-progress" /\ review.open /\ GateAt("idle") /\ Fine
  /\ pull.head # review.head \/ tip # review.base
  /\ pull' = [pull EXCEPT !.label = "review"]
  /\ review' = [review EXCEPT !.open = FALSE]
  /\ UNCHANGED <<tip, gate, store, asks, queued>>

People ==
  /\ pull.label # "merged" /\ Fine /\ UNCHANGED <<review, gate, store, queued>>
  /\ \/ tip < MaxBases /\ tip' = tip + 1 /\ UNCHANGED <<pull, asks>>
     \/ /\ pull.head < MaxHeads /\ UNCHANGED <<tip, asks>>
        /\ \E checks \in Rollups : pull' = [pull EXCEPT !.head = @ + 1, !.checks = checks]
     \/ asks < MaxAsks /\ asks' = asks + 1 /\ UNCHANGED <<tip, pull>>
     \/ /\ \E checks \in Rollups \ {pull.checks} : pull' = [pull EXCEPT !.checks = checks]
        /\ pull.checks \in {"pending", "unknown"} /\ UNCHANGED <<tip, asks>>

GateStep == \/ GateObserves \/ VerifyCandidate \/ DiagnoseBase \/ DecideRepair
            \/ CloseReviewer \/ PostFailure \/ QueueRepair \/ WriteEpisode
            \/ MergeEligible \/ MergePull
DriverStep == LaunchReview \/ LaunchRepair \/ ClaimReturns \/ ReviewIsStale
FallbackNext == GateStep \/ DriverStep \/ GateDies \/ People

(* The scheduler ticks and the gate's calls return; nothing else is owed.  *)
FallbackFairness == WF_fallbackVars(GateStep) /\ WF_fallbackVars(DriverStep)
FallbackSpec == FallbackInit /\ [][FallbackNext]_fallbackVars /\ FallbackFairness

-----------------------------------------------------------------------------
(* However heads change, one base gets one automatic repair until a person *)
(* asks for a review; more only for a use that a death left unwritten      *)
(* (decideCiFallbackRepair, writeRepairEpisode).                           *)
OneRepairPerEpisode ==
  \A base \in Bases, n \in 0..MaxAsks : queued[<<base, n>>] <= 1 + unwritten

(* A tree that passes, whose checks failed, under review and not moving.   *)
FailingYetFits ==
  /\ ReviewsHead /\ review.open /\ tip = review.base
  /\ pull.checks = "terminal_failure" /\ <<pull.head, tip>> \in Fits

(* Not so in the program.  Failed checks are replaced by a success of the  *)
(* repository's command (ADR 0030:9, extensions/deadloop/README.md:91).    *)
FallbackReplacesChecks ==
  FailingYetFits ~> (pull.label = "merged" \/ ~FailingYetFits)
=============================================================================

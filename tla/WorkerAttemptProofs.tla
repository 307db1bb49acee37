-------------------------- MODULE WorkerAttemptProofs --------------------------
(***************************************************************************)
(* The journal of an attempt and its ways to end, for any number of        *)
(* faults, turns and mishaps.                                              *)
(*                                                                         *)
(* The argument: what a stop has written to the Issue is never taken back, *)
(* and no result on GitHub is either; so the step a stop has reached tells *)
(* what people can read.  And the step of the launch, of a chain or of a   *)
(* stop tells the phase, because nobody else writes the journal meanwhile, *)
(* the operator's abandonment included.  Who closes a workspace over a     *)
(* live agent has come past a step that tells why.                         *)
(***************************************************************************)
EXTENDS WorkerAttempt, TLAPS

Explained == issue.told /\ issue.blocked /\ ~issue.active

(* What each step of a stop finds written already.                         *)
StopsAreTold ==
  /\ At("explain") => issue.blocked
  /\ At("clear")   => issue.blocked /\ issue.told
  /\ At("settle")  => Explained
  /\ At("tell")    => issue.blocked /\ ~issue.active
  /\ At("move")    => issue.told
  /\ At("conclude") => Explained
  /\ host.pc \in {"shut", "release"} => Explained

(* The phase at each step of the launch.                                   *)
LaunchPhases ==
  /\ At("claim") => phase = "prepared" /\ last = "prepared"
  /\ host.pc \in {"open", "record"} => phase = "github_claimed"
  /\ host.pc \in {"prepare", "start", "confirm"} => phase = "workspace_opened"
  /\ At("clean_up") => phase \in {"github_claimed", "workspace_opened"}
  /\ host.pc \in {"hand_over", "result"} => phase = "agent_started"

Started  == {"agent_started", "report_received", "github_persisted",
             "workspace_closed", "authority_released"}
Underway == {"agent_started", "report_received"}

(* Only an attempt whose agent was confirmed is handed over, and a chain   *)
(* or a stop begins only while the attempt owns its Issue.                 *)
StopPhases ==
  /\ Monitored \/ watch.sidecar => phase \in Started
  /\ host.pc \in {"recover"} \cup (ChainSteps \ {"complete", "conclude"})
                   \cup StopSteps \cup ContainSteps
       => phase \in Underway
  /\ host.pc \in StopSteps \ {"stop"} /\ host.chain # "recovery"
       => phase = "report_received"

IInv == /\ TypeOK /\ StopsAreTold /\ LaunchPhases /\ StopPhases
        /\ ReleasedIsExplained /\ PersistedIsPublic

-----------------------------------------------------------------------------
(* What the helpers do to the host, the budgets and the result.            *)

HostMayMove(s) ==
  /\ [host EXCEPT !.pc = s] \in Hosts
  /\ \A c \in Chains : [host EXCEPT !.chain = c, !.pc = s] \in Hosts
  /\ \A w \in Reasons : [host EXCEPT !.why = w, !.pc = s] \in Hosts
  /\ [host EXCEPT !.live = workspace = "open" /\ agent \in Live, !.pc = s] \in Hosts

(* Wherever the host moves to, it stays a host.                            *)
LEMMA HostMoves == ASSUME host \in Hosts, NEW s \in Steps PROVE HostMayMove(s)
BY DEF HostMayMove, Hosts

(* A step spends within its bounds.                                        *)
LEMMA SpentGrows ==
  ASSUME spent \in Budgets
  PROVE /\ Fault => spent' \in Budgets
        /\ Spend("turns", MaxTurns) => spent' \in Budgets
        /\ Spend("mishaps", MaxMishaps) => spent' \in Budgets
BY BoundAssumption DEF Budgets, Fault, Spend

(* Publishing never takes back what is on GitHub.                          *)
LEMMA PublishedGrows ==
  ASSUME published \in 0..Marked, GuardedPush \/ EnsureWorkerPr \/ PersistMarker
  PROVE published' \in 0..Marked /\ (published = Marked => published' = Marked)
<1>1. ASSUME NEW step, NEW level \in 0..Marked, NEW next, Publish(step, level, next)
      PROVE published' \in 0..Marked /\ (published = Marked => published' = Marked)
  <2>1. published' = published \/ (published < level /\ published' = level)
    BY <1>1 DEF Publish
  <2> QED BY <2>1 DEF Marked
<1> QED BY <1>1 DEF GuardedPush, EnsureWorkerPr, PersistMarker, Pushed, Requested, Marked

(* Recovery goes on to collect or into its own chain.                      *)
LEMMA RecoverMoves == ASSUME host \in Hosts, Recover PROVE host' \in Hosts
<1>1. \A s \in Steps : HostMayMove(s) BY HostMoves
<1>2. /\ CompletionStep \in Steps /\ "collect" \in Steps /\ "block" \in Steps
      /\ "recovery" \in Chains
  BY DEF CompletionStep, Steps, ChainSteps, StopSteps, Chains
<1>3. \A s \in Steps : /\ [host EXCEPT !.chain = "recovery", !.pc = s] \in Hosts
                      /\ [host EXCEPT !.pc = s] \in Hosts
  BY <1>1, <1>2 DEF HostMayMove
<1> QED BY <1>2, <1>3 DEF Recover, Go

LEMMA RecoverLeadsTo ==
  ASSUME host \in Hosts, Recover
  PROVE \/ host'.pc = "collect"
        \/ host'.chain = "recovery" /\ host'.pc \in {"stop", "verify", "block"}
BY DEF Recover, Hosts, Go, CompletionStep

(* A delivery that acts goes into a chain or into containment.             *)
LEMMA DeliveryMoves ==
  ASSUME host \in Hosts, DeliverStop \/ DeliverCompletion PROVE host' \in Hosts
<1>1. \A s \in Steps : HostMayMove(s) BY HostMoves
<1>2. CASE DeliverStop
  <2>1. Directive \in Reasons /\ "check" \in Steps
    BY <1>2 DEF DeliverStop, Reasons, Steps, ContainSteps
  <2>2. [host EXCEPT !.why = Directive, !.pc = "check"] \in Hosts
    BY <1>1, <2>1 DEF HostMayMove
  <2> QED BY <1>2, <2>2 DEF DeliverStop
<1>3. CASE DeliverCompletion
  <2>1. CompletionStep \in Steps /\ "monitor" \in Chains
    BY DEF CompletionStep, Steps, ChainSteps, StopSteps, Chains
  <2>2. [host EXCEPT !.chain = "monitor", !.pc = CompletionStep] \in Hosts
    BY <1>1, <2>1 DEF HostMayMove
  <2> QED BY <1>3, <2>2 DEF DeliverCompletion
<1> QED BY <1>2, <1>3

(* The end of a chain leads back to its caller.                            *)
LEMMA ChainEndsMoves ==
  ASSUME host \in Hosts, ChainEnds(TRUE) \/ ChainEnds(FALSE) PROVE host' \in Hosts
<1>1. \A s \in Steps : HostMayMove(s) BY HostMoves
<1>2. \A s \in Steps : [host EXCEPT !.chain = "none", !.pc = s] \in Hosts
  BY <1>1 DEF HostMayMove, Chains
<1>3. host' \in {[host EXCEPT !.chain = "none", !.pc = s] : s \in Steps}
  <2>1. PICK s \in {"select", "collect", "deliver"} :
          host' = [host EXCEPT !.chain = "none", !.pc = s]
    BY DEF ChainEnds
  <2> QED BY <2>1 DEF Steps
<1> QED BY <1>2, <1>3

(* The journal's order, phase by phase.                                    *)
LEMMA PhasesFollow ==
  /\ <<"prepared", "github_claimed">> \in Journal!Succession
  /\ <<"github_claimed", "workspace_opened">> \in Journal!Succession
  /\ <<"workspace_opened", "agent_started">> \in Journal!Succession
  /\ <<"agent_started", "report_received">> \in Journal!Succession
  /\ <<"report_received", "github_persisted">> \in Journal!Succession
  /\ <<"github_persisted", "workspace_closed">> \in Journal!Succession
BY 1 \in 1..6, 2 \in 1..6, 3 \in 1..6, 4 \in 1..6, 5 \in 1..6, 6 \in 1..6
DEF Journal!Succession, Journal!SuccessPhases

LEMMA InitIInv == Init => IInv
BY BoundAssumption
DEF Init, IInv, TypeOK, Issues, Watches, Receipts, Hosts, Budgets, Chains, Reasons,
    StopsAreTold, LaunchPhases, StopPhases, ReleasedIsExplained, PersistedIsPublic,
    Persisted, Explained, At, Monitored, Steps, LaunchSteps, ChainSteps, StopSteps,
    ContainSteps, Marked, Live, Valid, Journal!Phases, Journal!Successes, Started,
    Underway

-----------------------------------------------------------------------------
(* The steps of the launch.                                                  *)

LEMMA LaunchTypes == ASSUME TypeOK, LaunchStep PROVE TypeOK'
<1> USE DEF LaunchStep, Claim, OpenWorkspace, RecordWorkspaceOpened,
        PrepareAgent, StartAgent, ConfirmAgent, CleanUpLaunch,
        WriteLaunchHandoff, RegisterHandoff, AdoptOrphan
<1>1. phase' \in Journal!Phases /\ last' \in Journal!Successes
  BY DEF TypeOK, journal, Advance, FailLaunch, Journal!Phases,
         Journal!Successes
<1>2. /\ workspace' \in {"none", "open", "closed"}
      /\ agent' \in Live \cup {"none", "gone"}
      /\ report' \in Valid \cup {"none", "invalid"}
  BY DEF TypeOK, runtime, CloseWorkspace, Live, Valid
<1>3. published' \in 0..Marked
  BY DEF TypeOK, github
<1>4. issue' \in Issues
  BY DEF TypeOK, Issues, github
<1>5. watch' \in Watches
  BY DEF TypeOK, Watches
<1>6. marks' \in Receipts
  BY DEF TypeOK, Receipts
<1>7. host' \in Hosts
  <2>1. host \in Hosts BY DEF TypeOK
  <2>2. \A s \in Steps : HostMayMove(s) BY <2>1, HostMoves
  <2> QED BY <2>1, <2>2 DEF HostMayMove, Go, Steps, LaunchSteps
<1>8. spent' \in Budgets
  BY SpentGrows DEF TypeOK, Smooth
<1> QED BY <1>1, <1>2, <1>3, <1>4, <1>5, <1>6, <1>7, <1>8 DEF TypeOK

LEMMA LaunchKeeps ==
  ASSUME IInv, LaunchStep
  PROVE /\ StopsAreTold' /\ LaunchPhases' /\ StopPhases'
        /\ ReleasedIsExplained' /\ PersistedIsPublic'
<1> USE DEF IInv, LaunchStep, Claim, OpenWorkspace, RecordWorkspaceOpened,
        PrepareAgent, StartAgent, ConfirmAgent, CleanUpLaunch,
        WriteLaunchHandoff, RegisterHandoff, AdoptOrphan
<1>1. host \in Hosts /\ issue \in Issues /\ watch \in Watches BY DEF TypeOK
<1>2. StopsAreTold'
  BY <1>1 DEF StopsAreTold, At, Go, Hosts, Issues, github, Explained
<1>3. LaunchPhases'
  BY <1>1 DEF LaunchPhases, StopPhases, Started, Underway, At, Go, Hosts,
         journal, Advance, FailLaunch, Monitored
<1>4. StopPhases'
  BY <1>1 DEF StopPhases, LaunchPhases, At, Go, Hosts, Watches, journal,
         Advance, FailLaunch, Monitored, Started, Underway, ChainSteps,
         StopSteps, ContainSteps
<1>5. ReleasedIsExplained'
  BY <1>1 DEF ReleasedIsExplained, StopsAreTold, Explained, Issues, github,
         journal, Advance, FailLaunch, At
<1>6. PersistedIsPublic'
  BY <1>1 DEF TypeOK, PersistedIsPublic, Persisted, StopsAreTold, Explained,
         Issues, github, journal, runtime, Advance, FailLaunch, At,
         CloseWorkspace
<1> QED BY <1>2, <1>3, <1>4, <1>5, <1>6

LEMMA LaunchImplements ==
  ASSUME IInv, LaunchStep PROVE Journal!Next \/ UNCHANGED <<phase, last>>
<1> USE DEF IInv, LaunchStep, Claim, OpenWorkspace, RecordWorkspaceOpened,
        PrepareAgent, StartAgent, ConfirmAgent, CleanUpLaunch,
        WriteLaunchHandoff, RegisterHandoff, AdoptOrphan
<1> QED BY PhasesFollow DEF LaunchPhases, StopPhases, At, Advance, FailLaunch,
            ReleaseAuthority, NextCompletion, journal, Underway, ChainSteps,
            StopSteps, Journal!Next, Journal!Advance, Journal!FailLaunch,
            Journal!ReleaseAuthority, Journal!ReleasingPhases

-----------------------------------------------------------------------------
(* The steps of the journal patrol.                                          *)

LEMMA PatrolTypes == ASSUME TypeOK, PatrolStep PROVE TypeOK'
<1> USE DEF PatrolStep, Tick, BlockScheduling, PatrolReleased,
        RetireClosedTarget, PatrolOther, Recover, Collect, Select
<1>1. phase' \in Journal!Phases /\ last' \in Journal!Successes
  BY DEF TypeOK, journal, Journal!Phases, Journal!Successes
<1>2. /\ workspace' \in {"none", "open", "closed"}
      /\ agent' \in Live \cup {"none", "gone"}
      /\ report' \in Valid \cup {"none", "invalid"}
  BY DEF TypeOK, runtime, CloseWorkspace, Live, Valid
<1>3. published' \in 0..Marked
  BY DEF TypeOK, github
<1>4. issue' \in Issues
  BY DEF TypeOK, Issues, github
<1>5. watch' \in Watches
  BY DEF TypeOK, Watches
<1>6. marks' \in Receipts
  BY DEF TypeOK, Receipts
<1>7. host' \in Hosts
  <2>1. host \in Hosts BY DEF TypeOK
  <2>2. \A s \in Steps : HostMayMove(s) BY <2>1, HostMoves
  <2> QED BY <2>1, <2>2, RecoverMoves DEF HostMayMove, Go, Steps, ChainSteps, Chains
<1>8. spent' \in Budgets
  BY SpentGrows DEF TypeOK, Smooth
<1> QED BY <1>1, <1>2, <1>3, <1>4, <1>5, <1>6, <1>7, <1>8 DEF TypeOK

LEMMA PatrolKeeps ==
  ASSUME IInv, PatrolStep
  PROVE /\ StopsAreTold' /\ LaunchPhases' /\ StopPhases'
        /\ ReleasedIsExplained' /\ PersistedIsPublic'
<1> USE DEF IInv, PatrolStep, Tick, BlockScheduling, PatrolReleased,
        RetireClosedTarget, PatrolOther, Recover, Collect, Select
<1>1. host \in Hosts /\ issue \in Issues /\ watch \in Watches BY DEF TypeOK
<1>2. StopsAreTold'
  BY <1>1 DEF StopsAreTold, At, Go, CompletionStep, Hosts, Issues, github,
         Explained
<1>3. LaunchPhases'
  BY <1>1 DEF LaunchPhases, StopPhases, Started, Underway, At, Go,
         CompletionStep, Hosts, journal, Monitored
<1>4. StopPhases'
  <2> USE DEF StopPhases, At, Go, Monitored, journal, ChainSteps, StopSteps,
          ContainSteps, Underway, Unmonitored, Started, Hosts
  <2>1. CASE Recover BY <1>1, <2>1, RecoverLeadsTo
  <2>2. CASE Tick BY <1>1, <2>2
  <2>3. CASE BlockScheduling BY <1>1, <2>3
  <2>4. CASE PatrolReleased BY <1>1, <2>4
  <2>5. CASE RetireClosedTarget BY <1>1, <2>5
  <2>6. CASE PatrolOther BY <1>1, <2>6
  <2>7. CASE Collect BY <1>1, <2>7
  <2>8. CASE Select BY <1>1, <2>8
  <2> QED BY <2>1, <2>2, <2>3, <2>4, <2>5, <2>6, <2>7, <2>8
<1>5. ReleasedIsExplained'
  BY <1>1 DEF ReleasedIsExplained, StopsAreTold, Explained, Issues, github,
         journal, At
<1>6. PersistedIsPublic'
  BY <1>1 DEF TypeOK, PersistedIsPublic, Persisted, StopsAreTold, Explained,
         Issues, github, journal, runtime, At, CloseWorkspace
<1> QED BY <1>2, <1>3, <1>4, <1>5, <1>6

LEMMA PatrolImplements ==
  ASSUME IInv, PatrolStep PROVE Journal!Next \/ UNCHANGED <<phase, last>>
<1> USE DEF IInv, PatrolStep, Tick, BlockScheduling, PatrolReleased,
        RetireClosedTarget, PatrolOther, Recover, Collect, Select
<1> QED BY DEF journal

-----------------------------------------------------------------------------
(* The steps of the completion chain.                                        *)

LEMMA ChainTypes == ASSUME TypeOK, ChainStep PROVE TypeOK'
<1> USE DEF ChainStep, VerifyRequired, SayStale, MoveStale, ConcludeStale,
        GuardedPush, EnsureWorkerPr,
        PersistMarker, FindLockBusy, AdvanceCompletion, CloseCompleted,
        EndCompletion, EnterStop, BlockIssue, ExplainStop, ClearActive,
        SettleStop, Publish, StopWrite
<1>1. phase' \in Journal!Phases /\ last' \in Journal!Successes
  BY DEF TypeOK, journal, Advance, ReleaseAuthority, NextCompletion,
         Journal!Phases, Journal!Successes
<1>2. /\ workspace' \in {"none", "open", "closed"}
      /\ agent' \in Live \cup {"none", "gone"}
      /\ report' \in Valid \cup {"none", "invalid"}
  BY DEF TypeOK, runtime, CloseWorkspace, Live, Valid
<1>3. published' \in 0..Marked
  BY PublishedGrows DEF TypeOK, github
<1>4. issue' \in Issues
  BY DEF TypeOK, Issues, github
<1>5. watch' \in Watches
  BY DEF TypeOK, Watches, Forget, ChainEnds
<1>6. marks' \in Receipts
  BY DEF TypeOK, Receipts
<1>7. host' \in Hosts
  <2>1. host \in Hosts BY DEF TypeOK
  <2>2. \A s \in Steps : HostMayMove(s) BY <2>1, HostMoves
  <2>3. ChainEnds(TRUE) \/ ChainEnds(FALSE) => host' \in Hosts
    BY <2>1, ChainEndsMoves
  <2> QED BY <2>1, <2>2, <2>3 DEF HostMayMove, Go, Steps, ChainSteps, StopSteps
<1>8. spent' \in Budgets
  BY SpentGrows DEF TypeOK, Smooth, PolicyIsStale
<1> QED BY <1>1, <1>2, <1>3, <1>4, <1>5, <1>6, <1>7, <1>8 DEF TypeOK

LEMMA ChainKeeps ==
  ASSUME IInv, ChainStep
  PROVE /\ StopsAreTold' /\ LaunchPhases' /\ StopPhases'
        /\ ReleasedIsExplained' /\ PersistedIsPublic'
<1> USE DEF IInv, ChainStep, VerifyRequired, SayStale, MoveStale, ConcludeStale,
        GuardedPush, EnsureWorkerPr,
        PersistMarker, FindLockBusy, AdvanceCompletion, CloseCompleted,
        EndCompletion, EnterStop, BlockIssue, ExplainStop, ClearActive,
        SettleStop, Publish, StopWrite
<1>1. host \in Hosts /\ issue \in Issues /\ watch \in Watches BY DEF TypeOK
<1>2. StopsAreTold'
  BY <1>1 DEF StopsAreTold, At, Go, ChainEnds, Hosts, Issues, github,
         Explained
<1>3. LaunchPhases'
  BY <1>1 DEF LaunchPhases, StopPhases, Started, Underway, At, Go, ChainEnds,
         Hosts, journal, Advance, ReleaseAuthority, Monitored
<1>4. StopPhases'
  <2> USE DEF StopPhases, LaunchPhases, At, Go, ChainEnds, Forget, Hosts, Watches, journal,
          Advance, ReleaseAuthority, Monitored, Started, Underway, ChainSteps, StopSteps,
          ContainSteps
  <2>1. CASE VerifyRequired \/ SayStale \/ MoveStale BY <1>1, <2>1
  <2>2. CASE ConcludeStale BY <1>1, <2>2
  <2>3. CASE ~(VerifyRequired \/ SayStale \/ MoveStale \/ ConcludeStale)
    BY <1>1, <2>3
  <2> QED BY <2>1, <2>2, <2>3
<1>5. ReleasedIsExplained'
  BY <1>1 DEF ReleasedIsExplained, StopsAreTold, Explained, Issues, github,
         journal, Advance, ReleaseAuthority, At
<1>6. PersistedIsPublic'
  BY <1>1, PublishedGrows DEF TypeOK, PersistedIsPublic, Persisted,
         StopsAreTold, Explained, Issues, github, journal, runtime, Advance,
         ReleaseAuthority, At, NextCompletion, CloseWorkspace
<1> QED BY <1>2, <1>3, <1>4, <1>5, <1>6

LEMMA ChainImplements ==
  ASSUME IInv, ChainStep PROVE Journal!Next \/ UNCHANGED <<phase, last>>
<1> USE DEF IInv, ChainStep, VerifyRequired, SayStale, MoveStale, ConcludeStale,
        GuardedPush, EnsureWorkerPr,
        PersistMarker, FindLockBusy, AdvanceCompletion, CloseCompleted,
        EndCompletion, EnterStop, BlockIssue, ExplainStop, ClearActive,
        SettleStop, Publish, StopWrite
<1> QED BY PhasesFollow DEF LaunchPhases, StopPhases, At, Advance, FailLaunch,
            ReleaseAuthority, NextCompletion, journal, Underway, ChainSteps,
            StopSteps, Journal!Next, Journal!Advance, Journal!FailLaunch,
            Journal!ReleaseAuthority, Journal!ReleasingPhases

-----------------------------------------------------------------------------
(* The steps of a delivery.                                                  *)

LEMMA DeliveryTypes == ASSUME TypeOK, DeliveryStep PROVE TypeOK'
<1> USE DEF DeliveryStep, DeliverNothing, DeliverSettled, DeliverCompletion,
        DeliverWorking, DeliverStop, DeliverWait, DeliveryFails, Undecided
<1>1. phase' \in Journal!Phases /\ last' \in Journal!Successes
  BY DEF TypeOK, journal, Journal!Phases, Journal!Successes
<1>2. /\ workspace' \in {"none", "open", "closed"}
      /\ agent' \in Live \cup {"none", "gone"}
      /\ report' \in Valid \cup {"none", "invalid"}
  BY DEF TypeOK, runtime, CloseWorkspace, Live, Valid
<1>3. published' \in 0..Marked
  BY DEF TypeOK, github
<1>4. issue' \in Issues
  BY DEF TypeOK, Issues, github
<1>5. watch' \in Watches
  BY DEF TypeOK, Watches, Drop, Forget
<1>6. marks' \in Receipts
  BY DEF TypeOK, Receipts
<1>7. host' \in Hosts
  <2>1. host \in Hosts BY DEF TypeOK
  <2>2. \A s \in Steps : HostMayMove(s) BY <2>1, HostMoves
  <2> QED BY <2>1, <2>2, DeliveryMoves DEF HostMayMove, Go, Drop, Steps
<1>8. spent' \in Budgets
  BY SpentGrows DEF TypeOK, Smooth
<1> QED BY <1>1, <1>2, <1>3, <1>4, <1>5, <1>6, <1>7, <1>8 DEF TypeOK

LEMMA DeliveryKeeps ==
  ASSUME IInv, DeliveryStep
  PROVE /\ StopsAreTold' /\ LaunchPhases' /\ StopPhases'
        /\ ReleasedIsExplained' /\ PersistedIsPublic'
<1> USE DEF IInv, DeliveryStep, DeliverNothing, DeliverSettled,
        DeliverCompletion, DeliverWorking, DeliverStop, DeliverWait,
        DeliveryFails, Undecided
<1>1. host \in Hosts /\ issue \in Issues /\ watch \in Watches BY DEF TypeOK
<1>2. StopsAreTold'
  BY <1>1 DEF StopsAreTold, At, Go, Drop, CompletionStep, Hosts, Issues,
         github, Explained
<1>3. LaunchPhases'
  BY <1>1 DEF LaunchPhases, StopPhases, Started, Underway, At, Go, Drop,
         CompletionStep, Hosts, journal, Monitored
<1>4. StopPhases'
  BY <1>1 DEF StopPhases, LaunchPhases, At, Go, Drop, CompletionStep, Forget,
         Hosts, Watches, journal, Monitored, Started, Underway, ChainSteps,
         StopSteps, ContainSteps, SettledPhase, Journal!ReleasingPhases
<1>5. ReleasedIsExplained'
  BY <1>1 DEF ReleasedIsExplained, StopsAreTold, Explained, Issues, github,
         journal, At
<1>6. PersistedIsPublic'
  BY <1>1 DEF TypeOK, PersistedIsPublic, Persisted, StopsAreTold, Explained,
         Issues, github, journal, runtime, At, CloseWorkspace
<1> QED BY <1>2, <1>3, <1>4, <1>5, <1>6

LEMMA DeliveryImplements ==
  ASSUME IInv, DeliveryStep PROVE Journal!Next \/ UNCHANGED <<phase, last>>
<1> USE DEF IInv, DeliveryStep, DeliverNothing, DeliverSettled,
        DeliverCompletion, DeliverWorking, DeliverStop, DeliverWait,
        DeliveryFails, Undecided
<1> QED BY DEF journal

-----------------------------------------------------------------------------
(* The steps of containment.                                                 *)

LEMMA ContainTypes == ASSUME TypeOK, ContainStep PROVE TypeOK'
<1> USE DEF ContainStep, ConfirmStop, MoveLabels, PostStop, ShutWorkspace,
        ReleaseStopped
<1>1. phase' \in Journal!Phases /\ last' \in Journal!Successes
  BY DEF TypeOK, journal, ReleaseAuthority, Journal!Phases, Journal!Successes
<1>2. /\ workspace' \in {"none", "open", "closed"}
      /\ agent' \in Live \cup {"none", "gone"}
      /\ report' \in Valid \cup {"none", "invalid"}
  BY DEF TypeOK, runtime, CloseWorkspace, Live, Valid
<1>3. published' \in 0..Marked
  BY DEF TypeOK, github
<1>4. issue' \in Issues
  BY DEF TypeOK, Issues, github
<1>5. watch' \in Watches
  BY DEF TypeOK, Watches, Drop, Forget
<1>6. marks' \in Receipts
  BY DEF TypeOK, Receipts
<1>7. host' \in Hosts
  <2>1. host \in Hosts BY DEF TypeOK
  <2>2. \A s \in Steps : HostMayMove(s) BY <2>1, HostMoves
  <2> QED BY <2>1, <2>2 DEF HostMayMove, Go, Drop, Steps, ContainSteps
<1>8. spent' \in Budgets
  BY SpentGrows DEF TypeOK, Smooth
<1> QED BY <1>1, <1>2, <1>3, <1>4, <1>5, <1>6, <1>7, <1>8 DEF TypeOK

LEMMA ContainKeeps ==
  ASSUME IInv, ContainStep
  PROVE /\ StopsAreTold' /\ LaunchPhases' /\ StopPhases'
        /\ ReleasedIsExplained' /\ PersistedIsPublic'
<1> USE DEF IInv, ContainStep, ConfirmStop, MoveLabels, PostStop,
        ShutWorkspace, ReleaseStopped
<1>1. host \in Hosts /\ issue \in Issues /\ watch \in Watches BY DEF TypeOK
<1>2. StopsAreTold'
  BY <1>1 DEF StopsAreTold, At, Go, Drop, Hosts, Issues, github, Explained
<1>3. LaunchPhases'
  BY <1>1 DEF LaunchPhases, StopPhases, Started, Underway, At, Go, Drop,
         Hosts, journal, ReleaseAuthority, Monitored
<1>4. StopPhases'
  BY <1>1 DEF StopPhases, LaunchPhases, At, Go, Drop, Forget, Hosts, Watches,
         journal, ReleaseAuthority, Monitored, Started, Underway, ChainSteps,
         StopSteps, ContainSteps
<1>5. ReleasedIsExplained'
  BY <1>1 DEF ReleasedIsExplained, StopsAreTold, Explained, Issues, github,
         journal, ReleaseAuthority, At
<1>6. PersistedIsPublic'
  BY <1>1 DEF TypeOK, PersistedIsPublic, Persisted, StopsAreTold, Explained,
         Issues, github, journal, runtime, ReleaseAuthority, At,
         CloseWorkspace
<1> QED BY <1>2, <1>3, <1>4, <1>5, <1>6

LEMMA ContainImplements ==
  ASSUME IInv, ContainStep PROVE Journal!Next \/ UNCHANGED <<phase, last>>
<1> USE DEF IInv, ContainStep, ConfirmStop, MoveLabels, PostStop,
        ShutWorkspace, ReleaseStopped
<1> QED BY DEF StopPhases, At, ReleaseAuthority, journal, Underway,
            ContainSteps, Journal!Next, Journal!ReleaseAuthority,
            Journal!ReleasingPhases

-----------------------------------------------------------------------------
(* The steps of everyone else.                                               *)

LEMMA OutsideTypes == ASSUME TypeOK, OutsideStep PROVE TypeOK'
<1> USE DEF OutsideStep, AbandonLaunchFailed, AgentMoves, WorkspaceVanishes,
        PersonClosesIssue, LaunchGraceEnds, LimitPasses, DriverDies, Crash
<1>1. phase' \in Journal!Phases /\ last' \in Journal!Successes
  BY DEF TypeOK, journal, Journal!Phases, Journal!Successes
<1>2. /\ workspace' \in {"none", "open", "closed"}
      /\ agent' \in Live \cup {"none", "gone"}
      /\ report' \in Valid \cup {"none", "invalid"}
  BY DEF TypeOK, runtime, CloseWorkspace, Live, Valid
<1>3. published' \in 0..Marked
  BY DEF TypeOK, github
<1>4. issue' \in Issues
  BY DEF TypeOK, Issues, github
<1>5. watch' \in Watches
  BY DEF TypeOK, Watches
<1>6. marks' \in Receipts
  BY DEF TypeOK, Receipts
<1>7. host' \in Hosts
  <2>1. host \in Hosts BY DEF TypeOK
  <2>2. \A s \in Steps : HostMayMove(s) BY <2>1, HostMoves
  <2> QED BY <2>1, <2>2 DEF HostMayMove, Go, Steps, Chains
<1>8. spent' \in Budgets
  BY SpentGrows DEF TypeOK, Smooth
<1> QED BY <1>1, <1>2, <1>3, <1>4, <1>5, <1>6, <1>7, <1>8 DEF TypeOK

LEMMA OutsideKeeps ==
  ASSUME IInv, OutsideStep
  PROVE /\ StopsAreTold' /\ LaunchPhases' /\ StopPhases'
        /\ ReleasedIsExplained' /\ PersistedIsPublic'
<1> USE DEF IInv, OutsideStep, AbandonLaunchFailed, AgentMoves,
        WorkspaceVanishes, PersonClosesIssue, LaunchGraceEnds, LimitPasses,
        DriverDies, Crash
<1>1. host \in Hosts /\ issue \in Issues /\ watch \in Watches BY DEF TypeOK
<1>2. StopsAreTold'
  BY <1>1 DEF StopsAreTold, At, Go, Hosts, Issues, github, Explained
<1>3. LaunchPhases'
  BY <1>1 DEF LaunchPhases, StopPhases, Started, Underway, At, Go, Hosts,
         journal, Monitored
<1>4. StopPhases'
  BY <1>1 DEF StopPhases, LaunchPhases, At, Go, Hosts, Watches, journal,
         Monitored, Started, Underway, ChainSteps, StopSteps, ContainSteps
<1>5. ReleasedIsExplained'
  BY <1>1 DEF ReleasedIsExplained, StopsAreTold, Explained, Issues, github,
         journal, At
<1>6. PersistedIsPublic'
  BY <1>1 DEF TypeOK, PersistedIsPublic, Persisted, StopsAreTold, Explained,
         Issues, github, journal, runtime, At, CloseWorkspace, Valid
<1> QED BY <1>2, <1>3, <1>4, <1>5, <1>6

LEMMA OutsideImplements ==
  ASSUME IInv, OutsideStep PROVE Journal!Next \/ UNCHANGED <<phase, last>>
<1> USE DEF IInv, OutsideStep, AbandonLaunchFailed, AgentMoves,
        WorkspaceVanishes, PersonClosesIssue, LaunchGraceEnds, LimitPasses,
        DriverDies, Crash
<1> QED BY DEF journal, Journal!Next, Journal!Abandon

-----------------------------------------------------------------------------

LEMMA StutterKeeps == ASSUME IInv, UNCHANGED vars PROVE IInv'
BY DEF IInv, TypeOK, StopsAreTold, LaunchPhases, StopPhases, ReleasedIsExplained,
       PersistedIsPublic, Persisted, Explained, At, Monitored, vars, journal, runtime,
       github

LEMMA NextIInv == ASSUME IInv, [Next]_vars PROVE IInv'
<1>1. CASE LaunchStep   BY <1>1, LaunchTypes, LaunchKeeps DEF IInv
<1>2. CASE PatrolStep   BY <1>2, PatrolTypes, PatrolKeeps DEF IInv
<1>3. CASE ChainStep    BY <1>3, ChainTypes, ChainKeeps DEF IInv
<1>4. CASE DeliveryStep BY <1>4, DeliveryTypes, DeliveryKeeps DEF IInv
<1>5. CASE ContainStep  BY <1>5, ContainTypes, ContainKeeps DEF IInv
<1>6. CASE OutsideStep  BY <1>6, OutsideTypes, OutsideKeeps DEF IInv
<1>7. CASE UNCHANGED vars BY <1>7, StutterKeeps
<1> QED BY <1>1, <1>2, <1>3, <1>4, <1>5, <1>6, <1>7 DEF Next, HostStep

THEOREM Invariance == Spec => []IInv
<1>1. IInv /\ [Next]_vars => IInv' BY NextIInv
<1> QED BY InitIInv, <1>1, PTL DEF Spec

(* The state of an attempt stays well formed, whatever fails.              *)
THEOREM TypeCorrect == Spec => []TypeOK
<1>1. IInv => TypeOK BY DEF IInv
<1> QED BY Invariance, <1>1, PTL

(* An attempt whose authority was released has its reason on the Issue,    *)
(* the blocked label on it and the active label off it.                    *)
THEOREM ReleasesAreExplained == Spec => []ReleasedIsExplained
<1>1. IInv => ReleasedIsExplained BY DEF IInv
<1> QED BY Invariance, <1>1, PTL

(* A journal that claims persistence is right: the result with its marker, *)
(* or a stop with its reason, is on GitHub.                                *)
THEOREM PersistenceIsPublic == Spec => []PersistedIsPublic
<1>1. IInv => PersistedIsPublic BY DEF IInv
<1> QED BY Invariance, <1>1, PTL

(* Launch, patrol, recovery, chain, containment and abandonment together   *)
(* never ask the journal for a write it refuses.                           *)
THEOREM ImplementsJournal == Spec => JournalSpec
<1>1. Init => Journal!Init BY DEF Init, Journal!Init
<1>2. ASSUME IInv, [Next]_vars PROVE [Journal!Next]_(Journal!journal)
  <2>1. CASE UNCHANGED vars BY <2>1 DEF vars, journal, Journal!journal
  <2>2. CASE Next
    <3>1. Journal!Next \/ UNCHANGED <<phase, last>>
      BY <1>2, <2>2, LaunchImplements, PatrolImplements, ChainImplements,
         DeliveryImplements, ContainImplements, OutsideImplements DEF Next, HostStep
    <3> QED BY <3>1 DEF Journal!journal
  <2> QED BY <1>2, <2>1, <2>2
<1>3. IInv /\ [Next]_vars => [Journal!Next]_(Journal!journal) BY <1>2
<1> QED BY Invariance, <1>1, <1>3, PTL DEF Spec, JournalSpec, Journal!Spec
-----------------------------------------------------------------------------

-----------------------------------------------------------------------------
(* Who may take a live agent's workspace.                                  *)

(* Until the launch starts an agent there is none, so that the cleanup of  *)
(* a launch that failed before cannot take one away.                       *)
NoAgentYet ==
  host.pc \in {"claim", "open", "record", "prepare", "start", "clean_up"}
    => agent = "none"

LEMMA NoAgentYetKept ==
  ASSUME TypeOK, NoAgentYet, [Next]_vars PROVE NoAgentYet'
<1>1. host \in Hosts BY DEF TypeOK
<1>2. CASE LaunchStep
  BY <1>1, <1>2 DEF NoAgentYet, LaunchStep, Claim, OpenWorkspace, RecordWorkspaceOpened,
     PrepareAgent, StartAgent, ConfirmAgent, CleanUpLaunch, WriteLaunchHandoff,
     RegisterHandoff, AdoptOrphan, At, Go, Hosts, runtime, CloseWorkspace, Live
<1>3. CASE PatrolStep
  <2>1. CASE Recover BY <1>1, <2>1, RecoverLeadsTo DEF NoAgentYet
  <2>2. CASE ~Recover
    BY <1>1, <1>3, <2>2 DEF NoAgentYet, PatrolStep, Tick, BlockScheduling, PatrolReleased,
       RetireClosedTarget, PatrolOther, Collect, Select, At, Go, Hosts
  <2> QED BY <2>1, <2>2
<1>4. CASE ChainStep
  BY <1>1, <1>4 DEF NoAgentYet, ChainStep, VerifyRequired, SayStale, MoveStale, ConcludeStale,
        GuardedPush, EnsureWorkerPr,
     PersistMarker, FindLockBusy, AdvanceCompletion, CloseCompleted, EndCompletion,
     EnterStop, BlockIssue, ExplainStop, ClearActive, SettleStop, Publish, StopWrite,
     ChainEnds, At, Go, Hosts
<1>5. CASE DeliveryStep
  BY <1>1, <1>5 DEF NoAgentYet, DeliveryStep, DeliverNothing, DeliverSettled,
     DeliverCompletion, DeliverWorking, DeliverStop, DeliverWait, DeliveryFails,
     Undecided, CompletionStep, Drop, At, Go, Hosts
<1>6. CASE ContainStep
  BY <1>1, <1>6 DEF NoAgentYet, ContainStep, ConfirmStop, MoveLabels, PostStop,
     ShutWorkspace, ReleaseStopped, Drop, At, Go, Hosts
<1>7. CASE OutsideStep
  BY <1>1, <1>7 DEF NoAgentYet, OutsideStep, AbandonLaunchFailed, AgentMoves,
     WorkspaceVanishes, PersonClosesIssue, LaunchGraceEnds, LimitPasses, DriverDies,
     Crash, CloseWorkspace, At, Go, Hosts, Live, runtime
<1>8. CASE UNCHANGED vars BY <1>8 DEF NoAgentYet, vars, runtime
<1> QED BY <1>2, <1>3, <1>4, <1>5, <1>6, <1>7, <1>8 DEF Next, HostStep

(* A mishap is counted.                                                    *)
LEMMA MishapIsCounted ==
  ASSUME spent \in Budgets, Spend("mishaps", MaxMishaps)
  PROVE  spent'.mishaps # spent.mishaps
BY BoundAssumption DEF Budgets, Spend

(* Whoever closes a workspace over a live agent has read one of the three  *)
(* reasons: the phase says a stop or a result is public, the step that a   *)
(* stop was told, or the Issue is closed.                                  *)
LEMMA ClosersHaveReasons ==
  ASSUME IInv, NoAgentYet, Next, agent \in Live, agent' = "gone",
         spent'.mishaps = spent.mishaps
  PROVE  issue.told \/ Persisted \/ ~issue.open
<1> USE DEF IInv
<1>1. CASE LaunchStep
  BY <1>1 DEF NoAgentYet, LaunchStep, Claim, OpenWorkspace, RecordWorkspaceOpened,
     PrepareAgent, StartAgent, ConfirmAgent, CleanUpLaunch, WriteLaunchHandoff,
     RegisterHandoff, AdoptOrphan, At, runtime, Live
<1>2. CASE PatrolStep
  BY <1>2 DEF PatrolStep, Tick, BlockScheduling, PatrolReleased, RetireClosedTarget,
     PatrolOther, Recover, Collect, Select, runtime, Live, ReleasedIsExplained
<1>3. CASE ChainStep
  BY <1>3 DEF ChainStep, VerifyRequired, SayStale, MoveStale, ConcludeStale,
        GuardedPush, EnsureWorkerPr, PersistMarker,
     FindLockBusy, AdvanceCompletion, CloseCompleted, EndCompletion, EnterStop,
     BlockIssue, ExplainStop, ClearActive, SettleStop, Publish, StopWrite, runtime,
     Live, PersistedIsPublic
<1>4. CASE DeliveryStep
  BY <1>4 DEF DeliveryStep, DeliverNothing, DeliverSettled, DeliverCompletion,
     DeliverWorking, DeliverStop, DeliverWait, DeliveryFails, Undecided, runtime, Live,
     SettledPhase, Journal!ReleasingPhases, StopPhases, Started, PersistedIsPublic,
     ReleasedIsExplained
<1>5. CASE ContainStep
  BY <1>5 DEF ContainStep, ConfirmStop, MoveLabels, PostStop, ShutWorkspace,
     ReleaseStopped, runtime, Live, StopsAreTold, Explained, At
<1>6. CASE OutsideStep
  <2>1. spent \in Budgets BY DEF TypeOK
  <2>2. ~Spend("mishaps", MaxMishaps) BY <2>1, MishapIsCounted
  <2> QED
    BY <1>6, <2>2 DEF OutsideStep, AbandonLaunchFailed, AgentMoves, WorkspaceVanishes,
       PersonClosesIssue, LaunchGraceEnds, LimitPasses, DriverDies, Crash, runtime, Live
<1> QED BY <1>1, <1>2, <1>3, <1>4, <1>5, <1>6 DEF Next, HostStep

(* No step of the host takes a live agent's workspace away before a stop   *)
(* was explained, the result was persisted or the Issue was closed.        *)
THEOREM LiveWorkIsKept == Spec => LiveWorkEndsForAReason
<1>1. Init => NoAgentYet
  BY DEF Init, NoAgentYet
<1>2. IInv /\ NoAgentYet /\ [Next]_vars => NoAgentYet'
  BY NoAgentYetKept DEF IInv
<1>3. IInv /\ NoAgentYet /\ [Next]_vars =>
        [(agent \in Live /\ agent' = "gone" /\ spent.mishaps' = spent.mishaps)
           => issue.told \/ Persisted \/ ~issue.open]_vars
  BY ClosersHaveReasons
<1> QED BY Invariance, <1>1, <1>2, <1>3, PTL DEF Spec, LiveWorkEndsForAReason
=====================

---------------------- MODULE RequiredVerificationProofs ----------------------
(***************************************************************************)
(* What RequiredVerification promises of a push, for every set of commits  *)
(* and every bound: it is of a commit the host saw pass, and no finalizer  *)
(* that was signalled while it verified makes it.  And, at the end, what   *)
(* CiFallback promises of the repairs of failed checks: one per episode.   *)
(***************************************************************************)
EXTENDS RequiredVerification, CiFallback, TLAPS

(* A record the host vouches for says "passed" of what did pass only.      *)
EvidenceIsTrue == \A r \in evidence : r.outcome = "passed" => r.of \in ran

(* So does what a program is about to write, from the check to the record. *)
VerdictIsTrue ==
  At("evidence") \/ At("record") =>
    (check.verdict = "passed" => run.out \in ran)

(* From its last authorization on, what a program pushes has passed.       *)
Authorizing == {"last", "between", "guard", "boundary", "pushing"}
PushedHasPassed == run.pc \in Authorizing => run.out \in ran

PushInv == EvidenceIsTrue /\ VerdictIsTrue /\ PushedHasPassed /\ PushIsVerified

(* A signal is remembered by a finalizer only, and only while its handlers *)
(* are installed; a stop's reason is a Worker's.                           *)
SignalIsHeld == run.signal => Holding
ReasonIsAWorkers == run.why # None => attempt.role = "worker"
SignalInv == SignalIsHeld /\ ReasonIsAWorkers

-----------------------------------------------------------------------------
(* A step of a program to its next step changes nothing else of it.        *)
LEMMA GoGoes ==
  ASSUME TypeOK, NEW pc, Go(pc)
  PROVE  /\ run'.pc = pc /\ run'.out = run.out /\ run'.why = run.why
         /\ run'.round = run.round /\ run'.signal = run.signal
BY DEF TypeOK, Go

(* Mere moves of a program keep its type.                                  *)
RunType == [pc : HostSteps \cup FinalizerSteps, out : Commits,
            why : {None, "fixed", "current"}, round : 1..2, signal : BOOLEAN]
CheckType == [verdict : Outcomes \cup {None}, steady : BOOLEAN]
SpentType == [acts : 0..MaxActs, moves : 0..MaxMoves, faults : 0..MaxFaults,
              runs : 0..MaxRuns]

TreeType == [head : Commits, clean : BOOLEAN,
             scratch : {"home", "away", "retained"}]
AttemptType == [role : Roles, intact : BOOLEAN, tracked : BOOLEAN]

LEMMA InMemory ==
  TypeOK => /\ attempt \in AttemptType /\ policy \in Policies /\ tree \in TreeType
            /\ report \in Commits /\ record \in Records \cup {NoRecord}
            /\ evidence \subseteq Records /\ target \in Targets
            /\ remote \in Commits \cup {None, Other} /\ ran \subseteq Commits
BY DEF TypeOK, AttemptType, TreeType

LEMMA RecordNames == TypeOK => record.of \in Commits
BY CommitAssumption DEF TypeOK, Records, NoRecord

LEMMA Shapes == TypeOK => run \in RunType /\ check \in CheckType
BY DEF TypeOK, RunType, CheckType

LEMMA RestTypes == \A r : Rest(r) \in RunType
BY CommitAssumption DEF Rest, RunType, HostSteps, FinalizerSteps

LEMMA NoCheckTypes == NoCheck \in CheckType
BY DEF NoCheck, CheckType

LEMMA ThrownTypes == TypeOK => Thrown \in RunType
<1> SUFFICES ASSUME TypeOK PROVE Thrown \in RunType
  OBVIOUS
<1>1. Rest("reviewer") \in RunType /\ Rest(attempt.role) \in RunType
  BY RestTypes
<1>2. run.out \in Commits /\ "approve" \in HostSteps
  BY DEF TypeOK, HostSteps
<1>3. [Rest("reviewer") EXCEPT !.pc = "approve", !.out = run.out] \in RunType
  BY <1>1, <1>2 DEF RunType
<1> QED BY <1>1, <1>3 DEF Thrown

LEMMA SpendTypes ==
  ASSUME TypeOK, \/ Spend("acts", MaxActs) \/ Spend("moves", MaxMoves)
                 \/ Spend("faults", MaxFaults) \/ Spend("runs", MaxRuns)
  PROVE  spent' \in SpentType
BY VerificationBounds DEF TypeOK, Spend, SpentType

LEMMA TypesOfMoves ==
  ASSUME TypeOK
  PROVE  /\ \A pc \in HostSteps \cup FinalizerSteps : Go(pc) => run' \in RunType
         /\ Exits => run' \in RunType /\ check' \in CheckType
         /\ Smooth \/ Fault => spent' \in SpentType
<1>1. ASSUME NEW pc \in HostSteps \cup FinalizerSteps, Go(pc) PROVE run' \in RunType
  BY <1>1 DEF TypeOK, Go, RunType
<1>2. ASSUME Exits PROVE run' \in RunType /\ check' \in CheckType
  BY <1>2, ThrownTypes, NoCheckTypes DEF Exits
<1>3. ASSUME Smooth \/ Fault PROVE spent' \in SpentType
  BY <1>3, VerificationBounds DEF TypeOK, Smooth, Fault, Spend, SpentType
<1> QED BY <1>1, <1>2, <1>3

(* What the leaving of a program leaves: no push, no signal, no verdict.   *)
LEMMA ExitsRest ==
  ASSUME Exits
  PROVE  /\ run'.pc \in {"approve", "off", "idle"}
         /\ run'.signal = FALSE /\ run'.why = None
BY DEF Exits, Thrown, Rest

LEMMA ThrownRests == Thrown.signal = FALSE /\ Thrown.why = None
BY DEF Thrown, Rest

-----------------------------------------------------------------------------
(* Types.                                                                  *)

(* Whoever is about to write a verdict has one, and a stop its reason.     *)
VerdictIsSaid ==
  run.pc \in {"post", "evidence", "record"} => check.verdict \in Outcomes
ReasonIsGiven == At("say") => run.why # None
TypeInv == TypeOK /\ VerdictIsSaid /\ ReasonIsGiven

LEMMA TypeInit == Init => TypeInv
<1> SUFFICES ASSUME Init PROVE TypeInv
  OBVIOUS
<1>1. attempt \in [role : Roles, intact : BOOLEAN, tracked : BOOLEAN]
  BY DEF Init
<1>2. run \in RunType
  BY CommitAssumption DEF Init, Rest, RunType, HostSteps, FinalizerSteps
<1>3. spent \in SpentType
  BY VerificationBounds DEF Init, SpentType
<1>4. run.pc \in {"off", "idle"}
  BY DEF Init, Rest
<1>5. VerdictIsSaid /\ ReasonIsGiven
  BY <1>4 DEF VerdictIsSaid, ReasonIsGiven, At
<1>6. TypeOK
  BY <1>1, <1>2, <1>3, CommitAssumption
  DEF Init, TypeOK, Contract, Policies, NoCheck, Targets, RunType, SpentType
<1> QED BY <1>5, <1>6 DEF TypeInv

LEMMA ScopeTypes == \A p : Scope(p) \in {"fixed", "current"}
BY DEF Scope

(* Where a program is.                                                    *)
LEMMA RunTypes == TypeOK /\ Next => run' \in RunType
<1> SUFFICES ASSUME TypeOK, Next PROVE run' \in RunType
  OBVIOUS
<1>1. CASE Tick
  BY <1>1, Shapes, InMemory DEF Tick, RunType, HostSteps
<1>2. CASE ContractGate
  BY <1>2, Shapes, TypesOfMoves, ScopeTypes DEF ContractGate, OrFails, RunType,
     HostSteps
<1>3. CASE \/ \/ CleanGate \/ FailureNotice \/ Approve \/ StopSay \/ StopMove
           \/ StopNoop
           \/ AuthorizePush \/ OpenPr \/ Persist \/ CloseWorkspace
  BY <1>3, TypesOfMoves DEF CleanGate, HideScratch, FailureNotice, Approve, StopSay,
     StopMove, StopNoop, Write, AuthorizePush, OpenPr, Persist, CloseWorkspace,
     Publish, OrFails, HostSteps
<1>4. CASE StopShut
  BY <1>4, TypesOfMoves, RestTypes DEF StopShut, OrFails, RunType, HostSteps
<1>5. CASE AuthorizeLocked
  BY <1>5, Shapes, TypesOfMoves, InMemory DEF AuthorizeLocked, OrFails, RunType,
     HostSteps
<1>6. CASE CheckEnds \/ PersistEvidence
  BY <1>6, TypesOfMoves DEF CheckEnds, PersistEvidence, HostSteps
<1>7. CASE PostCheck
  BY <1>7, Shapes, TypesOfMoves, ScopeTypes DEF PostCheck, RunType, HostSteps
<1>8. CASE PersistRecord
  <2>1. CASE Exits \/ run' = Thrown
    BY <2>1, TypesOfMoves, ThrownTypes
  <2>2. CASE \/ \/ run' = [run EXCEPT !.pc = "last"]
             \/ run' = [run EXCEPT !.pc = "say"]
             \/ run' = [run EXCEPT !.pc = AfterVerification]
    BY <2>2, Shapes DEF RunType, HostSteps, FinalizerSteps, AfterVerification
  <2> QED BY <1>8, <2>1, <2>2 DEF PersistRecord
<1>9. CASE \/ EnsureVerification \/ ExecuteCheck \/ LastObservation \/ PushGuard
           \/ AuthorizeBoundary \/ Pushes
  BY <1>9, TypesOfMoves DEF EnsureVerification, ExecuteCheck, HideScratch,
     LastObservation, PushGuard, AuthorizeBoundary, Pushes, OrFails, HostSteps,
     FinalizerSteps
<1>10. CASE EnterPush
  <2>1. 2 \in 1..2 /\ "ensure" \in FinalizerSteps
    BY DEF FinalizerSteps
  <2>2. [run EXCEPT !.pc = "ensure", !.round = 2] \in RunType
    BY <2>1, Shapes DEF RunType
  <2> QED BY <1>10, <2>2, TypesOfMoves DEF EnterPush, OrFails
<1>11. CASE FinalizerStarts
  BY <1>11, Shapes, InMemory DEF FinalizerStarts, RunType, TreeType, FinalizerSteps
<1>12. CASE Signal \/ Crash
  BY <1>12, Shapes, RestTypes DEF Signal, Crash, RunType
<1>13. CASE Work \/ Reports \/ WritesRecord \/ EditsJournal \/ World
  BY <1>13, Shapes DEF Work, Reports, WritesRecord, EditsJournal, World
<1> QED BY <1>1, <1>2, <1>3, <1>4, <1>5, <1>6, <1>7, <1>8, <1>9, <1>10, <1>11,
        <1>12,
        <1>13 DEF Next, ProgramStep, OutsideStep, HostStep, CheckStep, FinalizerStep

(* What the command said.                                                 *)
LEMMA CheckTypes == TypeOK /\ Next => check' \in CheckType
<1> SUFFICES ASSUME TypeOK, Next PROVE check' \in CheckType
  OBVIOUS
<1>1. CASE HostStep
  BY <1>1, Shapes, TypesOfMoves, NoCheckTypes DEF HostStep, Tick, ContractGate,
     CleanGate, HideScratch, FailureNotice, Approve, StopSay, StopMove, StopShut,
     StopNoop, Write, AuthorizePush, AuthorizeLocked, OpenPr, Persist,
     CloseWorkspace, Publish, OrFails, CheckType, Outcomes
<1>2. CASE CheckEnds \/ PostCheck
  BY <1>2, Shapes, TypesOfMoves DEF CheckEnds, PostCheck, CheckType, Outcomes
<1>3. CASE PersistEvidence \/ PersistRecord
  BY <1>3, Shapes, TypesOfMoves, NoCheckTypes DEF PersistEvidence, PersistRecord,
     Written, CheckType, Outcomes
<1>4. CASE FinalizerStep \/ AuthorizeBoundary \/ Pushes
  BY <1>4, Shapes, TypesOfMoves, NoCheckTypes DEF FinalizerStep, EnsureVerification,
     ExecuteCheck, HideScratch, LastObservation, EnterPush, PushGuard,
     AuthorizeBoundary, Pushes, OrFails, CheckType, Outcomes
<1>5. CASE OutsideStep
  BY <1>5, Shapes, NoCheckTypes DEF OutsideStep, FinalizerStarts, Signal, Crash,
     Work,
     Reports, WritesRecord, EditsJournal, World, CheckType
<1> QED BY <1>1, <1>2, <1>3, <1>4, <1>5 DEF Next, ProgramStep, CheckStep

(* What the bounds count.                                                 *)
LEMMA SpentTypes == TypeOK /\ Next => spent' \in SpentType
<1> SUFFICES ASSUME TypeOK, Next PROVE spent' \in SpentType
  OBVIOUS
<1>1. CASE \/ Tick \/ ContractGate \/ CleanGate \/ FailureNotice \/ Approve
           \/ StopSay \/ StopMove \/ StopShut \/ StopNoop \/ AuthorizePush
           \/ AuthorizeLocked \/ OpenPr \/ Persist \/ CloseWorkspace
  BY <1>1, TypesOfMoves, SpendTypes DEF Tick, ContractGate, SourceUnnamed, OrFails, CleanGate,
     HideScratch, FailureNotice, Approve, StopSay, Write, StopMove, StopShut,
     StopNoop, AuthorizePush, AuthorizeLocked, OpenPr, Publish, Persist,
     CloseWorkspace, Acting
<1>2. CASE CheckEnds \/ PostCheck \/ PersistEvidence \/ PersistRecord
  BY <1>2, TypesOfMoves, SpendTypes DEF CheckEnds, PostCheck, SourceUnnamed,
     PersistEvidence,
     PersistRecord, Acting
<1>3. CASE \/ EnsureVerification \/ ExecuteCheck \/ LastObservation \/ EnterPush
           \/ PushGuard \/ AuthorizeBoundary \/ Pushes
  BY <1>3, TypesOfMoves, SpendTypes DEF EnsureVerification, OrFails, ExecuteCheck,
     HideScratch, LastObservation, EnterPush, PushGuard, AuthorizeBoundary, Pushes,
     Acting
<1>4. CASE FinalizerStarts \/ Signal \/ Crash
  BY <1>4, TypesOfMoves, SpendTypes DEF FinalizerStarts, Signal, Crash, Fault
<1>5. CASE Work \/ Reports \/ WritesRecord \/ EditsJournal \/ World
  BY <1>5, TypesOfMoves, SpendTypes DEF Acting, Work, Reports, WritesRecord,
     EditsJournal, World
<1> QED BY <1>1, <1>2, <1>3, <1>4, <1>5
  DEF Next, ProgramStep, OutsideStep, HostStep, CheckStep, FinalizerStep

(* Who writes what.                                                       *)
LEMMA WritersOfFiles ==
  ASSUME Next
  PROVE  /\ UNCHANGED record \/ PersistRecord \/ WritesRecord
         /\ UNCHANGED evidence \/ PersistEvidence
         /\ UNCHANGED tree \/ CleanGate \/ ExecuteCheck \/ CheckEnds \/ Work
         /\ UNCHANGED report \/ Work \/ Reports
<1>1. CASE HostStep
  BY <1>1 DEF HostStep, Tick, ContractGate, CleanGate, FailureNotice, Approve, StopSay,
     StopMove, StopShut, StopNoop, AuthorizePush, AuthorizeLocked, OpenPr, Persist,
     CloseWorkspace, Publish, files
<1>2. CASE CheckStep \/ FinalizerStep \/ AuthorizeBoundary \/ Pushes
  BY <1>2 DEF CheckStep, CheckEnds, PostCheck, PersistEvidence, PersistRecord,
     FinalizerStep, EnsureVerification, ExecuteCheck, LastObservation, EnterPush,
     PushGuard, AuthorizeBoundary, Pushes, files
<1>3. CASE OutsideStep
  BY <1>3 DEF OutsideStep, FinalizerStarts, Signal, Crash, Work, Reports, WritesRecord,
     EditsJournal, World, files
<1> QED BY <1>1, <1>2, <1>3 DEF Next, ProgramStep

LEMMA WritersOfTheRest ==
  ASSUME Next
  PROVE  /\ UNCHANGED target \/ FailureNotice \/ StopSay \/ StopMove \/ StopNoop \/ World
         /\ UNCHANGED remote \/ Pushes \/ World
         /\ UNCHANGED ran \/ PostCheck
         /\ UNCHANGED attempt \/ EditsJournal
         /\ UNCHANGED policy \/ World
<1>1. CASE HostStep
  BY <1>1 DEF HostStep, Tick, ContractGate, CleanGate, FailureNotice, Approve, StopSay,
     StopMove, StopShut, StopNoop, AuthorizePush, AuthorizeLocked, OpenPr, Persist,
     CloseWorkspace, Publish
<1>2. CASE CheckStep \/ FinalizerStep \/ AuthorizeBoundary \/ Pushes
  BY <1>2 DEF CheckStep, CheckEnds, PostCheck, PersistEvidence, PersistRecord,
     FinalizerStep, EnsureVerification, ExecuteCheck, LastObservation, EnterPush,
     PushGuard, AuthorizeBoundary, Pushes
<1>3. CASE OutsideStep
  BY <1>3 DEF OutsideStep, FinalizerStarts, Signal, Crash, Work, Reports, WritesRecord,
     EditsJournal, World
<1> QED BY <1>1, <1>2, <1>3 DEF Next, ProgramStep

(* What is on disk.                                                       *)
LEMMA FileTypes ==
  ASSUME TypeOK, VerdictIsSaid, Next
  PROVE  record' \in Records \cup {NoRecord} /\ evidence' \subseteq Records
<1>1. CASE UNCHANGED record /\ UNCHANGED evidence
  BY <1>1, InMemory
<1>2. CASE PersistEvidence
  <2>1. Written \in Records
    BY <1>2, Shapes DEF PersistEvidence, VerdictIsSaid, At, Written, Records,
       RunType, Outcomes
  <2> QED BY <1>2, <2>1, InMemory DEF PersistEvidence
<1>3. CASE PersistRecord
  <2>1. [of |-> run.out, outcome |-> check.verdict, by_host |-> TRUE] \in Records
    BY <1>3, Shapes DEF PersistRecord, VerdictIsSaid, At, Records, RunType
  <2> QED BY <1>3, <2>1, InMemory DEF PersistRecord
<1>4. CASE WritesRecord
  <2>1. [of : {report, tree.head}, outcome : {"passed"}, by_host : {FALSE}]
          \subseteq Records
    BY InMemory DEF TreeType, Records, Outcomes
  <2> QED BY <1>4, <2>1, InMemory DEF WritesRecord
<1> QED BY <1>1, <1>2, <1>3, <1>4, WritersOfFiles

(* The checkout and the report.                                           *)
LEMMA TreeTypes == TypeOK /\ Next => tree' \in TreeType /\ report' \in Commits
<1> SUFFICES ASSUME TypeOK, Next PROVE tree' \in TreeType /\ report' \in Commits
  OBVIOUS
<1>1. CASE CleanGate \/ ExecuteCheck \/ CheckEnds
  BY <1>1, InMemory DEF CleanGate, ExecuteCheck, HideScratch, CheckEnds, TreeType
<1>2. CASE Work
  BY <1>2, InMemory DEF Work, TreeType
<1>3. CASE Reports
  BY <1>3, InMemory DEF Reports
<1>4. CASE UNCHANGED tree /\ UNCHANGED report
  BY <1>4, InMemory
<1> QED BY <1>1, <1>2, <1>3, <1>4, WritersOfFiles

(* The Issue or the pull request.                                         *)
LEMMA TargetTypes == TypeOK /\ ReasonIsGiven /\ Next => target' \in Targets
<1> SUFFICES ASSUME TypeOK, ReasonIsGiven, Next PROVE target' \in Targets
  OBVIOUS
<1>1. CASE FailureNotice
  BY <1>1, InMemory, RecordNames DEF FailureNotice, Targets
<1>2. CASE StopSay
  <2>1. run.why \in {"fixed", "current"}
    BY <1>2, Shapes DEF StopSay, ReasonIsGiven, RunType
  <2> QED BY <1>2, <2>1, InMemory DEF StopSay, Write, Targets
<1>3. CASE StopMove \/ StopNoop
  BY <1>3, InMemory DEF StopMove, StopNoop, Write, Targets
<1>4. CASE World
  BY <1>4, InMemory DEF World, Targets
<1>5. CASE UNCHANGED target
  BY <1>5, InMemory
<1> QED BY <1>1, <1>2, <1>3, <1>4, <1>5, WritersOfTheRest

(* GitHub, what passed, the attempt and the policy.                       *)
LEMMA RestOfTheTypes ==
  ASSUME TypeOK, Next
  PROVE  /\ remote' \in Commits \cup {None, Other} /\ ran' \subseteq Commits
         /\ attempt' \in AttemptType /\ policy' \in Policies
<1>1. remote' \in Commits \cup {None, Other}
  <2>1. Pushes \/ World => remote' \in Commits \cup {None, Other}
    BY InMemory, Shapes DEF Pushes, World, RunType
  <2> QED BY <2>1, InMemory, WritersOfTheRest
<1>2. ran' \subseteq Commits
  <2>1. PostCheck => ran' \subseteq Commits
    BY InMemory, Shapes DEF PostCheck, RunType
  <2> QED BY <2>1, InMemory, WritersOfTheRest
<1>3. attempt' \in AttemptType
  <2>1. EditsJournal => attempt' \in AttemptType
    BY InMemory DEF EditsJournal, AttemptType
  <2> QED BY <2>1, InMemory, WritersOfTheRest
<1>4. policy' \in Policies
  <2>1. World => policy' \in Policies
    BY InMemory DEF World
  <2> QED BY <2>1, InMemory, WritersOfTheRest
<1> QED BY <1>1, <1>2, <1>3, <1>4

(* Verdicts are said before they are written.                              *)
LEMMA SaidStep == TypeOK /\ VerdictIsSaid /\ Next => VerdictIsSaid'
<1> SUFFICES ASSUME TypeOK, VerdictIsSaid, Next PROVE VerdictIsSaid'
  OBVIOUS
<1> USE Shapes DEF RunType, CheckType
<1>1. CASE HostStep
  <2>1. \/ run'.pc \notin {"post", "evidence", "record"}
        \/ check'.verdict = "failed"
    BY <1>1, ExitsRest DEF HostStep, Tick, ContractGate, CleanGate, FailureNotice,
       HideScratch, Approve, StopSay, StopMove, StopShut, StopNoop, AuthorizePush,
       AuthorizeLocked, OpenPr, Persist, CloseWorkspace, Publish, OrFails, Write, Go,
       Rest, NoCheck
  <2> QED BY <2>1 DEF VerdictIsSaid, Outcomes
<1>2. CASE CheckEnds
  BY <1>2 DEF CheckEnds, VerdictIsSaid
<1>3. CASE PostCheck
  <2>1. check'.verdict \in {check.verdict, "failed"}
    BY <1>3 DEF PostCheck
  <2>2. check.verdict \in Outcomes
    BY <1>3 DEF PostCheck, At, VerdictIsSaid
  <2> QED BY <2>1, <2>2 DEF VerdictIsSaid, Outcomes
<1>4. CASE PersistEvidence
  <2>1. Written.outcome \in Outcomes
    BY <1>4 DEF PersistEvidence, At, VerdictIsSaid, Written, Outcomes
  <2>2. run'.pc \notin {"post", "evidence", "record"} \/ check'.verdict = Written.outcome
    BY <1>4, ExitsRest DEF PersistEvidence
  <2> QED BY <2>1, <2>2 DEF VerdictIsSaid
<1>5. CASE PersistRecord
  <2>1. CASE Exits
    BY <2>1, ExitsRest DEF VerdictIsSaid
  <2>2. CASE run' = Thrown
    BY <2>2 DEF Thrown, Rest, VerdictIsSaid
  <2>3. CASE \/ \/ run' = [run EXCEPT !.pc = "last"]
             \/ run' = [run EXCEPT !.pc = "say"]
             \/ run' = [run EXCEPT !.pc = AfterVerification]
    BY <2>3 DEF AfterVerification, VerdictIsSaid
  <2> QED BY <1>5, <2>1, <2>2, <2>3 DEF PersistRecord
<1>6. CASE FinalizerStep \/ AuthorizeBoundary \/ Pushes
  <2>1. \/ run'.pc \notin {"post", "evidence", "record"}
        \/ check'.verdict \in {"failed", "interrupted"}
    BY <1>6, ExitsRest DEF FinalizerStep, EnsureVerification, ExecuteCheck,
       HideScratch,
       LastObservation, EnterPush, PushGuard, AuthorizeBoundary, Pushes, OrFails, Go, NoCheck
  <2> QED BY <2>1 DEF VerdictIsSaid, Outcomes
<1>7. CASE FinalizerStarts \/ Crash
  <2>1. run'.pc \in {"ensure", "off", "idle"}
    <3>1. ASSUME FinalizerStarts PROVE run'.pc = "ensure"
      BY <3>1 DEF FinalizerStarts
    <3>2. ASSUME Crash PROVE run'.pc \in {"off", "idle"}
      BY <3>2 DEF Crash, Rest
    <3> QED BY <1>7, <3>1, <3>2
  <2> QED BY <2>1 DEF VerdictIsSaid
<1>8. CASE Signal \/ Work \/ Reports \/ WritesRecord \/ EditsJournal \/ World
  <2>1. run'.pc = run.pc /\ check'.verdict = check.verdict
    BY <1>8 DEF Signal, Work, Reports, WritesRecord, EditsJournal, World
  <2> QED BY <2>1 DEF VerdictIsSaid
<1> QED BY <1>1, <1>2, <1>3, <1>4, <1>5, <1>6, <1>7, <1>8
        DEF Next, ProgramStep, OutsideStep, CheckStep

(* A stop is started for a reason.                                         *)
LEMMA GivenStep == TypeOK /\ ReasonIsGiven /\ Next => ReasonIsGiven'
<1> SUFFICES ASSUME TypeOK, ReasonIsGiven, Next PROVE ReasonIsGiven'
  OBVIOUS
<1> USE Shapes DEF RunType
<1>1. CASE ContractGate
  BY <1>1, ExitsRest, ScopeTypes DEF ContractGate, OrFails, Go, ReasonIsGiven, At,
     None
<1>2. CASE PersistRecord
  <2>1. CASE Exits
    BY <2>1, ExitsRest DEF ReasonIsGiven, At
  <2>2. CASE run' = Thrown
    BY <2>2 DEF Thrown, Rest, ReasonIsGiven, At
  <2>3. CASE \/ run' = [run EXCEPT !.pc = "last"]
             \/ run.why # None /\ run' = [run EXCEPT !.pc = "say"]
             \/ run' = [run EXCEPT !.pc = AfterVerification]
    BY <2>3 DEF AfterVerification, ReasonIsGiven, At
  <2> QED BY <1>2, <2>1, <2>2, <2>3 DEF PersistRecord
<1>3. CASE HostStep /\ ~ContractGate
  <2>1. run'.pc # "say"
    BY <1>3, ExitsRest DEF HostStep, Tick, CleanGate, FailureNotice,
       HideScratch, Approve, StopSay, StopMove, StopShut, StopNoop, AuthorizePush,
       AuthorizeLocked, OpenPr, Persist, CloseWorkspace, Publish, OrFails, Write, Go, Rest
  <2> QED BY <2>1 DEF ReasonIsGiven, At
<1>4. CASE CheckEnds \/ PostCheck \/ PersistEvidence \/ FinalizerStep
           \/ AuthorizeBoundary \/ Pushes \/ FinalizerStarts \/ Crash
  <2>1. ASSUME CheckEnds \/ PostCheck \/ PersistEvidence PROVE run'.pc # "say"
    BY <2>1, ExitsRest DEF CheckEnds, PostCheck, PersistEvidence, Go
  <2>2. ASSUME FinalizerStep \/ AuthorizeBoundary \/ Pushes PROVE run'.pc # "say"
    BY <2>2, ExitsRest DEF FinalizerStep, EnsureVerification, ExecuteCheck,
       HideScratch, LastObservation, EnterPush, PushGuard, AuthorizeBoundary, Pushes,
       OrFails, Go
  <2>3. ASSUME FinalizerStarts PROVE run'.pc # "say"
    BY <2>3 DEF FinalizerStarts
  <2>4. ASSUME Crash PROVE run'.pc # "say"
    BY <2>4 DEF Crash, Rest
  <2> QED BY <1>4, <2>1, <2>2, <2>3, <2>4 DEF ReasonIsGiven, At
<1>5. CASE Signal \/ Work \/ Reports \/ WritesRecord \/ EditsJournal \/ World
  <2>1. run'.pc = run.pc /\ run'.why = run.why
    BY <1>5 DEF Signal, Work, Reports, WritesRecord, EditsJournal, World
  <2> QED BY <2>1 DEF ReasonIsGiven, At
<1> QED BY <1>1, <1>2, <1>3, <1>4, <1>5
        DEF Next, ProgramStep, OutsideStep, CheckStep

LEMMA TypeStep == TypeInv /\ [Next]_vars => TypeInv'
<1> SUFFICES ASSUME TypeInv, [Next]_vars PROVE TypeInv'
  OBVIOUS
<1>1. CASE UNCHANGED vars
  BY <1>1 DEF vars, files, TypeInv, TypeOK, VerdictIsSaid, ReasonIsGiven, At
<1>2. CASE Next
  <2>1. TypeOK'
    BY <1>2, RunTypes, CheckTypes, SpentTypes, FileTypes, TreeTypes, TargetTypes,
       RestOfTheTypes
    DEF TypeInv, TypeOK, RunType, CheckType, SpentType, TreeType, AttemptType
  <2> QED BY <1>2, <2>1, SaidStep, GivenStep DEF TypeInv
<1> QED BY <1>1, <1>2

THEOREM TypeCorrect == Spec => []TypeOK
<1>1. TypeInv => TypeOK
  BY DEF TypeInv
<1> QED BY TypeInit, TypeStep, <1>1, PTL DEF Spec

-----------------------------------------------------------------------------
(* What a commit is authorized by is a record the host vouches for.        *)
LEMMA AllowedHasPassed ==
  ASSUME EvidenceIsTrue, NEW commit, Allowed(commit)
  PROVE  commit \in ran
BY DEF EvidenceIsTrue, Allowed, Authorized, ExactPassed, Bound, Authentic

LEMMA PushInit == Init => PushInv
<1> SUFFICES ASSUME Init PROVE PushInv
  OBVIOUS
<1>1. EvidenceIsTrue
  BY DEF Init, EvidenceIsTrue
<1>2. run.pc \in {"off", "idle"}
  BY DEF Init, Rest
<1>3. VerdictIsTrue /\ PushedHasPassed
  BY <1>2 DEF VerdictIsTrue, PushedHasPassed, Authorizing, At
<1>4. PushIsVerified
  BY NoneAssumption DEF Init, PushIsVerified
<1> QED BY <1>1, <1>3, <1>4 DEF PushInv

-----------------------------------------------------------------------------
(* The steps that touch neither what passed nor what is on GitHub: it is   *)
(* enough to see where they go.                                            *)
Quiet == UNCHANGED <<evidence, remote, ran>>

LEMMA QuietSteps ==
  ASSUME TypeOK, PushInv, Quiet,
         \/ run'.pc \notin Authorizing \cup {"evidence", "record"}
         \/ run'.pc \in Authorizing /\ run'.out \in ran
         \/ run'.pc \in {"evidence", "record"}
            /\ (check'.verdict = "passed" => run'.out \in ran)
  PROVE  PushInv'
<1>1. EvidenceIsTrue'
  BY DEF PushInv, EvidenceIsTrue, Quiet
<1>2. VerdictIsTrue'
  BY DEF VerdictIsTrue, At, Quiet, Authorizing
<1>3. PushedHasPassed'
  BY DEF PushedHasPassed, Quiet, Authorizing
<1>4. PushIsVerified'
  BY DEF PushInv, PushIsVerified, Quiet
<1> QED BY <1>1, <1>2, <1>3, <1>4 DEF PushInv

(* The host's tick over a report, its gates and its notice.                *)
LEMMA HostGates ==
  ASSUME TypeOK, PushInv, Tick \/ ContractGate \/ FailureNotice \/ Approve
  PROVE  PushInv'
<1>1. Quiet
  BY Shapes DEF RunType, CheckType, Tick, ContractGate, FailureNotice, Approve,
     Quiet, files
<1>2. run'.pc \notin Authorizing \cup {"evidence", "record"}
  <2>1. CASE Tick
    BY Shapes, <2>1 DEF RunType, CheckType, Tick, Authorizing
  <2>2. CASE ContractGate
    BY Shapes, <2>2, ExitsRest DEF RunType, CheckType, ContractGate, OrFails, Go,
       Authorizing
  <2>3. CASE FailureNotice
    BY <2>3, ExitsRest DEF FailureNotice, Authorizing
  <2>4. CASE Approve
    BY Shapes, <2>4, ExitsRest DEF RunType, CheckType, Approve, OrFails, Go,
       Authorizing
  <2> QED BY <2>1, <2>2, <2>3, <2>4
<1> QED BY <1>1, <1>2, QuietSteps

(* The stops, and what follows a push.                                     *)
LEMMA HostWrites ==
  ASSUME TypeOK, PushInv, \/ StopSay \/ StopMove \/ StopShut \/ StopNoop
                  \/ AuthorizePush \/ OpenPr \/ Persist \/ CloseWorkspace
  PROVE  PushInv'
<1>1. Quiet
  BY DEF StopSay, StopMove, StopShut, StopNoop, AuthorizePush, OpenPr, Persist,
         CloseWorkspace, Publish, Quiet, files
<1>2. run'.pc \notin Authorizing \cup {"evidence", "record"}
  <2>1. CASE StopSay \/ StopMove \/ StopNoop
    BY Shapes, <2>1, ExitsRest DEF RunType, CheckType, StopSay, StopMove, StopNoop,
       Write, Go, Authorizing
  <2>2. CASE StopShut
    BY Shapes, <2>2, ExitsRest DEF RunType, CheckType, StopShut, OrFails, Rest,
       Authorizing
  <2>3. CASE AuthorizePush
    BY Shapes, <2>3, ExitsRest DEF RunType, CheckType, AuthorizePush, OrFails, Go,
       Authorizing
  <2>4. CASE OpenPr \/ Persist \/ CloseWorkspace
    BY Shapes, <2>4, ExitsRest DEF RunType, CheckType, OpenPr, Persist,
       CloseWorkspace, Publish, OrFails, Go, Authorizing
  <2> QED BY <2>1, <2>2, <2>3, <2>4
<1> QED BY <1>1, <1>2, QuietSteps

(* The check: it starts with nothing said, and ends before the post-check  *)
(* or with something else than a pass.                                     *)
LEMMA Checks ==
  ASSUME TypeOK, PushInv, CleanGate \/ ExecuteCheck \/ CheckEnds
  PROVE  PushInv'
<1>1. Quiet
  BY DEF CleanGate, ExecuteCheck, CheckEnds, Quiet, files
<1>2. CASE CleanGate
  BY Shapes, <1>1, <1>2, QuietSteps, ExitsRest DEF RunType, CheckType, CleanGate,
     HideScratch, Go, Authorizing
<1>3. CASE ExecuteCheck
  <2>1. run'.pc = "checking" \/ (run'.pc = "evidence" /\ check'.verdict = "failed")
    BY Shapes, <1>3 DEF RunType, CheckType, ExecuteCheck, HideScratch, Go, NoCheck
  <2> QED BY <1>1, <2>1, QuietSteps DEF Authorizing
<1>4. CASE CheckEnds
  <2>1. run'.pc = "post" \/ (run'.pc = "evidence" /\ check'.verdict # "passed")
    BY Shapes, <1>4 DEF RunType, CheckType, CheckEnds, Go
  <2> QED BY <1>1, <2>1, QuietSteps DEF Authorizing
<1> QED BY <1>2, <1>3, <1>4

(* The post-check leaves a pass only of what it saw stand still.           *)
LEMMA PostChecks ==
  ASSUME TypeOK, PushInv, PostCheck
  PROVE  PushInv'
<1>1. ran \subseteq ran' /\ UNCHANGED <<evidence, remote>>
  BY DEF PostCheck, files
<1>2. run'.pc = "evidence" /\ run'.out = run.out
  BY Shapes DEF RunType, CheckType, PostCheck, Go
<1>3. check'.verdict = "passed" => run'.out \in ran'
  BY Shapes, <1>2 DEF RunType, CheckType, PostCheck, StandsStill
<1>4. EvidenceIsTrue' /\ PushIsVerified'
  BY <1>1 DEF PushInv, EvidenceIsTrue, PushIsVerified
<1>5. VerdictIsTrue' /\ PushedHasPassed'
  BY <1>2, <1>3 DEF VerdictIsTrue, PushedHasPassed, Authorizing, At
<1> QED BY <1>4, <1>5 DEF PushInv

(* The host's copy, then the record.                                       *)
LEMMA Recording ==
  ASSUME TypeOK, PushInv, PersistEvidence \/ PersistRecord
  PROVE  PushInv'
<1>1. CASE PersistEvidence
  <2>1. CASE Exits /\ UNCHANGED evidence
    <3>1. Quiet
      BY <1>1, <2>1 DEF PersistEvidence, Quiet
    <3> QED BY <2>1, <3>1, ExitsRest, QuietSteps DEF Authorizing
  <2>2. CASE /\ evidence' = evidence \cup {Written}
             /\ check' = [check EXCEPT !.verdict = Written.outcome] /\ Go("record")
    <3>1. UNCHANGED <<remote, ran>>
      BY <1>1 DEF PersistEvidence
    <3>2. Written.outcome = "passed" => Written.of \in ran
      BY <1>1 DEF PersistEvidence, PushInv, VerdictIsTrue, Written
    <3>3. EvidenceIsTrue'
      BY <2>2, <3>1, <3>2 DEF PushInv, EvidenceIsTrue
    <3>4. run'.pc = "record" /\ run'.out = Written.of
      BY Shapes, <2>2 DEF RunType, CheckType, Go, Written
    <3>5. check'.verdict = "passed" => Written.outcome = "passed"
      BY <2>2, <3>2
    <3>6. VerdictIsTrue' /\ PushedHasPassed'
      BY <3>1, <3>2, <3>4, <3>5 DEF VerdictIsTrue, PushedHasPassed, Authorizing, At
    <3>7. PushIsVerified'
      BY <3>1 DEF PushInv, PushIsVerified
    <3> QED BY <3>3, <3>6, <3>7 DEF PushInv
  <2> QED BY <1>1, <2>1, <2>2 DEF PersistEvidence
<1>2. CASE PersistRecord
  <2>1. Quiet
    BY <1>2 DEF PersistRecord, Quiet
  <2>2. \/ run'.pc \notin Authorizing \cup {"evidence", "record"}
        \/ run'.pc = "last" /\ check.verdict = "passed" /\ run'.out = run.out
    <3>1. CASE Exits
      BY <3>1, ExitsRest DEF Authorizing
    <3>2. CASE run' = Thrown
      BY <3>2, Shapes DEF RunType, Thrown, Rest, Authorizing
    <3>3. CASE run' = [run EXCEPT !.pc = "last"] /\ check.verdict = "passed"
      BY <3>3, Shapes DEF RunType
    <3>4. CASE \/ run' = [run EXCEPT !.pc = "say"]
               \/ run' = [run EXCEPT !.pc = AfterVerification]
      BY <3>4, Shapes DEF RunType, AfterVerification, Authorizing
    <3> QED BY <1>2, <3>1, <3>2, <3>3, <3>4 DEF PersistRecord
  <2>3. check.verdict = "passed" => run.out \in ran
    BY <1>2 DEF PersistRecord, PushInv, VerdictIsTrue
  <2> QED BY <2>1, <2>2, <2>3, QuietSteps DEF Authorizing
<1> QED BY <1>1, <1>2

(* A finalizer reuses a pass or makes one; a push is authorized by one.    *)
LEMMA Authorizes ==
  ASSUME TypeOK, PushInv, \/ EnsureVerification \/ LastObservation \/ EnterPush
                  \/ PushGuard \/ AuthorizeLocked \/ AuthorizeBoundary
  PROVE  PushInv'
<1>1. Quiet
  BY DEF EnsureVerification, LastObservation, EnterPush, PushGuard,
         AuthorizeLocked, AuthorizeBoundary, Quiet, files
<1>2. CASE EnsureVerification
  BY Shapes, <1>1, <1>2, AllowedHasPassed, ExitsRest, QuietSteps
  DEF RunType, CheckType, EnsureVerification, OrFails, Go, PushInv, Authorizing
<1>3. CASE LastObservation
  <2>1. run.out \in ran /\ run'.out = run.out
    BY Shapes, <1>3 DEF RunType, CheckType, LastObservation, At, PushInv,
       PushedHasPassed, Authorizing, Go
  <2>2. run'.pc = "evidence" \/ run'.pc \in Authorizing
    BY Shapes, <1>3 DEF RunType, CheckType, LastObservation, Go, Authorizing
  <2> QED BY <1>1, <2>1, <2>2, QuietSteps
<1>4. CASE EnterPush
  BY Shapes, <1>1, <1>4, ExitsRest, QuietSteps DEF RunType, CheckType, EnterPush,
     OrFails, Authorizing
<1>5. CASE PushGuard \/ AuthorizeBoundary
  <2>1. run.out \in ran
    BY <1>5 DEF PushGuard, AuthorizeBoundary, At, PushInv, PushedHasPassed,
       Authorizing
  <2>2. \/ run'.pc \in {"approve", "off", "idle"}
        \/ run'.pc \in Authorizing /\ run'.out = run.out
    BY Shapes, <1>5, ExitsRest DEF RunType, CheckType, PushGuard, AuthorizeBoundary,
       OrFails, Go, Authorizing
  <2> QED BY <1>1, <2>1, <2>2, QuietSteps DEF Authorizing
<1>6. CASE AuthorizeLocked
  BY Shapes, <1>1, <1>6, AllowedHasPassed, ExitsRest, QuietSteps
  DEF RunType, CheckType, AuthorizeLocked, OrFails, PushInv, Authorizing
<1> QED BY <1>2, <1>3, <1>4, <1>5, <1>6

(* The push itself.                                                        *)
LEMMA PushesPassed ==
  ASSUME TypeOK, PushInv, Pushes
  PROVE  PushInv'
<1>1. run.out \in ran
  BY DEF Pushes, At, PushInv, PushedHasPassed, Authorizing
<1>2. UNCHANGED <<evidence, ran>> /\ remote' \in {remote, run.out}
  BY DEF Pushes, files
<1>3. run'.pc \notin Authorizing \cup {"evidence", "record"}
  BY Shapes, ExitsRest DEF RunType, CheckType, Pushes, Go, Authorizing
<1>4. EvidenceIsTrue' /\ PushIsVerified'
  BY <1>1, <1>2 DEF PushInv, EvidenceIsTrue, PushIsVerified
<1>5. VerdictIsTrue' /\ PushedHasPassed'
  BY <1>3 DEF VerdictIsTrue, PushedHasPassed, Authorizing, At
<1> QED BY <1>4, <1>5 DEF PushInv

(* The agent, the world and deaths add nothing to what the host vouches    *)
(* for; what others push is not a commit of this attempt.                  *)
LEMMA Outsiders ==
  ASSUME TypeOK, PushInv, OutsideStep
  PROVE  PushInv'
<1>1. CASE FinalizerStarts
  BY Shapes, <1>1, QuietSteps DEF RunType, CheckType, FinalizerStarts, Quiet, files,
     Authorizing
<1>2. CASE Crash
  BY Shapes, <1>2, QuietSteps DEF RunType, CheckType, Crash, Quiet, files,
     Authorizing, Rest
<1>3. CASE \/ Signal \/ Work \/ Reports \/ WritesRecord \/ EditsJournal \/ World
  <2>1. UNCHANGED <<evidence, ran>> /\ run'.pc = run.pc /\ run'.out = run.out
    BY Shapes, <1>3 DEF RunType, CheckType, Signal, Work, Reports, WritesRecord,
       EditsJournal, World, files
  <2>2. check'.verdict = check.verdict
    BY Shapes, <1>3 DEF RunType, CheckType, Signal, Work, Reports, WritesRecord,
       EditsJournal, World
  <2>3. remote' \in {remote, Other}
    BY Shapes, <1>3 DEF RunType, CheckType, Signal, Work, Reports, WritesRecord,
       EditsJournal, World
  <2>4. EvidenceIsTrue' /\ PushIsVerified'
    BY <2>1, <2>3, OtherAssumption DEF PushInv, EvidenceIsTrue, PushIsVerified
  <2>5. VerdictIsTrue' /\ PushedHasPassed'
    BY <2>1, <2>2 DEF PushInv, VerdictIsTrue, PushedHasPassed, Authorizing, At
  <2> QED BY <2>4, <2>5 DEF PushInv
<1> QED BY <1>1, <1>2, <1>3 DEF OutsideStep

LEMMA PushStep == TypeOK /\ PushInv /\ [Next]_vars => PushInv'
<1> SUFFICES ASSUME TypeOK, PushInv, [Next]_vars PROVE PushInv'
  OBVIOUS
<1>1. CASE UNCHANGED vars
  <2>1. UNCHANGED <<evidence, remote, ran, run, check>>
    BY <1>1 DEF vars, files
  <2> QED BY <2>1 DEF PushInv, EvidenceIsTrue, VerdictIsTrue, PushedHasPassed,
                      PushIsVerified, At
<1>2. CASE HostStep
  BY <1>2, HostGates, HostWrites, Checks, Authorizes DEF HostStep
<1>3. CASE CheckStep
  BY <1>3, Checks, PostChecks, Recording DEF CheckStep
<1>4. CASE FinalizerStep
  BY <1>4, Checks, Authorizes DEF FinalizerStep
<1>5. CASE AuthorizeBoundary
  BY <1>5, Authorizes
<1>6. CASE Pushes
  BY <1>6, PushesPassed
<1>7. CASE OutsideStep
  BY <1>7, Outsiders
<1> QED BY <1>1, <1>2, <1>3, <1>4, <1>5, <1>6, <1>7 DEF Next, ProgramStep

(* Whatever an agent does to its checkout, its report and its records, and *)
(* whoever else moves the policy or the branch, what this attempt pushes is*)
(* a commit the host saw pass under the contract.                          *)
THEOREM PushesAreVerified == Spec => []PushIsVerified
<1>1. PushInv => PushIsVerified
  BY DEF PushInv
<1>2. TypeInv => TypeOK
  BY DEF TypeInv
<1> QED BY TypeInit, TypeStep, PushInit, PushStep, <1>1, <1>2, PTL DEF Spec

-----------------------------------------------------------------------------
(* Signals.                                                                *)

LEMMA SignalInit == Init => SignalInv
<1> SUFFICES ASSUME Init PROVE SignalInv
  OBVIOUS
<1>1. run.signal = FALSE /\ run.why = None
  BY DEF Init, Rest
<1> QED BY <1>1 DEF SignalInv, SignalIsHeld, ReasonIsAWorkers

(* A program that leaves forgets both.                                     *)
LEMMA Forgotten ==
  ASSUME run'.signal = FALSE, run'.why = None
  PROVE  SignalInv'
BY DEF SignalInv, SignalIsHeld, ReasonIsAWorkers

(* The steps that go on within a program, and keep both.                   *)
LEMMA Kept ==
  ASSUME SignalInv, UNCHANGED attempt.role,
         UNCHANGED <<run.signal, run.why>>, run.signal => Holding'
  PROVE  SignalInv'
BY DEF SignalInv, SignalIsHeld, ReasonIsAWorkers

(* What a program steps to while its handlers are installed.               *)
Held == {"ensure", "check", "checking", "post", "evidence", "record", "last"}

(* The host, and whatever is not a finalizer, hears no signal.             *)
LEMMA Unheard ==
  ASSUME SignalInv, ~Holding
  PROVE  ~run.signal
BY DEF SignalInv, SignalIsHeld

LEMMA SignalStep == TypeOK /\ SignalInv /\ [Next]_vars => SignalInv'
<1> SUFFICES ASSUME TypeOK, SignalInv, [Next]_vars PROVE SignalInv'
  OBVIOUS
<1> USE Shapes DEF RunType, CheckType
<1>1. CASE UNCHANGED vars
  BY <1>1 DEF vars, SignalInv, SignalIsHeld, ReasonIsAWorkers, Holding, Finalizing
<1>2. CASE Exits /\ UNCHANGED attempt
  BY <1>2, ExitsRest, Forgotten
<1>3. CASE HostStep
  <2>1. ~run.signal
    BY <1>3, Unheard DEF HostStep, Holding, Tick, ContractGate, CleanGate,
       FailureNotice,
       Approve, StopSay, StopMove, StopShut, StopNoop, AuthorizePush, AuthorizeLocked,
       OpenPr, Persist, CloseWorkspace, Publish, At
  <2>2. \/ Exits
        \/ run'.signal = run.signal /\ run'.why = run.why
        \/ run'.signal = run.signal /\ attempt.role = "worker"
        \/ run'.signal = FALSE /\ run'.why = None
    BY <1>3 DEF HostStep, Tick, ContractGate, SourceUnnamed, CleanGate, FailureNotice,
       HideScratch,
       Approve, StopSay, StopMove, StopShut, StopNoop, AuthorizePush, AuthorizeLocked,
       OpenPr, Persist, CloseWorkspace, Publish, OrFails, Write, Go, Rest
  <2>3. attempt' = attempt
    BY <1>3 DEF HostStep, Tick, ContractGate, CleanGate, FailureNotice,
       Approve, StopSay, StopMove, StopShut, StopNoop, AuthorizePush, AuthorizeLocked,
       OpenPr, Persist, CloseWorkspace, Publish
  <2> QED BY <2>1, <2>2, <2>3, ExitsRest, Forgotten, Kept
          DEF SignalInv, SignalIsHeld, ReasonIsAWorkers
<1>4. CASE CheckStep \/ FinalizerStep
  <2>1. attempt' = attempt
    BY <1>4 DEF CheckStep, FinalizerStep, CheckEnds, PostCheck, PersistEvidence,
       PersistRecord, EnsureVerification, ExecuteCheck, LastObservation, EnterPush, PushGuard
  <2>2. CASE LastObservation \/ EnterPush \/ PushGuard
    <3>1. \/ Exits
          \/ run'.signal = run.signal /\ run'.why = run.why
             /\ (run.signal => run'.pc \in Held)
      BY <2>2, Unheard DEF LastObservation, LastSignal, EnterPush, PushGuard,
         OrFails, Go,
         Held, Holding, At
    <3> QED BY <2>1, <3>1, <1>2, Kept
            DEF SignalInv, SignalIsHeld, Holding, Held, Finalizing
  <2>3. CASE CheckEnds \/ PersistEvidence \/ EnsureVerification \/ ExecuteCheck
    <3>1. \/ Exits
          \/ run'.signal = run.signal /\ run'.why = run.why /\ run'.pc \in Held
      BY <2>3 DEF CheckEnds, PersistEvidence, EnsureVerification, ExecuteCheck,
         HideScratch, OrFails, Go, Held
    <3> QED BY <2>1, <3>1, <1>2, Kept
            DEF SignalInv, SignalIsHeld, Holding, Held, Finalizing
  <2>4. CASE PostCheck
    <3>1. /\ run'.signal = run.signal /\ run'.pc = "evidence"
          /\ \/ run'.why \in {None, run.why}
             \/ attempt.role = "worker"
      BY <2>4 DEF PostCheck, SourceUnnamed, Go
    <3> QED BY <2>1, <3>1
            DEF SignalInv, SignalIsHeld, ReasonIsAWorkers, Holding, Finalizing
  <2>5. CASE PersistRecord
    <3>1. CASE Exits \/ run' = Thrown
      BY <2>1, <3>1, ExitsRest, ThrownRests, Forgotten
    <3>2. CASE Finalizing /\ run' = [run EXCEPT !.pc = "last"]
      BY <2>1, <3>2, Kept DEF SignalInv, SignalIsHeld, Holding, Finalizing
    <3>3. CASE \/ run.why # None /\ run' = [run EXCEPT !.pc = "say"]
               \/ attempt.role = "worker" /\ run' = [run EXCEPT !.pc = AfterVerification]
      <4>1. attempt.role = "worker"
        BY <3>3 DEF SignalInv, ReasonIsAWorkers
      <4>2. ~run.signal
        BY <4>1, Unheard DEF Holding, Finalizing, Finalizers
      <4> QED BY <2>1, <3>3, <4>2, Kept
    <3> QED BY <2>5, <3>1, <3>2, <3>3 DEF PersistRecord
  <2> QED BY <1>4, <2>2, <2>3, <2>4, <2>5 DEF CheckStep, FinalizerStep
<1>5. CASE AuthorizeBoundary \/ Pushes
  <2>1. ~run.signal /\ attempt' = attempt
    BY <1>5, Unheard DEF AuthorizeBoundary, Pushes, At, Holding
  <2>2. Exits \/ (run'.signal = run.signal /\ run'.why = run.why)
    BY <1>5 DEF AuthorizeBoundary, Pushes, OrFails, Go
  <2> QED BY <2>1, <2>2, <1>2, Kept
<1>6. CASE FinalizerStarts
  <2>1. /\ ~run.signal /\ attempt' = attempt
        /\ run'.signal = run.signal /\ run'.why = run.why
    BY <1>6, Unheard DEF FinalizerStarts, At, Holding
  <2> QED BY <2>1, Kept
<1>7. CASE Signal
  BY <1>7 DEF Signal, SignalInv, SignalIsHeld, ReasonIsAWorkers, Holding, Finalizing
<1>8. CASE Crash
  BY <1>8, Forgotten DEF Crash, Rest
<1>9. CASE Work \/ Reports \/ WritesRecord \/ EditsJournal \/ World
  <2>1. attempt'.role = attempt.role
    BY <1>9 DEF TypeOK, Work, Reports, WritesRecord, EditsJournal, World
  <2>2. run' = run
    BY <1>9 DEF Work, Reports, WritesRecord, EditsJournal, World
  <2> QED BY <2>1, <2>2 DEF SignalInv, SignalIsHeld, ReasonIsAWorkers, Holding,
          Finalizing
<1> QED BY <1>1, <1>3, <1>4, <1>5, <1>6, <1>7, <1>8, <1>9
        DEF Next, ProgramStep, OutsideStep

(* A finalizer that heard a signal while it verified does not push, however*)
(* the signal falls between its writes.                                    *)
THEOREM SignalsStopPushes == Spec => SignalStopsThePush
<1>1. TypeOK /\ SignalInv => [Pushes => ~run.signal]_vars
  BY Unheard DEF Pushes, At, Holding
<1>2. TypeInv => TypeOK
  BY DEF TypeInv
<1> QED BY TypeInit, TypeStep, SignalInit, SignalStep, <1>1, <1>2, PTL DEF Spec,
        SignalStopsThePush

-----------------------------------------------------------------------------
(* The fallback of failed checks: one repair per episode.                  *)
(* The gate holds the claim while it decides; the episode is of no review  *)
(* or request to come, and what comes after it has queued nothing.         *)
Deciding == {"verify", "diagnose", "decide", "close", "post", "queue"}
Repairing == {"close", "post", "queue"}
GateHoldsClaim == gate.pc \in Deciding => pull.label = "in-progress"
EpisodeIsPast == /\ store.episode.base <= review.base /\ review.base <= tip
                 /\ store.episode.asks <= asks
LaterUnqueued == \A b \in Bases, n \in 0..MaxAsks :
  (b > store.episode.base \/ (b = store.episode.base /\ n > store.episode.asks))
    => queued[<<b, n>>] = 0

(* A repair on its way was decided in this episode, whose use is free; the *)
(* episode's repairs are its use, the one to be written, the unwritten.    *)
UseIsFree ==
  /\ gate.pc \in Repairing \cup {"write"} => /\ gate.asks = store.episode.asks
                                             /\ store.episode.used = 0
  /\ gate.pc \in Repairing => store.episode.base = review.base
RepairsCounted ==
  store.episode.base \in Bases =>
    queued[<<store.episode.base, store.episode.asks>>]
      <= store.episode.used + unwritten + IF gate.pc = "write" THEN 1 ELSE 0
UnwrittenIsMishap == unwritten <= mishaps
EpisodeInv == /\ FallbackTypeOK /\ UnwrittenIsMishap
              /\ GateHoldsClaim /\ EpisodeIsPast /\ LaterUnqueued
              /\ UseIsFree /\ RepairsCounted /\ OneRepairPerEpisode

PullType == [head : FallbackHeads, checks : Rollups,
             label : {"review", "in-progress", "implement", "merged"}]
ReviewType == [head : FallbackHeads, base : Bases, open : BOOLEAN]
GateType == [pc : GateStages, base : Bases, asks : 0..MaxAsks]
CandidateType == [head : FallbackHeads, base : Bases, policy : Bases,
                  outcome : {"none", "passed", "failed"}]
EpisodeType == [base : Bases \cup {NoBase}, asks : 0..MaxAsks, used : 0..1]
StoreType == [record : CandidateType, block : Bases \cup {NoBase}, episode : EpisodeType]

LEMMA FallbackParts ==
  FallbackTypeOK <=>
    /\ tip \in Bases /\ pull \in PullType /\ review \in ReviewType /\ gate \in GateType
    /\ store \in StoreType /\ asks \in 0..MaxAsks /\ mishaps \in 0..MaxMishaps
    /\ unwritten \in 0..MaxMishaps /\ queued \in [Bases \X (0..MaxAsks) -> Nat]
BY DEF FallbackTypeOK, PullType, ReviewType, GateType, CandidateType, EpisodeType, StoreType

LEMMA FallbackPartsNext ==
  ASSUME tip' \in Bases, pull' \in PullType, review' \in ReviewType, gate' \in GateType,
         store' \in StoreType, asks' \in 0..MaxAsks, mishaps' \in 0..MaxMishaps,
         unwritten' \in 0..MaxMishaps, queued' \in [Bases \X (0..MaxAsks) -> Nat]
  PROVE  FallbackTypeOK'
BY DEF FallbackTypeOK, PullType, ReviewType, GateType, CandidateType, EpisodeType, StoreType

LEMMA StepOfGate ==
  ASSUME gate \in GateType, NEW pc \in GateStages, Onto(pc)
  PROVE  /\ gate' \in GateType /\ gate'.pc = pc
         /\ gate'.base = gate.base /\ gate'.asks = gate.asks
BY DEF GateType, Onto

LEMMA GateStopping ==
  ASSUME gate \in GateType, GateStops
  PROVE  gate' \in GateType /\ gate'.pc = "idle"
BY StepOfGate DEF GateStops, GateStages

LEMMA LuckIs ==
  ASSUME EpisodeInv, Fine \/ BadLuck
  PROVE  /\ mishaps' \in 0..MaxMishaps /\ unwritten' = unwritten /\ UnwrittenIsMishap'
<1>1. mishaps \in 0..MaxMishaps /\ unwritten \in 0..MaxMishaps /\ unwritten <= mishaps
  BY FallbackParts DEF EpisodeInv, UnwrittenIsMishap
<1>2. MaxMishaps \in Nat
  BY FallbackAssumption
<1> QED
  BY <1>1, <1>2 DEF Fine, BadLuck, Mishap, UnwrittenIsMishap

(* A step that leaves the episode and what was queued.                     *)
LEMMA EpisodeStays ==
  ASSUME EpisodeInv, tip' \in Bases, tip <= tip', pull' \in PullType,
         review' \in ReviewType, review.base <= review'.base, review'.base <= tip',
         gate' \in GateType, store' \in StoreType, store'.episode = store.episode,
         asks' \in 0..MaxAsks, asks <= asks', UNCHANGED queued, Fine \/ BadLuck,
         gate'.pc \in Deciding => pull'.label = "in-progress",
         gate'.pc = "write" <=> gate.pc = "write",
         gate'.pc \in Repairing \cup {"write"} =>
           gate.pc \in Repairing \cup {"write"} /\ gate'.asks = gate.asks,
         gate'.pc \in Repairing => gate.pc \in Repairing /\ review'.base = review.base
  PROVE  EpisodeInv'
<1>1. /\ tip \in Nat /\ tip' \in Nat /\ review.base \in Nat /\ review'.base \in Nat
      /\ asks \in Nat /\ asks' \in Nat /\ store.episode.base \in Nat
      /\ store.episode.asks \in Nat
  BY FallbackParts, FallbackAssumption
     DEF EpisodeInv, Bases, ReviewType, StoreType, EpisodeType, NoBase
<1>2. FallbackTypeOK' /\ UnwrittenIsMishap' /\ unwritten' = unwritten
  BY LuckIs, FallbackParts, FallbackPartsNext DEF EpisodeInv
<1>3. GateHoldsClaim'
  BY DEF GateHoldsClaim
<1>4. EpisodeIsPast'
  BY <1>1 DEF EpisodeInv, EpisodeIsPast
<1>5. LaterUnqueued'
  BY DEF EpisodeInv, LaterUnqueued
<1>6. UseIsFree'
  BY DEF EpisodeInv, UseIsFree
<1>7. RepairsCounted'
  BY <1>2 DEF EpisodeInv, RepairsCounted
<1>8. OneRepairPerEpisode'
  BY <1>2 DEF EpisodeInv, OneRepairPerEpisode
<1> QED
  BY <1>2, <1>3, <1>4, <1>5, <1>6, <1>7, <1>8 DEF EpisodeInv

LEMMA InvParts ==
  ASSUME EpisodeInv
  PROVE  /\ tip \in Bases /\ pull \in PullType /\ review \in ReviewType /\ gate \in GateType
         /\ store \in StoreType /\ asks \in 0..MaxAsks
         /\ tip <= tip /\ review.base <= review.base /\ review.base <= tip /\ asks <= asks
<1>1. /\ tip \in Bases /\ pull \in PullType /\ review \in ReviewType /\ gate \in GateType
      /\ store \in StoreType /\ asks \in 0..MaxAsks
  BY FallbackParts DEF EpisodeInv
<1>2. tip \in Nat /\ review.base \in Nat /\ asks \in Nat
  BY <1>1, FallbackAssumption DEF Bases, ReviewType
<1>3. review.base <= tip
  BY DEF EpisodeInv, EpisodeIsPast
<1> QED
  BY <1>1, <1>2, <1>3

(* So does a step of the gate, ...                                         *)
LEMMA GateMoves ==
  ASSUME EpisodeInv, UNCHANGED Outside, Fine \/ BadLuck, gate' \in GateType,
         store' \in StoreType, store'.episode = store.episode, gate.pc # "write",
         gate'.pc \in Deciding => pull.label = "in-progress",
         gate'.pc \in Repairing \cup {"write"} =>
           gate'.pc \in Repairing /\ gate.pc \in Repairing /\ gate'.asks = gate.asks
  PROVE  EpisodeInv'
<1>1. UNCHANGED <<tip, pull, review, asks, queued>>
  BY DEF Outside
<1>2. "write" \notin Repairing
  BY DEF Repairing
<1> QED
  BY <1>1, <1>2, InvParts, EpisodeStays

LEMMA ObservesSafe == EpisodeInv /\ GateObserves => EpisodeInv'
<1> SUFFICES ASSUME EpisodeInv, GateObserves PROVE EpisodeInv'
  OBVIOUS
<1>1. gate \in GateType /\ store \in StoreType /\ tip \in Bases /\ UNCHANGED store
  BY InvParts DEF GateObserves
<1>2. gate.pc = "idle" /\ pull.label = "in-progress" /\ UNCHANGED Outside /\ Fine
  BY DEF GateObserves, GateAt, ReviewsHead, Outside
<1>3. gate' \in GateType /\ gate'.pc \in {"merge", "verify"}
  BY <1>1 DEF GateObserves, Onto, GateType, GateStages
<1> QED
  BY <1>1, <1>2, <1>3, GateMoves DEF Repairing

LEMMA VerifySafe == EpisodeInv /\ VerifyCandidate => EpisodeInv'
<1> SUFFICES ASSUME EpisodeInv, VerifyCandidate PROVE EpisodeInv'
  OBVIOUS
<1>1. gate \in GateType /\ store \in StoreType /\ review \in ReviewType
  BY InvParts
<1>2. gate.pc = "verify" /\ pull.label = "in-progress" /\ UNCHANGED Outside
  BY DEF VerifyCandidate, GateAt, EpisodeInv, GateHoldsClaim, Deciding
<1>3. Fine \/ BadLuck
  BY DEF VerifyCandidate
<1>4. GateStops \/ Onto("merge") \/ Onto("diagnose")
  BY DEF VerifyCandidate
<1>5. gate' \in GateType /\ gate'.pc \in {"idle", "merge", "diagnose"}
  BY <1>1, <1>4, StepOfGate DEF GateStops, GateStages
<1>6. \/ UNCHANGED store
      \/ \E outcome \in {"passed", "failed"} : store' = [store EXCEPT !.record =
           [head |-> review.head, base |-> gate.base, policy |-> review.base,
            outcome |-> outcome]]
  BY DEF VerifyCandidate
<1>7. store' \in StoreType /\ store'.episode = store.episode
  <2>1. ASSUME NEW outcome \in {"passed", "failed"}
        PROVE  [head |-> review.head, base |-> gate.base, policy |-> review.base,
                outcome |-> outcome] \in CandidateType
    BY <1>1 DEF CandidateType, ReviewType, GateType
  <2> QED
    BY <1>1, <1>6, <2>1 DEF StoreType
<1> QED
  BY <1>2, <1>3, <1>5, <1>7, GateMoves DEF Repairing

LEMMA DiagnoseSafe == EpisodeInv /\ DiagnoseBase => EpisodeInv'
<1> SUFFICES ASSUME EpisodeInv, DiagnoseBase PROVE EpisodeInv'
  OBVIOUS
<1>1. gate \in GateType /\ store \in StoreType /\ review \in ReviewType
  BY InvParts
<1>2. gate.pc = "diagnose" /\ pull.label = "in-progress" /\ UNCHANGED Outside
  BY DEF DiagnoseBase, GateAt, EpisodeInv, GateHoldsClaim, Deciding
<1>3. (Fine \/ BadLuck) /\ (GateStops \/ Onto("decide"))
      /\ (UNCHANGED store \/ store' = [store EXCEPT !.block = review.base])
  BY DEF DiagnoseBase
<1>4. gate' \in GateType /\ gate'.pc \in {"idle", "decide"}
  BY <1>1, <1>3, StepOfGate DEF GateStops, GateStages
<1>5. store' \in StoreType /\ store'.episode = store.episode
  BY <1>1, <1>3 DEF StoreType, ReviewType
<1> QED
  BY <1>2, <1>3, <1>4, <1>5, GateMoves DEF Repairing

LEMMA PostSafe == EpisodeInv /\ PostFailure => EpisodeInv'
<1> SUFFICES ASSUME EpisodeInv, PostFailure PROVE EpisodeInv'
  OBVIOUS
<1>1. gate \in GateType /\ store \in StoreType
  BY InvParts
<1>2. gate.pc = "post" /\ pull.label = "in-progress" /\ UNCHANGED Outside /\ UNCHANGED store
  BY DEF PostFailure, GateAt, EpisodeInv, GateHoldsClaim, Deciding, Outside
<1>3. (Fine \/ BadLuck) /\ (GateStops \/ Onto("queue"))
  BY DEF PostFailure
<1>4. gate' \in GateType /\ gate'.pc \in {"idle", "queue"}
      /\ (gate'.pc = "queue" => gate'.asks = gate.asks)
  BY <1>1, <1>3, StepOfGate DEF GateStops, GateStages
<1> QED
  BY <1>1, <1>2, <1>3, <1>4, GateMoves DEF Repairing

LEMMA MergeEligibleSafe == EpisodeInv /\ MergeEligible => EpisodeInv'
<1> SUFFICES ASSUME EpisodeInv, MergeEligible PROVE EpisodeInv'
  OBVIOUS
<1>1. gate \in GateType /\ store \in StoreType
  BY InvParts
<1>2. gate.pc = "merge" /\ UNCHANGED Outside /\ UNCHANGED store /\ Fine
  BY DEF MergeEligible, GateAt, Outside
<1>3. GateStops \/ Onto("health")
  BY DEF MergeEligible
<1>4. gate' \in GateType /\ gate'.pc \in {"idle", "health"}
  BY <1>1, <1>3, StepOfGate DEF GateStops, GateStages
<1> QED
  BY <1>1, <1>2, <1>4, GateMoves DEF Repairing, Deciding

LEMMA GateDiesSafe == EpisodeInv /\ GateDies => EpisodeInv'
<1> SUFFICES ASSUME EpisodeInv, GateDies PROVE EpisodeInv'
  OBVIOUS
<1>1. gate \in GateType /\ store \in StoreType
  BY InvParts
<1>2. gate.pc # "write" /\ UNCHANGED Outside /\ UNCHANGED store /\ BadLuck
  BY DEF GateDies, Outside
<1>3. gate' \in GateType /\ gate'.pc = "idle"
  BY <1>1, GateStopping DEF GateDies
<1> QED
  BY <1>1, <1>2, <1>3, GateMoves DEF Repairing, Deciding

LEMMA CloseSafe == EpisodeInv /\ CloseReviewer => EpisodeInv'
<1> SUFFICES ASSUME EpisodeInv, CloseReviewer PROVE EpisodeInv'
  OBVIOUS
<1>1. gate \in GateType /\ store \in StoreType /\ review \in ReviewType
  BY InvParts
<1>2. /\ gate.pc = "close" /\ pull.label = "in-progress"
      /\ UNCHANGED <<tip, pull, asks, queued, store>>
  BY DEF CloseReviewer, GateAt, EpisodeInv, GateHoldsClaim, Deciding
<1>3. (Fine \/ BadLuck) /\ (GateStops \/ Onto("post"))
  BY DEF CloseReviewer
<1>4. /\ gate' \in GateType /\ gate'.pc \in {"idle", "post"}
      /\ gate'.pc = "post" => gate'.asks = gate.asks
  BY <1>1, <1>3, StepOfGate DEF GateStops, GateStages
<1>5. PICK open \in BOOLEAN : review' = review \/ review' = [review EXCEPT !.open = open]
  BY DEF CloseReviewer
<1>6. review' \in ReviewType /\ review'.base = review.base
  BY <1>1, <1>5 DEF ReviewType
<1> QED
  BY <1>1, <1>2, <1>3, <1>4, <1>6, InvParts, EpisodeStays DEF Repairing

LEMMA MergePullSafe == EpisodeInv /\ MergePull => EpisodeInv'
<1> SUFFICES ASSUME EpisodeInv, MergePull PROVE EpisodeInv'
  OBVIOUS
<1>1. gate \in GateType /\ store \in StoreType /\ pull \in PullType
  BY InvParts
<1>2. gate.pc = "health" /\ UNCHANGED <<tip, review, store, asks, queued>>
      /\ (Fine \/ BadLuck)
  BY DEF MergePull, GateAt
<1>3. gate' \in GateType /\ gate'.pc = "idle"
  BY <1>1, GateStopping DEF MergePull
<1>4. pull' \in PullType
  BY <1>1 DEF MergePull, PullType
<1> QED
  BY <1>2, <1>3, <1>4, InvParts, EpisodeStays DEF Repairing, Deciding

(* The use is written: what was queued for it is counted.                  *)
LEMMA WriteEpisodeSafe == EpisodeInv /\ WriteEpisode => EpisodeInv'
<1> SUFFICES ASSUME EpisodeInv, WriteEpisode PROVE EpisodeInv'
  OBVIOUS
<1>1. /\ gate \in GateType /\ store \in StoreType /\ store.episode \in EpisodeType
      /\ mishaps \in 0..MaxMishaps /\ unwritten \in 0..MaxMishaps /\ unwritten <= mishaps
      /\ tip \in Bases /\ pull \in PullType /\ review \in ReviewType /\ asks \in 0..MaxAsks
      /\ queued \in [Bases \X (0..MaxAsks) -> Nat] /\ MaxMishaps \in Nat
  BY FallbackParts, FallbackAssumption DEF EpisodeInv, UnwrittenIsMishap, StoreType
<1>2. gate.pc = "write" /\ store.episode.used = 0
      /\ UNCHANGED <<tip, pull, review, asks, queued>>
  BY DEF WriteEpisode, GateAt, EpisodeInv, UseIsFree, Outside
<1>3. gate' \in GateType /\ gate'.pc = "idle"
  BY <1>1, GateStopping DEF WriteEpisode
<1> DEFINE e == store.episode
<1>4. e \in EpisodeType /\ e.used = 0 /\ e.base \in Bases \cup {NoBase} /\ e.asks \in 0..MaxAsks
  BY <1>1, <1>2 DEF EpisodeType
<1>5. e.base \in Bases => queued[<<e.base, e.asks>>] <= 1 + unwritten
  BY <1>2, <1>4, <1>1 DEF EpisodeInv, RepairsCounted
<1>6. CASE Fine /\ store' = [store EXCEPT !.episode = CountUse(@)]
  <2>1. CountUse(e) \in EpisodeType /\ CountUse(e).base = e.base /\ CountUse(e).asks = e.asks
        /\ CountUse(e).used = 1
    BY <1>4 DEF CountUse, EpisodeType
  <2>2. store' \in StoreType /\ store'.episode = CountUse(e)
    BY <1>1, <1>6, <2>1 DEF StoreType
  <2>3. /\ store'.episode.base = e.base /\ store'.episode.asks = e.asks
        /\ store'.episode.used = 1
    BY <2>1, <2>2
  <2>4. mishaps' = mishaps /\ unwritten' = unwritten
    BY <1>6 DEF Fine
  <2>5. FallbackTypeOK'
    BY <1>1, <1>2, <1>3, <2>2, <2>4, FallbackPartsNext
  <2>6. GateHoldsClaim' /\ UseIsFree'
    BY <1>3 DEF GateHoldsClaim, UseIsFree, Deciding, Repairing
  <2>7. EpisodeIsPast' /\ LaterUnqueued'
    BY <1>2, <2>3 DEF EpisodeInv, EpisodeIsPast, LaterUnqueued
  <2>8. RepairsCounted'
    BY <1>1, <1>2, <1>3, <1>4, <1>5, <2>3, <2>4 DEF RepairsCounted
  <2>9. OneRepairPerEpisode' /\ UnwrittenIsMishap'
    BY <1>1, <1>2, <2>4 DEF EpisodeInv, OneRepairPerEpisode, UnwrittenIsMishap
  <2> QED
    BY <2>5, <2>6, <2>7, <2>8, <2>9 DEF EpisodeInv
<1>7. CASE Mishap /\ unwritten' = unwritten + 1 /\ UNCHANGED store
  <2>1. mishaps' = mishaps + 1 /\ mishaps' \in 0..MaxMishaps /\ unwritten' \in 0..MaxMishaps
    BY <1>1, <1>7 DEF Mishap
  <2>2. FallbackTypeOK'
    BY <1>1, <1>2, <1>3, <1>7, <2>1, FallbackPartsNext
  <2>3. GateHoldsClaim' /\ UseIsFree'
    BY <1>3 DEF GateHoldsClaim, UseIsFree, Deciding, Repairing
  <2>4. EpisodeIsPast' /\ LaterUnqueued'
    BY <1>2, <1>7 DEF EpisodeInv, EpisodeIsPast, LaterUnqueued
  <2>5. RepairsCounted'
    BY <1>1, <1>2, <1>3, <1>4, <1>5, <1>7 DEF RepairsCounted
  <2>6. UnwrittenIsMishap'
    BY <1>1, <1>7, <2>1 DEF UnwrittenIsMishap
  <2>7. OneRepairPerEpisode'
    <3> SUFFICES ASSUME NEW base \in Bases, NEW n \in 0..MaxAsks
                 PROVE  queued'[<<base, n>>] <= 1 + unwritten'
      BY DEF OneRepairPerEpisode
    <3>1. queued[<<base, n>>] <= 1 + unwritten /\ queued[<<base, n>>] \in Nat
      BY <1>1 DEF EpisodeInv, OneRepairPerEpisode
    <3> QED
      BY <1>1, <1>2, <1>7, <3>1
  <2> QED
    BY <2>2, <2>3, <2>4, <2>5, <2>6, <2>7 DEF EpisodeInv
<1> QED
  BY <1>6, <1>7 DEF WriteEpisode

(* A new episode begins on a later base, or after a later request.         *)
LEMMA DecideSafe == EpisodeInv /\ DecideRepair => EpisodeInv'
<1> SUFFICES ASSUME EpisodeInv, DecideRepair PROVE EpisodeInv'
  OBVIOUS
<1>1. /\ gate \in GateType /\ store \in StoreType /\ store.episode \in EpisodeType
      /\ mishaps \in 0..MaxMishaps /\ unwritten \in 0..MaxMishaps /\ unwritten <= mishaps
      /\ tip \in Bases /\ pull \in PullType /\ review \in ReviewType /\ asks \in 0..MaxAsks
      /\ queued \in [Bases \X (0..MaxAsks) -> Nat] /\ MaxMishaps \in Nat /\ MaxAsks \in Nat
  BY FallbackParts, FallbackAssumption DEF EpisodeInv, UnwrittenIsMishap, StoreType
<1> DEFINE e == store.episode
           reset == ~SameEpisode(e) \/ asks > e.asks
<1>6. e.used \in {0, 1}
  BY <1>1 DEF EpisodeType
<1>7. Fine
  BY <1>6 DEF DecideRepair
<1>2. /\ gate.pc = "decide" /\ pull.label = "in-progress" /\ Fine
      /\ UNCHANGED <<tip, pull, review, asks, queued, mishaps, unwritten>>
  BY <1>7 DEF DecideRepair, GateAt, EpisodeInv, GateHoldsClaim, Deciding, Outside, Fine
<1>3. CASE reset
  <2> DEFINE f == [base |-> review.base, asks |-> asks, used |-> 0]
  <2>1. /\ store' = [store EXCEPT !.episode = f]
        /\ gate' = [gate EXCEPT !.pc = "close", !.asks = asks]
    BY <1>3 DEF DecideRepair
  <2>2. review.base \in Bases /\ f \in EpisodeType /\ f.base = review.base /\ f.asks = asks
        /\ f.used = 0
    BY <1>1 DEF ReviewType, EpisodeType
  <2> HIDE DEF f
  <2>3. store' \in StoreType /\ store'.episode = f
    BY <1>1, <2>1, <2>2 DEF StoreType
  <2>4. gate' \in GateType /\ gate'.pc = "close" /\ gate'.asks = asks
    BY <1>1, <2>1 DEF GateType, GateStages
  <2>5. FallbackTypeOK'
    BY <1>1, <1>2, <2>3, <2>4, FallbackPartsNext
  <2>6. GateHoldsClaim'
    BY <1>2 DEF GateHoldsClaim
  <2>7. review.base \in Nat /\ asks \in Nat /\ e.base \in Nat /\ e.asks \in Nat
        /\ e.base <= review.base /\ review.base <= tip
    BY <1>1, <2>2, FallbackAssumption
       DEF Bases, EpisodeType, NoBase, EpisodeInv, EpisodeIsPast
  <2>8. EpisodeIsPast'
    BY <1>2, <2>2, <2>3, <2>7 DEF EpisodeIsPast
  <2>9. ASSUME NEW b \in Bases, NEW n \in 0..MaxAsks,
               b > review.base \/ (b = review.base /\ n >= asks)
        PROVE  queued[<<b, n>>] = 0
    <3>1. b \in Nat /\ n \in Nat
      BY FallbackAssumption DEF Bases
    <3>2. b > e.base \/ (b = e.base /\ n > e.asks)
      BY <1>3, <2>7, <2>9, <3>1 DEF SameEpisode
    <3> QED
      BY <3>2 DEF EpisodeInv, LaterUnqueued
  <2>10. LaterUnqueued'
    <3> SUFFICES ASSUME NEW b \in Bases, NEW n \in 0..MaxAsks,
                        b > review.base \/ (b = review.base /\ n > asks)
                 PROVE  queued[<<b, n>>] = 0
      BY <1>2, <2>2, <2>3 DEF LaterUnqueued
    <3>1. n \in Nat
      OBVIOUS
    <3> QED
      BY <2>7, <2>9, <3>1
  <2>11. UseIsFree'
    BY <1>2, <2>2, <2>3, <2>4 DEF UseIsFree, Repairing
  <2>12. RepairsCounted'
    <3>1. queued[<<review.base, asks>>] = 0
      BY <1>1, <2>2, <2>7, <2>9
    <3> QED
      BY <1>1, <1>2, <2>2, <2>3, <2>4, <3>1 DEF RepairsCounted
  <2>13. OneRepairPerEpisode' /\ UnwrittenIsMishap'
    BY <1>1, <1>2 DEF EpisodeInv, OneRepairPerEpisode, UnwrittenIsMishap
  <2> QED
    BY <2>5, <2>6, <2>8, <2>10, <2>11, <2>12, <2>13 DEF EpisodeInv
<1>4. CASE ~reset /\ e.used = 0
  <2>1. gate' = [gate EXCEPT !.pc = "close", !.asks = e.asks] /\ UNCHANGED store
    BY <1>4 DEF DecideRepair
  <2>2. e.asks \in 0..MaxAsks /\ e.base = review.base
    BY <1>1, <1>4 DEF EpisodeType, SameEpisode
  <2>3. gate' \in GateType /\ gate'.pc = "close" /\ gate'.asks = e.asks
    BY <1>1, <2>1, <2>2 DEF GateType, GateStages
  <2>4. FallbackTypeOK'
    BY <1>1, <1>2, <2>1, <2>3, FallbackPartsNext
  <2>5. GateHoldsClaim' /\ UseIsFree'
    BY <1>2, <1>4, <2>1, <2>2, <2>3 DEF GateHoldsClaim, UseIsFree, Repairing
  <2>6. EpisodeIsPast' /\ LaterUnqueued'
    BY <1>2, <2>1 DEF EpisodeInv, EpisodeIsPast, LaterUnqueued
  <2>7. RepairsCounted'
    BY <1>2, <2>1, <2>3 DEF EpisodeInv, RepairsCounted
  <2>8. OneRepairPerEpisode' /\ UnwrittenIsMishap'
    BY <1>2 DEF EpisodeInv, OneRepairPerEpisode, UnwrittenIsMishap
  <2> QED
    BY <2>4, <2>5, <2>6, <2>7, <2>8 DEF EpisodeInv
<1>5. CASE ~reset /\ e.used = 1
  <2>1. GateStops /\ UNCHANGED store
    BY <1>5 DEF DecideRepair
  <2>2. gate' \in GateType /\ gate'.pc = "idle"
    BY <1>1, <2>1, GateStopping
  <2> QED
    BY <1>1, <1>2, <2>1, <2>2, GateMoves DEF Repairing, Deciding, Outside
<1> QED
  BY <1>3, <1>4, <1>5, <1>6

(* A repair is queued: once in the episode, and again only when the use of *)
(* the first stayed unwritten.                                             *)
LEMMA QueueRepairSafe == EpisodeInv /\ QueueRepair => EpisodeInv'
<1> SUFFICES ASSUME EpisodeInv, QueueRepair PROVE EpisodeInv'
  OBVIOUS
<1>1. /\ gate \in GateType /\ store \in StoreType /\ store.episode \in EpisodeType
      /\ mishaps \in 0..MaxMishaps /\ unwritten \in 0..MaxMishaps /\ unwritten <= mishaps
      /\ tip \in Bases /\ pull \in PullType /\ review \in ReviewType /\ asks \in 0..MaxAsks
      /\ queued \in [Bases \X (0..MaxAsks) -> Nat] /\ MaxMishaps \in Nat /\ MaxAsks \in Nat
  BY FallbackParts, FallbackAssumption DEF EpisodeInv, UnwrittenIsMishap, StoreType
<1>2. /\ gate.pc = "queue" /\ pull.label = "in-progress"
      /\ UNCHANGED <<tip, review, store, asks>>
  BY DEF QueueRepair, GateAt, EpisodeInv, GateHoldsClaim, Deciding
<1> DEFINE e == store.episode
           here == <<e.base, e.asks>>
<1>3. e.base = review.base /\ e.asks = gate.asks /\ e.used = 0
  BY <1>2 DEF EpisodeInv, UseIsFree, Repairing
<1>4. e.base \in Bases /\ e.asks \in 0..MaxAsks /\ here \in Bases \X (0..MaxAsks)
  BY <1>1, <1>3 DEF ReviewType, EpisodeType
<1>5. queued[here] <= unwritten /\ queued[here] \in Nat
  BY <1>1, <1>2, <1>3, <1>4 DEF EpisodeInv, RepairsCounted
<1>6. CASE GateStops /\ UNCHANGED <<pull, queued>> /\ (Fine \/ BadLuck)
  <2>1. gate' \in GateType /\ gate'.pc = "idle"
    BY <1>1, <1>6, GateStopping
  <2> QED
    BY <1>1, <1>2, <1>6, <2>1, GateMoves DEF Repairing, Deciding, Outside
<1>7. ASSUME pull' = [pull EXCEPT !.label = "implement"],
             queued' = [queued EXCEPT ![<<review.base, gate.asks>>] = @ + 1],
             \/ Fine /\ Onto("write")
             \/ Mishap /\ GateStops /\ unwritten' = unwritten + 1
      PROVE  EpisodeInv'
  <2>1. pull' \in PullType
    BY <1>1, <1>7 DEF PullType
  <2>2. queued' = [queued EXCEPT ![here] = @ + 1]
    BY <1>3, <1>7
  <2>3. queued' \in [Bases \X (0..MaxAsks) -> Nat]
    <3> HIDE DEF here
    <3>1. queued[here] + 1 \in Nat
      BY <1>5
    <3> QED
      BY <1>1, <1>4, <2>2, <3>1
  <2>4. queued'[here] = queued[here] + 1
        /\ \A k \in Bases \X (0..MaxAsks) : k # here => queued'[k] = queued[k]
    BY <1>1, <1>4, <2>2
  <2>5. /\ gate' \in GateType /\ gate'.asks = gate.asks
        /\ \/ gate'.pc = "write" /\ mishaps' = mishaps /\ unwritten' = unwritten
           \/ gate'.pc = "idle" /\ mishaps' = mishaps + 1 /\ mishaps' <= MaxMishaps
              /\ unwritten' = unwritten + 1
    BY <1>1, <1>7, StepOfGate DEF GateStops, GateStages, Fine, Mishap
  <2>6. mishaps' \in 0..MaxMishaps /\ unwritten' \in 0..MaxMishaps /\ unwritten' <= mishaps'
    BY <1>1, <2>5
  <2>7. FallbackTypeOK'
    BY <1>1, <1>2, <2>1, <2>3, <2>5, <2>6, FallbackPartsNext
  <2>8. GateHoldsClaim' /\ UseIsFree'
    BY <1>2, <1>3, <2>5 DEF GateHoldsClaim, UseIsFree, Deciding, Repairing
  <2>9. EpisodeIsPast'
    BY <1>2 DEF EpisodeInv, EpisodeIsPast
  <2>10. LaterUnqueued'
    <3> SUFFICES ASSUME NEW b \in Bases, NEW n \in 0..MaxAsks,
                        b > e.base \/ (b = e.base /\ n > e.asks)
                 PROVE  queued'[<<b, n>>] = 0
      BY <1>2 DEF LaterUnqueued
    <3>1. b \in Nat /\ n \in Nat /\ e.base \in Nat /\ e.asks \in Nat
      BY <1>4, FallbackAssumption DEF Bases
    <3>2. <<b, n>> # here
      BY <3>1
    <3>3. queued[<<b, n>>] = 0
      BY DEF EpisodeInv, LaterUnqueued
    <3> QED
      BY <2>4, <3>2, <3>3
  <2>11. RepairsCounted'
    <3>1. store' = store
      BY <1>2
    <3>2. queued'[here] <= unwritten' + IF gate'.pc = "write" THEN 1 ELSE 0
      BY <1>1, <1>5, <2>4, <2>5
    <3> QED
      BY <1>1, <1>3, <3>1, <3>2, <2>6 DEF RepairsCounted
  <2>12. OneRepairPerEpisode'
    <3> SUFFICES ASSUME NEW base \in Bases, NEW n \in 0..MaxAsks
                 PROVE  queued'[<<base, n>>] <= 1 + unwritten'
      BY DEF OneRepairPerEpisode
    <3>1. CASE <<base, n>> = here
      BY <1>1, <1>5, <2>4, <2>5, <3>1
    <3>2. CASE <<base, n>> # here
      <4>1. queued[<<base, n>>] <= 1 + unwritten /\ queued[<<base, n>>] \in Nat
        BY <1>1 DEF EpisodeInv, OneRepairPerEpisode
      <4> QED
        BY <1>1, <2>4, <2>5, <3>2, <4>1
    <3> QED
      BY <3>1, <3>2
  <2>13. UnwrittenIsMishap'
    BY <2>6 DEF UnwrittenIsMishap
  <2> QED
    BY <2>7, <2>8, <2>9, <2>10, <2>11, <2>12, <2>13 DEF EpisodeInv
<1> QED
  BY <1>6, <1>7 DEF QueueRepair

(* The driver's steps and people's: the gate rests, or no review is open.  *)
LEMMA GateIsKept ==
  ASSUME EpisodeInv, UNCHANGED gate, tip' \in Bases, tip <= tip', pull' \in PullType,
         review' \in ReviewType, review.base <= review'.base, review'.base <= tip',
         store' \in StoreType, store'.episode = store.episode,
         asks' \in 0..MaxAsks, asks <= asks', UNCHANGED queued, Fine \/ BadLuck,
         pull'.label = pull.label \/ gate.pc \notin Deciding,
         review'.base = review.base \/ gate.pc \notin Deciding
  PROVE  EpisodeInv'
<1>1. gate \in GateType /\ GateHoldsClaim
  BY InvParts DEF EpisodeInv
<1>2. Repairing \subseteq Deciding
  BY DEF Repairing, Deciding
<1>3. gate'.pc \in Deciding => pull'.label = "in-progress"
  BY <1>1 DEF GateHoldsClaim
<1>4. gate'.pc \in Repairing => gate.pc \in Repairing /\ review'.base = review.base
  BY <1>2
<1> QED
  BY <1>1, <1>3, <1>4, EpisodeStays

LEMMA MayLaunchIs ==
  ASSUME EpisodeInv, MayLaunch
  PROVE  store' \in StoreType /\ store'.episode = store.episode /\ (Fine \/ BadLuck)
<1>1. store \in StoreType
  BY InvParts
<1>2. \A s \in StoreType : /\ [s EXCEPT !.block = NoBase] \in StoreType
                           /\ [s EXCEPT !.block = NoBase].episode = s.episode
  BY DEF StoreType
<1>3. UNCHANGED store \/ store' = [store EXCEPT !.block = NoBase]
  BY DEF MayLaunch, Evaluated
<1> QED
  BY <1>1, <1>2, <1>3 DEF MayLaunch

LEMMA LaunchReviewSafe == EpisodeInv /\ LaunchReview => EpisodeInv'
<1> SUFFICES ASSUME EpisodeInv, LaunchReview PROVE EpisodeInv'
  OBVIOUS
<1>1. /\ store' \in StoreType /\ store'.episode = store.episode /\ (Fine \/ BadLuck)
      /\ pull \in PullType /\ tip \in Bases /\ UNCHANGED <<tip, gate, asks, queued>>
  BY MayLaunchIs, InvParts DEF LaunchReview
<1>2. gate.pc \notin Deciding
  BY DEF LaunchReview, EpisodeInv, GateHoldsClaim
<1> DEFINE t == TRUE
<1>3. t \in BOOLEAN
  OBVIOUS
<1>4. review' = [head |-> pull.head, base |-> tip, open |-> t]
  BY DEF LaunchReview
<1> HIDE DEF t
<1>5. review' \in ReviewType /\ review'.base = tip
  BY <1>1, <1>3, <1>4 DEF ReviewType, PullType
<1>6. pull' \in PullType
  BY <1>1 DEF LaunchReview, PullType
<1> QED
  BY <1>1, <1>2, <1>5, <1>6, InvParts, GateIsKept

LEMMA LaunchRepairSafe == EpisodeInv /\ LaunchRepair => EpisodeInv'
<1> SUFFICES ASSUME EpisodeInv, LaunchRepair PROVE EpisodeInv'
  OBVIOUS
<1>1. /\ store' \in StoreType /\ store'.episode = store.episode /\ (Fine \/ BadLuck)
      /\ UNCHANGED <<tip, review, gate, asks, queued>>
  BY MayLaunchIs DEF LaunchRepair
<1>2. gate.pc \notin Deciding
  BY DEF LaunchRepair, EpisodeInv, GateHoldsClaim
<1>3. pull' \in PullType
  BY DEF LaunchRepair, PullType
<1> QED
  BY <1>1, <1>2, <1>3, InvParts, GateIsKept

LEMMA ClaimReturnsSafe == EpisodeInv /\ ClaimReturns => EpisodeInv'
<1> SUFFICES ASSUME EpisodeInv, ClaimReturns PROVE EpisodeInv'
  OBVIOUS
<1>1. gate.pc \notin Deciding /\ pull \in PullType /\ store \in StoreType
  BY InvParts DEF ClaimReturns, GateAt, Deciding
<1>2. pull' \in PullType
  BY <1>1 DEF ClaimReturns, PullType
<1> QED
  BY <1>1, <1>2, InvParts, GateIsKept DEF ClaimReturns

LEMMA ReviewIsStaleSafe == EpisodeInv /\ ReviewIsStale => EpisodeInv'
<1> SUFFICES ASSUME EpisodeInv, ReviewIsStale PROVE EpisodeInv'
  OBVIOUS
<1>1. gate.pc \notin Deciding /\ pull \in PullType /\ review \in ReviewType
  BY InvParts DEF ReviewIsStale, GateAt, Deciding
<1>2. pull' \in PullType
  BY <1>1 DEF ReviewIsStale, PullType
<1> DEFINE f == FALSE
<1>3. review' = [review EXCEPT !.open = f] /\ f \in BOOLEAN
  BY DEF ReviewIsStale
<1> HIDE DEF f
<1>4. review' \in ReviewType /\ review'.base = review.base
  BY <1>1, <1>3 DEF ReviewType
<1> QED
  BY <1>1, <1>2, <1>4, InvParts, GateIsKept DEF ReviewIsStale

LEMMA PeopleSafe == EpisodeInv /\ People => EpisodeInv'
<1> SUFFICES ASSUME EpisodeInv, People PROVE EpisodeInv'
  OBVIOUS
<1>1. /\ Fine /\ UNCHANGED <<review, gate, store, queued>>
      /\ pull \in PullType /\ tip \in Bases /\ asks \in 0..MaxAsks
      /\ MaxBases \in Nat /\ MaxAsks \in Nat /\ MaxHeads \in Nat
  BY InvParts, FallbackAssumption DEF People
<1>2. review.base \in Nat /\ review.base <= tip /\ tip \in Nat
  BY InvParts, FallbackAssumption DEF Bases, ReviewType
<1>3. CASE tip < MaxBases /\ tip' = tip + 1 /\ UNCHANGED <<pull, asks>>
  <2>1. tip' \in Bases /\ tip <= tip' /\ review'.base <= tip'
    BY <1>1, <1>2, <1>3 DEF Bases
  <2> QED
    BY <1>1, <1>3, <2>1, InvParts, GateIsKept
<1>4. CASE /\ pull.head < MaxHeads /\ UNCHANGED <<tip, asks>>
           /\ \E checks \in Rollups : pull' = [pull EXCEPT !.head = @ + 1, !.checks = checks]
  <2>1. pull.head + 1 \in FallbackHeads
    BY <1>1, <1>4 DEF PullType, FallbackHeads
  <2>2. pull' \in PullType /\ pull'.label = pull.label
    BY <1>1, <1>4, <2>1 DEF PullType
  <2> QED
    BY <1>1, <1>4, <2>2, InvParts, GateIsKept
<1>5. CASE asks < MaxAsks /\ asks' = asks + 1 /\ UNCHANGED <<tip, pull>>
  <2>1. asks' \in 0..MaxAsks /\ asks <= asks'
    BY <1>1, <1>5
  <2> QED
    BY <1>1, <1>5, <2>1, InvParts, GateIsKept
<1>6. CASE /\ \E checks \in Rollups \ {pull.checks} : pull' = [pull EXCEPT !.checks = checks]
           /\ UNCHANGED <<tip, asks>>
  <2>1. pull' \in PullType /\ pull'.label = pull.label
    BY <1>1, <1>6 DEF PullType
  <2> QED
    BY <1>1, <1>6, <2>1, InvParts, GateIsKept
<1> QED
  BY <1>3, <1>4, <1>5, <1>6 DEF People

LEMMA EpisodeInit == FallbackInit => EpisodeInv
<1> SUFFICES ASSUME FallbackInit PROVE EpisodeInv
  OBVIOUS
<1> DEFINE f == FALSE
<1>1. /\ 1 \in Bases /\ 1 \in FallbackHeads /\ 0 \in 0..MaxAsks /\ 0 \in 0..MaxMishaps
      /\ f \in BOOLEAN /\ NoBase \notin Bases
  BY FallbackAssumption DEF Bases, FallbackHeads, NoBase
<1>2. /\ tip = 1 /\ review = [head |-> 1, base |-> 1, open |-> f]
      /\ gate = [pc |-> "idle", base |-> 1, asks |-> 0]
      /\ asks = 0 /\ mishaps = 0 /\ unwritten = 0
      /\ queued = [e \in Bases \X (0..MaxAsks) |-> 0]
  BY DEF FallbackInit, FallbackRest
<1>3. pull \in PullType
  BY <1>1 DEF FallbackInit, PullType
<1>4. store \in StoreType /\ store.episode = [base |-> NoBase, asks |-> 0, used |-> 0]
  <2> DEFINE r == [head |-> 1, base |-> 1, policy |-> 1, outcome |-> "none"]
             e == [base |-> NoBase, asks |-> 0, used |-> 0]
  <2>1. r \in CandidateType /\ e \in EpisodeType
    BY <1>1 DEF CandidateType, EpisodeType
  <2>2. store = [record |-> r, block |-> NoBase, episode |-> e]
    BY DEF FallbackInit, FallbackRest
  <2> HIDE DEF r
  <2> QED
    BY <2>1, <2>2 DEF StoreType
<1> HIDE DEF f
<1>5. review \in ReviewType /\ review.base = 1 /\ gate \in GateType /\ gate.pc = "idle"
  BY <1>1, <1>2 DEF ReviewType, GateType, GateStages
<1>6. FallbackTypeOK
  BY <1>1, <1>2, <1>3, <1>4, <1>5, FallbackParts
<1>7. GateHoldsClaim /\ UseIsFree /\ UnwrittenIsMishap
  BY <1>2, <1>5 DEF GateHoldsClaim, UseIsFree, UnwrittenIsMishap, Deciding, Repairing
<1>8. EpisodeIsPast
  BY <1>2, <1>4, <1>5 DEF EpisodeIsPast, NoBase
<1>9. LaterUnqueued /\ RepairsCounted /\ OneRepairPerEpisode
  BY <1>1, <1>2, <1>4 DEF LaterUnqueued, RepairsCounted, OneRepairPerEpisode
<1> QED
  BY <1>6, <1>7, <1>8, <1>9 DEF EpisodeInv

LEMMA EpisodeStep == EpisodeInv /\ [FallbackNext]_fallbackVars => EpisodeInv'
<1> SUFFICES ASSUME EpisodeInv, [FallbackNext]_fallbackVars PROVE EpisodeInv'
  OBVIOUS
<1>1. CASE UNCHANGED fallbackVars
  BY <1>1, InvParts, GateIsKept DEF fallbackVars, Fine
<1> QED
  BY <1>1, ObservesSafe, VerifySafe, DiagnoseSafe, DecideSafe, CloseSafe, PostSafe,
     QueueRepairSafe, WriteEpisodeSafe, MergeEligibleSafe, MergePullSafe, LaunchReviewSafe,
     LaunchRepairSafe, ClaimReturnsSafe, ReviewIsStaleSafe, GateDiesSafe, PeopleSafe
     DEF FallbackNext, GateStep, DriverStep

(* One base gets one automatic repair until a person asks for a review,    *)
(* and one more for each use that a death or a failed write left out.      *)
THEOREM OneRepair == FallbackSpec => []OneRepairPerEpisode
<1>1. EpisodeInv => OneRepairPerEpisode
  BY DEF EpisodeInv
<1> QED
  BY <1>1, EpisodeInit, EpisodeStep, PTL DEF FallbackSpec
=============================================================================

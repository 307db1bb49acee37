-------------------------- MODULE PrWorkflowProofs --------------------------
(***************************************************************************)
(* The safety of a pull request's way from its request to the merge or the *)
(* handoff, for any number of attempts and any bounds on people and faults.*)
(*                                                                         *)
(* The argument: a report is written once, by a working agent, and nothing *)
(* rewrites it (Kept); the host takes a completion's steps on an attempt   *)
(* that was launched and has reported (WorksOnAnAttempt), and what it has  *)
(* published or verified of that attempt on the way stays (Published).     *)
(* Attempts are used in their order (Prefix), and of one pair of head and  *)
(* base only the last branch update was not stopped.                       *)
(***************************************************************************)
EXTENDS PrWorkflow, WellFoundedInduction, TLAPS

(* The stages in which the host works on no attempt.                       *)
Calm == {"idle", "patrol", "deliver", "drive", "refused",
         "block", "block_note", "restore", "restored"}
Merging == {"gate", "merge", "merge_fresh", "merge_target", "merge_now"}
(* The stages behind a report.                                             *)
Judging == {"judge", "say", "accept", "persist"} \cup Merging

Started(a) == /\ a \in AttemptIds
              /\ attempts[a].phase \notin {"unused", "never_launched"}

(* A completion's steps are taken on an attempt that was launched, and once*)
(* its report is judged it has one.                                        *)
WorksOnAnAttempt ==
  /\ host.pc \notin Calm => Started(host.a)
  /\ host.pc \in Judging => Journal.report # "none"

(* What the host has published of the attempt it works on.                 *)
Approved == /\ Journal.report = "approved" /\ Journal.verified = "passed"
            /\ said[host.a].result = 1
(* What a look at GitHub showed of it, which people cannot take back.      *)
Backed == \/ said[host.a].result > 0
          \/ Journal.report = "stale_head"
          \/ Waiting(pr.labels)
Published ==
  /\ host.pc = "accept" => /\ said[host.a].result = 1
                           /\ Journal.report = "approved" => Journal.verified = "passed"
  /\ host.pc \in Merging => Approved
  /\ host.pc = "repair_say" => said[host.a].result = 0
  /\ host.pc = "persist" => Backed

(* The pull request as the host left it.                                   *)
Prepared ==
  /\ host.pc \in {"release", "hand_labels"} => ~pr.draft
  /\ host.pc = "queue_move" => "implement" \in pr.labels

Quiet == {"idle", "gone"}
ReportersAreQuiet ==
  \A a \in AttemptIds : attempts[a].report # "none" => attempts[a].agent \in Quiet

(* Attempts are used in their order.                                       *)
Prefix == \A a, b \in AttemptIds :
            a < b /\ attempts[a].phase = "unused" => attempts[b].phase = "unused"

OneResult == \A a \in AttemptIds : said[a].result \in {0, 1}

IInv == /\ TypeOK
        /\ WorksOnAnAttempt /\ Published /\ Prepared
        /\ ReportersAreQuiet /\ Prefix /\ OneResult /\ OneUpdatePerPair

-----------------------------------------------------------------------------
(* What a step leaves of a journal: who it is, what it reported, what was  *)
(* verified of it, and that it was launched, or that it never was.         *)
Kept(j, k) ==
  /\ k.role = j.role /\ k.head = j.head /\ k.base = j.base
  /\ k.phase = "unused" <=> j.phase = "unused"
  /\ k.phase = "never_launched" <=> j.phase = "never_launched"
  /\ j.stopped => k.stopped
  /\ j.verified # "none" => k.verified = j.verified
  /\ j.agent \in Quiet => k.agent \in Quiet
  /\ k.report # j.report => j.agent \notin Quiet /\ k.agent = "idle"

PrKept       == pr' \in PullRequests /\ (pr'.draft => pr.draft)
SaidKept     == said' \in [AttemptIds -> Marks] /\ OneResult'
AttemptsKept == /\ attempts' \in [AttemptIds -> AttemptRecords]
                /\ \A a \in AttemptIds : Kept(attempts[a], attempts'[a])

(* Where most steps leave the host: at rest, or at a stage that asks for   *)
(* nothing more than an attempt.                                           *)
Plain == Stages \ (Judging \cup {"repair_say", "release", "hand_labels", "queue_move"})
Rests  == host' \in Hosts /\ host'.pc \in Calm
Onward == /\ host' \in Hosts /\ host'.a = host.a
          /\ host.pc \notin Calm /\ host'.pc \in Plain
HostPlain == Rests \/ Onward

LEMMA TypedParts ==
  ASSUME TypeOK
  PROVE  /\ pr \in PullRequests /\ said \in [AttemptIds -> Marks]
         /\ attempts \in [AttemptIds -> AttemptRecords] /\ host \in Hosts
         /\ spent \in Budgets
BY DEF TypeOK

LEMMA KeptStays ==
  ASSUME NEW j PROVE Kept(j, j)
BY DEF Kept

LEMMA StartedStays ==
  ASSUME AttemptsKept, NEW a, Started(a)
  PROVE  Started(a)'
BY DEF AttemptsKept, Started, Kept

(* The parts of the invariant that only the journals decide.               *)
LEMMA JournalsKeep ==
  ASSUME IInv, AttemptsKept
  PROVE  ReportersAreQuiet' /\ Prefix' /\ OneUpdatePerPair'
<1>1. ReportersAreQuiet'
  <2> SUFFICES ASSUME NEW a \in AttemptIds, attempts'[a].report # "none"
               PROVE  attempts'[a].agent \in Quiet
    BY DEF ReportersAreQuiet
  <2>1. Kept(attempts[a], attempts'[a])
    BY DEF AttemptsKept
  <2>2. attempts[a].report # "none" => attempts[a].agent \in Quiet
    BY DEF IInv, ReportersAreQuiet
  <2> QED
    BY <2>1, <2>2 DEF Kept, Quiet
<1>2. Prefix'
  BY DEF IInv, Prefix, AttemptsKept, Kept
<1>3. OneUpdatePerPair'
  <2> SUFFICES ASSUME NEW a \in AttemptIds, NEW b \in AttemptIds, a < b,
                      {attempts'[a].role, attempts'[b].role} = {"branch-update"},
                      {attempts'[a].phase, attempts'[b].phase}
                        \cap {"unused", "never_launched"} = {},
                      attempts'[a].head = attempts'[b].head,
                      attempts'[a].base = attempts'[b].base
               PROVE  attempts'[a].stopped
    BY DEF OneUpdatePerPair
  <2>1. Kept(attempts[a], attempts'[a]) /\ Kept(attempts[b], attempts'[b])
    BY DEF AttemptsKept
  <2>2. {attempts[a].role, attempts[b].role} = {"branch-update"}
    BY <2>1 DEF Kept
  <2>3. {attempts[a].phase, attempts[b].phase} \cap {"unused", "never_launched"} = {}
    BY <2>1 DEF Kept
  <2>4. attempts[a].head = attempts[b].head /\ attempts[a].base = attempts[b].base
    BY <2>1 DEF Kept
  <2>5. attempts[a].stopped
    BY <2>2, <2>3, <2>4 DEF IInv, OneUpdatePerPair
  <2> QED
    BY <2>1, <2>5 DEF Kept
<1> QED
  BY <1>1, <1>2, <1>3

(* A step of anybody, from what it does to each variable.                  *)
LEMMA Turn ==
  ASSUME IInv, PrKept, SaidKept, AttemptsKept, host' \in Hosts, spent' \in Budgets,
         WorksOnAnAttempt', Published', Prepared'
  PROVE  IInv'
<1>1. TypeOK'
  BY DEF TypeOK, PrKept, SaidKept, AttemptsKept
<1>2. ReportersAreQuiet' /\ Prefix' /\ OneUpdatePerPair'
  BY JournalsKeep
<1>3. OneResult'
  BY DEF SaidKept
<1> QED
  BY <1>1, <1>2, <1>3 DEF IInv

LEMMA HostTurn ==
  ASSUME IInv, PrKept, SaidKept, AttemptsKept, HostPlain, spent' \in Budgets
  PROVE  IInv'
<1>1. CASE Rests
  <2>1. WorksOnAnAttempt' /\ Published' /\ Prepared'
    BY <1>1 DEF Rests, Calm, Judging, Merging, WorksOnAnAttempt, Published, Prepared
  <2> QED
    BY <1>1, <2>1, Turn DEF Rests
<1>2. CASE Onward
  <2>1. Started(host.a)
    BY <1>2 DEF Onward, IInv, WorksOnAnAttempt
  <2>2. Started(host.a)'
    BY <1>2, <2>1, StartedStays DEF Onward, AttemptsKept, Started, Kept
  <2>3. WorksOnAnAttempt' /\ Published' /\ Prepared'
    BY <1>2, <2>2 DEF Onward, Plain, Judging, Merging, WorksOnAnAttempt, Published, Prepared
  <2> QED
    BY <1>2, <2>3, Turn DEF Onward
<1> QED
  BY <1>1, <1>2 DEF HostPlain

(* A step of somebody else: the host is where it was.                      *)
LEMMA OtherTurn ==
  ASSUME IInv, PrKept, AttemptsKept, UNCHANGED said,
         host' \in Hosts, host'.pc = host.pc, host'.a = host.a, spent' \in Budgets,
         pr.labels \cap Requests \subseteq pr'.labels
  PROVE  IInv'
<1>1. SaidKept
  BY DEF SaidKept, IInv, TypeOK, OneResult
<1>2. host.pc \notin Calm => Started(host.a) /\ Started(host.a)'
  BY DEF IInv, WorksOnAnAttempt, AttemptsKept, Started, Kept
<1>3. host.pc \in Judging => host.pc \notin Calm
  BY DEF Judging, Merging, Calm
<1>4. WorksOnAnAttempt'
  <2>1. ASSUME host.pc \in Judging PROVE attempts'[host.a].report # "none"
    <3>1. /\ host.a \in AttemptIds /\ attempts[host.a].report # "none"
          /\ attempts[host.a].agent \in Quiet
      BY <2>1, <1>2, <1>3 DEF IInv, WorksOnAnAttempt, Started, Journal, ReportersAreQuiet
    <3> QED
      BY <3>1 DEF AttemptsKept, Kept
  <2> QED
    BY <1>2, <2>1 DEF WorksOnAnAttempt, Journal, Started
<1>5. Published'
  <2>1. ASSUME host.pc \in Judging
        PROVE  /\ attempts'[host.a].report = attempts[host.a].report
               /\ attempts[host.a].verified # "none" =>
                    attempts'[host.a].verified = attempts[host.a].verified
    <3>1. /\ host.a \in AttemptIds /\ attempts[host.a].report # "none"
          /\ attempts[host.a].agent \in Quiet
      BY <2>1, <1>2, <1>3 DEF IInv, WorksOnAnAttempt, Started, Journal, ReportersAreQuiet
    <3> QED
      BY <3>1 DEF AttemptsKept, Kept
  <2>2. Published
    BY DEF IInv
  <2>3. host.pc = "accept" => host.pc \in Judging
    BY DEF Judging
  <2>4. host.pc \in Merging => host.pc \in Judging
    BY DEF Judging
  <2>5. host.pc = "persist" => host.pc \in Judging
    BY DEF Judging
  <2>6. Waiting(pr.labels) => Waiting(pr'.labels)
    BY DEF Waiting
  <2>7. ASSUME host.pc = "persist" PROVE Backed'
    <3>1. Backed
      BY <2>2, <2>7 DEF Published
    <3> QED
      BY <2>1, <2>5, <2>6, <2>7, <3>1 DEF Backed, Journal
  <2>8. /\ host.pc = "accept" => /\ said[host.a].result = 1
                                 /\ attempts'[host.a].report = "approved"
                                      => attempts'[host.a].verified = "passed"
        /\ host.pc \in Merging => /\ attempts'[host.a].report = "approved"
                                  /\ attempts'[host.a].verified = "passed"
                                  /\ said[host.a].result = 1
        /\ host.pc = "repair_say" => said[host.a].result = 0
    BY <2>1, <2>2, <2>3, <2>4 DEF Published, Approved, Journal
  <2> QED
    BY <2>7, <2>8 DEF Published, Approved, Journal
<1>6. Prepared'
  <2>1. "implement" \in Requests
    BY DEF Requests
  <2> QED
    BY <2>1 DEF IInv, Prepared, PrKept
<1> QED
  BY <1>1, <1>4, <1>5, <1>6, Turn

-----------------------------------------------------------------------------
(* The pieces of the host's steps.                                         *)
LEMMA EditedIs ==
  ASSUME NEW p \in PullRequests, NEW new \in SUBSET Labels
  PROVE  /\ Edited(p, new) \in PullRequests
         /\ Edited(p, new).labels = new
         /\ Edited(p, new).draft = p.draft
         /\ Edited(p, new).state = p.state
<1>1. p.second + 1 \in Nat /\ p.born \in [Labels -> Nat]
  BY DEF PullRequests
<1>2. Stamped(p.born, p.labels, new, p.second + 1) \in [Labels -> Nat]
  BY <1>1 DEF Stamped
<1>3. (IF new \subseteq p.labels THEN p.second ELSE p.second + 1) \in Nat
  BY DEF PullRequests
<1> QED
  BY <1>2, <1>3 DEF Edited, PullRequests

LEMMA MovedIs ==
  ASSUME TypeOK, NEW off, NEW on \in SUBSET Labels, Moved(off, on)
  PROVE  /\ PrKept /\ pr'.labels = (pr.labels \ off) \cup on
         /\ pr'.draft = pr.draft /\ pr'.state = pr.state
<1> DEFINE new == (pr.labels \ off) \cup on
<1>1. new \in SUBSET Labels /\ pr \in PullRequests
  BY DEF TypeOK, PullRequests
<1>2. pr' = Edited(pr, new)
  BY DEF Moved
<1> HIDE DEF new
<1>3. PrKept /\ pr'.labels = new /\ pr'.draft = pr.draft /\ pr'.state = pr.state
  BY <1>1, <1>2, EditedIs DEF PrKept
<1> QED
  BY <1>3 DEF new

LEMMA CommentedIs ==
  ASSUME TypeOK, Commented
  PROVE  PrKept /\ pr'.labels = pr.labels /\ pr'.draft = pr.draft
BY DEF TypeOK, PullRequests, Commented, PrKept

LEMMA ReadyIs ==
  ASSUME TypeOK, pr' = [pr EXCEPT !.draft = FALSE]
  PROVE  PrKept /\ ~pr'.draft /\ pr'.labels = pr.labels
<1> DEFINE b == FALSE
<1>1. b \in BOOLEAN
  OBVIOUS
<1>2. pr' = [pr EXCEPT !.draft = b]
  OBVIOUS
<1> HIDE DEF b
<1>3. pr' \in PullRequests /\ pr'.draft = b /\ pr'.labels = pr.labels
  BY <1>1, <1>2 DEF TypeOK, PullRequests
<1> QED
  BY <1>3 DEF PrKept, b

LEMMA PrStays ==
  ASSUME TypeOK, UNCHANGED pr PROVE PrKept
BY DEF TypeOK, PrKept

LEMMA SaidStays ==
  ASSUME IInv, UNCHANGED said PROVE SaidKept
BY DEF SaidKept, IInv, TypeOK, OneResult

LEMMA AttemptsStay ==
  ASSUME TypeOK, UNCHANGED attempts PROVE AttemptsKept
BY KeptStays DEF AttemptsKept, TypeOK

LEMMA SmoothIs ==
  ASSUME TypeOK, Smooth PROVE spent' \in Budgets
BY DEF TypeOK, Smooth

(* A mark other than the result's.                                         *)
LEMMA ToldOther ==
  ASSUME IInv, NEW a \in AttemptIds, NEW what \in {"technical", "block", "stop"},
         Told(a, what)
  PROVE  SaidKept
<1>1. ASSUME NEW n \in Nat
      PROVE  /\ [said[a] EXCEPT ![what] = n] \in Marks
             /\ [said[a] EXCEPT ![what] = n].result = said[a].result
  <2>1. said[a] \in Marks
    BY DEF IInv, TypeOK
  <2>2. CASE what = "technical"
    BY <2>1, <2>2 DEF Marks
  <2>3. CASE what = "block"
    BY <2>1, <2>3 DEF Marks
  <2>4. CASE what = "stop"
    BY <2>1, <2>4 DEF Marks
  <2> QED
    BY <2>2, <2>3, <2>4
<1> DEFINE k == [said[a] EXCEPT ![what] = said[a][what] + 1]
<1>2. said[a][what] + 1 \in Nat
  BY DEF IInv, TypeOK, Marks
<1>3. k \in Marks /\ k.result = said[a].result
  BY <1>1, <1>2
<1>4. said' = [said EXCEPT ![a] = k]
  BY DEF Told
<1> HIDE DEF k
<1>5. said' \in [AttemptIds -> Marks]
  BY <1>3, <1>4 DEF IInv, TypeOK
<1>6. \A b \in AttemptIds : said'[b].result = said[b].result
  BY <1>3, <1>4 DEF IInv, TypeOK
<1> QED
  BY <1>5, <1>6 DEF SaidKept, IInv, OneResult

LEMMA ToldResult ==
  ASSUME IInv, NEW a \in AttemptIds, Told(a, "result"), said[a].result = 0
  PROVE  SaidKept /\ said'[a].result = 1
<1>1. said' \in [AttemptIds -> Marks]
  BY DEF IInv, TypeOK, Told, Marks
<1>2. \A b \in AttemptIds : said'[b].result = IF b = a THEN 1 ELSE said[b].result
  BY DEF IInv, TypeOK, Told, Marks
<1> QED
  BY <1>1, <1>2 DEF SaidKept, IInv, OneResult

(* One journal changes.                                                    *)
LEMMA OneChanges ==
  ASSUME TypeOK, NEW a \in AttemptIds, NEW k \in AttemptRecords, Kept(attempts[a], k),
         attempts' = [attempts EXCEPT ![a] = k]
  PROVE  AttemptsKept /\ attempts'[a] = k
<1>1. attempts' \in [AttemptIds -> AttemptRecords]
  BY DEF TypeOK
<1>2. \A b \in AttemptIds : attempts'[b] = IF b = a THEN k ELSE attempts[b]
  BY DEF TypeOK
<1> QED
  BY <1>1, <1>2, KeptStays DEF AttemptsKept

LEMMA WritesPhase ==
  ASSUME TypeOK, Started(host.a),
         Write("phase", "github_persisted") \/ Write("phase", "report_received")
  PROVE  AttemptsKept
<1> PICK p \in {"github_persisted", "report_received"} : Write("phase", p)
  OBVIOUS
<1> DEFINE k == [attempts[host.a] EXCEPT !.phase = p]
<1>1. attempts' = [attempts EXCEPT ![host.a] = k]
  BY DEF Write, TypeOK
<1>2. k \in AttemptRecords /\ Kept(attempts[host.a], k)
  BY DEF TypeOK, Started, AttemptRecords, Kept, Phases
<1> HIDE DEF k
<1> QED
  BY <1>1, <1>2, OneChanges DEF Started

LEMMA WritesHandoff ==
  ASSUME TypeOK, Started(host.a), NEW b \in BOOLEAN, Write("handoff", b)
  PROVE  AttemptsKept
<1> DEFINE k == [attempts[host.a] EXCEPT !.handoff = b]
<1>1. attempts' = [attempts EXCEPT ![host.a] = k]
  BY DEF Write, TypeOK
<1>2. k \in AttemptRecords /\ Kept(attempts[host.a], k)
  BY DEF TypeOK, Started, AttemptRecords, Kept
<1> HIDE DEF k
<1> QED
  BY <1>1, <1>2, OneChanges DEF Started

LEMMA WritesAccepted ==
  ASSUME TypeOK, Started(host.a), NEW n \in Nat, Write("accepted", n)
  PROVE  /\ AttemptsKept
         /\ attempts'[host.a].report = attempts[host.a].report
         /\ attempts'[host.a].verified = attempts[host.a].verified
<1> DEFINE k == [attempts[host.a] EXCEPT !.accepted = n]
<1>1. attempts' = [attempts EXCEPT ![host.a] = k]
  BY DEF Write, TypeOK
<1>2. /\ k \in AttemptRecords /\ Kept(attempts[host.a], k)
      /\ k.report = attempts[host.a].report /\ k.verified = attempts[host.a].verified
  BY DEF TypeOK, Started, AttemptRecords, Kept
<1> HIDE DEF k
<1> QED
  BY <1>1, <1>2, OneChanges DEF Started

(* Where the host goes.                                                    *)
LEMMA GoIs ==
  ASSUME TypeOK, NEW s \in Stages, Go(s)
  PROVE  host' \in Hosts /\ host'.pc = s /\ host'.a = host.a
BY DEF TypeOK, Hosts, Go

LEMMA GoesOn ==
  ASSUME TypeOK, host.pc \notin Calm, NEW s \in Plain, Go(s)
  PROVE  HostPlain
BY GoIs DEF HostPlain, Onward, Plain

LEMMA ToRests ==
  ASSUME TypeOK, NEW s \in {"idle", "patrol", "deliver", "drive"}, To(s)
  PROVE  Rests
<1>1. s \in Stages /\ s \in Calm /\ "monitor" \in {"monitor", "reconcile", "patrol"}
      /\ "writer" \in Closings /\ {} \in SUBSET Labels
  BY DEF Stages, Calm, Closings
<1>2. host' \in Hosts /\ host'.pc = s
  BY <1>1 DEF TypeOK, Hosts, To
<1> QED
  BY <1>1, <1>2 DEF Rests

LEMMA RestRests ==
  ASSUME TypeOK, NEW s \in {"idle", "drive"}, Rest(s)
  PROVE  Rests
<1>1. host.by \in {"monitor", "reconcile", "patrol"}
  BY DEF TypeOK, Hosts
<1>2. CASE host.by = "monitor"
  BY <1>2, ToRests DEF Rest
<1>3. CASE host.by = "reconcile"
  BY <1>3, ToRests DEF Rest
<1>4. CASE host.by = "patrol"
  BY <1>4, ToRests DEF Rest
<1> QED
  BY <1>1, <1>2, <1>3, <1>4

LEMMA RetainRests ==
  ASSUME TypeOK, Retain PROVE Rests /\ HostPlain /\ AttemptsKept
BY RestRests, AttemptsStay DEF Retain, HostPlain

LEMMA SettleRests ==
  ASSUME TypeOK, Started(host.a), Settle PROVE Rests /\ HostPlain /\ AttemptsKept
<1> DEFINE b == Journal.handoff /\ host.by # "monitor"
<1>1. b \in BOOLEAN
  BY Zenon
<1>2. Write("handoff", b) /\ Rest("drive")
  BY DEF Settle
<1> HIDE DEF b
<1> QED
  BY <1>1, <1>2, RestRests, WritesHandoff DEF HostPlain

LEMMA RefuseRests ==
  ASSUME TypeOK, host.pc \notin Calm, Refuse PROVE HostPlain /\ AttemptsKept
<1>1. AttemptsKept
  BY AttemptsStay DEF Refuse
<1>2. CASE ByReconciliation
  BY <1>1, <1>2, GoIs DEF Refuse, HostPlain, Rests, Stages, Calm
<1>3. CASE ~ByReconciliation
  BY <1>1, <1>3, ToRests DEF Refuse, HostPlain
<1> QED
  BY <1>2, <1>3

LEMMA ClosingIsPlain ==
  ASSUME TypeOK, host.pc \notin Calm, NEW w \in Closings,
         host' = [host EXCEPT !.pc = "close", !.want = w]
  PROVE  HostPlain
<1>1. "close" \in Plain /\ "close" \in Stages
  BY DEF Plain, Stages, Judging, Merging
<1>2. host' \in Hosts /\ host'.pc = "close" /\ host'.a = host.a
  BY <1>1 DEF TypeOK, Hosts
<1> QED
  BY <1>1, <1>2 DEF HostPlain, Onward

LEMMA ThenClosePlain ==
  ASSUME TypeOK, host.pc \notin Calm, NEW w \in Closings, ThenClose(w)
  PROVE  HostPlain
<1>1. CASE ByReconciliation
  BY <1>1, ToRests DEF ThenClose, HostPlain
<1>2. CASE ~ByReconciliation
  BY <1>2, ClosingIsPlain DEF ThenClose
<1> QED
  BY <1>1, <1>2

LEMMA ReleaseStalePlain ==
  ASSUME TypeOK, host.pc \notin Calm, ReleaseStale
  PROVE  HostPlain /\ PrKept
<1>1. HostPlain
  BY ThenClosePlain DEF ReleaseStale, Closings
<1>2. PrKept
  BY MovedIs, PrStays DEF ReleaseStale, Labels, Requests
<1> QED
  BY <1>1, <1>2

-----------------------------------------------------------------------------
(* The review: what becomes of a reviewer's report.                        *)
LEMMA AtWorkStarted ==
  ASSUME IInv, host.pc \notin Calm
  PROVE  TypeOK /\ Started(host.a) /\ host.a \in AttemptIds
BY DEF IInv, WorksOnAnAttempt, Started

LEMMA JudgeSound == IInv /\ Judge => IInv'
<1> SUFFICES ASSUME IInv, Judge PROVE IInv'
  OBVIOUS
<1>1. host.pc = "judge" /\ host.pc \notin Calm /\ host.pc \in Judging
  BY DEF Judge, At, Calm, Judging
<1>2. TypeOK /\ Started(host.a) /\ host.a \in AttemptIds
  BY <1>1, AtWorkStarted
<1>3. SaidKept /\ spent' \in Budgets
  BY <1>2, SaidStays, SmoothIs DEF Judge
<1>4. AttemptsKept /\ attempts'[host.a].report = Journal.report
  <2>1. CASE Journal.report = "approved"
    <3> PICK o \in {"passed", "failed"} :
          Write("verified", IF Journal.verified = "none" THEN o ELSE Journal.verified)
      BY <2>1 DEF Judge
    <3> DEFINE v == IF Journal.verified = "none" THEN o ELSE Journal.verified
               k == [attempts[host.a] EXCEPT !.verified = v]
    <3>1. v \in {"none", "passed", "failed"} /\ (Journal.verified # "none" => v = Journal.verified)
      BY <1>2 DEF TypeOK, AttemptRecords, Journal
    <3>2. attempts' = [attempts EXCEPT ![host.a] = k]
      BY DEF Write, TypeOK
    <3> HIDE DEF v
    <3>3. /\ k \in AttemptRecords /\ Kept(attempts[host.a], k)
          /\ k.report = attempts[host.a].report
      BY <1>2, <3>1 DEF TypeOK, AttemptRecords, Kept, Journal
    <3> HIDE DEF k
    <3> QED
      BY <1>2, <3>2, <3>3, OneChanges DEF Journal
  <2>2. CASE Journal.report # "approved"
    BY <1>2, <2>2, AttemptsStay DEF Judge, Journal
  <2> QED
    BY <2>1, <2>2
<1>5. CASE ~Unchanged
  BY <1>1, <1>2, <1>3, <1>4, <1>5, ReleaseStalePlain, HostTurn DEF Judge
<1>6. CASE Unchanged
  <2>1. PICK again \in SameFindings :
          host' = [host EXCEPT !.pc = Transition(again), !.saw = pr.labels]
    BY <1>6 DEF Judge
  <2>2. Transition(again) \in {"say", "queue", "retry_say", "block_say"}
    BY DEF Transition
  <2>3. Transition(again) \in Stages /\ pr.labels \in SUBSET Labels
    BY <1>2, <2>2 DEF Stages, TypeOK, PullRequests
  <2>4. host' \in Hosts /\ host'.pc = Transition(again) /\ host'.a = host.a
    BY <1>2, <2>1, <2>3 DEF TypeOK, Hosts
  <2>5. PrKept
    BY <1>2, <1>6, PrStays DEF Judge
  <2>6. CASE Transition(again) # "say"
    <3>1. HostPlain
      BY <1>1, <2>2, <2>3, <2>4, <2>6 DEF HostPlain, Onward, Plain, Judging, Merging
    <3> QED
      BY <1>3, <1>4, <2>5, <3>1, HostTurn
  <2>7. CASE Transition(again) = "say"
    <3>1. WorksOnAnAttempt'
      <4>1. Started(host.a)'
        BY <1>2, <1>4, <2>4, StartedStays DEF AttemptsKept, Started, Kept
      <4>2. Journal.report # "none"
        BY <1>1 DEF IInv, WorksOnAnAttempt
      <4> QED
        BY <1>4, <2>4, <4>1, <4>2 DEF WorksOnAnAttempt, Journal, Started
    <3>2. Published' /\ Prepared'
      BY <2>4, <2>7 DEF Published, Prepared, Merging
    <3> QED
      BY <1>3, <1>4, <2>4, <2>5, <3>1, <3>2, Turn
  <2> QED
    BY <2>6, <2>7
<1> QED
  BY <1>5, <1>6

LEMMA SaySound == IInv /\ Say => IInv'
<1> SUFFICES ASSUME IInv, Say PROVE IInv'
  OBVIOUS
<1>1. host.pc = "say" /\ host.pc \notin Calm /\ host.pc \in Judging
  BY DEF Say, At, Calm, Judging
<1>2. TypeOK /\ Started(host.a) /\ host.a \in AttemptIds
  BY <1>1, AtWorkStarted
<1>3. spent' \in Budgets /\ AttemptsKept
  BY <1>2, SmoothIs, AttemptsStay DEF Say
<1>4. CASE ~(SameTarget /\ Managed)
  <2>1. PrKept /\ SaidKept
    BY <1>2, <1>4, PrStays, SaidStays DEF Say
  <2>2. HostPlain
    BY <1>1, <1>2, <1>4, RefuseRests, ThenClosePlain DEF Say, SeenLater, Closings
  <2> QED
    BY <1>3, <2>1, <2>2, HostTurn
<1>5. CASE SameTarget /\ Managed /\ ~Unchanged
  BY <1>1, <1>2, <1>3, <1>5, ReleaseStalePlain, SaidStays, HostTurn DEF Say
<1>6. CASE /\ SameTarget /\ Managed /\ Unchanged
           /\ Journal.report = "approved" /\ Journal.verified # "passed"
  <2>1. "stop_say" \in Plain
    BY DEF Plain, Stages, Judging, Merging
  <2> QED
    BY <1>1, <1>2, <1>3, <1>6, <2>1, GoesOn, PrStays, SaidStays, HostTurn DEF Say
<1>7. CASE /\ SameTarget /\ Managed /\ Unchanged
           /\ ~(Journal.report = "approved" /\ Journal.verified # "passed")
  <2>1. host' = [host EXCEPT !.pc = "accept", !.made = IF ToSay THEN 1 ELSE 0]
    BY <1>7 DEF Say
  <2>2. host' \in Hosts /\ host'.pc = "accept" /\ host'.a = host.a
    BY <1>2, <2>1 DEF TypeOK, Hosts, Stages
  <2>3. IF ToSay THEN Commented /\ Told(host.a, "result") ELSE UNCHANGED <<pr, said>>
    BY <1>7 DEF Say
  <2>4. PrKept /\ SaidKept /\ said'[host.a].result = 1
    <3>1. CASE ToSay
      BY <1>2, <2>3, <3>1, CommentedIs, ToldResult DEF ToSay
    <3>2. CASE ~ToSay
      <4>1. said[host.a].result = 1
        BY <1>2, <3>2 DEF ToSay, IInv, OneResult
      <4> QED
        BY <1>2, <2>3, <3>2, <4>1, PrStays, SaidStays
    <3> QED
      BY <3>1, <3>2
  <2>5. attempts' = attempts
    BY DEF Say
  <2>6. WorksOnAnAttempt'
    BY <1>1, <1>2, <2>2, <2>5 DEF IInv, WorksOnAnAttempt, Journal, Started
  <2>7. Published' /\ Prepared'
    BY <1>7, <2>2, <2>4, <2>5 DEF Published, Prepared, Merging, Journal
  <2> QED
    BY <1>3, <2>2, <2>4, <2>6, <2>7, Turn
<1> QED
  BY <1>4, <1>5, <1>6, <1>7

LEMMA AcceptSound == IInv /\ Accept => IInv'
<1> SUFFICES ASSUME IInv, Accept PROVE IInv'
  OBVIOUS
<1>1. host.pc = "accept" /\ host.pc \notin Calm /\ host.pc \in Judging
  BY DEF Accept, At, Calm, Judging
<1>2. TypeOK /\ Started(host.a) /\ host.a \in AttemptIds
  BY <1>1, AtWorkStarted
<1>3. spent' \in Budgets /\ SaidKept
  BY <1>2, SmoothIs, SaidStays DEF Accept
<1>4. CASE pr.history # Baseline + host.made
  BY <1>1, <1>2, <1>3, <1>4, ReleaseStalePlain, AttemptsStay, HostTurn DEF Accept
<1>5. CASE pr.history = Baseline + host.made
  <2>1. /\ Write("accepted", pr.history) /\ UNCHANGED <<pr, said>>
        /\ host' = [host EXCEPT !.pc = AfterAccept, !.want = "progress"]
    BY <1>5 DEF Accept
  <2>2. pr.history \in Nat
    BY <1>2 DEF TypeOK, PullRequests
  <2>3. /\ AttemptsKept /\ attempts'[host.a].report = attempts[host.a].report
        /\ attempts'[host.a].verified = attempts[host.a].verified
    BY <1>2, <2>1, <2>2, WritesAccepted
  <2>4. AfterAccept \in {"gate", "handoff", "ready", "close"}
    BY DEF AfterAccept
  <2>9. AfterAccept \in Stages /\ "progress" \in Closings
    BY <2>4 DEF Stages, Closings
  <2>5. host' \in Hosts /\ host'.pc = AfterAccept /\ host'.a = host.a
    BY <1>2, <2>1, <2>9 DEF TypeOK, Hosts
  <2>6. PrKept
    BY <1>2, <2>1, PrStays
  <2>7. CASE AfterAccept = "gate"
    <3>1. Journal.report = "approved"
      BY <2>7 DEF AfterAccept
    <3>2. Journal.verified = "passed" /\ said[host.a].result = 1
      BY <1>1, <3>1 DEF IInv, Published
    <3>3. Started(host.a)'
      BY <1>2, <2>3, <2>5 DEF AttemptsKept, Started, Kept
    <3>4. WorksOnAnAttempt' /\ Published' /\ Prepared'
      BY <2>1, <2>3, <2>5, <2>7, <3>1, <3>2, <3>3
         DEF WorksOnAnAttempt, Published, Prepared, Approved, Journal, Started
    <3> QED
      BY <1>3, <2>3, <2>5, <2>6, <3>4, Turn
  <2>8. CASE AfterAccept # "gate"
    <3>1. HostPlain
      BY <1>1, <2>4, <2>5, <2>8 DEF HostPlain, Onward, Plain, Stages, Judging, Merging
    <3> QED
      BY <1>3, <2>3, <2>6, <3>1, HostTurn
  <2> QED
    BY <2>7, <2>8
<1> QED
  BY <1>4, <1>5

LEMMA HumanReadySound == IInv /\ HumanReady => IInv'
<1> SUFFICES ASSUME IInv, HumanReady PROVE IInv'
  OBVIOUS
<1>1. host.pc = "ready" /\ host.pc \notin Calm
  BY DEF HumanReady, At, Calm
<1>2. TypeOK /\ Started(host.a) /\ host.a \in AttemptIds
  BY <1>1, AtWorkStarted
<1>3. spent' \in Budgets /\ SaidKept /\ AttemptsKept
  BY <1>2, SmoothIs, SaidStays, AttemptsStay DEF HumanReady
<1>4. CASE Claimed
  <2>1. pr' = [pr EXCEPT !.draft = FALSE] /\ Go("release") /\ UNCHANGED <<said, attempts>>
    BY <1>4 DEF HumanReady
  <2>2. PrKept /\ ~pr'.draft
    BY <1>2, <2>1, ReadyIs
  <2>3. host' \in Hosts /\ host'.pc = "release" /\ host'.a = host.a
    BY <1>2, <2>1, GoIs DEF Stages
  <2>4. WorksOnAnAttempt' /\ Published' /\ Prepared'
    BY <1>2, <2>1, <2>2, <2>3
       DEF WorksOnAnAttempt, Published, Prepared, Started, Judging, Merging
  <2> QED
    BY <1>3, <2>2, <2>3, <2>4, Turn
<1>5. CASE ~Claimed
  BY <1>1, <1>2, <1>3, <1>5, RefuseRests, PrStays, HostTurn DEF HumanReady
<1> QED
  BY <1>4, <1>5

LEMMA HumanReleaseSound == IInv /\ HumanRelease => IInv'
<1> SUFFICES ASSUME IInv, HumanRelease PROVE IInv'
  OBVIOUS
<1>1. host.pc = "release" /\ host.pc \notin Calm
  BY DEF HumanRelease, At, Calm
<1>2. TypeOK /\ Started(host.a) /\ host.a \in AttemptIds
  BY <1>1, AtWorkStarted
<1>3. spent' \in Budgets /\ SaidKept
  BY <1>2, SmoothIs, SaidStays DEF HumanRelease
<1>4. CASE Claimed
  <2>1. PrKept
    BY <1>2, <1>4, MovedIs DEF HumanRelease
  <2>2. HostPlain /\ AttemptsKept
    BY <1>1, <1>2, <1>4, ThenClosePlain, AttemptsStay DEF HumanRelease, Closings
  <2> QED
    BY <1>3, <2>1, <2>2, HostTurn
<1>5. CASE ~Claimed
  BY <1>1, <1>2, <1>3, <1>5, RefuseRests, PrStays, HostTurn DEF HumanRelease
<1> QED
  BY <1>4, <1>5

LEMMA QueueSound == IInv /\ Queue => IInv'
<1> SUFFICES ASSUME IInv, Queue PROVE IInv'
  OBVIOUS
<1>1. host.pc = "queue" /\ host.pc \notin Calm
  BY DEF Queue, At, Calm
<1>2. TypeOK /\ Started(host.a) /\ host.a \in AttemptIds
  BY <1>1, AtWorkStarted
<1>3. spent' \in Budgets /\ SaidKept
  BY <1>2, SmoothIs, SaidStays DEF Queue
<1>4. CASE ~TargetUnchanged
  BY <1>2, <1>3, <1>4, RetainRests, PrStays, HostTurn DEF Queue
<1>5. CASE TargetUnchanged /\ ~Managed
  BY <1>2, <1>3, <1>5, SettleRests, PrStays, HostTurn DEF Queue
<1>6. CASE TargetUnchanged /\ Managed
  <2>1. Moved({}, {"implement"}) /\ Go("queue_move") /\ UNCHANGED <<said, attempts>>
    BY <1>6 DEF Queue
  <2>2. {"implement"} \in SUBSET Labels
    BY DEF Labels, Requests
  <2>3. PrKept /\ "implement" \in pr'.labels
    BY <1>2, <2>1, <2>2, MovedIs
  <2>4. host' \in Hosts /\ host'.pc = "queue_move" /\ host'.a = host.a
    BY <1>2, <2>1, GoIs DEF Stages
  <2>5. WorksOnAnAttempt' /\ Published' /\ Prepared'
    BY <1>2, <2>1, <2>3, <2>4
       DEF WorksOnAnAttempt, Published, Prepared, Started, Judging, Merging
  <2>6. AttemptsKept
    BY <1>2, <2>1, AttemptsStay
  <2> QED
    BY <1>3, <2>3, <2>4, <2>5, <2>6, Turn
<1> QED
  BY <1>4, <1>5, <1>6

LEMMA QueueMoveSound == IInv /\ QueueMove => IInv'
<1> SUFFICES ASSUME IInv, QueueMove PROVE IInv'
  OBVIOUS
<1>1. host.pc = "queue_move" /\ host.pc \notin Calm
  BY DEF QueueMove, At, Calm
<1>2. TypeOK /\ Started(host.a) /\ host.a \in AttemptIds
  BY <1>1, AtWorkStarted
<1>3. spent' \in Budgets /\ SaidKept
  BY <1>2, SmoothIs, SaidStays DEF QueueMove
<1>4. CASE Claimed
  <2>1. PrKept
    BY <1>2, <1>4, MovedIs DEF QueueMove
  <2> QED
    BY <1>2, <1>3, <1>4, <2>1, SettleRests, HostTurn DEF QueueMove
<1>5. CASE ~Claimed
  BY <1>2, <1>3, <1>5, RetainRests, PrStays, HostTurn DEF QueueMove
<1> QED
  BY <1>4, <1>5

(* A comment made under the claim, before the labels move.                 *)
LEMMA SaysUnderClaim ==
  ASSUME IInv, host.pc \notin Calm, NEW stage, NEW what \in {"technical", "block"},
         NEW next \in Plain, SayUnderClaim(stage, what, next)
  PROVE  IInv'
<1>1. TypeOK /\ Started(host.a) /\ host.a \in AttemptIds
  BY AtWorkStarted
<1>2. spent' \in Budgets /\ AttemptsKept
  BY <1>1, SmoothIs, AttemptsStay DEF SayUnderClaim
<1>3. CASE ~(SameTarget /\ Managed)
  BY <1>1, <1>2, <1>3, RefuseRests, PrStays, SaidStays, HostTurn DEF SayUnderClaim
<1>4. CASE SameTarget /\ Managed /\ ~Unchanged
  BY <1>1, <1>2, <1>4, ReleaseStalePlain, SaidStays, HostTurn DEF SayUnderClaim
<1>5. CASE SameTarget /\ Managed /\ Unchanged
  <2>1. Commented /\ Told(host.a, what) /\ Go(next)
    BY <1>5 DEF SayUnderClaim
  <2>2. PrKept
    BY <1>1, <2>1, CommentedIs
  <2>3. SaidKept
    BY <1>1, <2>1, ToldOther
  <2>4. HostPlain
    BY <1>1, <2>1, GoesOn
  <2> QED
    BY <1>2, <2>2, <2>3, <2>4, HostTurn
<1> QED
  BY <1>3, <1>4, <1>5

LEMMA RetrySaySound == IInv /\ RetrySay => IInv'
<1> SUFFICES ASSUME IInv, RetrySay PROVE IInv'
  OBVIOUS
<1>1. host.pc \notin Calm /\ "retry_move" \in Plain
  BY DEF RetrySay, SayUnderClaim, At, Calm, Plain, Stages, Judging, Merging
<1> QED
  BY <1>1, SaysUnderClaim DEF RetrySay

LEMMA BlockSaySound == IInv /\ BlockSay => IInv'
<1> SUFFICES ASSUME IInv, BlockSay PROVE IInv'
  OBVIOUS
<1>1. host.pc \notin Calm /\ "block_move" \in Plain
  BY DEF BlockSay, SayUnderClaim, At, Calm, Plain, Stages, Judging, Merging
<1> QED
  BY <1>1, SaysUnderClaim DEF BlockSay

LEMMA RetryMoveSound == IInv /\ RetryMove => IInv'
<1> SUFFICES ASSUME IInv, RetryMove PROVE IInv'
  OBVIOUS
<1>1. host.pc = "retry_move" /\ host.pc \notin Calm
  BY DEF RetryMove, At, Calm
<1>2. TypeOK /\ Started(host.a) /\ host.a \in AttemptIds
  BY <1>1, AtWorkStarted
<1>3. spent' \in Budgets /\ SaidKept /\ AttemptsKept
  BY <1>2, SmoothIs, SaidStays, AttemptsStay DEF RetryMove
<1>4. CASE Claimed
  <2>1. {"review"} \in SUBSET Labels /\ "review" \in Closings
    BY DEF Labels, Requests, Closings
  <2>2. PrKept /\ HostPlain
    BY <1>1, <1>2, <1>4, <2>1, MovedIs, ThenClosePlain DEF RetryMove
  <2> QED
    BY <1>3, <2>2, HostTurn
<1>5. CASE ~Claimed
  BY <1>1, <1>2, <1>3, <1>5, RefuseRests, PrStays, HostTurn DEF RetryMove
<1> QED
  BY <1>4, <1>5

LEMMA BlockMoveSound == IInv /\ BlockMove => IInv'
<1> SUFFICES ASSUME IInv, BlockMove PROVE IInv'
  OBVIOUS
<1>1. host.pc = "block_move" /\ host.pc \notin Calm
  BY DEF BlockMove, At, Calm
<1>2. TypeOK /\ Started(host.a) /\ host.a \in AttemptIds
  BY <1>1, AtWorkStarted
<1>3. spent' \in Budgets /\ SaidKept
  BY <1>2, SmoothIs, SaidStays DEF BlockMove
<1>4. CASE Claimed
  <2>1. {"blocked"} \in SUBSET Labels
    BY DEF Labels
  <2>2. PrKept
    BY <1>2, <1>4, <2>1, MovedIs DEF BlockMove
  <2> QED
    BY <1>2, <1>3, <1>4, <2>2, SettleRests, HostTurn DEF BlockMove
<1>5. CASE ~Claimed
  BY <1>2, <1>3, <1>5, RetainRests, PrStays, HostTurn DEF BlockMove
<1> QED
  BY <1>4, <1>5

LEMMA StopSaySound == IInv /\ StopSay => IInv'
<1> SUFFICES ASSUME IInv, StopSay PROVE IInv'
  OBVIOUS
<1>1. host.pc = "stop_say" /\ host.pc \notin Calm
  BY DEF StopSay, At, Calm
<1>2. TypeOK /\ Started(host.a) /\ host.a \in AttemptIds
  BY <1>1, AtWorkStarted
<1>3. spent' \in Budgets /\ AttemptsKept
  BY <1>2, SmoothIs, AttemptsStay DEF StopSay
<1>4. CASE ~StopHolds
  BY <1>1, <1>2, <1>3, <1>4, RefuseRests, PrStays, SaidStays, HostTurn DEF StopSay
<1>5. CASE StopHolds
  <2>1. "stop_move" \in Plain
    BY DEF Plain, Stages, Judging, Merging
  <2>2. HostPlain
    BY <1>1, <1>2, <1>5, <2>1, GoesOn DEF StopSay
  <2>3. PrKept /\ SaidKept
    BY <1>2, <1>5, CommentedIs, ToldOther, PrStays, SaidStays DEF StopSay
  <2> QED
    BY <1>3, <2>2, <2>3, HostTurn
<1> QED
  BY <1>4, <1>5

LEMMA StopMoveSound == IInv /\ StopMove => IInv'
<1> SUFFICES ASSUME IInv, StopMove PROVE IInv'
  OBVIOUS
<1>1. host.pc = "stop_move" /\ host.pc \notin Calm
  BY DEF StopMove, At, Calm
<1>2. TypeOK /\ Started(host.a) /\ host.a \in AttemptIds
  BY <1>1, AtWorkStarted
<1>3. spent' \in Budgets /\ SaidKept
  BY <1>2, SmoothIs, SaidStays DEF StopMove
<1>4. CASE StopHolds
  <2>1. {"review", "blocked"} \in SUBSET Labels
    BY DEF Labels, Requests
  <2>2. PrKept
    BY <1>2, <1>4, <2>1, MovedIs DEF StopMove
  <2> QED
    BY <1>2, <1>3, <1>4, <2>2, SettleRests, HostTurn DEF StopMove
<1>5. CASE ~StopHolds
  BY <1>2, <1>3, <1>5, RetainRests, PrStays, HostTurn DEF StopMove
<1> QED
  BY <1>4, <1>5

LEMMA ReviewSound == IInv /\ ReviewSteps => IInv'
BY JudgeSound, SaySound, AcceptSound, HumanReadySound, HumanReleaseSound, QueueSound,
   QueueMoveSound, RetrySaySound, RetryMoveSound, BlockSaySound, BlockMoveSound,
   StopSaySound, StopMoveSound DEF ReviewSteps

-----------------------------------------------------------------------------
(* The merge and the handoff.                                              *)

(* From the gate on the host goes from one look at the approved review to  *)
(* the next, or gives the merge up.                                        *)
LEMMA MergingOn ==
  ASSUME IInv, host.pc \in Merging, NEW s \in Merging, Go(s), UNCHANGED <<said, attempts>>,
         PrKept, spent' \in Budgets
  PROVE  IInv'
<1>1. host.pc \notin Calm /\ host.pc \in Judging /\ s \in Judging /\ s \in Stages
      /\ s \notin {"accept", "repair_say", "release", "hand_labels", "queue_move", "persist"}
  BY DEF Merging, Judging, Calm, Stages
<1>2. TypeOK /\ Started(host.a) /\ host.a \in AttemptIds
  BY <1>1, AtWorkStarted
<1>3. SaidKept /\ AttemptsKept
  BY <1>2, SaidStays, AttemptsStay
<1>4. host' \in Hosts /\ host'.pc = s /\ host'.a = host.a
  BY <1>1, <1>2, GoIs
<1>5. Approved /\ Journal.report # "none"
  BY <1>1 DEF IInv, Published, WorksOnAnAttempt
<1>6. WorksOnAnAttempt' /\ Published' /\ Prepared'
  BY <1>1, <1>2, <1>4, <1>5
     DEF WorksOnAnAttempt, Published, Prepared, Approved, Journal, Started
<1> QED
  BY <1>3, <1>4, <1>6, Turn

LEMMA RetainsSoundly ==
  ASSUME IInv, Retain, UNCHANGED <<pr, said>>, Smooth
  PROVE  IInv'
BY RetainRests, PrStays, SaidStays, SmoothIs, HostTurn DEF IInv

LEMMA CiFallbackGateSound == IInv /\ CiFallbackGate => IInv'
<1> SUFFICES ASSUME IInv, CiFallbackGate PROVE IInv'
  OBVIOUS
<1>1. TypeOK /\ host.pc \in Merging /\ "merge" \in Merging
  BY DEF CiFallbackGate, At, Merging, IInv
<1>2. CASE Retain
  BY <1>2, RetainsSoundly DEF CiFallbackGate
<1>3. CASE Go("merge") /\ UNCHANGED attempts
  BY <1>1, <1>3, MergingOn, PrStays, SmoothIs DEF CiFallbackGate
<1> QED
  BY <1>2, <1>3 DEF CiFallbackGate

LEMMA MarkReadySound == IInv /\ MarkReadyForMerge => IInv'
<1> SUFFICES ASSUME IInv, MarkReadyForMerge PROVE IInv'
  OBVIOUS
<1>1. TypeOK /\ host.pc \in Merging /\ "merge_fresh" \in Merging
  BY DEF MarkReadyForMerge, At, Merging, IInv
<1>2. CASE host.auto /\ AssertReviewHistoryFresh /\ AssertMergeTargetUnchanged
  <2>1. PrKept
    BY <1>1, <1>2, ReadyIs DEF MarkReadyForMerge
  <2> QED
    BY <1>1, <1>2, <2>1, MergingOn, SmoothIs DEF MarkReadyForMerge
<1>3. CASE ~(host.auto /\ AssertReviewHistoryFresh /\ AssertMergeTargetUnchanged)
  BY <1>3, RetainsSoundly DEF MarkReadyForMerge
<1> QED
  BY <1>2, <1>3

LEMMA AssertFreshSound == IInv /\ AssertFreshBeforeMerge => IInv'
<1> SUFFICES ASSUME IInv, AssertFreshBeforeMerge PROVE IInv'
  OBVIOUS
<1>1. TypeOK /\ host.pc \in Merging /\ "merge_target" \in Merging
  BY DEF AssertFreshBeforeMerge, At, Merging, IInv
<1>2. \/ Go("merge_target") /\ UNCHANGED attempts
      \/ Retain
  BY DEF AssertFreshBeforeMerge
<1>3. PrKept /\ spent' \in Budgets
  BY <1>1, PrStays, SmoothIs DEF AssertFreshBeforeMerge
<1> QED
  BY <1>1, <1>2, <1>3, MergingOn, RetainsSoundly DEF AssertFreshBeforeMerge

LEMMA RevalidateSound == IInv /\ RevalidateMergeTarget => IInv'
<1> SUFFICES ASSUME IInv, RevalidateMergeTarget PROVE IInv'
  OBVIOUS
<1>1. TypeOK /\ host.pc \in Merging /\ "merge_now" \in Merging
  BY DEF RevalidateMergeTarget, At, Merging, IInv
<1>2. \/ Go("merge_now") /\ UNCHANGED attempts
      \/ Retain
  BY DEF RevalidateMergeTarget
<1>3. PrKept /\ spent' \in Budgets
  BY <1>1, PrStays, SmoothIs DEF RevalidateMergeTarget
<1> QED
  BY <1>1, <1>2, <1>3, MergingOn, RetainsSoundly DEF RevalidateMergeTarget

LEMMA MergeReviewedPrSound == IInv /\ MergeReviewedPr => IInv'
<1> SUFFICES ASSUME IInv, MergeReviewedPr PROVE IInv'
  OBVIOUS
<1>1. host.pc = "merge_now" /\ host.pc \notin Calm
  BY DEF MergeReviewedPr, At, Calm
<1>2. TypeOK /\ Started(host.a) /\ host.a \in AttemptIds
  BY <1>1, AtWorkStarted
<1>3. spent' \in Budgets /\ SaidKept
  BY <1>2, SmoothIs, SaidStays DEF MergeReviewedPr
<1>4. CASE MatchHeadCommit /\ Mergeable
  <2>3. pr' = [pr EXCEPT !.state = "merged", !.history = @ + 1]
    BY <1>4 DEF MergeReviewedPr
  <2>5. pr \in PullRequests /\ pr.history + 1 \in Nat
    BY <1>2 DEF TypeOK, PullRequests
  <2> DEFINE n == pr.history + 1
  <2>6. pr' = [pr EXCEPT !.state = "merged", !.history = n] /\ n \in Nat
    BY <2>3, <2>5
  <2> HIDE DEF n
  <2>4. pr' \in PullRequests /\ pr'.draft = pr.draft
    BY <2>5, <2>6 DEF PullRequests
  <2>1. PrKept
    BY <2>4 DEF PrKept
  <2>2. HostPlain
    BY <1>1, <1>2, <1>4, ClosingIsPlain DEF MergeReviewedPr, Closings
  <2> QED
    BY <1>2, <1>3, <1>4, <2>1, <2>2, AttemptsStay, HostTurn DEF MergeReviewedPr
<1>5. CASE ~(MatchHeadCommit /\ Mergeable)
  BY <1>5, RetainsSoundly DEF MergeReviewedPr
<1> QED
  BY <1>4, <1>5

LEMMA HandoffReviewedPrSound == IInv /\ HandoffReviewedPr => IInv'
<1> SUFFICES ASSUME IInv, HandoffReviewedPr PROVE IInv'
  OBVIOUS
<1>1. host.pc = "handoff" /\ host.pc \notin Calm
  BY DEF HandoffReviewedPr, At, Calm
<1>2. TypeOK /\ Started(host.a) /\ host.a \in AttemptIds
  BY <1>1, AtWorkStarted
<1>3. spent' \in Budgets /\ SaidKept /\ AttemptsKept
  BY <1>2, SmoothIs, SaidStays, AttemptsStay DEF HandoffReviewedPr
<1>4. CASE Retain /\ UNCHANGED pr
  BY <1>4, RetainsSoundly DEF HandoffReviewedPr
<1>5. CASE ReleaseStaleClaim
  <2>1. {"review"} \in SUBSET Labels /\ "handoff" \in Closings
    BY DEF Labels, Requests, Closings
  <2>2. PrKept /\ HostPlain
    BY <1>1, <1>2, <1>5, <2>1, MovedIs, ClosingIsPlain DEF ReleaseStaleClaim
  <2> QED
    BY <1>3, <2>2, HostTurn
<1>6. CASE Go("hand_ready") /\ UNCHANGED pr
  <2>1. "hand_ready" \in Plain
    BY DEF Plain, Stages, Judging, Merging
  <2> QED
    BY <1>1, <1>2, <1>3, <1>6, <2>1, GoesOn, PrStays, HostTurn
<1> QED
  BY <1>4, <1>5, <1>6 DEF HandoffReviewedPr

LEMMA HandoffReadySound == IInv /\ HandoffReady => IInv'
<1> SUFFICES ASSUME IInv, HandoffReady PROVE IInv'
  OBVIOUS
<1>1. host.pc = "hand_ready" /\ host.pc \notin Calm
  BY DEF HandoffReady, At, Calm
<1>2. TypeOK /\ Started(host.a) /\ host.a \in AttemptIds
  BY <1>1, AtWorkStarted
<1>3. spent' \in Budgets /\ SaidKept /\ AttemptsKept
  BY <1>2, SmoothIs, SaidStays, AttemptsStay DEF HandoffReady
<1>4. CASE pr.draft /\ ~Open
  BY <1>4, RetainsSoundly DEF HandoffReady
<1>5. CASE ~(pr.draft /\ ~Open)
  <2>1. Go("hand_labels") /\ pr' = [pr EXCEPT !.draft = FALSE] /\ UNCHANGED <<said, attempts>>
    BY <1>5 DEF HandoffReady
  <2>2. PrKept /\ ~pr'.draft
    BY <1>2, <2>1, ReadyIs
  <2>3. host' \in Hosts /\ host'.pc = "hand_labels" /\ host'.a = host.a
    BY <1>2, <2>1, GoIs DEF Stages
  <2>4. WorksOnAnAttempt' /\ Published' /\ Prepared'
    BY <1>2, <2>1, <2>2, <2>3
       DEF WorksOnAnAttempt, Published, Prepared, Started, Judging, Merging
  <2> QED
    BY <1>3, <2>2, <2>3, <2>4, Turn
<1> QED
  BY <1>4, <1>5

LEMMA HandoffLabelsSound == IInv /\ HandoffLabels => IInv'
<1> SUFFICES ASSUME IInv, HandoffLabels PROVE IInv'
  OBVIOUS
<1>1. host.pc = "hand_labels" /\ host.pc \notin Calm
  BY DEF HandoffLabels, At, Calm
<1>2. TypeOK /\ Started(host.a) /\ host.a \in AttemptIds
  BY <1>1, AtWorkStarted
<1>3. spent' \in Budgets /\ SaidKept /\ AttemptsKept
  BY <1>2, SmoothIs, SaidStays, AttemptsStay DEF HandoffLabels
<1>4. "hand_confirm" \in Plain
  BY DEF Plain, Stages, Judging, Merging
<1>5. PrKept /\ HostPlain
  BY <1>1, <1>2, <1>4, MovedIs, GoesOn DEF HandoffLabels
<1> QED
  BY <1>3, <1>5, HostTurn

LEMMA AssertHandoffAppliedSound == IInv /\ AssertHandoffApplied => IInv'
<1> SUFFICES ASSUME IInv, AssertHandoffApplied PROVE IInv'
  OBVIOUS
<1>1. host.pc = "hand_confirm" /\ host.pc \notin Calm
  BY DEF AssertHandoffApplied, At, Calm
<1>2. TypeOK /\ Started(host.a) /\ host.a \in AttemptIds
  BY <1>1, AtWorkStarted
<1>3. spent' \in Budgets /\ SaidKept /\ AttemptsKept
  BY <1>2, SmoothIs, SaidStays, AttemptsStay DEF AssertHandoffApplied
<1>4. CASE TargetUnchanged /\ HumanHandoffComplete /\ AssertReviewHistoryFresh
  <2>1. HostPlain
    BY <1>1, <1>2, <1>4, ClosingIsPlain DEF AssertHandoffApplied, Closings
  <2> QED
    BY <1>2, <1>3, <1>4, <2>1, PrStays, HostTurn DEF AssertHandoffApplied
<1>5. CASE ~(TargetUnchanged /\ HumanHandoffComplete /\ AssertReviewHistoryFresh)
  <2>1. {"progress"} \in SUBSET Labels
    BY DEF Labels
  <2>2. PrKept /\ HostPlain
    BY <1>2, <1>5, <2>1, MovedIs, RetainRests DEF AssertHandoffApplied
  <2> QED
    BY <1>3, <2>2, HostTurn
<1> QED
  BY <1>4, <1>5

LEMMA MergeSound == IInv /\ MergeSteps => IInv'
BY CiFallbackGateSound, MarkReadySound, AssertFreshSound, RevalidateSound,
   MergeReviewedPrSound, HandoffReviewedPrSound, HandoffReadySound, HandoffLabelsSound,
   AssertHandoffAppliedSound DEF MergeSteps

-----------------------------------------------------------------------------
(* The closing of a workspace.                                             *)

LEMMA CompleteLockedSound == IInv /\ CompleteLocked => IInv'
<1> SUFFICES ASSUME IInv, CompleteLocked PROVE IInv'
  OBVIOUS
<1>1. host.pc = "close" /\ host.pc \notin Calm
  BY DEF CompleteLocked, At, Calm
<1>2. TypeOK /\ Started(host.a) /\ host.a \in AttemptIds
  BY <1>1, AtWorkStarted
<1>3. spent' \in Budgets /\ SaidKept /\ PrKept
  BY <1>2, SmoothIs, SaidStays, PrStays DEF CompleteLocked
<1>4. "shut" \in Plain
  BY DEF Plain, Stages, Judging, Merging
<1>5. CASE Retain
  BY <1>5, RetainsSoundly DEF CompleteLocked
<1>6. CASE Go("shut") /\ UNCHANGED attempts
  BY <1>1, <1>2, <1>3, <1>4, <1>6, GoesOn, AttemptsStay, HostTurn
<1>7. CASE /\ Complete(host.a) /\ CompletionPersisted
           /\ Go("persist") /\ Write("phase", "report_received")
  <2>1. host' \in Hosts /\ host'.pc = "persist" /\ host'.a = host.a
    BY <1>2, <1>7, GoIs DEF Stages
  <2>2. AttemptsKept /\ attempts'[host.a].report = attempts[host.a].report
    <3>1. AttemptsKept
      BY <1>2, <1>7, WritesPhase
    <3>2. attempts[host.a].report # "none"
      BY <1>7 DEF Complete
    <3>3. attempts[host.a].agent \in Quiet
      BY <1>2, <3>2 DEF IInv, ReportersAreQuiet
    <3> QED
      BY <1>2, <3>1, <3>3 DEF AttemptsKept, Kept
  <2>3. UNCHANGED <<pr, said>> /\ host.want \in Closings
    BY <1>2 DEF CompleteLocked, TypeOK, Hosts
  <2>4. Backed
    BY <1>7, <2>3 DEF CompletionPersisted, StaleReviewReleaseConfirmed,
                      ResultPersisted, Closings, Backed
  <2>5. Started(host.a)' /\ attempts'[host.a].report # "none"
    BY <1>2, <1>7, <2>1, <2>2, StartedStays DEF AttemptsKept, Started, Kept, Complete
  <2>6. WorksOnAnAttempt'
    BY <2>1, <2>5 DEF WorksOnAnAttempt, Journal, Started
  <2>7. Published' /\ Prepared'
    BY <2>1, <2>2, <2>3, <2>4 DEF Published, Prepared, Merging, Backed, Journal
  <2> QED
    BY <1>3, <2>1, <2>2, <2>6, <2>7, Turn
<1>8. CASE Rest("idle") /\ Write("phase", "report_received")
  BY <1>2, <1>3, <1>8, RestRests, WritesPhase, HostTurn DEF HostPlain
<1> QED
  BY <1>5, <1>6, <1>7, <1>8 DEF CompleteLocked

LEMMA MarkPersistedSound == IInv /\ MarkPersisted => IInv'
<1> SUFFICES ASSUME IInv, MarkPersisted PROVE IInv'
  OBVIOUS
<1>1. host.pc = "persist" /\ host.pc \notin Calm
  BY DEF MarkPersisted, At, Calm
<1>2. TypeOK /\ Started(host.a) /\ host.a \in AttemptIds
  BY <1>1, AtWorkStarted
<1>3. spent' \in Budgets /\ SaidKept /\ PrKept
  BY <1>2, SmoothIs, SaidStays, PrStays DEF MarkPersisted
<1>4. "shut" \in Plain
  BY DEF Plain, Stages, Judging, Merging
<1> QED
  BY <1>1, <1>2, <1>3, <1>4, GoesOn, WritesPhase, HostTurn DEF MarkPersisted

LEMMA CloseWorkspaceSound == IInv /\ CloseWorkspace => IInv'
<1> SUFFICES ASSUME IInv, CloseWorkspace PROVE IInv'
  OBVIOUS
<1>1. host.pc = "shut" /\ host.pc \notin Calm
  BY DEF CloseWorkspace, At, Calm
<1>2. TypeOK /\ Started(host.a) /\ host.a \in AttemptIds
  BY <1>1, AtWorkStarted
<1>3. spent' \in Budgets /\ SaidKept /\ PrKept
  BY <1>2, SmoothIs, SaidStays, PrStays DEF CloseWorkspace
<1>4. AttemptsKept
  <2> DEFINE j == attempts[host.a]
             h == j.handoff /\ (RepairFollows \/ host.by # "monitor")
             o == FALSE
             k == [j EXCEPT !.phase = "workspace_closed", !.open = o, !.agent = "gone",
                            !.handoff = h]
  <2>1. h \in BOOLEAN /\ o \in BOOLEAN /\ j \in AttemptRecords
    BY <1>2, Zenon DEF TypeOK
  <2>2. attempts' = [attempts EXCEPT ![host.a] = k]
    BY DEF CloseWorkspace, Journal
  <2>3. j.phase \notin {"unused", "never_launched"}
    BY <1>2 DEF Started
  <2> HIDE DEF h, o, j
  <2>4. k \in AttemptRecords /\ Kept(j, k)
    BY <2>1, <2>3 DEF AttemptRecords, Kept, Phases, Quiet
  <2> HIDE DEF k
  <2> QED
    BY <1>2, <2>2, <2>4, OneChanges DEF j
<1>5. HostPlain
  <2>1. "queue" \in Plain
    BY DEF Plain, Stages, Judging, Merging
  <2> QED
    BY <1>1, <1>2, <2>1, GoesOn, RestRests DEF CloseWorkspace, HostPlain
<1> QED
  BY <1>3, <1>4, <1>5, HostTurn

-----------------------------------------------------------------------------
(* The completions of a repair and of a branch update.                     *)
LEMMA LeaveRests ==
  ASSUME TypeOK, Started(host.a), Leave PROVE HostPlain /\ AttemptsKept
BY RetainRests, SettleRests DEF Leave

LEMMA ThrowRests ==
  ASSUME TypeOK, Started(host.a), ThrowRepair PROVE HostPlain /\ AttemptsKept
<1>1. CASE Go("refused") /\ UNCHANGED attempts
  <2>1. "refused" \in Stages /\ "refused" \in Calm
    BY DEF Stages, Calm
  <2> QED
    BY <1>1, <2>1, GoIs, AttemptsStay DEF HostPlain, Rests
<1>2. CASE Settle
  BY <1>2, SettleRests
<1> QED
  BY <1>1, <1>2 DEF ThrowRepair

LEMMA CloseWriterPlain ==
  ASSUME TypeOK, host.pc \notin Calm, CloseWriter PROVE HostPlain /\ AttemptsKept
BY ThenClosePlain, AttemptsStay DEF CloseWriter, Closings

LEMMA RepairStagesPlain ==
  {"repair_look", "repair_move", "repair_stop", "repair_stop_move", "update_say"} \subseteq Plain
BY DEF Plain, Stages, Judging, Merging

LEMMA RepairCompletionSound == IInv /\ RepairCompletion => IInv'
<1> SUFFICES ASSUME IInv, RepairCompletion PROVE IInv'
  OBVIOUS
<1>1. host.pc = "repair" /\ host.pc \notin Calm
  BY DEF RepairCompletion, At, Calm
<1>2. TypeOK /\ Started(host.a) /\ host.a \in AttemptIds
  BY <1>1, AtWorkStarted
<1>3. spent' \in Budgets /\ SaidKept /\ PrKept
  BY <1>2, SmoothIs, SaidStays, PrStays DEF RepairCompletion
<1>4. CASE Leave
  BY <1>2, <1>3, <1>4, LeaveRests, HostTurn
<1>5. CASE CloseWriter
  BY <1>1, <1>2, <1>3, <1>5, CloseWriterPlain, HostTurn
<1>6. CASE /\ Go(IF ResultPersisted THEN "repair_move" ELSE "repair_say")
           /\ UNCHANGED attempts
  <2>1. CASE ResultPersisted
    BY <1>1, <1>2, <1>3, <1>6, <2>1, RepairStagesPlain, GoesOn, AttemptsStay, HostTurn
  <2>2. CASE ~ResultPersisted
    <3>1. Go("repair_say")
      BY <1>6, <2>2
    <3>2. host' \in Hosts /\ host'.pc = "repair_say" /\ host'.a = host.a
      BY <1>2, <3>1, GoIs DEF Stages
    <3>3. said[host.a].result = 0 /\ said' = said
      BY <1>2, <2>2 DEF IInv, OneResult, ResultPersisted, RepairCompletion
    <3>4. WorksOnAnAttempt' /\ Published' /\ Prepared'
      BY <1>2, <1>6, <3>2, <3>3
         DEF WorksOnAnAttempt, Published, Prepared, Started, Judging, Merging
    <3> QED
      BY <1>2, <1>3, <1>6, <3>2, <3>4, AttemptsStay, Turn
  <2> QED
    BY <2>1, <2>2
<1>7. CASE /\ Go(IF said[host.a].block > 0 THEN "repair_stop_move" ELSE "repair_stop")
           /\ UNCHANGED attempts
  BY <1>1, <1>2, <1>3, <1>7, RepairStagesPlain, GoesOn, AttemptsStay, HostTurn
<1> QED
  BY <1>4, <1>5, <1>6, <1>7 DEF RepairCompletion

LEMMA RepairSaySound == IInv /\ RepairSay => IInv'
<1> SUFFICES ASSUME IInv, RepairSay PROVE IInv'
  OBVIOUS
<1>1. host.pc = "repair_say" /\ host.pc \notin Calm
  BY DEF RepairSay, At, Calm
<1>2. TypeOK /\ Started(host.a) /\ host.a \in AttemptIds
  BY <1>1, AtWorkStarted
<1>3. spent' \in Budgets
  BY <1>2, SmoothIs DEF RepairSay
<1>4. CASE ~OnResult
  BY <1>2, <1>3, <1>4, ThrowRests, PrStays, SaidStays, HostTurn DEF RepairSay
<1>5. CASE OnResult
  <2>1. Commented /\ Told(host.a, "result") /\ Go("repair_look") /\ UNCHANGED attempts
    BY <1>5 DEF RepairSay
  <2>2. said[host.a].result = 0
    BY <1>1 DEF IInv, Published
  <2>3. PrKept /\ SaidKept /\ AttemptsKept
    BY <1>2, <2>1, <2>2, CommentedIs, ToldResult, AttemptsStay
  <2>4. HostPlain
    BY <1>1, <1>2, <2>1, RepairStagesPlain, GoesOn
  <2> QED
    BY <1>3, <2>3, <2>4, HostTurn
<1> QED
  BY <1>4, <1>5

LEMMA RepairLookSound == IInv /\ RepairLook => IInv'
<1> SUFFICES ASSUME IInv, RepairLook PROVE IInv'
  OBVIOUS
<1>1. host.pc = "repair_look" /\ host.pc \notin Calm
  BY DEF RepairLook, At, Calm
<1>2. TypeOK /\ Started(host.a) /\ host.a \in AttemptIds
  BY <1>1, AtWorkStarted
<1>3. spent' \in Budgets
  BY <1>2, SmoothIs DEF RepairLook
<1>4. CASE OnResult
  BY <1>1, <1>2, <1>3, <1>4, RepairStagesPlain, GoesOn, PrStays, SaidStays, AttemptsStay,
     HostTurn DEF RepairLook
<1>5. CASE ~OnResult
  <2>1. PrKept
    BY <1>2, <1>5 DEF RepairLook, TypeOK, PullRequests, PrKept
  <2>2. said' \in [AttemptIds -> Marks]
    BY <1>2, <1>5 DEF RepairLook, TypeOK, Marks
  <2>3. \A b \in AttemptIds : said'[b].result = IF b = host.a THEN 0 ELSE said[b].result
    BY <1>2, <1>5 DEF RepairLook, TypeOK, Marks
  <2>4. SaidKept
    BY <2>2, <2>3 DEF SaidKept, IInv, OneResult
  <2> QED
    BY <1>2, <1>3, <1>5, <2>1, <2>4, LeaveRests, HostTurn DEF RepairLook
<1> QED
  BY <1>4, <1>5

LEMMA RepairMoveSound == IInv /\ RepairMove => IInv'
<1> SUFFICES ASSUME IInv, RepairMove PROVE IInv'
  OBVIOUS
<1>1. host.pc = "repair_move" /\ host.pc \notin Calm
  BY DEF RepairMove, At, Calm
<1>2. TypeOK /\ Started(host.a) /\ host.a \in AttemptIds
  BY <1>1, AtWorkStarted
<1>3. spent' \in Budgets /\ SaidKept
  BY <1>2, SmoothIs, SaidStays DEF RepairMove
<1>4. CASE OnResult
  <2>1. {"review"} \in SUBSET Labels
    BY DEF Labels, Requests
  <2> QED
    BY <1>1, <1>2, <1>3, <1>4, <2>1, MovedIs, CloseWriterPlain, HostTurn DEF RepairMove
<1>5. CASE ~OnResult
  BY <1>2, <1>3, <1>5, ThrowRests, PrStays, HostTurn DEF RepairMove
<1> QED
  BY <1>4, <1>5

LEMMA RepairStopSound == IInv /\ RepairStop => IInv'
<1> SUFFICES ASSUME IInv, RepairStop PROVE IInv'
  OBVIOUS
<1>1. host.pc = "repair_stop" /\ host.pc \notin Calm
  BY DEF RepairStop, At, Calm
<1>2. TypeOK /\ Started(host.a) /\ host.a \in AttemptIds
  BY <1>1, AtWorkStarted
<1>3. spent' \in Budgets
  BY <1>2, SmoothIs DEF RepairStop
<1>4. CASE ~OnResult
  BY <1>2, <1>3, <1>4, ThrowRests, PrStays, SaidStays, HostTurn DEF RepairStop
<1>5. CASE OnResult
  BY <1>1, <1>2, <1>3, <1>5, RepairStagesPlain, GoesOn, CommentedIs, ToldOther, AttemptsStay,
     HostTurn DEF RepairStop
<1> QED
  BY <1>4, <1>5

LEMMA RepairStopMoveSound == IInv /\ RepairStopMove => IInv'
<1> SUFFICES ASSUME IInv, RepairStopMove PROVE IInv'
  OBVIOUS
<1>1. host.pc = "repair_stop_move" /\ host.pc \notin Calm
  BY DEF RepairStopMove, At, Calm
<1>2. TypeOK /\ Started(host.a) /\ host.a \in AttemptIds
  BY <1>1, AtWorkStarted
<1>3. spent' \in Budgets /\ SaidKept
  BY <1>2, SmoothIs, SaidStays DEF RepairStopMove
<1>4. CASE OnResult
  <2>1. {"blocked"} \in SUBSET Labels
    BY DEF Labels
  <2> QED
    BY <1>2, <1>3, <1>4, <2>1, MovedIs, LeaveRests, HostTurn DEF RepairStopMove
<1>5. CASE ~OnResult
  BY <1>2, <1>3, <1>5, ThrowRests, PrStays, HostTurn DEF RepairStopMove
<1> QED
  BY <1>4, <1>5

LEMMA UpdateCompletionSound == IInv /\ UpdateCompletion => IInv'
<1> SUFFICES ASSUME IInv, UpdateCompletion PROVE IInv'
  OBVIOUS
<1>1. host.pc = "update" /\ host.pc \notin Calm
  BY DEF UpdateCompletion, At, Calm
<1>2. TypeOK /\ Started(host.a) /\ host.a \in AttemptIds
  BY <1>1, AtWorkStarted
<1>3. spent' \in Budgets /\ SaidKept
  BY <1>2, SmoothIs, SaidStays DEF UpdateCompletion
<1>4. ASSUME UpdateHandled PROVE HostPlain /\ AttemptsKept
  <2>1. AttemptsKept
    BY <1>2, <1>4, AttemptsStay DEF UpdateHandled
  <2>2. CASE To("patrol")
    BY <1>2, <2>1, <2>2, ToRests DEF HostPlain
  <2>3. CASE Go("update_say")
    BY <1>1, <1>2, <2>1, <2>3, RepairStagesPlain, GoesOn
  <2> QED
    BY <1>4, <2>1, <2>2, <2>3 DEF UpdateHandled
<1>5. ASSUME Moved({"progress"}, {"review"}) PROVE PrKept
  <2>1. {"review"} \in SUBSET Labels
    BY DEF Labels, Requests
  <2> QED
    BY <1>2, <1>5, <2>1, MovedIs
<1>6. CASE UNCHANGED pr /\ (Leave \/ CloseWriter \/ UpdateHandled \/ Refuse)
  BY <1>1, <1>2, <1>3, <1>4, <1>6, LeaveRests, CloseWriterPlain, RefuseRests, PrStays, HostTurn
<1>7. CASE Moved({"progress"}, {"review"}) /\ UpdateHandled
  BY <1>3, <1>4, <1>5, <1>7, HostTurn
<1> QED
  BY <1>6, <1>7 DEF UpdateCompletion

LEMMA UpdateSaySound == IInv /\ UpdateSay => IInv'
<1> SUFFICES ASSUME IInv, UpdateSay PROVE IInv'
  OBVIOUS
<1>1. host.pc = "update_say" /\ host.pc \notin Calm
  BY DEF UpdateSay, At, Calm
<1>2. TypeOK /\ Started(host.a) /\ host.a \in AttemptIds
  BY <1>1, AtWorkStarted
<1>3. spent' \in Budgets
  BY <1>2, SmoothIs DEF UpdateSay
<1>4. CASE Retain /\ UNCHANGED <<pr, said>>
  BY <1>4, RetainsSoundly DEF UpdateSay
<1>5. CASE CloseWriter /\ UNCHANGED <<pr, said>>
  BY <1>1, <1>2, <1>3, <1>5, CloseWriterPlain, PrStays, SaidStays, HostTurn
<1>6. CASE /\ Commented /\ Told(host.a, "result") /\ CloseWriter
           /\ ~ResultPersisted
  <2>1. said[host.a].result = 0
    BY <1>2, <1>6 DEF ResultPersisted, IInv, OneResult
  <2>2. PrKept /\ SaidKept
    BY <1>2, <1>6, <2>1, CommentedIs, ToldResult
  <2> QED
    BY <1>1, <1>2, <1>3, <1>6, <2>2, CloseWriterPlain, HostTurn
<1> QED
  BY <1>4, <1>5, <1>6 DEF UpdateSay

LEMMA CompletionsSound == IInv /\ Completions => IInv'
BY RepairCompletionSound, RepairSaySound, RepairLookSound, RepairMoveSound,
   RepairStopSound, RepairStopMoveSound, UpdateCompletionSound, UpdateSaySound
   DEF Completions

-----------------------------------------------------------------------------
(* The tick before the driver runs.                                        *)

(* A non-empty set of attempts has a first one.                            *)
LEMMA FirstIn ==
  ASSUME NEW S, S \subseteq AttemptIds, S # {}
  PROVE  First(S) \in S
<1>1. S \subseteq Nat
  BY WorkflowAssumption DEF AttemptIds
<1>2. \E i \in S : \A j \in S : <<j, i>> \notin OpToRel(<, Nat)
  BY <1>1, WFMin, NatLessThanWellFounded
<1>3. \A i, j \in S : j < i => <<j, i>> \in OpToRel(<, Nat)
  BY <1>1 DEF OpToRel
<1>4. \E i \in S : \A j \in S : ~(j < i)
  BY <1>2, <1>3, Zenon
<1>5. \E i \in S : \A j \in S : i <= j
  BY <1>1, <1>4
<1> QED
  BY <1>5 DEF First

LEMMA ReleasedKeeps ==
  ASSUME TypeOK, NEW S, \A a \in S : Started(a), attempts' = Released(S, FALSE)
  PROVE  AttemptsKept
<1> DEFINE k(a) == [attempts[a] EXCEPT !.phase = "authority_released", !.agent = "gone",
                                       !.open = attempts[a].open /\ FALSE]
<1>1. ASSUME NEW a \in AttemptIds, a \in S
      PROVE  k(a) \in AttemptRecords /\ Kept(attempts[a], k(a))
  <2> DEFINE j == attempts[a]
             o == attempts[a].open /\ FALSE
             z == [j EXCEPT !.phase = "authority_released", !.agent = "gone", !.open = o]
  <2>1. o \in BOOLEAN /\ j \in AttemptRecords /\ j.phase \notin {"unused", "never_launched"}
    BY <1>1, Zenon DEF TypeOK, Started
  <2> HIDE DEF o, j
  <2>2. z \in AttemptRecords /\ Kept(j, z)
    BY <2>1 DEF AttemptRecords, Kept, Phases, Quiet
  <2> QED
    BY <2>2 DEF z, o, j
<1>2. attempts' = [a \in AttemptIds |-> IF a \in S THEN k(a) ELSE attempts[a]]
  BY DEF Released
<1> HIDE DEF k
<1>3. attempts' \in [AttemptIds -> AttemptRecords]
  BY <1>1, <1>2 DEF TypeOK
<1>4. ASSUME NEW a \in AttemptIds PROVE Kept(attempts[a], attempts'[a])
  BY <1>1, <1>2, KeptStays
<1> QED
  BY <1>3, <1>4 DEF AttemptsKept

LEMMA OwnersStarted ==
  ASSUME NEW a \in Owners PROVE Started(a) /\ a \in AttemptIds
BY DEF Owners, ReleasesOwnership, Started

LEMMA StoppedStarted ==
  ASSUME NEW a \in Stopped PROVE Started(a) /\ a \in AttemptIds /\ attempts[a].agent = "gone"
BY OwnersStarted DEF Stopped, Journals, Live

(* The host takes up an attempt.                                           *)
LEMMA TakesUp ==
  ASSUME IInv, PrKept, SaidKept, AttemptsKept, host' \in Hosts, spent' \in Budgets,
         NEW a, Started(a), host'.a = a, host'.pc \in Plain \cup {"judge"},
         host'.pc = "judge" => attempts[a].report # "none"
  PROVE  IInv'
<1>1. a \in AttemptIds /\ attempts[a].report # "none" => attempts[a].agent \in Quiet
  BY DEF Started, IInv, ReportersAreQuiet
<1>2. Started(a)' /\ (attempts[a].report # "none" => attempts'[a].report # "none")
  BY <1>1 DEF Started, AttemptsKept, Kept
<1>3. WorksOnAnAttempt' /\ Published' /\ Prepared'
  BY <1>2 DEF WorksOnAnAttempt, Published, Prepared, Started, Journal, Plain, Judging, Merging
<1> QED
  BY <1>3, Turn

LEMMA RestsAt ==
  ASSUME TypeOK, NEW s \in Calm, Go(s) PROVE HostPlain
BY GoIs DEF HostPlain, Rests, Calm, Stages

LEMMA GivesUpSoundly ==
  ASSUME IInv, GiveUp, Smooth PROVE IInv'
BY ToRests, PrStays, SaidStays, AttemptsStay, SmoothIs, HostTurn DEF GiveUp, IInv, HostPlain

LEMMA ReconcileWorkAuthoritySound == IInv /\ ReconcileWorkAuthority => IInv'
<1> SUFFICES ASSUME IInv, ReconcileWorkAuthority PROVE IInv'
  OBVIOUS
<1>1. TypeOK /\ PrKept /\ SaidKept /\ spent' \in Budgets
  BY PrStays, SaidStays, SmoothIs DEF IInv, ReconcileWorkAuthority
<1>2. AttemptsKept
  <2> DEFINE S == IF Open THEN Finished ELSE {}
  <2>1. \A a \in S : Started(a)
    BY OwnersStarted DEF Finished
  <2>2. attempts' = Released(S, FALSE)
    BY DEF ReconcileWorkAuthority
  <2> HIDE DEF S
  <2> QED
    BY <1>1, <2>1, <2>2, ReleasedKeeps
<1>3. CASE Go("patrol")
  BY <1>1, <1>2, <1>3, RestsAt, HostTurn DEF Calm
<1>4. CASE /\ Proven # {}
           /\ Handler(First(Proven)) # "patrol"
           /\ host' = [host EXCEPT !.pc = Handler(First(Proven)), !.a = First(Proven),
                                   !.by = "reconcile", !.saw = pr.labels, !.head = pr.head]
  <2> DEFINE a == First(Proven)
             h == Handler(First(Proven))
  <2>1. Proven \subseteq AttemptIds
    BY StoppedStarted DEF Proven
  <2>2. a \in Proven
    BY <1>4, <2>1, FirstIn
  <2>3. Started(a) /\ a \in AttemptIds
    BY <2>2, StoppedStarted DEF Proven
  <2>4. /\ h \in {"repair", "update", "judge", "refused"}
        /\ h = "judge" => attempts[a].report # "none"
    BY <1>4 DEF Handler
  <2>5. /\ pr.labels \in SUBSET Labels /\ pr.head \in Nat
        /\ a \in {0} \cup AttemptIds /\ h \in Stages
    BY <1>1, <2>3, <2>4 DEF TypeOK, PullRequests, Stages
  <2>6. host' = [host EXCEPT !.pc = h, !.a = a, !.by = "reconcile",
                               !.saw = pr.labels, !.head = pr.head]
    BY <1>4
  <2> HIDE DEF a, h
  <2>7. host' \in Hosts /\ host'.pc = h /\ host'.a = a
    BY <1>1, <2>5, <2>6 DEF TypeOK, Hosts
  <2>8. CASE h = "refused"
    BY <1>1, <1>2, <2>7, <2>8, HostTurn DEF HostPlain, Rests, Calm
  <2>9. CASE h # "refused"
    <3>1. h \in Plain \cup {"judge"}
      BY <2>4, <2>9 DEF Plain, Stages, Judging, Merging
    <3> QED
      BY <1>1, <1>2, <2>3, <2>4, <2>7, <3>1, TakesUp
  <2> QED
    BY <2>8, <2>9
<1>5. CASE host' = [host EXCEPT !.by = "reconcile", !.saw = pr.labels, !.head = pr.head,
                      !.pc = IF Decide(FALSE) = "block" THEN "block" ELSE "restore"]
  <2> DEFINE s == IF Decide(FALSE) = "block" THEN "block" ELSE "restore"
  <2>1. s \in Stages /\ s \in Calm /\ pr.labels \in SUBSET Labels /\ pr.head \in Nat
    BY <1>1 DEF TypeOK, PullRequests, Stages, Calm
  <2>2. host' = [host EXCEPT !.by = "reconcile", !.saw = pr.labels, !.head = pr.head, !.pc = s]
    BY <1>5
  <2> HIDE DEF s
  <2>3. host' \in Hosts /\ host'.pc = s
    BY <1>1, <2>1, <2>2 DEF TypeOK, Hosts
  <2> QED
    BY <1>1, <1>2, <2>1, <2>3, HostTurn DEF HostPlain, Rests
<1> QED
  BY <1>3, <1>4, <1>5 DEF ReconcileWorkAuthority

LEMMA BlockPutSound == IInv /\ BlockPut => IInv'
<1> SUFFICES ASSUME IInv, BlockPut PROVE IInv'
  OBVIOUS
<1>1. TypeOK /\ spent' \in Budgets
  BY SmoothIs DEF IInv, BlockPut
<1>2. CASE ~Revalidated
  BY <1>2, GivesUpSoundly DEF BlockPut
<1>3. CASE Revalidated
  <2> DEFINE r == host.receipt \/ pr.labels # {"blocked"}
             w == {"blocked"}
  <2>1. /\ pr' = Edited(pr, Blocked(pr.labels)) /\ UNCHANGED <<said, attempts>>
        /\ host' = [host EXCEPT !.pc = "block_note", !.saw = w, !.receipt = r]
    BY <1>3 DEF BlockPut
  <2>2. r \in BOOLEAN /\ w \in SUBSET Labels
    BY Zenon DEF Labels
  <2> HIDE DEF r, w
  <2>3. PrKept
    BY <1>1, <2>1, EditedIs DEF TypeOK, PrKept, Blocked, Labels
  <2>4. host' \in Hosts /\ host'.pc = "block_note"
    BY <1>1, <2>1, <2>2 DEF TypeOK, Hosts, Stages
  <2> QED
    BY <1>1, <2>1, <2>3, <2>4, SaidStays, AttemptsStay, HostTurn DEF HostPlain, Rests, Calm
<1> QED
  BY <1>2, <1>3

LEMMA BlockNoteSound == IInv /\ BlockNote => IInv'
<1> SUFFICES ASSUME IInv, BlockNote PROVE IInv'
  OBVIOUS
<1>1. TypeOK /\ spent' \in Budgets
  BY SmoothIs DEF IInv, BlockNote
<1>2. CASE ~Revalidated
  BY <1>2, GivesUpSoundly DEF BlockNote
<1>3. CASE Revalidated
  <2> DEFINE r == FALSE
             w == {}
  <2>1. /\ Commented /\ UNCHANGED said /\ attempts' = Released(Stopped, FALSE)
        /\ host' = [host EXCEPT !.pc = "patrol", !.by = "monitor", !.a = 0, !.saw = w,
                                !.head = 0, !.made = 0, !.want = "writer", !.receipt = r]
    BY <1>3 DEF BlockNote
  <2>2. r \in BOOLEAN /\ w \in SUBSET Labels
    OBVIOUS
  <2> HIDE DEF r, w
  <2>3. host' \in Hosts /\ host'.pc = "patrol"
    BY <1>1, <2>1, <2>2 DEF TypeOK, Hosts, Stages, Closings
  <2>4. AttemptsKept
    BY <1>1, <2>1, StoppedStarted, ReleasedKeeps
  <2> QED
    BY <1>1, <2>1, <2>3, <2>4, CommentedIs, SaidStays, HostTurn DEF HostPlain, Rests, Calm
<1> QED
  BY <1>2, <1>3

LEMMA RestoreRequestSound == IInv /\ RestoreRequest => IInv'
<1> SUFFICES ASSUME IInv, RestoreRequest PROVE IInv'
  OBVIOUS
<1>1. TypeOK /\ spent' \in Budgets
  BY SmoothIs DEF IInv, RestoreRequest
<1>2. CASE ~Revalidated
  BY <1>2, GivesUpSoundly DEF RestoreRequest
<1>3. CASE Revalidated
  <2> DEFINE roles == IF Journals = {} THEN {} ELSE {attempts[First(Journals)].role}
             new == RestoreRequestLabels(pr.labels, roles)
  <2>1. pr' = Edited(pr, new) /\ Go("restored") /\ UNCHANGED <<said, attempts>>
    BY <1>3 DEF RestoreRequest
  <2> HIDE DEF roles
  <2>2. new \in SUBSET Labels
    BY DEF RestoreRequestLabels, RestoredRequest, Labels, Requests
  <2> HIDE DEF new
  <2>3. PrKept
    BY <1>1, <2>1, <2>2, EditedIs DEF TypeOK, PrKept
  <2>4. HostPlain
    BY <1>1, <2>1, RestsAt DEF Calm
  <2> QED
    BY <1>1, <2>1, <2>3, <2>4, SaidStays, AttemptsStay, HostTurn
<1> QED
  BY <1>2, <1>3

LEMMA CloseStoppedSound == IInv /\ CloseStopped => IInv'
<1> SUFFICES ASSUME IInv, CloseStopped PROVE IInv'
  OBVIOUS
<1>1. TypeOK /\ spent' \in Budgets /\ PrKept /\ SaidKept
  BY SmoothIs, PrStays, SaidStays DEF IInv, CloseStopped
<1>2. HostPlain
  BY <1>1, ToRests DEF CloseStopped, HostPlain
<1>3. AttemptsKept
  BY <1>1, StoppedStarted, ReleasedKeeps DEF CloseStopped
<1> QED
  BY <1>1, <1>2, <1>3, HostTurn

LEMMA PatrolAttemptSound == IInv /\ PatrolAttempt => IInv'
<1> SUFFICES ASSUME IInv, PatrolAttempt PROVE IInv'
  OBVIOUS
<1>1. TypeOK /\ spent' \in Budgets /\ PrKept /\ SaidKept
  BY SmoothIs, PrStays, SaidStays DEF IInv, PatrolAttempt
<1>2. ASSUME Go("deliver") PROVE HostPlain
  BY <1>1, <1>2, RestsAt DEF Calm
<1>3. CASE attempts' = Released(LeftOpen, FALSE) /\ Go("deliver")
  <2>1. \A a \in LeftOpen : Started(a)
    BY DEF LeftOpen, Started
  <2> QED
    BY <1>1, <1>2, <1>3, <2>1, ReleasedKeeps, HostTurn
<1>4. CASE /\ \E a \in Patrolled :
                host' = [host EXCEPT !.pc = "close", !.a = a, !.by = "patrol",
                                     !.want = PatrolExpects(a)]
           /\ UNCHANGED attempts
  <2> PICK a \in Patrolled : host' = [host EXCEPT !.pc = "close", !.a = a, !.by = "patrol",
                                                  !.want = PatrolExpects(a)]
    BY <1>4
  <2>1. Started(a) /\ a \in AttemptIds
    BY OwnersStarted DEF Patrolled
  <2>2. PatrolExpects(a) \in Closings
    BY DEF PatrolExpects, Closings
  <2>3. "close" \in Stages /\ "close" \in Plain
    BY DEF Plain, Stages, Judging, Merging
  <2>4. host' \in Hosts /\ host'.pc = "close" /\ host'.a = a
    BY <1>1, <2>1, <2>2, <2>3 DEF TypeOK, Hosts
  <2> QED
    BY <1>1, <1>4, <2>1, <2>3, <2>4, AttemptsStay, TakesUp
<1>5. CASE Go("deliver") /\ UNCHANGED attempts
  BY <1>1, <1>2, <1>5, AttemptsStay, HostTurn
<1> QED
  BY <1>3, <1>4, <1>5 DEF PatrolAttempt

LEMMA DeliverHandoffSound == IInv /\ DeliverHandoff => IInv'
<1> SUFFICES ASSUME IInv, DeliverHandoff PROVE IInv'
  OBVIOUS
<1>1. TypeOK /\ spent' \in Budgets /\ PrKept /\ SaidKept
  BY SmoothIs, PrStays, SaidStays DEF IInv, DeliverHandoff
<1>2. PICK a \in HandedOver :
        LET drop == attempts' = [attempts EXCEPT ![a].handoff = FALSE] /\ Go("drive")
            keep == Go("idle") /\ UNCHANGED attempts
            go(stage) == host' = [host EXCEPT !.pc = stage, !.a = a] /\ UNCHANGED attempts IN
        \/ /\ Go("drive")
           /\ attempts' = [attempts EXCEPT ![a] =
                [@ EXCEPT !.handoff = FALSE, !.open = attempts[a].open /\ NewerOwner(a),
                          !.agent = IF NewerOwner(a) THEN attempts[a].agent ELSE "gone"]]
        \/ ~SettlementProven(a) /\ attempts[a].report # "none" /\ go(CompletionOf(a))
        \/ ~SettlementProven(a) /\ (go("stop_note") \/ go("stop_put"))
        \/ drop \/ keep
  BY DEF DeliverHandoff
<1>3. a \in AttemptIds /\ attempts[a] \in AttemptRecords
  BY <1>1 DEF HandedOver, TypeOK
<1>4. ASSUME ~SettlementProven(a) PROVE Started(a)
  BY <1>3, <1>4 DEF SettlementProven, ReleasesOwnership, Started
<1>5. ASSUME NEW s \in Stages, host' = [host EXCEPT !.pc = s, !.a = a]
      PROVE  host' \in Hosts /\ host'.pc = s /\ host'.a = a
  BY <1>1, <1>3, <1>5 DEF TypeOK, Hosts
<1>6. CASE Go("idle") /\ UNCHANGED attempts
  BY <1>1, <1>6, RestsAt, AttemptsStay, HostTurn DEF Calm
<1>7. CASE attempts' = [attempts EXCEPT ![a].handoff = FALSE] /\ Go("drive")
  <2> DEFINE o == FALSE
             k == [attempts[a] EXCEPT !.handoff = o]
  <2>1. o \in BOOLEAN
    OBVIOUS
  <2>2. attempts' = [attempts EXCEPT ![a] = k]
    BY <1>7
  <2> HIDE DEF o
  <2>3. k \in AttemptRecords /\ Kept(attempts[a], k)
    BY <1>3, <2>1 DEF AttemptRecords, Kept
  <2> HIDE DEF k
  <2> QED
    BY <1>1, <1>3, <1>7, <2>2, <2>3, OneChanges, RestsAt, HostTurn DEF Calm
<1>8. CASE /\ Go("drive")
           /\ attempts' = [attempts EXCEPT ![a] =
                [@ EXCEPT !.handoff = FALSE, !.open = attempts[a].open /\ NewerOwner(a),
                          !.agent = IF NewerOwner(a) THEN attempts[a].agent ELSE "gone"]]
  <2> DEFINE o == FALSE
             p == attempts[a].open /\ NewerOwner(a)
             g == IF NewerOwner(a) THEN attempts[a].agent ELSE "gone"
             j == attempts[a]
             k == [j EXCEPT !.handoff = o, !.open = p, !.agent = g]
  <2>1. o \in BOOLEAN /\ p \in BOOLEAN /\ j \in AttemptRecords
    BY <1>3, Zenon
  <2>2. /\ g \in {"working", "checked", "pushed", "idle", "gone"}
        /\ j.agent \in Quiet => g \in Quiet
    BY <1>3 DEF AttemptRecords, Quiet
  <2>3. attempts' = [attempts EXCEPT ![a] = k]
    BY <1>8
  <2> HIDE DEF o, p, g, j
  <2>4. k \in AttemptRecords
    BY <2>1, <2>2 DEF AttemptRecords
  <2>6. /\ k.role = j.role /\ k.head = j.head /\ k.base = j.base /\ k.phase = j.phase
        /\ k.stopped = j.stopped /\ k.verified = j.verified /\ k.agent = g
        /\ k.report = j.report
    BY <2>1, <2>2 DEF AttemptRecords
  <2>7. Kept(j, k)
    BY <2>2, <2>6 DEF Kept
  <2> HIDE DEF k
  <2>5. AttemptsKept
    BY <1>1, <1>3, <2>3, <2>4, <2>7, OneChanges DEF j
  <2> QED
    BY <1>1, <1>8, <2>5, RestsAt, HostTurn DEF Calm
<1>9. CASE /\ ~SettlementProven(a) /\ attempts[a].report # "none"
           /\ host' = [host EXCEPT !.pc = CompletionOf(a), !.a = a] /\ UNCHANGED attempts
  <2>1. CompletionOf(a) \in {"judge", "repair", "update"}
    BY <1>3 DEF CompletionOf, AttemptRecords, Roles
  <2>2. CompletionOf(a) \in Stages /\ CompletionOf(a) \in Plain \cup {"judge"}
    BY <2>1 DEF Stages, Plain, Judging, Merging
  <2> QED
    BY <1>1, <1>4, <1>5, <1>9, <2>2, AttemptsStay, TakesUp
<1>10. CASE /\ ~SettlementProven(a) /\ UNCHANGED attempts
            /\ \/ host' = [host EXCEPT !.pc = "stop_note", !.a = a]
               \/ host' = [host EXCEPT !.pc = "stop_put", !.a = a]
  <2>1. {"stop_note", "stop_put"} \subseteq Stages \cap Plain
    BY DEF Stages, Plain, Judging, Merging
  <2>2. host' \in Hosts /\ host'.pc \in {"stop_note", "stop_put"} /\ host'.a = a
    BY <1>5, <1>10, <2>1
  <2>3. host'.pc \in Plain /\ host'.pc # "judge"
    BY <2>1, <2>2
  <2> QED
    BY <1>1, <1>4, <1>10, <2>2, <2>3, AttemptsStay, TakesUp
<1> QED
  BY <1>2, <1>6, <1>7, <1>8, <1>9, <1>10

LEMMA NothingHandedOverSound == IInv /\ NothingHandedOver => IInv'
<1> SUFFICES ASSUME IInv, NothingHandedOver PROVE IInv'
  OBVIOUS
<1>1. TypeOK
  BY DEF IInv
<1> QED
  BY <1>1, RestsAt, PrStays, SaidStays, AttemptsStay, SmoothIs, HostTurn
     DEF NothingHandedOver, Calm

LEMMA ReplaceStoppedLabelsSound == IInv /\ ReplaceStoppedLabels => IInv'
<1> SUFFICES ASSUME IInv, ReplaceStoppedLabels PROVE IInv'
  OBVIOUS
<1>1. host.pc = "stop_put" /\ host.pc \notin Calm
  BY DEF ReplaceStoppedLabels, At, Calm
<1>2. TypeOK /\ Started(host.a) /\ host.a \in AttemptIds
  BY <1>1, AtWorkStarted
<1>3. spent' \in Budgets /\ SaidKept /\ AttemptsKept
  BY <1>2, SmoothIs, SaidStays, AttemptsStay DEF ReplaceStoppedLabels
<1>4. PrKept
  BY <1>2, EditedIs DEF ReplaceStoppedLabels, TypeOK, PrKept, Blocked, Labels
<1>5. "stop_note" \in Plain
  BY DEF Plain, Stages, Judging, Merging
<1> QED
  BY <1>1, <1>2, <1>3, <1>4, <1>5, GoesOn, HostTurn DEF ReplaceStoppedLabels

LEMMA ExplainStopSound == IInv /\ ExplainStop => IInv'
<1> SUFFICES ASSUME IInv, ExplainStop PROVE IInv'
  OBVIOUS
<1>1. host.pc = "stop_note" /\ host.pc \notin Calm
  BY DEF ExplainStop, At, Calm
<1>2. TypeOK /\ Started(host.a) /\ host.a \in AttemptIds
  BY <1>1, AtWorkStarted
<1>3. spent' \in Budgets
  BY <1>2, SmoothIs DEF ExplainStop
<1>4. PrKept /\ SaidKept
  BY <1>2, CommentedIs, ToldOther, PrStays, SaidStays DEF ExplainStop
<1>5. AttemptsKept
  <2> DEFINE j == attempts[host.a]
             f == FALSE
             t == TRUE
             p == attempts[host.a].open /\ attempts[host.a].agent = "gone"
             k == [j EXCEPT !.phase = "authority_released", !.handoff = f, !.stopped = t,
                            !.open = p, !.agent = "gone"]
  <2>1. p \in BOOLEAN /\ f \in BOOLEAN /\ t \in BOOLEAN
    BY Zenon
  <2>2. j \in AttemptRecords /\ j.phase \notin {"unused", "never_launched"}
    BY <1>2 DEF TypeOK, Started
  <2>3. attempts' = [attempts EXCEPT ![host.a] = k]
    BY DEF ExplainStop, Journal
  <2>4. t
    OBVIOUS
  <2> HIDE DEF f, t, p, j
  <2>5. k \in AttemptRecords
    BY <2>1, <2>2 DEF AttemptRecords, Phases
  <2>6. /\ k.role = j.role /\ k.head = j.head /\ k.base = j.base
        /\ k.phase = "authority_released" /\ k.verified = j.verified
        /\ k.agent = "gone" /\ k.report = j.report /\ k.stopped = t
    BY <2>1, <2>2 DEF AttemptRecords
  <2>7. Kept(j, k)
    BY <2>2, <2>4, <2>6 DEF Kept, Quiet
  <2> HIDE DEF k
  <2> QED
    BY <1>2, <2>3, <2>5, <2>7, OneChanges DEF j
<1>6. HostPlain
  BY <1>2, ToRests DEF ExplainStop, HostPlain
<1> QED
  BY <1>3, <1>4, <1>5, <1>6, HostTurn

LEMMA AuthoritySound == IInv /\ Authority => IInv'
BY ReconcileWorkAuthoritySound, BlockPutSound, BlockNoteSound, RestoreRequestSound,
   CloseStoppedSound, PatrolAttemptSound, DeliverHandoffSound, NothingHandedOverSound,
   ReplaceStoppedLabelsSound, ExplainStopSound DEF Authority

-----------------------------------------------------------------------------
(* The driver.                                                             *)
LEMMA RequestIs ==
  /\ Request \in Requests
  /\ RoleOf(Request) \in Roles
  /\ RoleOf(Request) = "branch-update" => Request = "update"
<1>1. Request \in Requests
  BY DEF Request, SelectPrRequest, Requests
<1>2. \E r \in Roles : RequestOf[r] = Request
  <2>1. /\ RequestOf["branch-update"] = "update"
        /\ RequestOf["review-repair"] = "implement"
        /\ RequestOf["reviewer"] = "review"
    BY DEF RequestOf, Roles
  <2>2. CASE Request = "update"
    BY <2>1, <2>2 DEF Roles
  <2>3. CASE Request = "implement"
    BY <2>1, <2>3 DEF Roles
  <2>4. CASE Request = "review"
    BY <2>1, <2>4 DEF Roles
  <2> QED
    BY <1>1, <2>2, <2>3, <2>4 DEF Requests
<1>3. RoleOf(Request) \in Roles /\ RequestOf[RoleOf(Request)] = Request
  BY <1>2 DEF RoleOf
<1>4. RequestOf["branch-update"] = "update"
  BY DEF RequestOf, Roles
<1> QED
  BY <1>1, <1>3, <1>4

LEMMA RedirectRequestSound == IInv /\ RedirectRequest => IInv'
<1> SUFFICES ASSUME IInv, RedirectRequest PROVE IInv'
  OBVIOUS
<1>1. TypeOK /\ spent' \in Budgets
  BY SmoothIs DEF IInv, RedirectRequest
<1>2. HostPlain
  BY <1>1, RestsAt DEF RedirectRequest, Calm
<1>3. PICK new \in {{"update"}, {"review"}, {"blocked"}} : Redirect(new)
  BY DEF RedirectRequest
<1>4. new \in SUBSET Labels
  BY DEF Labels, Requests
<1>5. PrKept
  <2> DEFINE e == Edited(pr, new)
  <2>1. e \in PullRequests /\ e.draft = pr.draft
    BY <1>1, <1>4, EditedIs DEF TypeOK
  <2>2. pr' = [e EXCEPT !.history = @ + 1]
    BY <1>3 DEF Redirect
  <2> HIDE DEF e
  <2>3. pr' \in PullRequests /\ pr'.draft = e.draft
    BY <2>1, <2>2 DEF PullRequests
  <2> QED
    BY <2>1, <2>3 DEF PrKept
<1> QED
  BY <1>1, <1>2, <1>3, <1>5, SaidStays, AttemptsStay, HostTurn DEF Redirect

LEMMA NothingToDriveSound == IInv /\ NothingToDrive => IInv'
<1> SUFFICES ASSUME IInv, NothingToDrive PROVE IInv'
  OBVIOUS
<1>1. TypeOK
  BY DEF IInv
<1> QED
  BY <1>1, RestsAt, PrStays, SaidStays, AttemptsStay, SmoothIs, HostTurn
     DEF NothingToDrive, Calm

(* The journals that begin.                                                *)
LEMMA UnusedIs == Unused \in AttemptRecords /\ Unused.report = "none"
<1> DEFINE f == FALSE
<1>1. f \in BOOLEAN
  OBVIOUS
<1>2. Unused = [phase |-> "unused", role |-> "reviewer", head |-> 0, base |-> 0,
                born |-> 0, history |-> 0, accepted |-> 0, out |-> 0,
                report |-> "none", agent |-> "gone", verified |-> "none",
                auto |-> f, open |-> f, handoff |-> f, stopped |-> f]
  BY DEF Unused
<1> HIDE DEF f
<1> QED
  BY <1>1, <1>2 DEF AttemptRecords, Phases, Roles

LEMMA NewIs ==
  ASSUME TypeOK
  PROVE  \A n \in {Launched, NeverLaunched} :
           /\ n \in AttemptRecords
           /\ n.report = "none" /\ n.phase # "unused" /\ n.role = RoleOf(Request)
           /\ n.head = pr.head /\ n.base = pr.base
<1>1. /\ pr.head \in Nat /\ pr.base \in Nat /\ pr.history \in Nat /\ pr.second \in Nat
      /\ host.auto \in BOOLEAN /\ RoleOf(Request) \in Roles /\ pr.born[Request] \in Nat
  BY RequestIs DEF TypeOK, Hosts, PullRequests, Labels
<1> DEFINE t == TRUE
           u == host.auto
           r == RoleOf(Request)
           n == pr.born[Request]
           m == pr.second
<1>2. t \in BOOLEAN /\ u \in BOOLEAN /\ r \in Roles /\ n \in Nat /\ m \in Nat
  BY <1>1
<1>3. /\ Launched = [Unused EXCEPT
           !.phase = "agent_started", !.role = r, !.head = pr.head, !.base = pr.base,
           !.born = n, !.history = pr.history, !.agent = "working",
           !.auto = u, !.open = t, !.handoff = t]
      /\ NeverLaunched = [Unused EXCEPT
           !.phase = "never_launched", !.role = r, !.head = pr.head, !.base = pr.base,
           !.born = m]
  BY DEF Launched, NeverLaunched
<1> HIDE DEF t, u, r, n, m
<1>4. /\ Launched \in AttemptRecords /\ Launched.report = "none"
      /\ Launched.phase # "unused" /\ Launched.role = r
      /\ Launched.head = pr.head /\ Launched.base = pr.base
  <2> DEFINE z == [Unused EXCEPT
           !.phase = "agent_started", !.role = r, !.head = pr.head, !.base = pr.base,
           !.born = n]
             w == [z EXCEPT !.history = pr.history, !.agent = "working",
                            !.auto = u, !.open = t, !.handoff = t]
  <2>1. Launched = w
    BY <1>3
  <2>2. /\ z \in AttemptRecords /\ z.report = "none" /\ z.phase = "agent_started"
        /\ z.role = r /\ z.head = pr.head /\ z.base = pr.base
    BY <1>1, <1>2, UnusedIs DEF AttemptRecords, Phases
  <2> HIDE DEF z
  <2>3. /\ w \in AttemptRecords /\ w.report = z.report /\ w.phase = z.phase
        /\ w.role = z.role /\ w.head = z.head /\ w.base = z.base
    BY <1>1, <1>2, <2>2 DEF AttemptRecords
  <2> QED
    BY <2>1, <2>2, <2>3
<1>5. /\ NeverLaunched \in AttemptRecords /\ NeverLaunched.report = "none"
      /\ NeverLaunched.phase # "unused" /\ NeverLaunched.role = r
      /\ NeverLaunched.head = pr.head /\ NeverLaunched.base = pr.base
  BY <1>1, <1>2, <1>3, UnusedIs DEF AttemptRecords, Phases
<1> QED
  BY <1>4, <1>5 DEF r

(* A launch is of a new attempt; the others only lose their workspaces.    *)
LEMMA LaunchIs ==
  ASSUME TypeOK, Launch
  PROVE  \E a \in AttemptIds, n \in {Launched, NeverLaunched} :
           /\ Fresh(a) /\ LaunchOf(Request) = "launch"
           /\ attempts' \in [AttemptIds -> AttemptRecords]
           /\ attempts'[a] = n
           /\ \A b \in AttemptIds : b # a => Kept(attempts[b], attempts'[b])
<1>1. PICK a \in AttemptIds :
        /\ Fresh(a) /\ LaunchOf(Request) = "launch"
        /\ \/ attempts' = [attempts EXCEPT ![a] = NeverLaunched]
           \/ attempts' = [b \in AttemptIds |->
               CASE b = a -> Launched
                 [] b # a /\ attempts[b].open -> [attempts[b] EXCEPT !.open = FALSE]
                 [] OTHER -> attempts[b]]
  BY DEF Launch
<1>2. Launched \in AttemptRecords /\ NeverLaunched \in AttemptRecords
  BY NewIs
<1>3. CASE attempts' = [attempts EXCEPT ![a] = NeverLaunched]
  <2>1. attempts' \in [AttemptIds -> AttemptRecords] /\ attempts'[a] = NeverLaunched
    BY <1>2, <1>3 DEF TypeOK
  <2>2. \A b \in AttemptIds : b # a => attempts'[b] = attempts[b]
    BY <1>3 DEF TypeOK
  <2> QED
    BY <1>1, <2>1, <2>2, KeptStays
<1>4. CASE attempts' = [b \in AttemptIds |->
               CASE b = a -> Launched
                 [] b # a /\ attempts[b].open -> [attempts[b] EXCEPT !.open = FALSE]
                 [] OTHER -> attempts[b]]
  <2> DEFINE f == FALSE
             shut(b) == [attempts[b] EXCEPT !.open = f]
  <2>1. f \in BOOLEAN
    OBVIOUS
  <2>2. attempts' = [b \in AttemptIds |->
               CASE b = a -> Launched
                 [] b # a /\ attempts[b].open -> shut(b)
                 [] OTHER -> attempts[b]]
    BY <1>4
  <2> HIDE DEF f
  <2>3. ASSUME NEW b \in AttemptIds
        PROVE  shut(b) \in AttemptRecords /\ Kept(attempts[b], shut(b))
    BY <2>1 DEF TypeOK, AttemptRecords, Kept
  <2> HIDE DEF shut
  <2>4. attempts'[a] = Launched
    BY <2>2
  <2>5. \A b \in AttemptIds : b # a => attempts'[b] = shut(b) \/ attempts'[b] = attempts[b]
    BY <2>2
  <2>6. attempts' \in [AttemptIds -> AttemptRecords]
    <3>1. \A b \in AttemptIds : attempts'[b] \in AttemptRecords
      BY <1>2, <2>3, <2>4, <2>5 DEF TypeOK
    <3> DEFINE g(b) == CASE b = a -> Launched
                         [] b # a /\ attempts[b].open -> shut(b)
                         [] OTHER -> attempts[b]
    <3>2. attempts' = [b \in AttemptIds |-> g(b)]
      BY <2>2
    <3> HIDE DEF g
    <3> QED
      BY <3>1, <3>2
  <2> QED
    BY <1>1, <2>3, <2>4, <2>5, <2>6, KeptStays
<1> QED
  BY <1>1, <1>3, <1>4

(* A branch update starts on a pair only beside stopped ones.              *)
LEMMA UpdateStartsOnStopped ==
  ASSUME TypeOK, LaunchOf(Request) = "launch", RoleOf(Request) = "branch-update",
         NEW c \in AttemptIds, attempts[c].role = "branch-update",
         attempts[c].phase # "unused", attempts[c].head = pr.head, attempts[c].base = pr.base
  PROVE  attempts[c].stopped
<1>1. Request = "update"
  BY RequestIs
<1>2. pr.conflict
  BY <1>1 DEF LaunchOf
<1>3. ~PairWasAttempted
  BY <1>1, <1>2 DEF LaunchOf
<1>4. c \in PairAttempts
  BY DEF PairAttempts
<1>5. Restartable(c)
  BY <1>3, <1>4 DEF PairWasAttempted
<1> QED
  BY <1>5 DEF Restartable

LEMMA LaunchSound == IInv /\ Launch => IInv'
<1> SUFFICES ASSUME IInv, Launch PROVE IInv'
  OBVIOUS
<1>1. TypeOK
  BY DEF IInv
<1>2. PICK a \in AttemptIds, n \in {Launched, NeverLaunched} :
        /\ Fresh(a) /\ LaunchOf(Request) = "launch"
        /\ attempts' \in [AttemptIds -> AttemptRecords]
        /\ attempts'[a] = n
        /\ \A b \in AttemptIds : b # a => Kept(attempts[b], attempts'[b])
  BY <1>1, LaunchIs
<1>3. /\ n.report = "none" /\ n.phase # "unused" /\ n.role = RoleOf(Request)
      /\ n.head = pr.head /\ n.base = pr.base
  BY <1>1, NewIs
<1>4. TypeOK'
  <2>1. host' \in Hosts
    BY <1>1, GoIs DEF Launch, Stages
  <2>2. spent' \in Budgets
    BY <1>1, WorkflowAssumption DEF Launch, Spend, TypeOK, Budgets
  <2>3. Claim \in PullRequests
    BY <1>1, EditedIs DEF Claim, TypeOK, Labels
  <2>4. Starting(Claim, Request) \in PullRequests
    BY <2>3 DEF Starting, PullRequests
  <2>5. pr' \in PullRequests
    BY <2>3, <2>4 DEF Launch
  <2>6. said' = said
    BY DEF Launch
  <2> QED
    BY <1>1, <1>2, <2>1, <2>2, <2>5, <2>6 DEF TypeOK
<1>5. WorksOnAnAttempt' /\ Published' /\ Prepared'
  <2>1. host'.pc = "idle"
    BY <1>1, GoIs DEF Launch, Stages
  <2> QED
    BY <2>1 DEF WorksOnAnAttempt, Published, Prepared, Calm, Judging, Merging
<1>6. OneResult'
  BY DEF Launch, IInv, OneResult
<1>7. ReportersAreQuiet'
  <2> SUFFICES ASSUME NEW b \in AttemptIds, attempts'[b].report # "none"
               PROVE  attempts'[b].agent \in Quiet
    BY DEF ReportersAreQuiet
  <2>1. b # a
    BY <1>2, <1>3
  <2>2. Kept(attempts[b], attempts'[b])
    BY <1>2, <2>1
  <2>3. attempts[b].report # "none" => attempts[b].agent \in Quiet
    BY DEF IInv, ReportersAreQuiet
  <2> QED
    BY <2>2, <2>3 DEF Kept, Quiet
<1>8. Prefix'
  <2> SUFFICES ASSUME NEW b \in AttemptIds, NEW c \in AttemptIds, b < c,
                      attempts'[b].phase = "unused"
               PROVE  attempts'[c].phase = "unused"
    BY DEF Prefix
  <2>1. b # a
    BY <1>2, <1>3
  <2>2. attempts[b].phase = "unused"
    BY <1>2, <2>1 DEF Kept
  <2>3. c # a
    BY <1>2, <2>2 DEF Fresh
  <2>4. attempts[c].phase = "unused"
    BY <2>2 DEF IInv, Prefix
  <2> QED
    BY <1>2, <2>3, <2>4 DEF Kept
<1>9. OneUpdatePerPair'
  <2> SUFFICES ASSUME NEW c \in AttemptIds, NEW d \in AttemptIds, c < d,
                      {attempts'[c].role, attempts'[d].role} = {"branch-update"},
                      {attempts'[c].phase, attempts'[d].phase}
                        \cap {"unused", "never_launched"} = {},
                      attempts'[c].head = attempts'[d].head,
                      attempts'[c].base = attempts'[d].base
               PROVE  attempts'[c].stopped
    BY DEF OneUpdatePerPair
  <2>1. CASE c # a /\ d # a
    <3>1. Kept(attempts[c], attempts'[c]) /\ Kept(attempts[d], attempts'[d])
      BY <1>2, <2>1
    <3>2. {attempts[c].role, attempts[d].role} = {"branch-update"}
      BY <3>1 DEF Kept
    <3>3. {attempts[c].phase, attempts[d].phase} \cap {"unused", "never_launched"} = {}
      BY <3>1 DEF Kept
    <3>4. attempts[c].head = attempts[d].head /\ attempts[c].base = attempts[d].base
      BY <3>1 DEF Kept
    <3>5. attempts[c].stopped
      BY <3>2, <3>3, <3>4 DEF IInv, OneUpdatePerPair
    <3> QED
      BY <3>1, <3>5 DEF Kept
  <2>2. CASE d = a
    <3>1. c # a
      BY <2>2 DEF AttemptIds
    <3>2. Kept(attempts[c], attempts'[c])
      BY <1>2, <3>1
    <3>3. attempts'[c].role = "branch-update" /\ RoleOf(Request) = "branch-update"
      BY <1>2, <1>3, <2>2
    <3>4. attempts'[c].head = pr.head /\ attempts'[c].base = pr.base
      BY <1>2, <1>3, <2>2
    <3>5. attempts[c].stopped
      BY <1>1, <1>2, <3>2, <3>3, <3>4, UpdateStartsOnStopped DEF Kept
    <3> QED
      BY <3>2, <3>5 DEF Kept
  <2>3. CASE c = a
    <3>1. d # a
      BY <2>3 DEF AttemptIds
    <3>2. attempts[d].phase = "unused"
      BY <1>2, <2>3 DEF IInv, Prefix, Fresh
    <3>3. attempts'[d].phase = "unused"
      BY <1>2, <3>1, <3>2 DEF Kept
    <3> QED
      BY <3>3
  <2> QED
    BY <2>1, <2>2, <2>3
<1> QED
  BY <1>4, <1>5, <1>6, <1>7, <1>8, <1>9 DEF IInv

LEMMA DriverSound == IInv /\ Driver => IInv'
BY RedirectRequestSound, LaunchSound, NothingToDriveSound DEF Driver

-----------------------------------------------------------------------------
(* The agents, people, and what dies.                                      *)
LEMMA AloneTurn ==
  ASSUME IInv, UNCHANGED <<said, host>>, spent' \in Budgets, PrKept, AttemptsKept,
         pr'.labels = pr.labels
  PROVE  IInv'
<1>1. host' \in Hosts /\ host'.pc = host.pc /\ host'.a = host.a
  BY DEF IInv, TypeOK
<1> QED
  BY <1>1, OtherTurn

LEMMA ReportedKeeps ==
  ASSUME TypeOK, NEW a \in AttemptIds, attempts[a].agent \notin Quiet,
         NEW report \in Reports.reviewer \cup Reports.writer, NEW out \in Nat,
         Agent(a, Reported(attempts[a], report, out))
  PROVE  AttemptsKept
<1> DEFINE j == attempts[a]
           k == [j EXCEPT !.report = report, !.out = out, !.agent = "idle"]
<1>1. j \in AttemptRecords /\ report \in {"none"} \cup Reports.reviewer \cup Reports.writer
  BY DEF TypeOK
<1>2. attempts' = [attempts EXCEPT ![a] = k]
  BY DEF Agent, Reported
<1>3. j.agent \notin Quiet
  OBVIOUS
<1> HIDE DEF j
<1>4. k \in AttemptRecords /\ Kept(j, k)
  BY <1>1, <1>3 DEF AttemptRecords, Kept, Quiet
<1> HIDE DEF k
<1> QED
  BY <1>2, <1>4, OneChanges DEF j

LEMMA AgentKeeps ==
  ASSUME TypeOK, NEW a \in AttemptIds, NEW g \in {"checked", "idle", "gone"},
         attempts[a].agent \in Quiet => g \in Quiet,
         Agent(a, [attempts[a] EXCEPT !.agent = g])
  PROVE  AttemptsKept
<1> DEFINE j == attempts[a]
           k == [j EXCEPT !.agent = g]
<1>1. j \in AttemptRecords /\ (j.agent \in Quiet => g \in Quiet)
  BY DEF TypeOK
<1>2. attempts' = [attempts EXCEPT ![a] = k]
  BY DEF Agent
<1> HIDE DEF j
<1>4. k \in AttemptRecords /\ Kept(j, k)
  BY <1>1 DEF AttemptRecords, Kept
<1> HIDE DEF k
<1> QED
  BY <1>2, <1>4, OneChanges DEF j

LEMMA ReportsAre ==
  /\ {"blocked", "stale_head", "pushed"} \subseteq Reports.reviewer \cup Reports.writer
  /\ \A report \in Outcomes \cap Reports.reviewer :
       report \in Reports.reviewer \cup Reports.writer
BY DEF Reports

LEMMA AgentsSound == IInv /\ Agents => IInv'
<1> SUFFICES ASSUME IInv, NEW a \in AttemptIds,
                    \/ ReviewerReports(a) \/ WriterGivesUp(a) \/ Finalize(a)
                    \/ PushConditionally(a) \/ ReportPush(a)
             PROVE  IInv'
  BY DEF Agents
<1>1. TypeOK /\ pr \in PullRequests /\ pr.head \in Nat /\ 0 \in Nat
      /\ attempts[a] \in AttemptRecords /\ attempts[a].out \in Nat
  BY DEF IInv, TypeOK, PullRequests, AttemptRecords
<1>2. Alone
  BY DEF ReviewerReports, WriterGivesUp, Finalize, PushConditionally, ReportPush
<1>3. UNCHANGED <<said, host>> /\ spent' \in Budgets
  BY <1>1, <1>2, SmoothIs DEF Alone
<1>4. ASSUME attempts[a].agent \in {"working", "checked", "pushed"}
      PROVE  attempts[a].agent \notin Quiet
  BY <1>4 DEF Quiet
<1>5. CASE ReviewerReports(a)
  <2>1. PICK report \in Outcomes \cap Reports.reviewer :
          Agent(a, Reported(attempts[a], report, 0))
    BY <1>5 DEF ReviewerReports
  <2>2. AttemptsKept
    BY <1>1, <1>4, <1>5, <2>1, ReportsAre, ReportedKeeps DEF ReviewerReports
  <2> QED
    BY <1>1, <1>3, <1>5, <2>2, PrStays, AloneTurn DEF ReviewerReports
<1>6. CASE WriterGivesUp(a)
  <2>2. AttemptsKept
    BY <1>1, <1>4, <1>6, ReportsAre, ReportedKeeps DEF WriterGivesUp
  <2> QED
    BY <1>1, <1>3, <1>6, <2>2, PrStays, AloneTurn DEF WriterGivesUp
<1>7. CASE Finalize(a)
  <2>1. \/ Agent(a, [attempts[a] EXCEPT !.agent = "checked"])
        \/ Agent(a, Reported(attempts[a], "stale_head", pr.head))
        \/ Agent(a, Reported(attempts[a], "blocked", 0))
    BY <1>7 DEF Finalize
  <2>2. attempts[a].agent \notin Quiet
    BY <1>4, <1>7 DEF Finalize
  <2>3. AttemptsKept
    BY <1>1, <2>1, <2>2, ReportsAre, ReportedKeeps, AgentKeeps
  <2> QED
    BY <1>1, <1>3, <1>7, <2>3, PrStays, AloneTurn DEF Finalize
<1>8. CASE PushConditionally(a)
  <2>1. attempts[a].agent \notin Quiet
    BY <1>4, <1>8 DEF PushConditionally
  <2>2. CASE Open /\ LeaseHolds(a)
    <3> DEFINE c == pr.conflict /\ ~(/\ attempts[a].role = "branch-update"
                                     /\ attempts[a].base = pr.base)
               h == pr.head + 1
               i == pr.history + 1
               j == attempts[a]
               k == [j EXCEPT !.agent = "pushed", !.out = h]
    <3>1. /\ pr' = [pr EXCEPT !.head = h, !.history = i, !.conflict = c]
          /\ attempts' = [attempts EXCEPT ![a] = k]
      BY <1>8, <2>2 DEF PushConditionally, Agent
    <3>2. c \in BOOLEAN /\ j \in AttemptRecords
      BY <1>1, Zenon
    <3>3. h \in Nat /\ i \in Nat
      BY <1>1 DEF PullRequests
    <3>4. j.agent \notin Quiet
      BY <2>1
    <3> HIDE DEF c, h, i, j
    <3>5. k \in AttemptRecords /\ Kept(j, k)
      BY <3>2, <3>3, <3>4 DEF AttemptRecords, Kept
    <3> HIDE DEF k
    <3>6. AttemptsKept
      BY <1>1, <3>1, <3>5, OneChanges DEF j
    <3>7. pr' \in PullRequests /\ pr'.draft = pr.draft /\ pr'.labels = pr.labels
      BY <1>1, <3>1, <3>2, <3>3 DEF PullRequests
    <3>8. PrKept
      BY <3>7 DEF PrKept
    <3> QED
      BY <1>3, <3>6, <3>7, <3>8, AloneTurn
  <2>3. CASE ~(Open /\ LeaseHolds(a))
    <3>1. \/ Agent(a, Reported(attempts[a], "stale_head", pr.head))
          \/ Agent(a, Reported(attempts[a], "blocked", 0))
      BY <1>8, <2>3 DEF PushConditionally
    <3>2. AttemptsKept
      BY <1>1, <2>1, <3>1, ReportsAre, ReportedKeeps
    <3> QED
      BY <1>1, <1>3, <1>8, <2>3, <3>2, PrStays, AloneTurn DEF PushConditionally
  <2> QED
    BY <2>2, <2>3
<1>9. CASE ReportPush(a)
  <2>1. AttemptsKept
    BY <1>1, <1>4, <1>9, ReportsAre, ReportedKeeps DEF ReportPush
  <2> QED
    BY <1>1, <1>3, <1>9, <2>1, PrStays, AloneTurn DEF ReportPush
<1> QED
  BY <1>5, <1>6, <1>7, <1>8, <1>9

LEMMA PeopleSpend ==
  ASSUME TypeOK, NEW kind, PersonActs(kind)
  PROVE  spent' \in Budgets /\ UNCHANGED said
BY WorkflowAssumption DEF PersonActs, Spend, TypeOK, Budgets

(* What people do to the pull request takes no draft back and no request.  *)
LEMMA PersonTurn ==
  ASSUME IInv, NEW kind, PersonActs(kind), UNCHANGED <<attempts, host>>, PrKept,
         pr.labels \cap Requests \subseteq pr'.labels
  PROVE  IInv'
<1>1. TypeOK /\ host' \in Hosts /\ host'.pc = host.pc /\ host'.a = host.a
  BY DEF IInv, TypeOK
<1>2. UNCHANGED said /\ spent' \in Budgets /\ AttemptsKept
  BY <1>1, PeopleSpend, AttemptsStay
<1> QED
  BY <1>1, <1>2, OtherTurn

LEMMA PeopleSound == IInv /\ People => IInv'
<1> SUFFICES ASSUME IInv, People PROVE IInv'
  OBVIOUS
<1>1. TypeOK /\ pr \in PullRequests /\ pr.labels \in SUBSET Labels /\ host \in Hosts
  BY DEF IInv, TypeOK, PullRequests
<1>2. ASSUME NEW l \in Requests \cup {"blocked"}, Relabels(l) PROVE IInv'
  <2>1. pr.labels \cup {l} \in SUBSET Labels
    BY <1>1 DEF Labels
  <2>2. PrKept /\ pr.labels \subseteq pr'.labels
    BY <1>1, <1>2, <2>1, EditedIs DEF Relabels, PrKept
  <2> QED
    BY <1>2, <2>2, PersonTurn DEF Relabels
<1>3. ASSUME NEW kind, NEW l \in {"progress", "blocked"}, Unlabels(kind, l) PROVE IInv'
  <2>1. PrKept /\ pr'.labels = pr.labels \ {l}
    BY <1>1, <1>3, MovedIs DEF Unlabels
  <2>2. l \notin Requests
    BY <1>3 DEF Requests
  <2> QED
    BY <1>3, <2>1, <2>2, PersonTurn DEF Unlabels
<1>4. CASE Comments
  BY <1>1, <1>4, CommentedIs, PersonTurn DEF Comments
<1>5. CASE Pushes
  <2> DEFINE h == pr.head + 1
             i == pr.history + 1
  <2>1. pr' = [pr EXCEPT !.head = h, !.history = i]
    BY <1>5 DEF Pushes
  <2>2. h \in Nat /\ i \in Nat
    BY <1>1 DEF PullRequests
  <2> HIDE DEF h, i
  <2>3. pr' \in PullRequests /\ pr'.draft = pr.draft /\ pr'.labels = pr.labels
    BY <1>1, <2>1, <2>2 DEF PullRequests
  <2> QED
    BY <1>5, <2>3, PersonTurn DEF Pushes, PrKept
<1>6. CASE BaseMoves
  <2> DEFINE h == pr.base + 1
             i == pr.history + 1
             t == TRUE
  <2>1. pr' = [pr EXCEPT !.base = h, !.conflict = t, !.history = i]
    BY <1>6 DEF BaseMoves
  <2>2. h \in Nat /\ i \in Nat /\ t \in BOOLEAN
    BY <1>1 DEF PullRequests
  <2> HIDE DEF h, i, t
  <2>3. pr' \in PullRequests /\ pr'.draft = pr.draft /\ pr'.labels = pr.labels
    BY <1>1, <2>1, <2>2 DEF PullRequests
  <2> QED
    BY <1>6, <2>3, PersonTurn DEF BaseMoves, PrKept
<1>7. CASE Closes
  <2> DEFINE i == pr.history + 1
  <2>1. pr' = [pr EXCEPT !.state = "closed", !.history = i]
    BY <1>7 DEF Closes
  <2>2. i \in Nat
    BY <1>1 DEF PullRequests
  <2> HIDE DEF i
  <2>3. pr' \in PullRequests /\ pr'.draft = pr.draft /\ pr'.labels = pr.labels
    BY <1>1, <2>1, <2>2 DEF PullRequests
  <2> QED
    BY <1>7, <2>3, PersonTurn DEF Closes, PrKept
<1>8. CASE TogglesPolicy
  <2> DEFINE u == ~host.auto
  <2>1. host' = [host EXCEPT !.auto = u]
    BY <1>8 DEF TogglesPolicy
  <2>2. u \in BOOLEAN
    BY Zenon
  <2> HIDE DEF u
  <2>3. host' \in Hosts /\ host'.pc = host.pc /\ host'.a = host.a
    BY <1>1, <2>1, <2>2 DEF Hosts
  <2> QED
    BY <1>1, <1>8, <2>3, PeopleSpend, PrStays, AttemptsStay, OtherTurn DEF TogglesPolicy
<1>9. CASE EnablesAgain
  <2>1. host' \in Hosts /\ host'.pc = host.pc /\ host'.a = host.a
    BY <1>1, <1>9 DEF EnablesAgain
  <2>2. AttemptsKept
    <3> DEFINE f == FALSE
               k(a) == [attempts[a] EXCEPT !.handoff = f]
    <3>1. f \in BOOLEAN
      OBVIOUS
    <3>2. attempts' = [a \in AttemptIds |-> k(a)]
      BY <1>9 DEF EnablesAgain
    <3> HIDE DEF f
    <3>3. ASSUME NEW a \in AttemptIds
          PROVE  k(a) \in AttemptRecords /\ Kept(attempts[a], k(a))
      BY <1>1, <3>1 DEF TypeOK, AttemptRecords, Kept
    <3> HIDE DEF k
    <3> QED
      BY <3>2, <3>3 DEF AttemptsKept
  <2> QED
    BY <1>1, <1>9, <2>1, <2>2, PeopleSpend, PrStays, OtherTurn DEF EnablesAgain
<1> QED
  BY <1>2, <1>3, <1>4, <1>5, <1>6, <1>7, <1>8, <1>9 DEF People

LEMMA TickDiesSound == IInv /\ TickDies => IInv'
<1> SUFFICES ASSUME IInv, TickDies PROVE IInv'
  OBVIOUS
<1>1. TypeOK
  BY DEF IInv
<1>2. spent' \in Budgets
  BY <1>1, WorkflowAssumption DEF TickDies, Spend, TypeOK, Budgets
<1> QED
  BY <1>1, <1>2, ToRests, PrStays, SaidStays, AttemptsStay, HostTurn DEF TickDies, HostPlain

LEMMA AgentEndsSound == IInv /\ AgentEnds => IInv'
<1> SUFFICES ASSUME IInv, NEW a \in Owners, NEW how \in {"idle", "gone"},
                    Spend("faults", MaxFaults),
                    Agent(a, [attempts[a] EXCEPT !.agent = how]), UNCHANGED <<pr, said, host>>
             PROVE  IInv'
  BY DEF AgentEnds
<1>1. TypeOK /\ a \in AttemptIds
  BY OwnersStarted DEF IInv
<1>2. spent' \in Budgets
  BY <1>1, WorkflowAssumption DEF Spend, TypeOK, Budgets
<1>3. AttemptsKept
  BY <1>1, AgentKeeps DEF Quiet
<1> QED
  BY <1>1, <1>2, <1>3, PrStays, AloneTurn

-----------------------------------------------------------------------------
LEMMA InvAtFirst == Init => IInv
<1> SUFFICES ASSUME Init PROVE IInv
  OBVIOUS
<1>1. pr \in PullRequests
  <2> PICK asked \in Asked :
       pr = [state |-> "open", draft |-> TRUE, conflict |-> asked = "update",
             head |-> 1, base |-> 1, history |-> 0, labels |-> {asked}, second |-> 1,
             born |-> [l \in Labels |-> IF l = asked THEN 1 ELSE 0]]
    BY DEF Init
  <2> DEFINE t == TRUE
             c == asked = "update"
             s == {asked}
             f == [l \in Labels |-> IF l = asked THEN 1 ELSE 0]
  <2>1. t \in BOOLEAN /\ c \in BOOLEAN
    BY Zenon
  <2>2. s \in SUBSET Labels /\ f \in [Labels -> Nat]
    BY WorkflowAssumption DEF Labels
  <2>3. pr = [state |-> "open", draft |-> t, conflict |-> c,
              head |-> 1, base |-> 1, history |-> 0, labels |-> s, second |-> 1, born |-> f]
    OBVIOUS
  <2> HIDE DEF t, c, s, f
  <2> QED
    BY <2>1, <2>2, <2>3 DEF PullRequests
<1>2. /\ said \in [AttemptIds -> Marks]
      /\ \A a \in AttemptIds : said[a].result = 0
  BY DEF Init, Marks
<1>3. /\ attempts \in [AttemptIds -> AttemptRecords]
      /\ \A a \in AttemptIds : attempts[a] = Unused
  BY UnusedIs DEF Init
<1>4. host \in Hosts /\ host.pc = "idle"
  <2> PICK auto \in MayAutoMerge :
       host = [pc |-> "idle", a |-> 0, saw |-> {}, head |-> 0, made |-> 0, want |-> "writer",
               by |-> "monitor", auto |-> auto, receipt |-> FALSE]
    BY DEF Init
  <2> DEFINE f == FALSE
  <2>1. f \in BOOLEAN /\ auto \in BOOLEAN
    BY WorkflowAssumption
  <2>2. host = [pc |-> "idle", a |-> 0, saw |-> {}, head |-> 0, made |-> 0, want |-> "writer",
                by |-> "monitor", auto |-> auto, receipt |-> f]
    OBVIOUS
  <2> HIDE DEF f
  <2> QED
    BY <2>1, <2>2 DEF Hosts, Stages, Closings
<1>5. spent \in Budgets
  BY WorkflowAssumption DEF Init, Budgets
<1>6. TypeOK
  BY <1>1, <1>2, <1>3, <1>4, <1>5 DEF TypeOK
<1>7. WorksOnAnAttempt /\ Published /\ Prepared
  BY <1>4 DEF WorksOnAnAttempt, Published, Prepared, Calm, Judging, Merging
<1>8. \A a \in AttemptIds : attempts[a].report = "none" /\ attempts[a].phase = "unused"
  BY <1>3, UnusedIs DEF Unused
<1>9. ReportersAreQuiet /\ Prefix /\ OneResult /\ OneUpdatePerPair
  BY <1>2, <1>8 DEF ReportersAreQuiet, Prefix, OneResult, OneUpdatePerPair
<1> QED
  BY <1>6, <1>7, <1>9 DEF IInv

LEMMA InvAlways == IInv /\ [Next]_vars => IInv'
<1> SUFFICES ASSUME IInv, [Next]_vars PROVE IInv'
  OBVIOUS
<1>1. CASE UNCHANGED vars
  <2>1. TypeOK /\ spent' \in Budgets /\ UNCHANGED <<said, host>> /\ pr'.labels = pr.labels
    BY <1>1 DEF vars, IInv, TypeOK
  <2> QED
    BY <1>1, <2>1, PrStays, AttemptsStay, AloneTurn DEF vars
<1> QED
  BY <1>1, ReviewSound, MergeSound, CompleteLockedSound, MarkPersistedSound,
     CloseWorkspaceSound, CompletionsSound, AuthoritySound, DriverSound, AgentsSound, PeopleSound, TickDiesSound,
     AgentEndsSound DEF Next, Tick, ClosureSteps

LEMMA InvIsInvariant == Spec => []IInv
<1>1. Init => IInv
  BY InvAtFirst
<1>2. IInv /\ [Next]_vars => IInv'
  BY InvAlways
<1> QED
  BY <1>1, <1>2, PTL DEF Spec

(* The variables of the workflow keep their types.                         *)
THEOREM TypeCorrect == Spec => []TypeOK
<1>1. IInv => TypeOK
  BY DEF IInv
<1> QED
  BY <1>1, InvIsInvariant, PTL

(* Whatever interrupts a completion and whoever starts it again, an        *)
(* attempt's result is commented at most once.                             *)
THEOREM OneResultAtMost == Spec => []OneResultPerAttempt
<1>1. IInv => OneResultPerAttempt
  BY DEF IInv, OneResult, OneResultPerAttempt
<1> QED
  BY <1>1, InvIsInvariant, PTL

(* One pair of head and base gets a second branch update only after the    *)
(* first was stopped.                                                      *)
THEOREM OneUpdateAtMost == Spec => []OneUpdatePerPair
<1>1. IInv => OneUpdatePerPair
  BY DEF IInv
<1> QED
  BY <1>1, InvIsInvariant, PTL

-----------------------------------------------------------------------------
(* What single steps may do.  All but a few leave the state, never take the*)
(* last label, and persist nothing.                                        *)
Unmerged  == pr'.state = "merged" => pr.state = "merged"
Labelled  == pr'.labels = pr.labels \/ pr'.labels # {}
PrUsual   == Unmerged /\ Labelled
Unclosed  == \A a \in AttemptIds : attempts'[a].phase = "github_persisted"
                                     => attempts[a].phase = "github_persisted"

LEMMA PrPieces ==
  ASSUME TypeOK
  PROVE  /\ UNCHANGED pr => PrUsual
         /\ Commented => PrUsual
         /\ pr' = [pr EXCEPT !.draft = FALSE] => PrUsual
         /\ pr' = [pr EXCEPT !.history = @ + 1] => PrUsual
         /\ \A off, on \in SUBSET Labels :
              Moved(off, on) => Unmerged /\ (on # {} => Labelled)
         /\ \A new \in SUBSET Labels :
              pr' = Edited(pr, new) => Unmerged /\ (new # {} => Labelled)
<1>1. pr \in PullRequests
  BY DEF TypeOK
<1>2. UNCHANGED pr => PrUsual
  BY DEF PrUsual, Unmerged, Labelled
<1>3. ASSUME pr' = [pr EXCEPT !.history = @ + 1] PROVE PrUsual
  BY <1>1, <1>3 DEF PrUsual, Unmerged, Labelled, PullRequests
<1>4. ASSUME pr' = [pr EXCEPT !.draft = FALSE] PROVE PrUsual
  BY <1>1, <1>4 DEF PrUsual, Unmerged, Labelled, PullRequests
<1>5. ASSUME NEW off \in SUBSET Labels, NEW on \in SUBSET Labels, Moved(off, on)
      PROVE  Unmerged /\ (on # {} => Labelled)
  BY <1>5, MovedIs DEF Unmerged, Labelled
<1>6. ASSUME NEW new \in SUBSET Labels, pr' = Edited(pr, new)
      PROVE  Unmerged /\ (new # {} => Labelled)
  BY <1>1, <1>6, EditedIs DEF Unmerged, Labelled
<1> QED
  BY <1>2, <1>3, <1>4, <1>5, <1>6 DEF Commented

LEMMA SomeLabels ==
  /\ {"progress"} \in SUBSET Labels /\ {"review"} \in SUBSET Labels
  /\ {"implement"} \in SUBSET Labels /\ {"blocked"} \in SUBSET Labels
  /\ {} \in SUBSET Labels /\ Labels \in SUBSET Labels
  /\ Requests \cup {"progress"} \in SUBSET Labels
  /\ {"review", "blocked"} \in SUBSET Labels
  /\ {"implement", "update", "progress"} \in SUBSET Labels
BY DEF Labels, Requests

LEMMA SomeAdded == {"progress"} # {} /\ {"review"} # {} /\ {"implement"} # {}
                   /\ {"blocked"} # {} /\ {"review", "blocked"} # {}
OBVIOUS

LEMMA StalePieces ==
  ASSUME TypeOK, ReleaseStale PROVE PrUsual
BY PrPieces, SomeLabels, SomeAdded DEF ReleaseStale, PrUsual

LEMMA PhasePieces ==
  ASSUME TypeOK
  PROVE  /\ UNCHANGED attempts => Unclosed
         /\ \A field \in {"verified", "accepted", "handoff"} :
              \A v : Write(field, v) => Unclosed
         /\ \A S : attempts' = Released(S, FALSE) => Unclosed
<1>1. UNCHANGED attempts => Unclosed
  BY DEF Unclosed
<1>2. ASSUME NEW field \in {"verified", "accepted", "handoff"}, NEW v, Write(field, v)
      PROVE  Unclosed
  <2>1. attempts' = [attempts EXCEPT ![host.a][field] = v]
    BY <1>2 DEF Write
  <2>2. ASSUME NEW a \in AttemptIds PROVE attempts'[a].phase = attempts[a].phase
    <3>1. attempts[a] \in AttemptRecords
      BY DEF TypeOK
    <3>2. attempts'[a] = IF a = host.a THEN [attempts[a] EXCEPT ![field] = v] ELSE attempts[a]
      BY <2>1 DEF TypeOK
    <3>3. [attempts[a] EXCEPT ![field] = v].phase = attempts[a].phase
      BY <3>1, Zenon DEF AttemptRecords
    <3> QED
      BY <3>2, <3>3
  <2> QED
    BY <2>2 DEF Unclosed
<1>3. ASSUME NEW S, attempts' = Released(S, FALSE) PROVE Unclosed
  <2> SUFFICES ASSUME NEW a \in AttemptIds, attempts'[a].phase = "github_persisted"
               PROVE  attempts[a].phase = "github_persisted"
    BY DEF Unclosed
  <2>1. attempts[a] \in AttemptRecords
    BY DEF TypeOK
  <2>2. attempts'[a] = IF a \in S
          THEN [attempts[a] EXCEPT !.phase = "authority_released", !.agent = "gone",
                                   !.open = attempts[a].open /\ FALSE]
          ELSE attempts[a]
    BY <1>3 DEF Released
  <2>3. [attempts[a] EXCEPT !.phase = "authority_released", !.agent = "gone",
                            !.open = attempts[a].open /\ FALSE].phase = "authority_released"
    BY <2>1 DEF AttemptRecords
  <2> QED
    BY <2>2, <2>3
<1> QED
  BY <1>1, <1>2, <1>3

LEMMA EndPieces ==
  ASSUME TypeOK
  PROVE  /\ Retain => Unclosed
         /\ Settle => Unclosed
         /\ Refuse => Unclosed
         /\ Leave => Unclosed
         /\ ThrowRepair => Unclosed
         /\ CloseWriter => Unclosed
<1>1. (Retain => Unclosed) /\ (Refuse => Unclosed) /\ (CloseWriter => Unclosed)
  BY PhasePieces DEF Retain, Refuse, CloseWriter
<1>2. Settle => Unclosed
  BY PhasePieces DEF Settle
<1> QED
  BY <1>1, <1>2, PhasePieces DEF Leave, ThrowRepair

LEMMA ReviewUsual ==
  ASSUME IInv, ReviewSteps
  PROVE  Unclosed /\ Unmerged /\ (HumanRelease \/ Labelled)
<1>1. TypeOK
  BY DEF IInv
<1>2. CASE Judge
  <2>1. PrUsual
    BY <1>1, <1>2, StalePieces, PrPieces DEF Judge
  <2>2. Unclosed
    BY <1>1, <1>2, PhasePieces DEF Judge
  <2> QED
    BY <2>1, <2>2 DEF PrUsual
<1>3. CASE Say
  BY <1>1, <1>3, StalePieces, PrPieces, PhasePieces DEF Say, SeenLater, PrUsual
<1>4. CASE Accept
  BY <1>1, <1>4, StalePieces, PrPieces, PhasePieces DEF Accept, PrUsual
<1>5. CASE HumanReady
  BY <1>1, <1>5, PrPieces, PhasePieces DEF HumanReady, PrUsual
<1>6. CASE HumanRelease
  BY <1>1, <1>6, PrPieces, PhasePieces, EndPieces, SomeLabels
     DEF HumanRelease, PrUsual, AgentWorkflowLabels
<1>7. CASE Queue
  BY <1>1, <1>7, PrPieces, PhasePieces, EndPieces, SomeLabels, SomeAdded DEF Queue, PrUsual
<1>8. CASE QueueMove
  <2>1. "implement" \in pr.labels
    BY <1>8 DEF QueueMove, At, IInv, Prepared
  <2>2. Unclosed /\ Unmerged
    BY <1>1, <1>8, PrPieces, EndPieces, SomeLabels DEF QueueMove, PrUsual
  <2>3. UNCHANGED pr \/ Moved({"progress"}, {})
    BY <1>8 DEF QueueMove
  <2>4. Labelled
    BY <1>1, <2>1, <2>3, MovedIs DEF Labelled
  <2> QED
    BY <2>2, <2>4
<1>9. ASSUME NEW stage, NEW what, NEW next, SayUnderClaim(stage, what, next)
      PROVE  Unclosed /\ PrUsual
  BY <1>1, <1>9, StalePieces, PrPieces, PhasePieces DEF SayUnderClaim
<1>10. CASE RetrySay \/ BlockSay
  BY <1>9, <1>10 DEF RetrySay, BlockSay, PrUsual
<1>11. CASE RetryMove
  BY <1>1, <1>11, PrPieces, PhasePieces, SomeLabels, SomeAdded DEF RetryMove, PrUsual
<1>12. CASE BlockMove
  BY <1>1, <1>12, PrPieces, EndPieces, SomeLabels, SomeAdded DEF BlockMove, PrUsual
<1>13. CASE StopSay
  BY <1>1, <1>13, PrPieces, PhasePieces DEF StopSay, PrUsual
<1>14. CASE StopMove
  BY <1>1, <1>14, PrPieces, EndPieces, SomeLabels, SomeAdded DEF StopMove, PrUsual
<1> QED
  BY <1>2, <1>3, <1>4, <1>5, <1>6, <1>7, <1>8, <1>10, <1>11, <1>12, <1>13, <1>14
     DEF ReviewSteps

LEMMA MergeUsual ==
  ASSUME IInv, MergeSteps
  PROVE  /\ Unclosed
         /\ Unmerged \/ (MergeReviewedPr /\ MatchHeadCommit)
         /\ HandoffLabels \/ Labelled
<1>1. TypeOK
  BY DEF IInv
<1>2. CASE CiFallbackGate \/ AssertFreshBeforeMerge \/ RevalidateMergeTarget
  BY <1>1, <1>2, PrPieces, PhasePieces, EndPieces
     DEF CiFallbackGate, AssertFreshBeforeMerge, RevalidateMergeTarget, PrUsual
<1>3. CASE MarkReadyForMerge
  BY <1>1, <1>3, PrPieces, PhasePieces, EndPieces DEF MarkReadyForMerge, PrUsual
<1>4. CASE MergeReviewedPr
  <2>1. CASE MatchHeadCommit /\ Mergeable
    <3>1. pr' = [pr EXCEPT !.state = "merged", !.history = @ + 1] /\ UNCHANGED attempts
      BY <1>4, <2>1 DEF MergeReviewedPr
    <3>2. pr'.labels = pr.labels
      BY <1>1, <3>1 DEF TypeOK, PullRequests
    <3> QED
      BY <1>1, <1>4, <2>1, <3>1, <3>2, PhasePieces DEF Labelled
  <2>2. CASE ~(MatchHeadCommit /\ Mergeable)
    BY <1>1, <1>4, <2>2, PrPieces, EndPieces DEF MergeReviewedPr, PrUsual
  <2> QED
    BY <2>1, <2>2
<1>5. CASE HandoffReviewedPr
  BY <1>1, <1>5, PrPieces, PhasePieces, EndPieces, SomeLabels, SomeAdded
     DEF HandoffReviewedPr, ReleaseStaleClaim, PrUsual
<1>6. CASE HandoffReady
  BY <1>1, <1>6, PrPieces, PhasePieces DEF HandoffReady, PrUsual
<1>7. CASE HandoffLabels
  BY <1>1, <1>7, PrPieces, PhasePieces, SomeLabels DEF HandoffLabels, AgentWorkflowLabels
<1>8. CASE AssertHandoffApplied
  BY <1>1, <1>8, PrPieces, PhasePieces, EndPieces, SomeLabels, SomeAdded
     DEF AssertHandoffApplied, PrUsual
<1> QED
  BY <1>2, <1>3, <1>4, <1>5, <1>6, <1>7, <1>8 DEF MergeSteps

LEMMA CompletionsUsual ==
  ASSUME IInv, Completions
  PROVE  Unclosed /\ PrUsual
<1>1. TypeOK
  BY DEF IInv
<1>2. CASE RepairCompletion
  BY <1>1, <1>2, PrPieces, PhasePieces, EndPieces DEF RepairCompletion
<1>3. CASE RepairSay
  BY <1>1, <1>3, PrPieces, PhasePieces, EndPieces DEF RepairSay
<1>4. CASE RepairLook
  BY <1>1, <1>4, PrPieces, PhasePieces, EndPieces DEF RepairLook
<1>5. CASE RepairMove
  BY <1>1, <1>5, PrPieces, EndPieces, SomeLabels, SomeAdded DEF RepairMove, PrUsual
<1>6. CASE RepairStop
  BY <1>1, <1>6, PrPieces, PhasePieces, EndPieces DEF RepairStop
<1>7. CASE RepairStopMove
  BY <1>1, <1>7, PrPieces, EndPieces, SomeLabels, SomeAdded DEF RepairStopMove, PrUsual
<1>8. CASE UpdateCompletion
  BY <1>1, <1>8, PrPieces, PhasePieces, EndPieces, SomeLabels, SomeAdded
     DEF UpdateCompletion, UpdateHandled, PrUsual
<1>9. CASE UpdateSay
  BY <1>1, <1>9, PrPieces, EndPieces DEF UpdateSay
<1> QED
  BY <1>2, <1>3, <1>4, <1>5, <1>6, <1>7, <1>8, <1>9 DEF Completions

LEMMA ClosureUsual ==
  ASSUME IInv, ClosureSteps
  PROVE  /\ PrUsual
         /\ Unclosed \/ MarkPersisted
<1>1. TypeOK
  BY DEF IInv
<1>2. CASE CompleteLocked
  <2>1. PrUsual /\ UNCHANGED said
    BY <1>1, <1>2, PrPieces DEF CompleteLocked
  <2>2. \/ Retain \/ UNCHANGED attempts
        \/ Write("phase", "report_received")
    BY <1>2 DEF CompleteLocked
  <2>3. ASSUME Write("phase", "report_received") PROVE Unclosed
    <3> SUFFICES ASSUME NEW a \in AttemptIds, attempts'[a].phase = "github_persisted"
                 PROVE  attempts[a].phase = "github_persisted"
      BY DEF Unclosed
    <3>1. attempts[a] \in AttemptRecords
      BY <1>1 DEF TypeOK
    <3>2. attempts'[a] = IF a = host.a THEN [attempts[a] EXCEPT !.phase = "report_received"]
                         ELSE attempts[a]
      BY <1>1, <2>3 DEF Write, TypeOK
    <3>3. [attempts[a] EXCEPT !.phase = "report_received"].phase = "report_received"
      BY <3>1 DEF AttemptRecords
    <3> QED
      BY <3>2, <3>3
  <2> QED
    BY <1>1, <2>1, <2>2, <2>3, PhasePieces, EndPieces
<1>3. CASE CloseWorkspace
  <2>1. PrUsual
    BY <1>1, <1>3, PrPieces DEF CloseWorkspace
  <2>2. Unclosed
    <3> SUFFICES ASSUME NEW a \in AttemptIds, attempts'[a].phase = "github_persisted"
                 PROVE  attempts[a].phase = "github_persisted"
      BY DEF Unclosed
    <3> DEFINE k == [attempts[host.a] EXCEPT
                       !.phase = "workspace_closed", !.open = FALSE, !.agent = "gone",
                       !.handoff = attempts[host.a].handoff
                                     /\ (RepairFollows \/ host.by # "monitor")]
    <3>1. attempts' = [attempts EXCEPT ![host.a] = k]
      BY <1>3 DEF CloseWorkspace, Journal
    <3>2. ASSUME host.a \in AttemptIds PROVE k.phase = "workspace_closed"
      <4>1. attempts[host.a] \in AttemptRecords
        BY <1>1, <3>2 DEF TypeOK
      <4> QED
        BY <4>1 DEF AttemptRecords
    <3> HIDE DEF k
    <3>3. attempts'[a] = IF a = host.a THEN k ELSE attempts[a]
      BY <1>1, <3>1 DEF TypeOK
    <3> QED
      BY <3>2, <3>3
  <2> QED
    BY <2>1, <2>2
<1>4. CASE MarkPersisted
  BY <1>1, <1>4, PrPieces DEF MarkPersisted
<1> QED
  BY <1>2, <1>3, <1>4 DEF ClosureSteps

-----------------------------------------------------------------------------
LEMMA OneUnclosed ==
  ASSUME TypeOK, NEW a, NEW k, attempts' = [attempts EXCEPT ![a] = k],
         a \in AttemptIds => (k.phase = "github_persisted"
                                => attempts[a].phase = "github_persisted")
  PROVE  Unclosed
BY DEF TypeOK, Unclosed

LEMMA AllUnclosed ==
  ASSUME \A a \in AttemptIds : attempts'[a].phase = attempts[a].phase
  PROVE  Unclosed
BY DEF Unclosed

LEMMA DeliveryUnclosed ==
  ASSUME TypeOK, DeliverHandoff
  PROVE  Unclosed
<1>1. PICK a \in HandedOver :
        \/ attempts' = [attempts EXCEPT ![a] =
                [@ EXCEPT !.handoff = FALSE, !.open = attempts[a].open /\ NewerOwner(a),
                          !.agent = IF NewerOwner(a) THEN attempts[a].agent ELSE "gone"]]
        \/ attempts' = [attempts EXCEPT ![a].handoff = FALSE]
        \/ UNCHANGED attempts
  BY DEF DeliverHandoff
<1>2. a \in AttemptIds /\ attempts[a] \in AttemptRecords
  BY DEF HandedOver, TypeOK
<1>3. CASE UNCHANGED attempts
  BY <1>3, PhasePieces
<1>4. CASE attempts' = [attempts EXCEPT ![a].handoff = FALSE]
  <2> DEFINE k == [attempts[a] EXCEPT !.handoff = FALSE]
  <2>1. k.phase = attempts[a].phase
    BY <1>2, Zenon DEF AttemptRecords
  <2>2. attempts' = [attempts EXCEPT ![a] = k]
    BY <1>4
  <2> HIDE DEF k
  <2> QED
    BY <2>1, <2>2, OneUnclosed
<1>5. CASE attempts' = [attempts EXCEPT ![a] =
                [@ EXCEPT !.handoff = FALSE, !.open = attempts[a].open /\ NewerOwner(a),
                          !.agent = IF NewerOwner(a) THEN attempts[a].agent ELSE "gone"]]
  <2> DEFINE f == FALSE
             p == attempts[a].open /\ NewerOwner(a)
             g == IF NewerOwner(a) THEN attempts[a].agent ELSE "gone"
             k == [attempts[a] EXCEPT !.handoff = f, !.open = p, !.agent = g]
  <2>2. attempts' = [attempts EXCEPT ![a] = k]
    BY <1>5
  <2> HIDE DEF f, p, g
  <2>1. k.phase = attempts[a].phase
    BY <1>2 DEF AttemptRecords
  <2> HIDE DEF k
  <2> QED
    BY <2>1, <2>2, OneUnclosed
<1> QED
  BY <1>1, <1>3, <1>4, <1>5

LEMMA StopUnclosed ==
  ASSUME TypeOK, ExplainStop
  PROVE  Unclosed
<1> DEFINE f == FALSE
           t == TRUE
           p == attempts[host.a].open /\ attempts[host.a].agent = "gone"
           k == [attempts[host.a] EXCEPT
                   !.phase = "authority_released", !.handoff = f, !.stopped = t,
                   !.open = p, !.agent = "gone"]
<1>1. attempts' = [attempts EXCEPT ![host.a] = k]
  BY DEF ExplainStop, Journal
<1> HIDE DEF f, t, p
<1>2. host.a \in AttemptIds => k.phase = "authority_released"
  BY DEF TypeOK, AttemptRecords
<1> HIDE DEF k
<1> QED
  BY <1>1, <1>2, OneUnclosed

LEMMA GiveUpUsual ==
  ASSUME TypeOK, GiveUp PROVE Unclosed /\ PrUsual
BY PrPieces, PhasePieces DEF GiveUp

LEMMA RestoreUsual ==
  ASSUME TypeOK, RestoreRequest
  PROVE  Unclosed /\ Unmerged /\ (Labelled \/ RestoresNothing)
<1>1. CASE ~Revalidated
  BY <1>1, GiveUpUsual DEF RestoreRequest, PrUsual
<1>2. CASE Revalidated
  <2> DEFINE roles == IF Journals = {} THEN {} ELSE {attempts[First(Journals)].role}
             new == RestoreRequestLabels(pr.labels, roles)
  <2>1. pr' = Edited(pr, new) /\ UNCHANGED attempts
    BY <1>2 DEF RestoreRequest
  <2>2. ~RestoresNothing => roles # {}
    BY DEF RestoresNothing, RestoreRequest
  <2> HIDE DEF roles
  <2>3. new \in SUBSET Labels
    BY DEF RestoreRequestLabels, RestoredRequest, Labels, Requests
  <2>4. roles # {} => new # {}
    BY DEF RestoreRequestLabels
  <2> HIDE DEF new
  <2> QED
    BY <2>1, <2>2, <2>3, <2>4, PrPieces, PhasePieces
<1> QED
  BY <1>1, <1>2

LEMMA AuthorityUsual ==
  ASSUME IInv, Authority
  PROVE  Unclosed /\ Unmerged /\ (Labelled \/ RestoresNothing)
<1>1. TypeOK
  BY DEF IInv
<1>2. CASE ReconcileWorkAuthority
  <2>1. UNCHANGED pr /\ \E S : attempts' = Released(S, FALSE)
    BY <1>2 DEF ReconcileWorkAuthority
  <2> QED
    BY <1>1, <2>1, PrPieces, PhasePieces DEF PrUsual
<1>3. CASE BlockPut
  <2>1. GiveUp \/ (pr' = Edited(pr, {"blocked"}) /\ UNCHANGED attempts)
    BY <1>3 DEF BlockPut, Blocked
  <2> QED
    BY <1>1, <2>1, GiveUpUsual, PrPieces, PhasePieces, SomeLabels, SomeAdded DEF PrUsual
<1>4. CASE BlockNote
  <2>1. GiveUp \/ (Commented /\ attempts' = Released(Stopped, FALSE))
    BY <1>4 DEF BlockNote
  <2> QED
    BY <1>1, <2>1, GiveUpUsual, PrPieces, PhasePieces DEF PrUsual
<1>5. CASE RestoreRequest
  BY <1>1, <1>5, RestoreUsual
<1>6. CASE CloseStopped
  BY <1>1, <1>6, PrPieces, PhasePieces DEF CloseStopped, PrUsual
<1>7. CASE PatrolAttempt
  <2>1. UNCHANGED pr /\ (UNCHANGED attempts \/ attempts' = Released(LeftOpen, FALSE))
    BY <1>7 DEF PatrolAttempt
  <2> QED
    BY <1>1, <2>1, PrPieces, PhasePieces DEF PrUsual
<1>8. CASE DeliverHandoff
  <2>1. UNCHANGED pr
    BY <1>8 DEF DeliverHandoff
  <2> QED
    BY <1>1, <1>8, <2>1, DeliveryUnclosed, PrPieces DEF PrUsual
<1>9. CASE NothingHandedOver
  BY <1>1, <1>9, PrPieces, PhasePieces DEF NothingHandedOver, PrUsual
<1>10. CASE ReplaceStoppedLabels
  BY <1>1, <1>10, PrPieces, PhasePieces, SomeLabels, SomeAdded
     DEF ReplaceStoppedLabels, Blocked, PrUsual
<1>11. CASE ExplainStop
  <2>1. UNCHANGED pr \/ Commented
    BY <1>11 DEF ExplainStop
  <2> QED
    BY <1>1, <1>11, <2>1, StopUnclosed, PrPieces DEF PrUsual
<1> QED
  BY <1>2, <1>3, <1>4, <1>5, <1>6, <1>7, <1>8, <1>9, <1>10, <1>11 DEF Authority

LEMMA ClaimUsual ==
  ASSUME TypeOK, pr' = Claim \/ pr' = Starting(Claim, Request)
  PROVE  PrUsual
<1>1. /\ Claim \in PullRequests /\ Claim.labels = {"progress"} /\ Claim.state = pr.state
  BY EditedIs DEF Claim, TypeOK, Labels
<1> HIDE DEF Claim
<1>2. pr'.labels = {"progress"} /\ pr'.state = pr.state
  BY <1>1 DEF Starting, PullRequests
<1> QED
  BY <1>2 DEF PrUsual, Unmerged, Labelled

LEMMA RedirectUsual ==
  ASSUME TypeOK, RedirectRequest
  PROVE  Unclosed /\ PrUsual
<1>1. PICK new \in {{"update"}, {"review"}, {"blocked"}} : Redirect(new)
  BY DEF RedirectRequest
<1>2. new \in SUBSET Labels /\ new # {}
  BY DEF Labels, Requests
<1> DEFINE e == Edited(pr, new)
<1>3. e \in PullRequests /\ e.labels = new /\ e.state = pr.state
  BY <1>2, EditedIs DEF TypeOK
<1>4. pr' = [e EXCEPT !.history = @ + 1] /\ UNCHANGED attempts
  BY <1>1 DEF Redirect
<1> HIDE DEF e
<1>5. pr'.labels = new /\ pr'.state = pr.state
  BY <1>3, <1>4 DEF PullRequests
<1> QED
  BY <1>2, <1>4, <1>5, PhasePieces DEF PrUsual, Unmerged, Labelled

LEMMA NewPhaseIs ==
  ASSUME TypeOK
  PROVE  \A n \in {Launched, NeverLaunched} : n.phase # "github_persisted"
BY UnusedIs DEF Launched, NeverLaunched, AttemptRecords

LEMMA LaunchUnclosed ==
  ASSUME TypeOK, Launch
  PROVE  Unclosed
<1>1. PICK a \in AttemptIds :
        \/ attempts' = [attempts EXCEPT ![a] = NeverLaunched]
        \/ attempts' = [b \in AttemptIds |->
               CASE b = a -> Launched
                 [] b # a /\ attempts[b].open -> [attempts[b] EXCEPT !.open = FALSE]
                 [] OTHER -> attempts[b]]
  BY DEF Launch
<1>2. CASE attempts' = [attempts EXCEPT ![a] = NeverLaunched]
  BY <1>2, NewPhaseIs, OneUnclosed
<1>3. CASE attempts' = [b \in AttemptIds |->
               CASE b = a -> Launched
                 [] b # a /\ attempts[b].open -> [attempts[b] EXCEPT !.open = FALSE]
                 [] OTHER -> attempts[b]]
  <2> DEFINE f == FALSE
             shut(b) == [attempts[b] EXCEPT !.open = f]
  <2>1. attempts' = [b \in AttemptIds |->
               CASE b = a -> Launched
                 [] b # a /\ attempts[b].open -> shut(b)
                 [] OTHER -> attempts[b]]
    BY <1>3
  <2> HIDE DEF f
  <2>2. ASSUME NEW b \in AttemptIds PROVE shut(b).phase = attempts[b].phase
    BY DEF TypeOK, AttemptRecords
  <2> HIDE DEF shut
  <2>3. \A b \in AttemptIds : b # a => attempts'[b] = shut(b) \/ attempts'[b] = attempts[b]
    BY <2>1
  <2>4. attempts'[a] = Launched
    BY <2>1
  <2>5. Launched.phase # "github_persisted"
    BY NewPhaseIs
  <2> QED
    BY <2>2, <2>3, <2>4, <2>5 DEF Unclosed
<1> QED
  BY <1>1, <1>2, <1>3

LEMMA DriverUsual ==
  ASSUME IInv, Driver
  PROVE  Unclosed /\ PrUsual
<1>1. TypeOK
  BY DEF IInv
<1>2. CASE RedirectRequest
  BY <1>1, <1>2, RedirectUsual
<1>3. CASE Launch
  <2>1. pr' = Claim \/ pr' = Starting(Claim, Request)
    BY <1>3 DEF Launch
  <2> QED
    BY <1>1, <1>3, <2>1, ClaimUsual, LaunchUnclosed
<1>4. CASE NothingToDrive
  BY <1>1, <1>4, PrPieces, PhasePieces DEF NothingToDrive
<1> QED
  BY <1>2, <1>3, <1>4 DEF Driver

-----------------------------------------------------------------------------
LEMMA AgentUnclosed ==
  ASSUME TypeOK, NEW a \in AttemptIds,
         \/ \E report, out : Agent(a, Reported(attempts[a], report, out))
         \/ \E g : Agent(a, [attempts[a] EXCEPT !.agent = g])
         \/ \E g, out : Agent(a, [attempts[a] EXCEPT !.agent = g, !.out = out])
  PROVE  Unclosed
<1>1. attempts[a] \in AttemptRecords
  BY DEF TypeOK
<1>2. PICK k : k.phase = attempts[a].phase /\ attempts' = [attempts EXCEPT ![a] = k]
  BY <1>1 DEF Agent, Reported, AttemptRecords
<1> QED
  BY <1>2, OneUnclosed

LEMMA AgentsUsual ==
  ASSUME IInv, Agents
  PROVE  Unclosed /\ Unmerged
<1>1. TypeOK
  BY DEF IInv
<1> PICK a \in AttemptIds : \/ ReviewerReports(a) \/ WriterGivesUp(a) \/ Finalize(a)
                            \/ PushConditionally(a) \/ ReportPush(a)
  BY DEF Agents
<1>2. CASE ReviewerReports(a)
  <2>1. \E report, out : Agent(a, Reported(attempts[a], report, out))
    BY <1>2 DEF ReviewerReports
  <2> QED
    BY <1>1, <1>2, <2>1, AgentUnclosed DEF ReviewerReports, Unmerged
<1>3. CASE WriterGivesUp(a)
  BY <1>1, <1>3, AgentUnclosed DEF WriterGivesUp, Unmerged
<1>4. CASE Finalize(a)
  <2>1. \/ Agent(a, [attempts[a] EXCEPT !.agent = "checked"])
        \/ Agent(a, Reported(attempts[a], "stale_head", pr.head))
        \/ Agent(a, Reported(attempts[a], "blocked", 0))
    BY <1>4 DEF Finalize
  <2>2. Unclosed
    BY <1>1, <2>1, AgentUnclosed
  <2> QED
    BY <1>4, <2>2 DEF Finalize, Unmerged
<1>5. CASE PushConditionally(a)
  <2>1. \/ Agent(a, [attempts[a] EXCEPT !.agent = "pushed", !.out = pr.head + 1])
        \/ Agent(a, Reported(attempts[a], "stale_head", pr.head))
        \/ Agent(a, Reported(attempts[a], "blocked", 0))
    BY <1>5 DEF PushConditionally
  <2>2. Unclosed
    BY <1>1, <2>1, AgentUnclosed
  <2>3. \/ UNCHANGED pr
        \/ pr' = [pr EXCEPT !.head = @ + 1, !.history = @ + 1,
                            !.conflict = @ /\ ~(/\ attempts[a].role = "branch-update"
                                                /\ attempts[a].base = pr.base)]
    BY <1>5 DEF PushConditionally
  <2> DEFINE c == pr.conflict /\ ~(/\ attempts[a].role = "branch-update"
                                   /\ attempts[a].base = pr.base)
  <2>4. UNCHANGED pr \/ pr' = [pr EXCEPT !.head = @ + 1, !.history = @ + 1, !.conflict = c]
    BY <2>3
  <2> HIDE DEF c
  <2>5. pr'.state = pr.state
    BY <1>1, <2>4 DEF TypeOK, PullRequests
  <2> QED
    BY <2>2, <2>5 DEF Unmerged
<1>6. CASE ReportPush(a)
  BY <1>1, <1>6, AgentUnclosed DEF ReportPush, Unmerged
<1> QED
  BY <1>2, <1>3, <1>4, <1>5, <1>6

LEMMA PeopleUsual ==
  ASSUME IInv, People
  PROVE  Unclosed /\ Unmerged
<1>1. TypeOK /\ pr \in PullRequests /\ pr.labels \in SUBSET Labels
  BY DEF IInv, TypeOK, PullRequests
<1>2. ASSUME NEW l \in Requests \cup {"blocked"}, Relabels(l) PROVE Unclosed /\ Unmerged
  <2>1. pr.labels \cup {l} \in SUBSET Labels
    BY <1>1 DEF Labels
  <2> QED
    BY <1>1, <1>2, <2>1, PrPieces, PhasePieces DEF Relabels
<1>3. ASSUME NEW kind, NEW l, Unlabels(kind, l) PROVE Unclosed /\ Unmerged
  BY <1>1, <1>3, MovedIs, SomeLabels, PhasePieces DEF Unlabels, Unmerged
<1>4. CASE Comments
  BY <1>1, <1>4, PrPieces, PhasePieces DEF Comments, PrUsual
<1>5. CASE Pushes
  BY <1>1, <1>5, PhasePieces DEF Pushes, Unmerged, PullRequests
<1>6. CASE BaseMoves
  <2> DEFINE t == TRUE
  <2>1. pr' = [pr EXCEPT !.base = @ + 1, !.conflict = t, !.history = @ + 1]
    BY <1>6 DEF BaseMoves
  <2> HIDE DEF t
  <2> QED
    BY <1>1, <1>6, <2>1, PhasePieces DEF BaseMoves, Unmerged, PullRequests
<1>7. CASE Closes
  BY <1>1, <1>7, PhasePieces DEF Closes, Unmerged, PullRequests
<1>8. CASE TogglesPolicy
  BY <1>1, <1>8, PhasePieces DEF TogglesPolicy, Unmerged
<1>9. CASE EnablesAgain
  <2>1. \A a \in AttemptIds : attempts'[a] = [attempts[a] EXCEPT !.handoff = FALSE]
    BY <1>9 DEF EnablesAgain
  <2>2. \A a \in AttemptIds : [attempts[a] EXCEPT !.handoff = FALSE].phase = attempts[a].phase
    BY <1>1, Zenon DEF TypeOK, AttemptRecords
  <2> QED
    BY <1>9, <2>1, <2>2, AllUnclosed DEF EnablesAgain, Unmerged
<1> QED
  BY <1>2, <1>3, <1>4, <1>5, <1>6, <1>7, <1>8, <1>9 DEF People

LEMMA FaultsUsual ==
  ASSUME IInv, TickDies \/ AgentEnds \/ UNCHANGED vars
  PROVE  Unclosed /\ Unmerged
<1>1. TypeOK
  BY DEF IInv
<1>2. CASE TickDies
  BY <1>1, <1>2, PhasePieces DEF TickDies, Unmerged
<1>3. CASE AgentEnds
  <2> PICK a \in Owners, how \in {"idle", "gone"} :
         Agent(a, [attempts[a] EXCEPT !.agent = how])
    BY <1>3 DEF AgentEnds
  <2>1. a \in AttemptIds
    BY DEF Owners
  <2> QED
    BY <1>1, <1>3, <2>1, AgentUnclosed DEF AgentEnds, Unmerged
<1>4. CASE UNCHANGED vars
  BY <1>1, <1>4, PhasePieces DEF vars, Unmerged
<1> QED
  BY <1>2, <1>3, <1>4

(* Nothing but the merge merges; nothing but a completion persists.        *)
LEMMA StepsAreUsual ==
  ASSUME IInv, [Next]_vars
  PROVE  /\ Unmerged \/ (MergeReviewedPr /\ MatchHeadCommit)
         /\ Unclosed \/ MarkPersisted
BY ReviewUsual, MergeUsual, CompletionsUsual, ClosureUsual, AuthorityUsual, DriverUsual,
   AgentsUsual, PeopleUsual, FaultsUsual DEF Next, Tick, PrUsual

(* What reaches the base branch is a head that its own attempt's review    *)
(* approved, whose result is on the pull request and whose required        *)
(* verification passed (merge-reviewed-pr.cts).                            *)
THEOREM MergesReviewed == Spec => MergesWhatWasReviewed
<1>1. IInv /\ [Next]_vars =>
        [Merges => \E a \in AttemptIds :
           /\ attempts[a].report = "approved" /\ attempts[a].verified = "passed"
           /\ attempts[a].head = pr.head /\ said[a].result > 0]_vars
  <2> SUFFICES ASSUME IInv, [Next]_vars, Merges
               PROVE  \E a \in AttemptIds :
                        /\ attempts[a].report = "approved" /\ attempts[a].verified = "passed"
                        /\ attempts[a].head = pr.head /\ said[a].result > 0
    OBVIOUS
  <2>1. MergeReviewedPr /\ MatchHeadCommit
    BY StepsAreUsual DEF Merges, Unmerged
  <2>2. host.pc = "merge_now" /\ host.pc \notin Calm /\ host.pc \in Merging
    BY <2>1 DEF MergeReviewedPr, At, Calm, Merging
  <2>3. Approved /\ host.a \in AttemptIds
    BY <2>2, AtWorkStarted DEF IInv, Published
  <2>4. attempts[host.a].head = pr.head
    BY <2>1 DEF MatchHeadCommit, OnTarget, Journal
  <2> QED
    BY <2>3, <2>4 DEF Approved, Journal
<1> QED
  BY <1>1, InvIsInvariant, PTL DEF Spec, MergesWhatWasReviewed

(* deadloop takes the last label off a draft only where a reconciliation   *)
(* finds no attempt to restore a request for.                              *)
THEOREM DraftsAreKept == Spec => NoDraftIsAbandoned
<1>1. IInv /\ [Next]_vars => [Tick /\ Abandons => RestoresNothing]_vars
  <2> SUFFICES ASSUME IInv, Tick, Abandons PROVE RestoresNothing
    OBVIOUS
  <2>1. ~Labelled /\ pr.draft
    BY DEF Abandons, Labelled
  <2>2. HumanRelease \/ HandoffLabels \/ RestoresNothing
    BY <2>1, ReviewUsual, MergeUsual, CompletionsUsual, ClosureUsual, AuthorityUsual,
       DriverUsual DEF Tick, PrUsual
  <2>3. ~(HumanRelease \/ HandoffLabels)
    BY <2>1 DEF HumanRelease, HandoffLabels, At, IInv, Prepared
  <2> QED
    BY <2>2, <2>3
<1> QED
  BY <1>1, InvIsInvariant, PTL DEF Spec, NoDraftIsAbandoned

(* A journal is marked persisted only while its result is on the pull      *)
(* request, or its agent reported that the head moved, or a request is     *)
(* there to be served: what completeLocked saw still holds when it writes. *)
THEOREM ClosuresAreBacked == Spec => ClosedWorkspaceHasResult
<1>1. IInv /\ [Next]_vars =>
        [\A a \in AttemptIds :
           (attempts[a].phase # "github_persisted" /\ attempts'[a].phase = "github_persisted")
             => \/ said[a].result > 0
                \/ attempts[a].report = "stale_head"
                \/ Waiting(pr.labels)]_vars
  <2> SUFFICES ASSUME IInv, [Next]_vars, NEW a \in AttemptIds,
                      attempts[a].phase # "github_persisted",
                      attempts'[a].phase = "github_persisted"
               PROVE  \/ said[a].result > 0
                      \/ attempts[a].report = "stale_head"
                      \/ Waiting(pr.labels)
    OBVIOUS
  <2>1. MarkPersisted
    BY StepsAreUsual DEF Unclosed
  <2>2. a = host.a
    BY <2>1 DEF MarkPersisted, Write, IInv, TypeOK
  <2>3. Backed
    BY <2>1 DEF MarkPersisted, At, IInv, Published
  <2> QED
    BY <2>2, <2>3 DEF Backed, Journal
<1> QED
  BY <1>1, InvIsInvariant, PTL DEF Spec, ClosedWorkspaceHasResult
=============================================================================

--------------------------- MODULE PrRequestProofs ---------------------------
(***************************************************************************)
(* What PrRequest promises of the hosts that race for one pull request,    *)
(* for every number of them and every bound: an attempt is launched for    *)
(* the requests it was bound to and no other, and a request is claimed by  *)
(* one attempt.                                                            *)
(***************************************************************************)
EXTENDS PrRequest, TLAPS

(* The label events: none is younger than the clock, and a label that is   *)
(* there has one.                                                          *)
EventsAreDated ==
  \A l \in Labels : /\ pr.born[l] <= pr.second
                    /\ l \in pr.labels => pr.born[l] # 0

(* Over: the addition of l with event g has been taken back, for good.     *)
Over(l, g) == /\ g # 0 /\ g <= pr.born[l]
              /\ l \notin pr.labels \/ g < pr.born[l]

(* A consumption is bound to events of its attempt's, all of them past.    *)
(* (A stop remembers the attempt it ends and nothing of its events.)       *)
Settling == {"stop", "explain", "settle"}
BoundToItsAttempt(h) ==
  Job(h).mine # None /\ Job(h).pc \notin Settling =>
    /\ attempts[Job(h).mine].phase # "unused"
    /\ Job(h).ids = attempts[Job(h).mine].ids
    /\ Job(h).label = RequestOf[attempts[Job(h).mine].role]
    /\ \A l \in Requests : Job(h).ids[l] <= pr.born[l]

(* What it removed is over, and not older than what it is bound to.        *)
TakenIsOver(h) ==
  \A l \in Requests : Job(h).took[l] # 0 =>
    /\ Over(l, Job(h).took[l])
    /\ Job(h).mine # None => Job(h).ids[l] <= Job(h).took[l]

(* How far it has come tells what it has removed.                          *)
Removing == {"events", "labels", "delete"}
Final    == {"state", "generation", "launch"}
SelectedIsTaken(h) ==
  /\ Job(h).pc = "claim" => Job(h).label \in Job(h).want
  /\ Job(h).pc \in Removing =>
       Job(h).label \in Job(h).want \/ Job(h).took[Job(h).label] # 0
  /\ Job(h).pc \in Final => Job(h).mine # None /\ Job(h).took[Job(h).label] # 0
LaunchesBound(h) ==
  Job(h).pc = "launch" =>
    \A l \in Requests : Job(h).took[l] \in {0, Job(h).ids[l]}

(* Every removal has one author, every claim one removal.                  *)
TakenOnce ==
  \A h, k \in Hosts, l \in Requests :
    h # k /\ Job(h).took[l] # 0 => Job(h).took[l] # Job(k).took[l]
Claim(a) == attempts[a].ids[RequestOf[attempts[a].role]]
ClaimIsOver ==
  \A a \in AttemptIds : attempts[a].claimed =>
    Over(RequestOf[attempts[a].role], Claim(a))
ClaimWasTaken ==
  \A a \in AttemptIds, h \in Hosts :
    attempts[a].claimed /\ Job(h).took[RequestOf[attempts[a].role]] = Claim(a)
      => Job(h).mine = a

Remembered(h) == BoundToItsAttempt(h) /\ TakenIsOver(h)
Shared == TakenOnce /\ ClaimIsOver /\ ClaimWasTaken /\ OneClaimPerRequest
IInv == /\ TypeOK /\ EventsAreDated /\ Shared
        /\ \A h \in Hosts : Remembered(h) /\ SelectedIsTaken(h) /\ LaunchesBound(h)

-----------------------------------------------------------------------------
(* Types.                                                                  *)

SpentType == [acts : 0..MaxPersonActs, attempts : 0..MaxAttempts,
              faults : 0..MaxFaults]

LEMMA RolesAnswerRequests ==
  /\ \A r \in Roles : RequestOf[r] \in Requests
  /\ \A l \in Requests : RoleOf(l) \in Roles /\ RequestOf[RoleOf(l)] = l
<1>1. \A r \in Roles : RequestOf[r] \in Requests
  BY DEF Roles, RequestOf, Requests
<1>2. ASSUME NEW l \in Requests PROVE \E r \in Roles : RequestOf[r] = l
  BY DEF Roles, RequestOf, Requests
<1> QED BY <1>1, <1>2 DEF RoleOf

LEMMA RequestsAreLabels ==
  /\ Requests \subseteq Labels /\ "progress" \in Labels /\ "blocked" \in Labels
  /\ \A shown : SelectPrRequest(shown) \in Requests
BY DEF Requests, Labels, SelectPrRequest

LEMMA EventIdsTypes == TypeOK => RequestEventIds \in Ids /\ NoIds \in Ids
BY RequestsAreLabels DEF TypeOK, PrType, RequestEventIds, NoIds, Ids

LEMMA IdleTypes == Idle \in HostType /\ Unused \in AttemptType
BY DEF Idle, Unused, HostType, AttemptType, Stages, Requests, Labels, NoIds, Ids,
   Phases, Roles

LEMMA SpentTypes ==
  ASSUME TypeOK, Smooth \/ Fault \/ Spend("attempts", MaxAttempts)
                 \/ Spend("acts", MaxPersonActs)
  PROVE  spent' \in SpentType
BY BoundAssumption DEF TypeOK, SpentType, Smooth, Fault, Spend

(* An edit, with or without a comment, keeps types and dates.              *)
LEMMA EditedTypes ==
  ASSUME TypeOK, NEW new, new \subseteq Labels
  PROVE  \A p \in {Edited(new), Commented(Edited(new))} :
           /\ p \in PrType /\ p.labels = new
           /\ p.second = IF new \subseteq pr.labels THEN pr.second ELSE pr.second + 1
           /\ p.born = Stamped(pr.born, pr.labels, new, pr.second + 1)
<1>1. Stamped(pr.born, pr.labels, new, pr.second + 1) \in [Labels -> Nat]
  BY DEF TypeOK, PrType, Stamped
<1> DEFINE stamped == Stamped(pr.born, pr.labels, new, pr.second + 1)
           now == IF new \subseteq pr.labels THEN pr.second ELSE pr.second + 1
<1>2. pr \in PrType /\ now \in Nat /\ stamped \in [Labels -> Nat]
  BY <1>1 DEF TypeOK, PrType
<1> HIDE DEF stamped, now
<1> DEFINE edit == [pr EXCEPT !.labels = new, !.second = now, !.born = stamped]
<1>3. /\ edit \in PrType /\ edit.labels = new
      /\ edit.second = now /\ edit.born = stamped
  BY <1>2 DEF PrType
<1>4. edit = Edited(new)
  BY DEF Edited, stamped, now
<1> HIDE DEF edit
<1>5. LET p == Commented(edit) IN
      p \in PrType /\ p.labels = new /\ p.second = now /\ p.born = stamped
  BY <1>3 DEF Commented, PrType
<1> QED BY <1>3, <1>4, <1>5 DEF stamped, now

(* What every step does to the labels and their events.                    *)
Grows ==
  /\ pr' \in PrType
  /\ EventsAreDated'
  /\ \A l \in Labels, g \in Nat : Over(l, g) => Over(l, g)'
  /\ \A l \in Labels : pr.born[l] <= pr'.born[l]

LEMMA SameGrows ==
  ASSUME TypeOK, EventsAreDated, pr' \in PrType, pr'.born = pr.born,
         pr'.labels \subseteq pr.labels, pr'.second = pr.second
  PROVE  Grows
BY DEF TypeOK, PrType, EventsAreDated, Over, Grows

LEMMA EditGrows ==
  ASSUME TypeOK, EventsAreDated, NEW new, new \subseteq Labels,
         pr' = Edited(new) \/ pr' = Commented(Edited(new))
  PROVE  Grows
<1>1. pr' \in PrType
  BY EditedTypes
<1>2. /\ pr'.labels = new
      /\ pr'.second = IF new \subseteq pr.labels THEN pr.second ELSE pr.second + 1
      /\ \A l \in Labels : pr'.born[l] =
           IF l \in new \ pr.labels THEN pr.second + 1 ELSE pr.born[l]
  <2>1. /\ pr'.labels = new
        /\ pr'.second = IF new \subseteq pr.labels THEN pr.second ELSE pr.second + 1
        /\ pr'.born = Stamped(pr.born, pr.labels, new, pr.second + 1)
    BY EditedTypes
  <2> QED BY <2>1 DEF Stamped
<1>3. EventsAreDated'
  BY <1>1, <1>2 DEF TypeOK, PrType, EventsAreDated
<1>4. ASSUME NEW l \in Labels PROVE pr.born[l] <= pr'.born[l]
  BY <1>2 DEF TypeOK, PrType, EventsAreDated
<1>5. ASSUME NEW l \in Labels, NEW g \in Nat, Over(l, g) PROVE Over(l, g)'
  BY <1>2, <1>5 DEF TypeOK, PrType, EventsAreDated, Over
<1> QED BY <1>1, <1>3, <1>4, <1>5 DEF Grows

LEMMA RestoredTypes ==
  ASSUME TypeOK
  PROVE  /\ \A roles : RestoreRequestLabels(pr.labels, roles) \subseteq Labels
         /\ Blocked(pr.labels) \subseteq Labels
BY RequestsAreLabels
DEF RestoreRequestLabels, RestoredRequest, Blocked, Requests, Labels

(* What a person does to the pull request, a failing call, the driver.     *)
LEMMA PersonGrows == TypeOK /\ EventsAreDated /\ PersonActs => Grows
<1> SUFFICES ASSUME TypeOK, EventsAreDated, PersonActs PROVE Grows
  OBVIOUS
<1>1. CASE \E l \in PersonAdds \ pr.labels :
             \/ pr' = Edited(pr.labels \cup {l})
             \/ pr' = Edited(pr.labels \cup {l, "blocked"})
  <2>1. PICK l \in Labels : \/ pr' = Edited(pr.labels \cup {l})
                           \/ pr' = Edited(pr.labels \cup {l, "blocked"})
    BY <1>1, BoundAssumption
  <2>2. /\ pr.labels \cup {l} \subseteq Labels
        /\ pr.labels \cup {l, "blocked"} \subseteq Labels
    BY RequestsAreLabels DEF TypeOK, PrType
  <2> QED BY <2>1, <2>2, EditGrows
<1>2. CASE \E l \in PersonRemoves \cap pr.labels :
             pr' = [pr EXCEPT !.labels = @ \ {l}]
  BY <1>2, SameGrows DEF TypeOK, PrType
<1>3. CASE pr' = [pr EXCEPT !.head = @ + 1, !.history = @ + 1]
  <2>1. pr \in PrType /\ pr.head + 1 \in Nat /\ pr.history + 1 \in Nat
    BY DEF TypeOK, PrType
  <2>2. /\ pr' \in PrType /\ pr'.born = pr.born
        /\ pr'.labels = pr.labels /\ pr'.second = pr.second
    BY <1>3, <2>1 DEF PrType
  <2> QED BY <2>2, SameGrows
<1>4. CASE pr' = [pr EXCEPT !.history = @ + 1]
  BY <1>4, SameGrows DEF TypeOK, PrType
<1> QED BY <1>1, <1>2, <1>3, <1>4 DEF PersonActs

(* Where the driver and a failing call edit the pull request.              *)
ClaimEdit(h) == pr' = Edited(pr.labels \cup {"progress"})
DeleteEdit(h) == pr' = [pr EXCEPT !.labels = @ \ {NextRemoval(h)}]
CommentEdit == pr' = Commented(pr)
MoveEdit(h) == pr' = ToNextRequest(h)
BlockEdit == pr' = Edited(Blocked(pr.labels)) \/ pr' = Commented(Edited(Blocked(pr.labels)))

LEMMA WritesGrow ==
  ASSUME TypeOK, EventsAreDated, NEW h \in Hosts,
         \/ UNCHANGED pr \/ ClaimEdit(h) \/ DeleteEdit(h) \/ CommentEdit
         \/ MoveEdit(h) \/ BlockEdit
  PROVE  Grows
<1>1. CASE UNCHANGED pr
  BY <1>1, SameGrows DEF TypeOK
<1>2. CASE ClaimEdit(h)
  <2>1. pr.labels \cup {"progress"} \subseteq Labels
    BY RequestsAreLabels DEF TypeOK, PrType
  <2> QED BY <1>2, <2>1, EditGrows DEF ClaimEdit
<1>3. CASE DeleteEdit(h)
  BY <1>3, SameGrows DEF TypeOK, PrType, DeleteEdit
<1>4. CASE CommentEdit
  BY <1>4, SameGrows DEF TypeOK, PrType, CommentEdit, Commented
<1>5. CASE MoveEdit(h)
  <2>1. (pr.labels \ {"progress"})
          \cup {IF Job(h).label = "review" THEN "update" ELSE "review"} \subseteq Labels
    BY DEF TypeOK, PrType, Labels, Requests
  <2> QED BY <1>5, <2>1, EditGrows DEF MoveEdit, ToNextRequest
<1>6. CASE BlockEdit
  BY <1>6, RestoredTypes, EditGrows DEF BlockEdit
<1> QED BY <1>1, <1>2, <1>3, <1>4, <1>5, <1>6

LEMMA StepsGrow ==
  ASSUME TypeOK, EventsAreDated, [Next]_vars PROVE Grows
<1>1. ASSUME NEW h \in Hosts, Step(h) PROVE Grows
  <2>1. CASE ReconcileWorkAuthority(h)
    <3>1. CASE UNCHANGED pr
      BY <3>1, SameGrows DEF TypeOK
    <3>2. CASE \E roles : pr' = Edited(RestoreRequestLabels(pr.labels, roles))
      BY <3>2, RestoredTypes, EditGrows
    <3>3. CASE BlockEdit
      BY <3>3, WritesGrow
    <3> QED BY <2>1, <3>1, <3>2, <3>3 DEF ReconcileWorkAuthority, BlockEdit
  <2>2. CASE \/ ReconcilePrepared(h) \/ StopPrepared(h) \/ ExplainPrepared(h)
             \/ ReleasePrepared(h) \/ CommentBlock(h) \/ MoveToBlocked(h)
    <3>1. UNCHANGED pr \/ BlockEdit \/ CommentEdit
      BY <2>2 DEF ReconcilePrepared, StopPrepared, ExplainPrepared, ReleasePrepared,
         CommentBlock, MoveToBlocked, BlockEdit, CommentEdit
    <3> QED BY <3>1, <1>1, WritesGrow
  <2>3. CASE \/ BlockScheduling(h) \/ NoCandidate(h) \/ PrepareAttempt(h)
             \/ BeginObsolete(h) \/ BeginBlock(h)
    BY <2>3, <1>1, WritesGrow
    DEF BlockScheduling, NoCandidate, PrepareAttempt, BeginObsolete, BeginBlock
  <2>4. CASE \/ ReadBaseline(h) \/ ReadBaselineLabels(h) \/ ObserveEvents(h)
             \/ ObserveLabels(h) \/ RevalidateState(h) \/ RevalidateGeneration(h)
             \/ LaunchAgent(h)
    BY <2>4, <1>1, WritesGrow
    DEF ReadBaseline, ReadBaselineLabels, ObserveEvents, ObserveLabels,
        RevalidateState, RevalidateGeneration, LaunchAgent, Stale
  <2>5. CASE \/ AddInProgress(h) \/ DeleteLabel(h) \/ CommentRedirection(h)
             \/ MoveToNextRequest(h)
    <3>1. \/ UNCHANGED pr \/ ClaimEdit(h) \/ DeleteEdit(h) \/ CommentEdit
          \/ MoveEdit(h)
      BY <2>5 DEF AddInProgress, DeleteLabel, CommentRedirection, MoveToNextRequest,
         ClaimEdit, DeleteEdit, CommentEdit, MoveEdit, Stale
    <3> QED BY <3>1, <1>1, WritesGrow
  <2> QED BY <1>1, <2>1, <2>2, <2>3, <2>4, <2>5 DEF Step
<1>2. ASSUME NEW h \in Hosts, Fail(h) \/ BlockFailedLaunch(h) PROVE Grows
  <2>1. \/ UNCHANGED pr \/ ClaimEdit(h) \/ DeleteEdit(h) \/ CommentEdit
        \/ MoveEdit(h) \/ BlockEdit
    BY <1>2 DEF Fail, BlockFailedLaunch, Effects, ClaimEdit, DeleteEdit, CommentEdit,
       MoveEdit, BlockEdit
  <2> QED BY <2>1, <1>2, WritesGrow
<1>3. CASE PersonActs
  BY <1>3, PersonGrows
<1>4. CASE UNCHANGED pr
  BY <1>4, SameGrows DEF TypeOK
<1> QED BY <1>1, <1>2, <1>3, <1>4 DEF Next, vars, AgentStops

-----------------------------------------------------------------------------
(* The journals.                                                           *)

(* What a journal is bound to stays, and nothing but the end of a          *)
(* consumption claims anything.                                            *)
Binds ==
  \A a \in AttemptIds : attempts[a].phase # "unused" =>
    /\ attempts'[a].phase # "unused"
    /\ attempts'[a].ids = attempts[a].ids /\ attempts'[a].role = attempts[a].role
ClaimsNothing ==
  \A a \in AttemptIds : attempts'[a].claimed =>
    /\ attempts[a].claimed
    /\ attempts'[a].ids = attempts[a].ids /\ attempts'[a].role = attempts[a].role
Keeps == Binds /\ ClaimsNothing
Journals == attempts' \in [AttemptIds -> AttemptType]

LEMMA KeepsBinds == Keeps => Binds
BY DEF Keeps

LEMMA WriteKeeps ==
  ASSUME TypeOK, NEW a \in AttemptIds, NEW phase \in Phases \ {"unused"}, Write(a, phase)
  PROVE  Journals /\ Keeps
BY DEF TypeOK, AttemptType, Write, Journals, Keeps, Binds, ClaimsNothing

LEMMA SettledKeeps ==
  ASSUME TypeOK, NEW h \in Hosts, NEW phases, attempts' = Settled(h, phases)
  PROVE  Journals /\ Keeps
<1>1. ASSUME NEW a \in AttemptIds
      PROVE  attempts'[a] \in {attempts[a], [attempts[a] EXCEPT !.phase = "released"],
               [attempts[a] EXCEPT !.phase = "released", !.lost = TRUE]}
  BY DEF Settled
<1>2. attempts' = [a \in AttemptIds |-> attempts'[a]]
  BY DEF Settled
<1>3. ASSUME NEW a \in AttemptIds
      PROVE  /\ attempts'[a] \in AttemptType
             /\ attempts'[a].ids = attempts[a].ids /\ attempts'[a].role = attempts[a].role
             /\ attempts'[a].claimed = attempts[a].claimed
             /\ attempts[a].phase # "unused" => attempts'[a].phase # "unused"
  <2>1. attempts[a] \in AttemptType /\ "released" \in Phases
    BY DEF TypeOK, Phases
  <2> QED BY <1>1, <2>1 DEF AttemptType
<1> QED BY <1>2, <1>3 DEF Journals, Keeps, Binds, ClaimsNothing

LEMMA SameKeeps == TypeOK /\ UNCHANGED attempts => Journals /\ Keeps
BY DEF TypeOK, Journals, Keeps, Binds, ClaimsNothing

(* The journal of a new attempt, and of one that is claimed.               *)
LEMMA PreparedKeeps ==
  ASSUME TypeOK, NEW h \in Hosts, PrepareAttempt(h)
  PROVE  Journals /\ Keeps
<1> DEFINE new == [Unused EXCEPT !.phase = "prepared", !.role = RoleOf(SelectPrRequest(Shown)),
                     !.host = h, !.ids = RequestEventIds, !.head = pr.head]
<1>1. PICK a \in AttemptIds :
        attempts[a].phase = "unused" /\ attempts' = [attempts EXCEPT ![a] = new]
  BY DEF PrepareAttempt
<1>2. /\ RoleOf(SelectPrRequest(Shown)) \in Roles /\ RequestEventIds \in Ids
      /\ pr.head \in Nat
  BY RolesAnswerRequests, RequestsAreLabels, EventIdsTypes DEF TypeOK, PrType
<1>3. new \in AttemptType /\ new.claimed = FALSE
  BY <1>2, IdleTypes DEF AttemptType, Phases, Unused
<1> QED BY <1>1, <1>3 DEF TypeOK, Journals, Keeps, Binds, ClaimsNothing

LEMMA ClaimedTypes ==
  ASSUME TypeOK, NEW h \in Hosts, RevalidateGeneration(h)
  PROVE  Journals
<1>1. Stale(h) => Journals
  BY DEF TypeOK, Stale, Journals
<1>2. ASSUME attempts' = [attempts EXCEPT ![Job(h).mine] =
                            [@ EXCEPT !.phase = "github_claimed", !.claimed = TRUE]]
      PROVE  Journals
  <2>1. CASE Job(h).mine \in AttemptIds
    <3>1. [attempts[Job(h).mine] EXCEPT !.phase = "github_claimed", !.claimed = TRUE]
            \in AttemptType
      <4>1. attempts[Job(h).mine] \in AttemptType /\ "github_claimed" \in Phases
        BY <2>1 DEF TypeOK, Phases
      <4> QED BY <4>1 DEF AttemptType
    <3> QED BY <1>2, <3>1 DEF TypeOK, Journals
  <2>2. CASE Job(h).mine \notin AttemptIds
    BY <1>2, <2>2 DEF TypeOK, Journals
  <2> QED BY <2>1, <2>2
<1> QED BY <1>1, <1>2 DEF RevalidateGeneration

LEMMA StepsKeep ==
  ASSUME TypeOK, [Next]_vars, \A h \in Hosts : ~RevalidateGeneration(h)
  PROVE  Journals /\ Keeps
<1>1. ASSUME NEW h \in Hosts, ReconcileWorkAuthority(h) PROVE Journals /\ Keeps
  <2>1. UNCHANGED attempts \/ \E phases : attempts' = Settled(h, phases)
    BY <1>1 DEF ReconcileWorkAuthority
  <2> QED BY <2>1, SameKeeps, SettledKeeps
<1>2. ASSUME NEW h \in Hosts, ReconcilePrepared(h) PROVE Journals /\ Keeps
  <2>1. \/ UNCHANGED attempts
        \/ \E a \in AttemptIds : Write(a, "github_claimed")
    BY <1>2 DEF ReconcilePrepared, In, Owned
  <2> QED BY <2>1, SameKeeps, WriteKeeps DEF Phases
<1>3. ASSUME NEW h \in Hosts, LaunchAgent(h), Job(h).mine \in AttemptIds
      PROVE  Journals /\ Keeps
  <2>1. CASE Write(Job(h).mine, "running")
    BY <2>1, <1>3, WriteKeeps DEF Phases
  <2>2. CASE attempts' = [attempts EXCEPT ![Job(h).mine] =
                            [@ EXCEPT !.phase = "launch_failed", !.failed = pr.second]]
    <3>1. "launch_failed" \in Phases /\ "launch_failed" # "unused" /\ pr.second \in Nat
      BY DEF Phases, TypeOK, PrType
    <3>2. attempts' \in [AttemptIds -> AttemptType]
      BY <2>2, <3>1 DEF TypeOK, AttemptType
    <3>3. Keeps
      BY <2>2, <3>1 DEF TypeOK, AttemptType, Keeps, Binds, ClaimsNothing
    <3> QED BY <3>2, <3>3 DEF Journals
  <2> QED BY <1>3, <2>1, <2>2 DEF LaunchAgent
<1>4. ASSUME NEW h \in Hosts, LaunchAgent(h), Job(h).mine \notin AttemptIds
      PROVE  Journals /\ Keeps
  <2>1. UNCHANGED attempts
    <3>1. CASE Write(Job(h).mine, "running")
      BY <3>1, <1>4 DEF Write, TypeOK
    <3>2. CASE attempts' = [attempts EXCEPT ![Job(h).mine] =
                              [@ EXCEPT !.phase = "launch_failed", !.failed = pr.second]]
      BY <3>2, <1>4 DEF TypeOK
    <3> QED BY <1>4, <3>1, <3>2 DEF LaunchAgent
  <2> QED BY <2>1, SameKeeps
<1>5. ASSUME AgentStops PROVE Journals /\ Keeps
  BY <1>5, WriteKeeps DEF AgentStops, Phases
<1>6. ASSUME NEW h \in Hosts,
             \/ BlockScheduling(h) \/ NoCandidate(h) \/ BeginObsolete(h)
             \/ ReadBaseline(h) \/ ReadBaselineLabels(h) \/ AddInProgress(h)
             \/ ObserveEvents(h) \/ ObserveLabels(h) \/ DeleteLabel(h)
             \/ RevalidateState(h) \/ CommentRedirection(h) \/ MoveToNextRequest(h)
             \/ StopPrepared(h) \/ ExplainPrepared(h) \/ BeginBlock(h)
             \/ CommentBlock(h) \/ MoveToBlocked(h)
             \/ Fail(h) \/ BlockFailedLaunch(h)
      PROVE  Journals /\ Keeps
  <2>1. UNCHANGED attempts
    BY <1>6 DEF BlockScheduling, NoCandidate, BeginObsolete, ReadBaseline,
       ReadBaselineLabels, AddInProgress, ObserveEvents, ObserveLabels, DeleteLabel,
       RevalidateState, CommentRedirection, MoveToNextRequest, StopPrepared,
       ExplainPrepared, BeginBlock, CommentBlock, MoveToBlocked, Fail, BlockFailedLaunch,
       Stale
  <2> QED BY <2>1, SameKeeps
<1>7. CASE PersonActs \/ UNCHANGED vars
  BY <1>7, SameKeeps DEF PersonActs, vars
<1>8. ASSUME NEW h \in Hosts, ReleasePrepared(h) PROVE Journals /\ Keeps
  <2>1. CASE Job(h).mine \in AttemptIds
    BY <1>8, <2>1, WriteKeeps DEF ReleasePrepared, Job, Phases
  <2>2. CASE Job(h).mine \notin AttemptIds
    <3>1. UNCHANGED attempts
      BY <1>8, <2>2 DEF ReleasePrepared, Job, Write, TypeOK
    <3> QED BY <3>1, SameKeeps
  <2> QED BY <2>1, <2>2
<1> QED BY <1>1, <1>2, <1>3, <1>4, <1>5, <1>6, <1>7, <1>8, PreparedKeeps DEF Next, Step

-----------------------------------------------------------------------------
(* The memories of the hosts.                                              *)

Memories == host' \in [Hosts -> HostType]

(* What a consumption remembers of its baseline, its plan and its claim.   *)
Bound(h)   == [host[h] EXCEPT !.pc = "baseline_labels", !.ids = RequestEventIds]
Planned(h) == [host[h] EXCEPT !.pc = "claim", !.want = pr.labels,
                              !.todo = pr.labels \ {"progress", Job(h).label}]
Marked(h)  == [host[h] EXCEPT !.pc = "events", !.want = Job(h).want \cup {"progress"}]

LEMMA MemoriesOfConsumption ==
  ASSUME TypeOK, NEW h \in Hosts
  PROVE  Bound(h) \in HostType /\ Planned(h) \in HostType /\ Marked(h) \in HostType
<1>1. /\ host[h] \in HostType /\ {"baseline_labels", "claim", "events"} \subseteq Stages
      /\ pr.labels \subseteq Labels
      /\ pr.labels \ {"progress", Job(h).label} \subseteq Labels
  BY DEF TypeOK, PrType, Stages
<1>2. Job(h).want \cup {"progress"} \subseteq Labels
  BY <1>1, RequestsAreLabels DEF HostType, Job
<1>3. Bound(h) \in HostType
  BY <1>1, EventIdsTypes DEF HostType, Bound
<1>4. Planned(h) \in HostType
  BY <1>1 DEF HostType, Planned
<1>5. Marked(h) \in HostType
  BY <1>1, <1>2 DEF HostType, Marked
<1> QED BY <1>3, <1>4, <1>5

LEMMA NextRemovalTypes ==
  ASSUME TypeOK, NEW h \in Hosts PROVE NextRemoval(h) \in Labels
<1>1. Job(h).label \in Requests
  BY DEF TypeOK, HostType, Job
<1> QED BY <1>1, RequestsAreLabels DEF NextRemoval

LEMMA BeginTypes ==
  ASSUME TypeOK, NEW h \in Hosts, NEW ids \in Ids, NEW a \in AttemptIds \cup {None},
         NEW stage \in Stages, Begin(h, ids, a, stage)
  PROVE  Memories
<1>1. /\ SelectPrRequest(Shown) \in Requests /\ pr.head \in Nat /\ pr.history \in Nat
      /\ Shown \in SUBSET Labels
  BY RequestsAreLabels DEF TypeOK, PrType, Shown, Exposed
<1>2. [Idle EXCEPT !.pc = stage, !.mine = a, !.ids = ids,
         !.label = SelectPrRequest(Shown), !.want = Shown,
         !.head = pr.head, !.history = pr.history]
        \in HostType
  BY <1>1, IdleTypes DEF HostType
<1> QED BY <1>2 DEF TypeOK, Begin, Memories

LEMMA TookTypes ==
  ASSUME TypeOK, NEW h \in Hosts, NEW l \in Labels, host' = Took(h, l)
  PROVE  Memories
<1>1. "events" \in Stages /\ \A r \in Requests : pr.born[r] \in Nat
  BY RequestsAreLabels DEF Stages, TypeOK, PrType
<1>2. host[h] \in HostType
  BY DEF TypeOK
<1>3. CASE l \in Requests
  BY <1>1, <1>2, <1>3 DEF TypeOK, Took, HostType, Ids, Memories
<1>4. CASE l \notin Requests
  BY <1>1, <1>2, <1>4 DEF TypeOK, Took, HostType, Memories
<1> QED BY <1>3, <1>4

(* A host that forgets its consumption for another stage.                  *)
LEMMA MoveTypes ==
  ASSUME TypeOK, NEW h \in Hosts
  PROVE  /\ \A pc \in Stages : Go(h, pc) => Memories
         /\ \A pc \in Stages, m \in AttemptIds \cup {None} : Turn(h, pc, m) => Memories
         /\ Rest(h) => Memories
         /\ UNCHANGED host => Memories
<1>1. /\ \A pc \in Stages : Go(h, pc) => Memories
      /\ Rest(h) => Memories
      /\ UNCHANGED host => Memories
  BY IdleTypes DEF TypeOK, HostType, Go, Rest, Memories
<1>2. ASSUME NEW pc \in Stages, NEW m \in AttemptIds \cup {None}, Turn(h, pc, m)
      PROVE  Memories
  <2>1. [Idle EXCEPT !.pc = pc, !.mine = m] \in HostType
    BY IdleTypes DEF HostType
  <2> QED BY <1>2, <2>1 DEF Turn, TypeOK, Memories
<1> QED BY <1>1, <1>2

LEMMA Turning ==
  ASSUME NEW h \in Hosts,
         ReconcilePrepared(h) \/ ReleasePrepared(h) \/ BlockFailedLaunch(h)
  PROVE  \/ UNCHANGED host
         \/ Turn(h, "patrol", None) \/ Turn(h, "tell", None)
         \/ \E pc \in Settling, a \in AttemptIds : Turn(h, pc, a)
BY DEF ReconcilePrepared, ReleasePrepared, BlockFailedLaunch, In, Owned, Settling

LEMMA MemoryTypes == TypeOK /\ [Next]_vars => Memories
<1> SUFFICES ASSUME TypeOK, [Next]_vars PROVE Memories
  OBVIOUS
<1>1. ASSUME NEW h \in Hosts,
             \/ ReconcileWorkAuthority(h) \/ StopPrepared(h) \/ ExplainPrepared(h)
             \/ BlockScheduling(h)
             \/ NoCandidate(h) \/ ObserveEvents(h) \/ ObserveLabels(h)
             \/ RevalidateState(h) \/ RevalidateGeneration(h) \/ LaunchAgent(h)
             \/ CommentRedirection(h) \/ MoveToNextRequest(h)
             \/ CommentBlock(h) \/ MoveToBlocked(h) \/ Fail(h)
      PROVE  Memories
  <2>1. Rest(h) \/ UNCHANGED host \/ \E pc \in Stages : Go(h, pc)
    BY <1>1 DEF ReconcileWorkAuthority, StopPrepared, ExplainPrepared, BlockScheduling,
       NoCandidate, ObserveEvents, ObserveLabels, RevalidateState, RevalidateGeneration,
       LaunchAgent, CommentRedirection, MoveToNextRequest, CommentBlock, MoveToBlocked,
       Fail, Stale, Stages
  <2> QED BY <2>1, MoveTypes
<1>8. ASSUME NEW h \in Hosts,
             ReconcilePrepared(h) \/ ReleasePrepared(h) \/ BlockFailedLaunch(h)
      PROVE  Memories
  <2>1. Settling \cup {"patrol", "tell"} \subseteq Stages
    BY DEF Settling, Stages
  <2> QED BY <1>8, <2>1, Turning, MoveTypes
<1>2. ASSUME NEW h \in Hosts, PrepareAttempt(h) \/ BeginObsolete(h) \/ BeginBlock(h)
      PROVE  Memories
  BY <1>2, BeginTypes, EventIdsTypes
  DEF PrepareAttempt, BeginObsolete, BeginBlock, Stages
<1>3. ASSUME NEW h \in Hosts, ReadBaseline(h) PROVE Memories
  <2>1. host' = [host EXCEPT ![h] = Bound(h)] \/ Rest(h)
    BY <1>3 DEF ReadBaseline, Stale, Bound
  <2>2. CASE Rest(h)
    BY <2>2, MoveTypes
  <2>3. CASE host' = [host EXCEPT ![h] = Bound(h)]
    <3>1. Bound(h) \in HostType
      BY MemoriesOfConsumption
    <3> QED BY <2>3, <3>1 DEF TypeOK, Memories
  <2> QED BY <2>1, <2>2, <2>3
<1>4. ASSUME NEW h \in Hosts, ReadBaselineLabels(h) PROVE Memories
  <2>1. host' = [host EXCEPT ![h] = Planned(h)] \/ Rest(h)
    BY <1>4 DEF ReadBaselineLabels, Stale, Planned
  <2>2. CASE Rest(h)
    BY <2>2, MoveTypes
  <2>3. CASE host' = [host EXCEPT ![h] = Planned(h)]
    <3>1. Planned(h) \in HostType
      BY MemoriesOfConsumption
    <3> QED BY <2>3, <3>1 DEF TypeOK, Memories
  <2> QED BY <2>1, <2>2, <2>3
<1>5. ASSUME NEW h \in Hosts, AddInProgress(h) PROVE Memories
  <2>1. host' = [host EXCEPT ![h] = Marked(h)]
    BY <1>5 DEF AddInProgress, Marked
  <2>2. Marked(h) \in HostType
    BY MemoriesOfConsumption
  <2> QED BY <2>1, <2>2 DEF TypeOK, Memories
<1>6. ASSUME NEW h \in Hosts, DeleteLabel(h) PROVE Memories
  <2>1. Rest(h) \/ host' = Took(h, NextRemoval(h))
    BY <1>6 DEF DeleteLabel, Stale
  <2>2. CASE Rest(h)
    BY <2>2, MoveTypes
  <2>3. CASE host' = Took(h, NextRemoval(h))
    BY <2>3, NextRemovalTypes, TookTypes
  <2> QED BY <2>1, <2>2, <2>3
<1>7. CASE PersonActs \/ AgentStops \/ UNCHANGED vars
  BY <1>7 DEF PersonActs, AgentStops, vars, TypeOK, Memories
<1> QED BY <1>1, <1>2, <1>3, <1>4, <1>5, <1>6, <1>7, <1>8 DEF Next, Step

LEMMA SpentSteps == TypeOK /\ [Next]_vars => spent' \in SpentType
BY SpentTypes DEF Next, Step, vars, ReconcileWorkAuthority, ReconcilePrepared,
   StopPrepared, ExplainPrepared, ReleasePrepared, BeginBlock, CommentBlock, MoveToBlocked,
   BlockScheduling, NoCandidate, PrepareAttempt, BeginObsolete, ReadBaseline,
   ReadBaselineLabels, AddInProgress, ObserveEvents, ObserveLabels, DeleteLabel,
   RevalidateState, RevalidateGeneration, LaunchAgent, CommentRedirection,
   MoveToNextRequest, Fail, BlockFailedLaunch, PersonActs, AgentStops, Stale, TypeOK,
   SpentType, Smooth

LEMMA TypeStep == TypeOK /\ EventsAreDated /\ [Next]_vars => TypeOK' /\ EventsAreDated'
<1> SUFFICES ASSUME TypeOK, EventsAreDated, [Next]_vars PROVE TypeOK' /\ EventsAreDated'
  OBVIOUS
<1>1. Journals
  BY StepsKeep, ClaimedTypes
<1> QED BY <1>1, StepsGrow, MemoryTypes, SpentSteps
        DEF TypeOK, Grows, Journals, Memories, SpentType

LEMMA TypeInit == Init => TypeOK /\ EventsAreDated
<1> SUFFICES ASSUME Init PROVE TypeOK /\ EventsAreDated
  OBVIOUS
<1>1. PICK asked \in Asked :
        pr = [labels |-> asked, born |-> [l \in Labels |-> IF l \in asked THEN 1 ELSE 0],
              second |-> 1, head |-> 0, history |-> 0]
  BY DEF Init
<1>2. asked \subseteq Labels
  BY BoundAssumption, RequestsAreLabels
<1>3. pr \in PrType /\ EventsAreDated
  BY <1>1, <1>2 DEF PrType, EventsAreDated
<1> QED BY <1>3, IdleTypes, BoundAssumption DEF Init, TypeOK

(* Labels, journals and memories stay what the code can hold.              *)
THEOREM TypeCorrect == Spec => []TypeOK
<1>1. TypeOK /\ EventsAreDated /\ [Next]_vars => (TypeOK /\ EventsAreDated)'
  BY TypeStep
<1> QED BY <1>1, TypeInit, PTL DEF Spec

-----------------------------------------------------------------------------
(* What the memories mean: steps that take nothing and claim nothing.      *)

SameMemory(h) ==
  /\ host'[h].mine = host[h].mine /\ host'[h].took = host[h].took
  /\ host[h].mine # None => /\ host'[h].ids = host[h].ids
                            /\ host'[h].label = host[h].label
  /\ host[h].pc \in Settling => host'[h].pc \in Settling
Forgets(h) == host'[h].took = NoIds
Blank(h) == Forgets(h) /\ (host'[h].mine = None \/ host'[h].pc \in Settling)
Moved(h, pc) == host'[h] = [host[h] EXCEPT !.pc = pc]

LEMMA Fields ==
  ASSUME TypeOK, NEW h \in Hosts
  PROVE  /\ host[h] \in HostType /\ host[h].label \in Requests
         /\ \A l \in Requests : host[h].ids[l] \in Nat /\ host[h].took[l] \in Nat
         /\ \A l \in Labels : pr.born[l] \in Nat
         /\ \A a \in AttemptIds :
              /\ RequestOf[attempts[a].role] \in Requests
              /\ \A l \in Requests : attempts[a].ids[l] \in Nat
BY RolesAnswerRequests DEF TypeOK, HostType, PrType, AttemptType, Ids

LEMMA RememberedKept ==
  ASSUME IInv, Grows, Binds, NEW h \in Hosts,
         SameMemory(h) \/ Blank(h)
  PROVE  Remembered(h)'
<1>1. /\ BoundToItsAttempt(h) /\ TakenIsOver(h) /\ TypeOK
      /\ \A l \in Requests : host[h].ids[l] \in Nat /\ host[h].took[l] \in Nat
      /\ \A l \in Requests : pr.born[l] \in Nat /\ pr'.born[l] \in Nat
      /\ host[h].mine \in AttemptIds \cup {None}
  BY Fields, RequestsAreLabels DEF IInv, Remembered, Grows, PrType, TypeOK, HostType
<1>2. CASE SameMemory(h)
  <2>1. BoundToItsAttempt(h)'
    <3> SUFFICES ASSUME host'[h].mine # None, host'[h].pc \notin Settling PROVE
          /\ attempts'[host'[h].mine].phase # "unused"
          /\ host'[h].ids = attempts'[host'[h].mine].ids
          /\ host'[h].label = RequestOf[attempts'[host'[h].mine].role]
          /\ \A l \in Requests : host'[h].ids[l] <= pr'.born[l]
      BY DEF BoundToItsAttempt, Job
    <3>1. /\ host'[h].mine = host[h].mine /\ host[h].mine \in AttemptIds
          /\ host[h].pc \notin Settling
          /\ host'[h].ids = host[h].ids /\ host'[h].label = host[h].label
      BY <1>1, <1>2 DEF SameMemory
    <3>2. /\ attempts[host[h].mine].phase # "unused"
          /\ host[h].ids = attempts[host[h].mine].ids
          /\ host[h].label = RequestOf[attempts[host[h].mine].role]
          /\ \A l \in Requests : host[h].ids[l] <= pr.born[l]
      BY <1>1, <3>1 DEF BoundToItsAttempt, Job
    <3>3. /\ attempts'[host[h].mine].phase # "unused"
          /\ attempts'[host[h].mine].ids = attempts[host[h].mine].ids
          /\ attempts'[host[h].mine].role = attempts[host[h].mine].role
      BY <3>1, <3>2 DEF Binds
    <3>4. \A l \in Requests : host[h].ids[l] <= pr'.born[l]
      BY <1>1, <3>2, RequestsAreLabels DEF Grows
    <3> QED BY <3>1, <3>2, <3>3, <3>4
  <2>2. TakenIsOver(h)'
    BY <1>1, <1>2, RequestsAreLabels DEF SameMemory, TakenIsOver, Grows, Job
  <2> QED BY <2>1, <2>2 DEF Remembered
<1>3. CASE Blank(h)
  BY <1>3 DEF Blank, Forgets, Remembered, BoundToItsAttempt, TakenIsOver, Job, NoIds
<1> QED BY <1>2, <1>3

LEMMA SharedKept ==
  ASSUME IInv, Grows, Keeps,
         \A h \in Hosts : SameMemory(h) \/ Forgets(h)
  PROVE  Shared'
<1>1. TypeOK /\ TakenOnce /\ ClaimIsOver /\ ClaimWasTaken /\ OneClaimPerRequest
  BY DEF IInv, Shared
<1>2. \A h \in Hosts : \/ /\ host'[h].took = host[h].took
                          /\ host'[h].mine = host[h].mine
                       \/ \A l \in Requests : host'[h].took[l] = 0
  BY DEF SameMemory, Forgets, NoIds
<1>3. ASSUME NEW a \in AttemptIds, attempts'[a].claimed
      PROVE  /\ attempts[a].claimed /\ attempts'[a].role = attempts[a].role
             /\ attempts'[a].ids = attempts[a].ids /\ Claim(a)' = Claim(a)
             /\ RequestOf[attempts[a].role] \in Requests
             /\ Claim(a) \in Nat /\ Claim(a) # 0
  <2>1. /\ attempts[a].claimed /\ attempts'[a].role = attempts[a].role
        /\ attempts'[a].ids = attempts[a].ids
    BY <1>3 DEF Keeps, Binds, ClaimsNothing
  <2>2. RequestOf[attempts[a].role] \in Requests /\ Claim(a) \in Nat
    BY <1>1, RolesAnswerRequests DEF TypeOK, AttemptType, Ids, Claim
  <2> QED BY <1>1, <2>1, <2>2 DEF ClaimIsOver, Over, Claim
<1>4. TakenOnce'
  BY <1>1, <1>2 DEF TakenOnce, Job
<1>5. ClaimIsOver'
  BY <1>1, <1>3, RequestsAreLabels DEF ClaimIsOver, Grows
<1>6. ClaimWasTaken'
  BY <1>1, <1>2, <1>3 DEF ClaimWasTaken, Job
<1>7. OneClaimPerRequest'
  BY <1>1, <1>3 DEF OneClaimPerRequest
<1> QED BY <1>4, <1>5, <1>6, <1>7 DEF Shared

-----------------------------------------------------------------------------
(* How far a consumption has come, step by step.                           *)

Progress(h) == SelectedIsTaken(h) /\ LaunchesBound(h)
OthersRest(h) == \A k \in Hosts \ {h} : host'[k] = host[k]

LEMMA UnchangedProgress ==
  ASSUME NEW h \in Hosts, host'[h] = host[h], Progress(h) PROVE Progress(h)'
BY DEF Progress, SelectedIsTaken, LaunchesBound, Job

LEMMA RestingProgress ==
  ASSUME NEW h \in Hosts, host'[h].pc \notin {"claim"} \cup Removing \cup Final
  PROVE  Progress(h)'
BY DEF Progress, SelectedIsTaken, LaunchesBound, Job, Final

(* A consumption that ends forgets all.                                    *)
Stopped(h) == host'[h] = Idle
LEMMA StoppedForgets ==
  ASSUME NEW h \in Hosts, Stopped(h)
  PROVE  Blank(h) /\ Progress(h)'
<1>1. Blank(h) /\ host'[h].pc = "idle"
  BY DEF Stopped, Idle, Blank, Forgets
<1> QED BY <1>1, RestingProgress DEF Removing, Final

LEMMA MovedRemembers ==
  ASSUME TypeOK, NEW h \in Hosts, NEW pc, Moved(h, pc),
         host[h].pc \in Settling => pc \in Settling
  PROVE  /\ SameMemory(h) /\ host'[h].pc = pc
         /\ host'[h].want = host[h].want /\ host'[h].label = host[h].label
         /\ host'[h].ids = host[h].ids
<1>1. host[h] \in HostType
  BY DEF TypeOK
<1> QED BY <1>1 DEF HostType, Moved, SameMemory

LEMMA HostWrites ==
  ASSUME TypeOK, NEW h \in Hosts
  PROVE  /\ Rest(h) => Stopped(h) /\ OthersRest(h)
         /\ \A pc : Go(h, pc) => Moved(h, pc) /\ OthersRest(h)
         /\ \A pc, m : Turn(h, pc, m) =>
              /\ host'[h] = [Idle EXCEPT !.pc = pc, !.mine = m] /\ OthersRest(h)
         /\ UNCHANGED host => host'[h] = host[h] /\ OthersRest(h)
BY DEF TypeOK, Rest, Go, Turn, Stopped, Moved, OthersRest

LEMMA QuietMoves ==
  ASSUME IInv, NEW h \in Hosts,
         \/ ReconcileWorkAuthority(h) \/ StopPrepared(h) \/ ExplainPrepared(h)
         \/ BlockScheduling(h) \/ NoCandidate(h) \/ LaunchAgent(h)
         \/ CommentRedirection(h) \/ MoveToNextRequest(h)
         \/ CommentBlock(h) \/ MoveToBlocked(h) \/ Fail(h)
  PROVE  OthersRest(h) /\ Progress(h)' /\ (SameMemory(h) \/ Blank(h))
<1>1. TypeOK /\ Progress(h)
  BY DEF IInv, Progress
<1>2. CASE Rest(h)
  BY <1>1, <1>2, HostWrites, StoppedForgets
<1>3. ASSUME NEW pc \in Settling \cup {"patrol", "move", "block"}, Go(h, pc),
             host[h].pc \in Settling => pc \in Settling
      PROVE  OthersRest(h) /\ Progress(h)' /\ SameMemory(h)
  <2>1. Moved(h, pc) /\ OthersRest(h)
    BY <1>1, <1>3, HostWrites
  <2>2. SameMemory(h) /\ host'[h].pc = pc
    BY <1>1, <1>3, <2>1, MovedRemembers
  <2> QED BY <2>1, <2>2, RestingProgress DEF Removing, Final, Settling
<1>4. \/ Rest(h)
      \/ \E pc \in Settling \cup {"patrol", "move", "block"} :
           Go(h, pc) /\ (host[h].pc \in Settling => pc \in Settling)
  BY DEF ReconcileWorkAuthority, StopPrepared, ExplainPrepared, BlockScheduling,
     NoCandidate, LaunchAgent, CommentRedirection, MoveToNextRequest, CommentBlock,
     MoveToBlocked, Fail, At, Settling
<1> QED BY <1>2, <1>3, <1>4

LEMMA TurnMoves ==
  ASSUME IInv, NEW h \in Hosts,
         ReconcilePrepared(h) \/ ReleasePrepared(h) \/ BlockFailedLaunch(h)
  PROVE  OthersRest(h) /\ Progress(h)' /\ (SameMemory(h) \/ Blank(h))
<1>1. TypeOK /\ Progress(h)
  BY DEF IInv, Progress
<1>2. CASE UNCHANGED host
  BY <1>1, <1>2, HostWrites, UnchangedProgress DEF SameMemory
<1>3. ASSUME NEW pc, NEW m, Turn(h, pc, m),
             pc \in Settling \/ (pc \in {"patrol", "tell"} /\ m = None)
      PROVE  OthersRest(h) /\ Progress(h)' /\ Blank(h)
  <2>0. host'[h] = [Idle EXCEPT !.pc = pc, !.mine = m] /\ OthersRest(h)
    BY <1>1, <1>3, HostWrites
  <2>1. /\ OthersRest(h) /\ host'[h].pc = pc /\ host'[h].mine = m
        /\ host'[h].took = NoIds
    BY <2>0 DEF Idle
  <2> QED BY <1>3, <2>1, RestingProgress DEF Blank, Forgets, Removing, Final, Settling
<1> QED BY <1>2, <1>3, Turning

LEMMA Begins ==
  ASSUME TypeOK, NEW h \in Hosts, NEW ids, NEW a,
         NEW stage \in {"baseline", "tell"}, Begin(h, ids, a, stage)
  PROVE  /\ OthersRest(h) /\ Progress(h)' /\ Forgets(h)
         /\ host'[h].mine = a /\ host'[h].ids = ids
         /\ host'[h].label = SelectPrRequest(Shown)
<1>1. /\ host'[h] = [Idle EXCEPT !.pc = stage, !.mine = a, !.ids = ids,
           !.label = SelectPrRequest(Shown), !.want = Shown,
           !.head = pr.head, !.history = pr.history]
      /\ OthersRest(h)
  BY DEF TypeOK, Begin, OthersRest
<1>2. /\ host'[h].pc = stage /\ host'[h].mine = a /\ host'[h].ids = ids
      /\ host'[h].took = NoIds /\ host'[h].label = SelectPrRequest(Shown)
  BY <1>1 DEF Idle
<1> QED BY <1>1, <1>2, RestingProgress DEF Forgets, Removing, Final

LEMMA BaselineMoves ==
  ASSUME IInv, NEW h \in Hosts,
         ReadBaseline(h) \/ ReadBaselineLabels(h) \/ AddInProgress(h)
  PROVE  /\ OthersRest(h) /\ Progress(h)'
         /\ SameMemory(h) \/ Blank(h)
<1>1. TypeOK /\ Progress(h) /\ host[h] \in HostType
  BY DEF IInv, Progress, TypeOK
<1>2. CASE Rest(h)
  BY <1>1, <1>2, HostWrites, StoppedForgets
<1>3. CASE ReadBaseline(h) /\ ~Rest(h)
  <2>1. /\ host' = [host EXCEPT ![h] = Bound(h)] /\ host[h].pc = "baseline"
        /\ host[h].mine # None => RequestEventIds = host[h].ids
    BY <1>3 DEF ReadBaseline, Stale, Bound, Job, At
  <2>2. host'[h] = Bound(h) /\ OthersRest(h)
    BY <1>1, <2>1 DEF TypeOK, OthersRest
  <2>3. /\ host'[h].pc = "baseline_labels" /\ host'[h].mine = host[h].mine
        /\ host'[h].took = host[h].took /\ host'[h].label = host[h].label
        /\ host'[h].ids = RequestEventIds
    BY <1>1, <2>2 DEF Bound, HostType
  <2>4. SameMemory(h)
    BY <2>1, <2>3 DEF SameMemory, Settling
  <2> QED BY <2>2, <2>3, <2>4, RestingProgress DEF Removing, Final
<1>4. CASE ReadBaselineLabels(h) /\ ~Rest(h)
  <2>1. /\ host' = [host EXCEPT ![h] = Planned(h)] /\ host[h].label \in pr.labels
        /\ host[h].pc = "baseline_labels"
    BY <1>4 DEF ReadBaselineLabels, Stale, Planned, Job, At
  <2>2. host'[h] = Planned(h) /\ OthersRest(h)
    BY <1>1, <2>1 DEF TypeOK, OthersRest
  <2>3. /\ host'[h].pc = "claim" /\ host'[h].mine = host[h].mine
        /\ host'[h].took = host[h].took /\ host'[h].label = host[h].label
        /\ host'[h].ids = host[h].ids /\ host'[h].want = pr.labels
    BY <1>1, <2>2 DEF Planned, HostType
  <2>4. SameMemory(h) /\ Progress(h)'
    BY <2>1, <2>3 DEF SameMemory, Settling, Progress, SelectedIsTaken, LaunchesBound,
       Removing, Final, Job
  <2> QED BY <2>2, <2>4
<1>5. CASE AddInProgress(h)
  <2>1. host' = [host EXCEPT ![h] = Marked(h)] /\ host[h].pc = "claim"
    BY <1>5 DEF AddInProgress, Marked, At
  <2>2. host'[h] = Marked(h) /\ OthersRest(h)
    BY <1>1, <2>1 DEF TypeOK, OthersRest
  <2>3. /\ host'[h].pc = "events" /\ host'[h].mine = host[h].mine
        /\ host'[h].took = host[h].took /\ host'[h].label = host[h].label
        /\ host'[h].ids = host[h].ids /\ host'[h].want = host[h].want \cup {"progress"}
    BY <1>1, <2>2 DEF Marked, HostType, Job
  <2>4. host[h].label \in host[h].want
    BY <1>1, <2>1 DEF Progress, SelectedIsTaken, Job
  <2>5. SameMemory(h) /\ Progress(h)'
    BY <2>1, <2>3, <2>4 DEF SameMemory, Settling, Progress, SelectedIsTaken,
       LaunchesBound, Removing, Final, Job
  <2> QED BY <2>2, <2>5
<1> QED BY <1>2, <1>3, <1>4, <1>5

LEMMA ObservationMoves ==
  ASSUME IInv, NEW h \in Hosts,
         ObserveEvents(h) \/ ObserveLabels(h) \/ RevalidateState(h)
  PROVE  /\ OthersRest(h) /\ Progress(h)'
         /\ SameMemory(h) \/ Blank(h)
<1>1. TypeOK /\ Progress(h)
  BY DEF IInv, Progress
<1>2. CASE Rest(h)
  BY <1>1, <1>2, HostWrites, StoppedForgets
<1>3. ASSUME NEW pc, Go(h, pc),
             \/ host[h].pc \in Removing /\ pc \in Removing \cup {"note"}
             \/ /\ host[h].pc = "labels" /\ host[h].label \notin host[h].want
                /\ host[h].mine # None /\ pc = "state"
             \/ host[h].pc = "state" /\ pc = "generation"
      PROVE  OthersRest(h) /\ SameMemory(h) /\ Progress(h)'
  <2>1. Moved(h, pc) /\ OthersRest(h)
    BY <1>1, <1>3, HostWrites
  <2>2. /\ SameMemory(h) /\ host'[h].pc = pc
        /\ host'[h].want = host[h].want /\ host'[h].label = host[h].label
        /\ host'[h].took = host[h].took /\ host'[h].mine = host[h].mine
    BY <1>1, <1>3, <2>1, MovedRemembers DEF SameMemory, Settling, Removing
  <2>3. Progress(h)'
    BY <1>1, <1>3, <2>2 DEF Progress, SelectedIsTaken, LaunchesBound, Removing, Final, Job
  <2> QED BY <2>1, <2>2, <2>3
<1>4. CASE ObserveEvents(h) /\ ~Rest(h)
  <2>1. Go(h, "labels") /\ host[h].pc = "events"
    BY <1>4 DEF ObserveEvents, Stale, At
  <2> QED BY <1>3, <2>1 DEF Removing
<1>5. CASE ObserveLabels(h) /\ ~Rest(h)
  <2>1. /\ host[h].pc = "labels"
        /\ Go(h, IF host[h].label \in host[h].want THEN "delete"
                 ELSE IF host[h].mine = None THEN "note" ELSE "state")
    BY <1>5 DEF ObserveLabels, Stale, At, Job
  <2>2. CASE host[h].label \in host[h].want
    BY <1>3, <2>1, <2>2 DEF Removing
  <2>3. CASE host[h].label \notin host[h].want /\ host[h].mine = None
    BY <1>3, <2>1, <2>3 DEF Removing
  <2>4. CASE host[h].label \notin host[h].want /\ host[h].mine # None
    BY <1>3, <2>1, <2>4
  <2> QED BY <2>2, <2>3, <2>4
<1>6. CASE RevalidateState(h) /\ ~Rest(h)
  <2>1. Go(h, "generation") /\ host[h].pc = "state"
    BY <1>6 DEF RevalidateState, Stale, At
  <2> QED BY <1>3, <2>1
<1> QED BY <1>2, <1>4, <1>5, <1>6

-----------------------------------------------------------------------------
(* The three steps that matter: binding, taking and claiming.              *)

(* Memories, progress and what the hosts share, after a step of h.         *)
Sound(h) == Remembered(h) /\ Progress(h)
AllSound == Shared /\ \A h \in Hosts : Sound(h)

LEMMA OthersSound ==
  ASSUME IInv, Grows, Binds, NEW h \in Hosts, OthersRest(h)
  PROVE  \A k \in Hosts \ {h} : SameMemory(k) /\ Sound(k)'
<1> SUFFICES ASSUME NEW k \in Hosts \ {h} PROVE SameMemory(k) /\ Sound(k)'
  OBVIOUS
<1>1. host'[k] = host[k] /\ Progress(k)
  BY DEF OthersRest, IInv, Progress
<1>2. SameMemory(k)
  BY <1>1 DEF SameMemory
<1> QED BY <1>1, <1>2, RememberedKept, UnchangedProgress DEF Sound

LEMMA PrepareSound ==
  ASSUME IInv, Grows, Keeps, NEW h \in Hosts, PrepareAttempt(h)
  PROVE  AllSound'
<1> DEFINE label == SelectPrRequest(Shown)
<1>1. PICK a \in AttemptIds :
        /\ attempts' = [attempts EXCEPT ![a] =
             [Unused EXCEPT !.phase = "prepared", !.role = RoleOf(label),
                            !.host = h, !.ids = RequestEventIds, !.head = pr.head]]
        /\ Begin(h, RequestEventIds, a, "baseline") /\ UNCHANGED pr
  BY DEF PrepareAttempt
<1>2. TypeOK
  BY DEF IInv
<1>3. /\ OthersRest(h) /\ Progress(h)' /\ Forgets(h)
      /\ host'[h].mine = a /\ host'[h].ids = RequestEventIds
      /\ host'[h].label = label
  BY <1>1, <1>2, Begins
<1>4. /\ attempts'[a].phase = "prepared" /\ attempts'[a].ids = RequestEventIds
      /\ attempts'[a].role = RoleOf(label)
  BY <1>1, <1>2 DEF TypeOK, Unused
<1>5. RequestOf[RoleOf(label)] = label
  BY RolesAnswerRequests, RequestsAreLabels
<1>6. \A l \in Requests : RequestEventIds[l] <= pr'.born[l]
  BY <1>1, <1>2, Fields, RequestsAreLabels DEF RequestEventIds
<1>7. BoundToItsAttempt(h)'
  BY <1>3, <1>4, <1>5, <1>6 DEF BoundToItsAttempt, Job
<1>8. TakenIsOver(h)'
  BY <1>3 DEF TakenIsOver, Forgets, NoIds, Job
<1>9. Sound(h)'
  BY <1>3, <1>7, <1>8 DEF Sound, Remembered
<1>10. Shared'
  BY <1>3, KeepsBinds, OthersSound, SharedKept
<1> QED BY <1>3, <1>9, <1>10, KeepsBinds, OthersSound DEF AllSound

(* A label taken: the newest event of a label that was there, so nobody    *)
(* can have taken it before.                                               *)
LEMMA DeleteMoves ==
  ASSUME TypeOK, NEW h \in Hosts, NEW l \in Labels, host' = Took(h, l)
  PROVE  /\ OthersRest(h) /\ host'[h].pc = "events" /\ host'[h].mine = host[h].mine
         /\ host'[h].label = host[h].label /\ host'[h].ids = host[h].ids
         /\ host'[h].want = host[h].want \ {l}
         /\ \A r \in Requests : host'[h].took[r] =
              IF r = l THEN pr.born[l] ELSE host[h].took[r]
<1>1. host[h] \in HostType /\ DOMAIN host = Hosts
  BY DEF TypeOK
<1>2. CASE l \in Requests
  <2>1. host' = [host EXCEPT ![h].pc = "events", ![h].want = @ \ {l},
                   ![h].todo = @ \ {l}, ![h].took[l] = pr.born[l]]
    BY <1>2 DEF Took
  <2>2. OthersRest(h)
    BY <1>1, <2>1 DEF TypeOK, OthersRest
  <2>3. /\ host'[h].pc = "events" /\ host'[h].mine = host[h].mine
        /\ host'[h].label = host[h].label /\ host'[h].ids = host[h].ids
        /\ host'[h].want = host[h].want \ {l}
        /\ host'[h].took = [host[h].took EXCEPT ![l] = pr.born[l]]
    BY <1>1, <2>1 DEF TypeOK, HostType
  <2> QED BY <1>1, <1>2, <2>2, <2>3 DEF HostType, Ids
<1>3. CASE l \notin Requests
  <2>1. host' = [host EXCEPT ![h].pc = "events", ![h].want = @ \ {l},
                   ![h].todo = @ \ {l}]
    BY <1>3 DEF Took
  <2>2. OthersRest(h)
    BY <1>1, <2>1 DEF TypeOK, OthersRest
  <2>3. /\ host'[h].pc = "events" /\ host'[h].mine = host[h].mine
        /\ host'[h].label = host[h].label /\ host'[h].ids = host[h].ids
        /\ host'[h].want = host[h].want \ {l}
        /\ host'[h].took = host[h].took
    BY <1>1, <2>1 DEF TypeOK, HostType
  <2> QED BY <1>3, <2>2, <2>3
<1> QED BY <1>2, <1>3

LEMMA DeleteSound ==
  ASSUME IInv, Grows, Keeps, NEW h \in Hosts, DeleteLabel(h), ~Rest(h)
  PROVE  AllSound'
<1> DEFINE l == NextRemoval(h)
<1>1. /\ host' = Took(h, l) /\ l \in pr.labels /\ UNCHANGED attempts
      /\ pr' = [pr EXCEPT !.labels = @ \ {l}] /\ host[h].pc = "delete"
  BY DEF DeleteLabel, Stale, At
<1>2. /\ TypeOK /\ EventsAreDated /\ Remembered(h) /\ Progress(h) /\ Shared /\ l \in Labels
  BY NextRemovalTypes DEF IInv, Progress
<1>3. pr'.born = pr.born /\ l \notin pr'.labels
  BY <1>1, <1>2 DEF TypeOK, PrType
<1> HIDE DEF l
<1>4. pr.born[l] # 0 /\ pr.born[l] \in Nat
  BY <1>1, <1>2, Fields DEF EventsAreDated
<1>5. /\ OthersRest(h) /\ host'[h].pc = "events" /\ host'[h].mine = host[h].mine
      /\ host'[h].label = host[h].label /\ host'[h].ids = host[h].ids
      /\ host'[h].want = host[h].want \ {l}
      /\ \A r \in Requests : host'[h].took[r] =
           IF r = l THEN pr.born[l] ELSE host[h].took[r]
  BY <1>1, <1>2, DeleteMoves
<1>6. Progress(h)'
  <2>1. host[h].label \in host[h].want \/ host[h].took[host[h].label] # 0
    BY <1>1, <1>2 DEF Progress, SelectedIsTaken, Removing, Job
  <2> QED BY <1>2, <1>4, <1>5, <2>1, Fields
          DEF Progress, SelectedIsTaken, LaunchesBound, Removing, Final, Job
<1>7. BoundToItsAttempt(h)'
  <2>1. BoundToItsAttempt(h)
    BY <1>2 DEF Remembered
  <2> QED BY <1>1, <1>3, <1>5, <2>1 DEF BoundToItsAttempt, Settling, Job
<1>8. TakenIsOver(h)'
  <2> SUFFICES ASSUME NEW r \in Requests, host'[h].took[r] # 0
               PROVE  /\ Over(r, host[h].took[r])'
                      /\ host'[h].mine # None => host'[h].ids[r] <= host'[h].took[r]
    BY DEF TakenIsOver, Job
  <2>1. CASE r = l
    <3>1. host[h].mine # None => host[h].ids[r] <= pr.born[r]
      BY <1>1, <1>2 DEF Remembered, BoundToItsAttempt, Settling, Job
    <3> QED BY <1>3, <1>4, <1>5, <2>1, <3>1 DEF Over
  <2>2. CASE r # l
    <3>1. host'[h].took[r] = host[h].took[r] /\ host[h].took[r] \in Nat
      BY <1>2, <1>5, <2>2, Fields
    <3>2. /\ Over(r, host[h].took[r])
          /\ host[h].mine # None => host[h].ids[r] <= host[h].took[r]
      BY <1>2, <3>1 DEF Remembered, TakenIsOver, Job
    <3>3. Over(r, host[h].took[r])'
      BY <1>1, <1>2, <1>3, <1>5, <3>1, <3>2, RequestsAreLabels DEF Over, TypeOK, PrType
    <3> QED BY <1>5, <3>1, <3>2, <3>3
  <2> QED BY <2>1, <2>2
<1>9. Sound(h)'
  BY <1>6, <1>7, <1>8 DEF Sound, Remembered
<1>10. \A g \in Nat : Over(l, g) => g # pr.born[l]
  BY <1>1, <1>4 DEF Over
<1>11. TakenOnce'
  <2> SUFFICES ASSUME NEW i \in Hosts, NEW k \in Hosts, NEW r \in Requests, i # k,
                      host'[i].took[r] # 0
               PROVE  host'[i].took[r] # host'[k].took[r]
    BY DEF TakenOnce, Job
  <2>1. \A j \in Hosts : host[j].took[r] # 0 => Over(r, host[j].took[r])
    BY DEF IInv, Remembered, TakenIsOver, Job
  <2>2. \A j \in Hosts : host[j].took[r] \in Nat
    BY <1>2, Fields
  <2>3. host[i].took[r] # 0 => host[i].took[r] # host[k].took[r]
    BY <1>2 DEF Shared, TakenOnce, Job
  <2>4. \A j \in Hosts \ {h} : host'[j] = host[j]
    BY <1>5 DEF OthersRest
  <2> QED BY <1>4, <1>5, <1>10, <2>1, <2>2, <2>3, <2>4
<1>12. /\ ClaimIsOver' /\ OneClaimPerRequest'
  <2>1. ClaimIsOver /\ OneClaimPerRequest
    BY <1>2 DEF Shared
  <2>2. OneClaimPerRequest'
    BY <1>1, <2>1 DEF OneClaimPerRequest
  <2>3. ASSUME NEW a \in AttemptIds, attempts[a].claimed
        PROVE  Over(RequestOf[attempts[a].role], Claim(a))'
    <3>1. /\ RequestOf[attempts[a].role] \in Labels /\ Claim(a) \in Nat
          /\ Over(RequestOf[attempts[a].role], Claim(a))
      BY <1>2, <2>1, <2>3, Fields, RequestsAreLabels DEF ClaimIsOver, Claim
    <3> QED BY <1>1, <1>2, <3>1 DEF Over, Claim, TypeOK, PrType
  <2> QED BY <1>1, <2>2, <2>3 DEF ClaimIsOver
<1>13. ClaimWasTaken'
  <2> SUFFICES ASSUME NEW a \in AttemptIds, NEW k \in Hosts, attempts[a].claimed,
                      host'[k].took[RequestOf[attempts[a].role]] = Claim(a)
               PROVE  host'[k].mine = a
    BY <1>1 DEF ClaimWasTaken, Claim, Job
  <2>1. /\ RequestOf[attempts[a].role] \in Requests /\ Claim(a) \in Nat
        /\ Over(RequestOf[attempts[a].role], Claim(a))
    BY <1>2, Fields DEF Shared, ClaimIsOver, Claim
  <2>2. host[k].took[RequestOf[attempts[a].role]] = Claim(a)
    BY <1>5, <1>10, <2>1 DEF OthersRest
  <2>3. host[k].mine = a
    BY <1>2, <2>2 DEF Shared, ClaimWasTaken, Job
  <2> QED BY <1>5, <2>3 DEF OthersRest
<1> QED BY <1>5, <1>9, <1>11, <1>12, <1>13, KeepsBinds, OthersSound
        DEF AllSound, Shared

(* A claim: what was taken is exactly what the attempt is bound to.        *)
LEMMA ClaimSound ==
  ASSUME IInv, Grows, NEW h \in Hosts, RevalidateGeneration(h), ~Rest(h)
  PROVE  AllSound'
<1> DEFINE m == host[h].mine
           l == host[h].label
<1>1. /\ RequestEventIds = host[h].ids /\ Go(h, "launch") /\ UNCHANGED pr
      /\ attempts' = [attempts EXCEPT ![m] =
           [@ EXCEPT !.phase = "github_claimed", !.claimed = TRUE]]
      /\ host[h].pc = "generation"
  BY DEF RevalidateGeneration, SameGenerations, Stale, At, Job
<1>2. TypeOK /\ Remembered(h) /\ Progress(h) /\ Shared
  BY DEF IInv, Progress
<1>3. m \in AttemptIds /\ m # None /\ l \in Requests /\ host[h].took[l] # 0
  BY <1>1, <1>2 DEF Progress, SelectedIsTaken, Final, Job, TypeOK, HostType
<1>3a. Moved(h, "launch") /\ OthersRest(h) /\ host[h].pc \notin Settling
  BY <1>1, <1>2, HostWrites DEF Settling
<1>4. /\ OthersRest(h) /\ SameMemory(h) /\ host'[h].pc = "launch"
      /\ host'[h].want = host[h].want /\ host'[h].label = l /\ host'[h].ids = host[h].ids
      /\ host'[h].took = host[h].took /\ host'[h].mine = m
  BY <1>2, <1>3a, MovedRemembers DEF SameMemory
<1>5. /\ attempts[m].phase # "unused" /\ host[h].ids = attempts[m].ids
      /\ RequestOf[attempts[m].role] = l
  BY <1>1, <1>2, <1>3 DEF Remembered, BoundToItsAttempt, Settling, Job
<1>6. /\ attempts'[m].phase = "github_claimed" /\ attempts'[m].ids = attempts[m].ids
      /\ attempts'[m].role = attempts[m].role
      /\ \A a \in AttemptIds \ {m} : attempts'[a] = attempts[a]
  BY <1>1, <1>2, <1>3 DEF TypeOK, AttemptType
<1>7. Binds
  BY <1>6 DEF Binds
<1> HIDE DEF m, l
<1>8. \A r \in Requests : host[h].took[r] \in {0, host[h].ids[r]}
  <2> SUFFICES ASSUME NEW r \in Requests, host[h].took[r] # 0
               PROVE  host[h].took[r] = host[h].ids[r]
    OBVIOUS
  <2>1. Over(r, host[h].took[r]) /\ host[h].ids[r] <= host[h].took[r]
    BY <1>2, <1>3 DEF Remembered, TakenIsOver, Job, m
  <2>2. host[h].ids[r] = pr.born[r]
    BY <1>1 DEF RequestEventIds
  <2> QED BY <1>2, <2>1, <2>2, Fields, RequestsAreLabels DEF Over
<1>9. /\ host[h].took[l] = Claim(m) /\ Over(l, Claim(m))
      /\ Claim(m) \in Nat /\ Claim(m) # 0
  <2>1. host[h].took[l] = Claim(m)
    BY <1>3, <1>5, <1>8 DEF Claim
  <2> QED BY <1>2, <1>3, <2>1, Fields DEF Remembered, TakenIsOver, Job
<1>10. Sound(h)'
  <2>1. Remembered(h)'
    BY <1>4, <1>7, RememberedKept
  <2>2. Progress(h)'
    BY <1>3, <1>4, <1>8 DEF Progress, SelectedIsTaken, LaunchesBound, Removing, Final, Job
  <2> QED BY <2>1, <2>2 DEF Sound
<1>11. \A k \in Hosts : host'[k].took = host[k].took /\ host'[k].mine = host[k].mine
  BY <1>4 DEF OthersRest, m
<1>12. TakenOnce'
  BY <1>2, <1>11 DEF Shared, TakenOnce, Job
<1>13. ASSUME NEW a \in AttemptIds, attempts'[a].claimed
       PROVE  /\ attempts'[a].ids = attempts[a].ids /\ attempts'[a].role = attempts[a].role
              /\ Claim(a)' = Claim(a)
              /\ a = m \/ attempts[a].claimed
  BY <1>6, <1>13 DEF Claim
<1>14. ClaimIsOver'
  <2> SUFFICES ASSUME NEW a \in AttemptIds, attempts'[a].claimed
               PROVE  Over(RequestOf[attempts[a].role], Claim(a))'
    BY DEF ClaimIsOver
  <2>1. Over(RequestOf[attempts[a].role], Claim(a))
    BY <1>2, <1>5, <1>9, <1>13 DEF Shared, ClaimIsOver
  <2> QED BY <1>1, <1>13, <2>1 DEF Over
<1>15. ClaimWasTaken'
  <2> SUFFICES ASSUME NEW a \in AttemptIds, NEW k \in Hosts, attempts'[a].claimed,
                      host[k].took[RequestOf[attempts[a].role]] = Claim(a)
               PROVE  host[k].mine = a
    BY <1>11, <1>13 DEF ClaimWasTaken, Job
  <2>1. CASE attempts[a].claimed
    BY <1>2, <2>1 DEF Shared, ClaimWasTaken, Job
  <2>2. CASE a = m
    <3>1. host[k].took[l] = host[h].took[l] /\ host[h].took[l] # 0
      BY <1>5, <1>9, <2>2
    <3>2. k = h
      BY <1>2, <1>3, <3>1 DEF Shared, TakenOnce, Job
    <3> QED BY <2>2, <3>2 DEF m
  <2> QED BY <1>13, <2>1, <2>2
<1>16. OneClaimPerRequest'
  <2>1. ASSUME NEW a \in AttemptIds, a # m, attempts[a].claimed,
               RequestOf[attempts[a].role] = l
        PROVE  attempts[a].ids[l] # attempts[m].ids[l]
    <3>1. host[h].took[l] # Claim(a)
      BY <1>2, <2>1 DEF Shared, ClaimWasTaken, Job, m
    <3> QED BY <1>5, <1>9, <2>1, <3>1 DEF Claim
  <2>2. OneClaimPerRequest
    BY <1>2 DEF Shared
  <2> SUFFICES ASSUME NEW a \in AttemptIds, NEW b \in AttemptIds, a # b,
                      attempts'[a].claimed, attempts'[b].claimed,
                      attempts[a].role = attempts[b].role
               PROVE  attempts[a].ids[RequestOf[attempts[a].role]]
                        # attempts[b].ids[RequestOf[attempts[a].role]]
    BY <1>13 DEF OneClaimPerRequest
  <2> QED BY <1>5, <1>13, <2>1, <2>2 DEF OneClaimPerRequest
<1> QED BY <1>4, <1>7, <1>10, <1>12, <1>14, <1>15, <1>16, OthersSound DEF AllSound, Shared

-----------------------------------------------------------------------------
(* All steps.                                                              *)

LEMMA QuietSound ==
  ASSUME IInv, Grows, Keeps, NEW h \in Hosts, OthersRest(h), Progress(h)',
         SameMemory(h) \/ Blank(h)
  PROVE  AllSound'
<1>1. \A k \in Hosts \ {h} : SameMemory(k) /\ Sound(k)'
  BY KeepsBinds, OthersSound
<1>2. Sound(h)'
  BY KeepsBinds, RememberedKept DEF Sound
<1>3. Shared'
  BY <1>1, SharedKept DEF Blank
<1> QED BY <1>1, <1>2, <1>3 DEF AllSound

LEMMA IdleSound ==
  ASSUME IInv, Grows, Keeps, UNCHANGED host
  PROVE  AllSound'
<1>1. \A k \in Hosts : SameMemory(k) /\ Progress(k) /\ host'[k] = host[k]
  BY DEF SameMemory, IInv, Progress
<1>2. \A k \in Hosts : Sound(k)'
  BY <1>1, KeepsBinds, RememberedKept, UnchangedProgress DEF Sound
<1>3. Shared'
  BY <1>1, SharedKept
<1> QED BY <1>2, <1>3 DEF AllSound

LEMMA RestSound ==
  ASSUME IInv, Grows, Keeps, NEW h \in Hosts, Rest(h)
  PROVE  AllSound'
<1>1. OthersRest(h) /\ Stopped(h)
  BY HostWrites DEF IInv
<1> QED BY <1>1, StoppedForgets, QuietSound

LEMMA StepSound == IInv /\ [Next]_vars => IInv'
<1> SUFFICES ASSUME IInv, [Next]_vars PROVE IInv'
  OBVIOUS
<1>1. Grows /\ TypeOK' /\ EventsAreDated'
  BY StepsGrow, TypeStep DEF IInv
<1>2. ASSUME NEW h \in Hosts, RevalidateGeneration(h), ~Rest(h) PROVE AllSound'
  BY <1>1, <1>2, ClaimSound
<1>3. ASSUME NEW h \in Hosts, RevalidateGeneration(h), Rest(h) PROVE AllSound'
  <2>1. CASE UNCHANGED attempts
    BY <1>1, <1>3, <2>1, SameKeeps, RestSound DEF IInv
  <2>2. CASE Go(h, "launch")
    <3>1. host'[h].pc = "launch" /\ host'[h].pc = "idle"
      BY <1>3, <2>2 DEF Go, Rest, Idle, IInv, TypeOK, HostType
    <3> QED BY <3>1
  <2> QED BY <1>3, <2>1, <2>2 DEF RevalidateGeneration, Stale
<1>4. ASSUME \A h \in Hosts : ~RevalidateGeneration(h) PROVE AllSound'
  <2>1. Keeps
    BY <1>4, StepsKeep DEF IInv
  <2>2. ASSUME NEW h \in Hosts,
               \/ ReconcileWorkAuthority(h) \/ StopPrepared(h) \/ ExplainPrepared(h)
               \/ BlockScheduling(h) \/ NoCandidate(h) \/ LaunchAgent(h)
               \/ CommentRedirection(h) \/ MoveToNextRequest(h)
               \/ CommentBlock(h) \/ MoveToBlocked(h) \/ Fail(h)
        PROVE  AllSound'
    BY <1>1, <2>1, <2>2, QuietMoves, QuietSound
  <2>9. ASSUME NEW h \in Hosts,
               ReconcilePrepared(h) \/ ReleasePrepared(h) \/ BlockFailedLaunch(h)
        PROVE  AllSound'
    BY <1>1, <2>1, <2>9, TurnMoves, QuietSound
  <2>3. ASSUME NEW h \in Hosts, ReadBaseline(h) \/ ReadBaselineLabels(h) \/ AddInProgress(h)
        PROVE  AllSound'
    BY <1>1, <2>1, <2>3, BaselineMoves, QuietSound
  <2>4. ASSUME NEW h \in Hosts, ObserveEvents(h) \/ ObserveLabels(h) \/ RevalidateState(h)
        PROVE  AllSound'
    BY <1>1, <2>1, <2>4, ObservationMoves, QuietSound
  <2>5. ASSUME NEW h \in Hosts, PrepareAttempt(h) PROVE AllSound'
    BY <1>1, <2>1, <2>5, PrepareSound
  <2>6. ASSUME NEW h \in Hosts, BeginObsolete(h) \/ BeginBlock(h) PROVE AllSound'
    <3>1. OthersRest(h) /\ Progress(h)' /\ Blank(h)
      BY <2>6, Begins DEF BeginObsolete, BeginBlock, Blank, IInv
    <3> QED BY <1>1, <2>1, <3>1, QuietSound
  <2>7. ASSUME NEW h \in Hosts, DeleteLabel(h) PROVE AllSound'
    BY <1>1, <2>1, <2>7, DeleteSound, RestSound
  <2>8. CASE PersonActs \/ AgentStops \/ UNCHANGED vars
    <3>1. UNCHANGED host
      BY <2>8 DEF PersonActs, AgentStops, vars
    <3> QED BY <1>1, <2>1, <3>1, IdleSound
  <2> QED BY <1>4, <2>2, <2>3, <2>4, <2>5, <2>6, <2>7, <2>8, <2>9
         DEF Next, Step
<1>5. AllSound'
  BY <1>2, <1>3, <1>4
<1> QED BY <1>1, <1>5 DEF AllSound, Sound, Progress, IInv

LEMMA InitSound == Init => IInv
<1> SUFFICES ASSUME Init PROVE IInv
  OBVIOUS
<1>1. TypeOK /\ EventsAreDated
  BY TypeInit
<1>2. \A h \in Hosts : host[h].pc = "idle" /\ host[h].mine = None /\ host[h].took = NoIds
  BY DEF Init, Idle
<1>3. \A a \in AttemptIds : attempts[a].claimed = FALSE
  BY DEF Init, Unused
<1>4. \A h \in Hosts : Remembered(h) /\ SelectedIsTaken(h) /\ LaunchesBound(h)
  BY <1>2 DEF Remembered, BoundToItsAttempt, TakenIsOver, SelectedIsTaken, LaunchesBound,
     Removing, Final, Job, NoIds
<1>5. Shared
  BY <1>2, <1>3 DEF Shared, TakenOnce, ClaimIsOver, ClaimWasTaken, OneClaimPerRequest,
     Job, NoIds
<1> QED BY <1>1, <1>4, <1>5 DEF IInv

LEMMA Invariant == Spec => []IInv
BY InitSound, StepSound, PTL DEF Spec

(* Of all the hosts that race for one label event, at most one claims it.  *)
THEOREM OneClaim == Spec => []OneClaimPerRequest
<1>1. IInv => OneClaimPerRequest
  BY DEF IInv, Shared
<1> QED BY <1>1, Invariant, PTL

(* An attempt is launched only for the requests it was bound to.           *)
THEOREM LaunchedForItsOwn == Spec => []ConsumesWhatItBound
<1>1. IInv => ConsumesWhatItBound
  <2> SUFFICES ASSUME IInv, NEW h \in Hosts, At(h, "launch"), NEW l \in Requests
               PROVE  Job(h).took[l] \in {0, attempts[Job(h).mine].ids[l]}
    BY DEF ConsumesWhatItBound
  <2>1. Job(h).pc = "launch" /\ Job(h).mine # None
    BY DEF IInv, At, SelectedIsTaken, Final, Job
  <2> QED BY <2>1 DEF IInv, LaunchesBound, Remembered, BoundToItsAttempt, Settling
<1> QED BY <1>1, Invariant, PTL
=============================================================================

------------------------- MODULE IssueRequestProofs -------------------------
(***************************************************************************)
(* The safety of request consumption, for every set of hosts, every bound  *)
(* on people, attempts and faults, and every delay of GitHub's event list. *)
(*                                                                         *)
(* The argument: a receipt is written for the owner that a host derived    *)
(* from the beginning of the timeline it was shown; OwnerIsStable makes    *)
(* that owner the one every later reader derives.  The owner's own removal *)
(* carries the identity of the host that made it, so one active state has  *)
(* one host, and a host that consumed never starts again.                  *)
(*                                                                         *)
(* On that stand three further invariants: what a host that yields has     *)
(* said about the active state it found (LeftoversAreNamed), whose state   *)
(* it is on its way to release (ReleasersOwn), and, for hosts that nothing *)
(* disturbs (Calm), who still holds every request taken (LossInv).         *)
(***************************************************************************)
EXTENDS IssueRequest, WellFoundedInduction, TLAPS

-----------------------------------------------------------------------------
(* The questions of IssueTimeline: above all, a host shown only the        *)
(* beginning of a timeline derives the same owner of an active state as    *)
(* one shown all of it.                                                    *)

(* A non-empty set of naturals has a least element, so Earliest picks it.  *)
LEMMA EarliestIn ==
  ASSUME NEW S, S \subseteq Nat, S # {}
  PROVE  Earliest(S) \in S
<1>1. \E i \in S : \A j \in S : <<j, i>> \notin OpToRel(<, Nat)
  BY WFMin, NatLessThanWellFounded
<1>2. \A i, j \in S : j < i => <<j, i>> \in OpToRel(<, Nat)
  BY DEF OpToRel
<1>3. \E i \in S : \A j \in S : ~(j < i)
  BY <1>1, <1>2, Zenon
<1>4. \E i \in S : \A j \in S : i <= j
  BY <1>3
<1>. QED  BY <1>4 DEF Earliest

(* A non-empty set of naturals below a bound has a greatest element.       *)
LEMMA LatestIn ==
  ASSUME NEW n \in Nat, NEW S, S \subseteq 0..n, S # {}
  PROVE  Latest(S) \in S /\ \A j \in S : j <= Latest(S)
<1>. DEFINE T == {n - i : i \in S}
<1>1. \A i \in S : i \in Nat /\ n - i \in Nat
  OBVIOUS
<1>2. T \subseteq Nat /\ T # {}
  BY <1>1
<1>3. \E k \in T : \A m \in T : <<m, k>> \notin OpToRel(<, Nat)
  <2>. HIDE DEF T
  <2>. QED  BY <1>2, WFMin, NatLessThanWellFounded
<1>4. PICK i \in S : \A j \in S : <<n - j, n - i>> \notin OpToRel(<, Nat)
  BY <1>3
<1>5. \A j \in S : n - j < n - i => <<n - j, n - i>> \in OpToRel(<, Nat)
  BY <1>1 DEF OpToRel
<1>6. \A j \in S : ~(n - j < n - i)
  BY <1>4, <1>5, Zenon
<1>7. \A j \in S : j <= i
  BY <1>1, <1>6
<1>. QED  BY <1>7 DEF Latest

(* p is the beginning of q.                                                *)
Extends(p, q) ==
  /\ p \in Seq(Event) /\ q \in Seq(Event)
  /\ Len(p) <= Len(q)
  /\ \A i \in 1..Len(p) : p[i] = q[i]

(* The owner of an active state is settled by the events before it: more   *)
(* of the timeline never changes the answer.                               *)
LEMMA OwnerIsStable ==
  ASSUME NEW p, NEW q, Extends(p, q), NEW a \in 1..Len(p)
  PROVE  ActiveStateOwner(p, a) = ActiveStateOwner(q, a)
<1>1. DOMAIN p = 1..Len(p) /\ DOMAIN q = 1..Len(q) /\ Len(p) \in Nat /\ Len(q) \in Nat
  BY DEF Extends
<1>2. AttemptWindowStart(p, a) = AttemptWindowStart(q, a)
  <2>. DEFINE Start(evs) == {i \in DOMAIN evs :
            /\ i < a
            /\ \/ evs[i].label = "inProgress" /\ evs[i].act = "unlabeled"
               \/ evs[i].label = "blocked"}
  <2>1. Start(p) = Start(q)
    BY <1>1 DEF Extends
  <2>. QED  BY <2>1 DEF AttemptWindowStart
<1>3. Consumptions(p, a) = Consumptions(q, a)
  BY <1>1, <1>2 DEF Consumptions, Extends
<1>4. {i \in Consumptions(p, a) : p[i].label = "explore"}
        = {i \in Consumptions(q, a) : q[i].label = "explore"}
  BY <1>1, <1>3 DEF Consumptions, Extends
<1>. QED  BY <1>3, <1>4 DEF ActiveStateOwner

(* What a label's newest event is, when it has one.                        *)
LEMMA LabelEventIn ==
  ASSUME NEW evs \in Seq(Event), NEW l, LabelEvent(evs, l) # 0
  PROVE  LabelEvent(evs, l) \in DOMAIN evs /\ evs[LabelEvent(evs, l)].label = l
<1>. DEFINE S == {i \in DOMAIN evs : evs[i].label = l}
<1>1. S \subseteq 0..Len(evs) /\ Len(evs) \in Nat
  OBVIOUS
<1>2. S # {}
  BY DEF LabelEvent, Latest
<1>3. Latest(S) \in S
  BY <1>1, <1>2, LatestIn
<1>. QED  BY <1>3 DEF LabelEvent

LEMMA ActiveEventIn ==
  ASSUME NEW evs \in Seq(Event), NEW l, ActiveIssueRequestEvent(evs, l) # 0
  PROVE  LET i == ActiveIssueRequestEvent(evs, l) IN
         i \in DOMAIN evs /\ evs[i].label = l /\ evs[i].act = "labeled"
BY LabelEventIn DEF ActiveIssueRequestEvent, IssueLabelIsActive

(* A label write leaves the timeline as it was or adds one event.          *)
LEMMA WriteExtends ==
  ASSUME NEW evs \in Seq(Event), NEW l \in Labels, NEW who \in Authors
  PROVE  /\ Extends(evs, WithLabel(evs, l, who))
         /\ Extends(evs, WithoutLabel(evs, l, who))
<1>1. \A e \in Event : Extends(evs, Append(evs, e))
  BY DEF Extends
<1>2. [act |-> "labeled", label |-> l, by |-> who] \in Event
      /\ [act |-> "unlabeled", label |-> l, by |-> who] \in Event
  BY DEF Event
<1>3. Extends(evs, evs)
  BY DEF Extends
<1>. QED  BY <1>1, <1>2, <1>3 DEF WithLabel, WithoutLabel

-----------------------------------------------------------------------------
(* The invariant.                                                          *)

AtWork == Stages \cup {"retained"}

(* A request a host works on is a request label's event.                   *)
Requested(evs, r) == /\ r \in DOMAIN evs
                     /\ evs[r].label \in RequestLabels

AttemptsAreBound == \A h \in Hosts : pc[h] \in AtWork => Requested(timeline, Req(h))

(* What a host holds for its own removal was written by its identity.      *)
Removed(evs, h, i) == i \in DOMAIN evs /\ evs[i].by = Login[h]

RemovalsAreOwn == \A h \in Hosts : local[h].own # 0 => Removed(timeline, h, local[h].own)

(* A host about to write its receipt owns the active state it will name.   *)
Owns(evs, m) == /\ m.own # 0 /\ m.act \in DOMAIN evs
                /\ m.own = ActiveStateOwner(evs, m.act)

AboutToConsumeOwns == \A h \in Hosts : pc[h] = "receipt" => Owns(timeline, local[h])

(* A receipt repeats what its host still remembers.                        *)
Names(r, m, a) == r.own = m.own /\ r.act = m.act /\ r.req = a.req

ReceiptsAreRemembered ==
  \A r \in receipts : /\ pc[r.host] = "consumed"
                      /\ Names(r, local[r.host], attempt[r.host])
                      /\ Owns(timeline, local[r.host])

(* A host on its way to an explanation knows what to explain.              *)
Explaining == {"explain", "stop", "amb", "amb_add", "amb_explain", "amb_prove"}

ExplanationsAreKnown == \A h \in Hosts : pc[h] \in Explaining => local[h].note \in Notes

IInv == /\ TypeOK
        /\ ExplanationsAreKnown
        /\ AttemptsAreBound /\ RemovalsAreOwn
        /\ AboutToConsumeOwns /\ ReceiptsAreRemembered

(* What every step of a host amounts to: it moves to stage s, remembering  *)
(* m, for the attempt a, and the timeline grows by at most one event.      *)
Moves(h, s, m, a) ==
  /\ pc[h] # "consumed"
  /\ Extends(timeline, timeline')
  /\ s \in Resting \cup AtWork /\ pc' = [pc EXCEPT ![h] = s]
  /\ m \in Memory /\ local' = [local EXCEPT ![h] = m]
  /\ a \in [req : Nat, rec : BOOLEAN] /\ attempt' = [attempt EXCEPT ![h] = a]
  /\ s \in AtWork => Requested(timeline, a.req)
  /\ m.own # 0 => Removed(timeline, h, m.own)
  /\ s = "receipt" => Owns(timeline, m)
  /\ s \in Explaining => m.note \in Notes
  /\ comments' \subseteq comments \cup [host : Hosts, req : DOMAIN timeline, kind : Notes]
  /\ spent' \in [acts : 0..MaxPersonActs, attempts : 0..MaxAttempts, faults : 0..MaxFaults]

-----------------------------------------------------------------------------
(* What the growth of the timeline leaves true.                            *)

LEMMA GrowthKeeps ==
  ASSUME NEW p, NEW q, Extends(p, q)
  PROVE  /\ p \in Seq(Event) /\ q \in Seq(Event)
         /\ DOMAIN p \subseteq DOMAIN q
         /\ \A r : Requested(p, r) => Requested(q, r)
         /\ \A h, i : Removed(p, h, i) => Removed(q, h, i)
         /\ \A m : Owns(p, m) => Owns(q, m)
<1>1. p \in Seq(Event) /\ q \in Seq(Event) /\ DOMAIN p \subseteq DOMAIN q
      /\ \A i \in DOMAIN p : p[i] = q[i]
  BY DEF Extends
<1>2. \A m : Owns(p, m) => Owns(q, m)
  <2>. TAKE m
  <2>. HAVE Owns(p, m)
  <2>1. m.act \in 1..Len(p)
    BY <1>1 DEF Owns
  <2>2. ActiveStateOwner(p, m.act) = ActiveStateOwner(q, m.act)
    BY <2>1, OwnerIsStable
  <2>. QED  BY <1>1, <2>2 DEF Owns
<1>. QED  BY <1>1, <1>2 DEF Requested, Removed

LEMMA ViewExtends ==
  ASSUME timeline \in Seq(Event), NEW evs \in Views
  PROVE  Extends(evs, timeline)
<1>1. PICK n \in 0..Len(timeline) : evs = SubSeq(timeline, 1, n)
  BY BoundAssumption DEF Views
<1>. QED  BY <1>1 DEF Extends

LEMMA MovesKeepsIInv ==
  ASSUME IInv, NEW h \in Hosts, NEW s, NEW m, NEW a,
         Moves(h, s, m, a), receipts' = receipts
  PROVE  IInv'
<1>1. TypeOK'
  <2>1. DOMAIN timeline \subseteq DOMAIN timeline' /\ timeline' \in Seq(Event)
    BY GrowthKeeps DEF Moves
  <2>2. comments' \subseteq [host : Hosts, req : DOMAIN timeline', kind : Notes]
    BY <2>1 DEF Moves, IInv, TypeOK
  <2>3. receipts' \subseteq [host : Hosts, req : DOMAIN timeline',
                             own : DOMAIN timeline', act : DOMAIN timeline']
    BY <2>1 DEF IInv, TypeOK
  <2>4. pc' \in [Hosts -> Resting \cup Stages \cup {"retained"}]
    BY DEF Moves, IInv, TypeOK, AtWork
  <2>. QED  BY <2>1, <2>2, <2>3, <2>4 DEF Moves, IInv, TypeOK
<1>2. \A g \in Hosts \ {h} : pc'[g] = pc[g] /\ local'[g] = local[g] /\ attempt'[g] = attempt[g]
  BY DEF Moves, IInv, TypeOK
<1>3. pc'[h] = s /\ local'[h] = m /\ attempt'[h] = a
  BY DEF Moves, IInv, TypeOK
<1>4. Extends(timeline, timeline')
  BY DEF Moves
<1>5. AttemptsAreBound'
  BY <1>2, <1>3, <1>4, GrowthKeeps DEF Moves, IInv, AttemptsAreBound, Req
<1>6. RemovalsAreOwn'
  BY <1>2, <1>3, <1>4, GrowthKeeps DEF Moves, IInv, RemovalsAreOwn
<1>7. AboutToConsumeOwns'
  BY <1>2, <1>3, <1>4, GrowthKeeps DEF Moves, IInv, AboutToConsumeOwns
<1>8. ReceiptsAreRemembered'
  <2>1. \A r \in receipts : r.host \in Hosts \ {h}
    BY DEF Moves, IInv, ReceiptsAreRemembered, TypeOK
  <2>. QED  BY <2>1, <1>2, <1>4, GrowthKeeps DEF IInv, ReceiptsAreRemembered
<1>9. ExplanationsAreKnown'
  BY <1>2, <1>3 DEF Moves, IInv, ExplanationsAreKnown
<1>. QED  BY <1>1, <1>5, <1>6, <1>7, <1>8, <1>9 DEF IInv

-----------------------------------------------------------------------------
(* Most steps only turn to another stage and note something.               *)

Quiet == (Resting \cup AtWork) \ ({"receipt"} \cup Explaining)

Turns(h) ==
  \E s \in (Resting \cup AtWork) \ {"receipt"}, m \in Memory :
    /\ m.own \in {0, local[h].own}
    /\ s \in Explaining => m.note \in Notes
    /\ pc' = [pc EXCEPT ![h] = s]
    /\ local' = [local EXCEPT ![h] = m]

LEMMA MemoryUpdates ==
  ASSUME NEW m \in Memory
  PROVE  /\ \A i \in Nat : /\ [m EXCEPT !.own = i] \in Memory
                           /\ [m EXCEPT !.own = i].own = i
         /\ \A i \in Nat, w \in Whys :
              /\ [m EXCEPT !.act = i, !.why = w] \in Memory
              /\ [m EXCEPT !.act = i, !.why = w].own = m.own
              /\ [m EXCEPT !.act = i, !.why = w].act = i
         /\ \A w \in Whys : /\ [m EXCEPT !.why = w] \in Memory
                            /\ [m EXCEPT !.why = w].own = m.own
         /\ \A n \in Notes : /\ [m EXCEPT !.note = n] \in Memory
                             /\ [m EXCEPT !.note = n].own = m.own
                             /\ [m EXCEPT !.note = n].note = n
         /\ [m EXCEPT !.why = "none", !.note = "none"] \in Memory
         /\ [m EXCEPT !.why = "none", !.note = "none"].own = m.own
BY DEF Memory, Whys, Notes

LEMMA NoLocalIsMemory == NoLocal \in Memory /\ NoLocal.own = 0
BY DEF NoLocal, Memory, Whys, Notes

(* Every way the stages hand over is a turn.                               *)
LEMMA TurnForms ==
  ASSUME IInv, NEW h \in Hosts
  PROVE  /\ \A s \in Quiet :
              /\ Go(h, s) /\ UNCHANGED local => Turns(h)
              /\ Go(h, s) /\ local' = [local EXCEPT ![h] = NoLocal] => Turns(h)
              /\ \A w \in Whys : Go(h, s) /\ Keep(h, "why", w) => Turns(h)
         /\ \A s \in Quiet \cup Explaining, n \in Notes : GoNoting(h, s, n) => Turns(h)
         /\ \A s \in Explaining :
              pc[h] \in Explaining /\ Go(h, s) /\ UNCHANGED local => Turns(h)
         /\ \A k \in Resting \cup {"retained"} : Finish(h, k) => Turns(h)
<1>1. local[h] \in Memory /\ local = [local EXCEPT ![h] = local[h]]
  BY DEF IInv, TypeOK
<1>2. Quiet \cup Explaining \subseteq (Resting \cup AtWork) \ {"receipt"}
      /\ Quiet \cap Explaining = {}
  BY DEF Quiet, Explaining, Resting, Outcomes, AtWork, Stages
<1>3. ASSUME NEW s \in Quiet, Go(h, s), UNCHANGED local
      PROVE  Turns(h)
  BY <1>1, <1>2, <1>3 DEF Turns, Go
<1>4. ASSUME NEW s \in Quiet, Go(h, s), local' = [local EXCEPT ![h] = NoLocal]
      PROVE  Turns(h)
  BY <1>2, <1>4, NoLocalIsMemory DEF Turns, Go
<1>5. ASSUME NEW s \in Quiet, NEW w \in Whys, Go(h, s), Keep(h, "why", w)
      PROVE  Turns(h)
  BY <1>1, <1>2, <1>5, MemoryUpdates DEF Turns, Go, Keep
<1>6. ASSUME NEW s \in Quiet \cup Explaining, NEW n \in Notes, GoNoting(h, s, n)
      PROVE  Turns(h)
  <2>. DEFINE m == [local[h] EXCEPT !.note = n]
  <2>1. m \in Memory /\ m.own = local[h].own /\ m.note = n
    BY <1>1, MemoryUpdates
  <2>2. pc' = [pc EXCEPT ![h] = s] /\ local' = [local EXCEPT ![h] = m]
    BY <1>6 DEF Go, Keep, GoNoting
  <2>3. s \in (Resting \cup AtWork) \ {"receipt"}
    BY <1>2
  <2>. HIDE DEF m
  <2>. QED  BY <2>1, <2>2, <2>3 DEF Turns
<1>7. ASSUME NEW s \in Explaining, pc[h] \in Explaining, Go(h, s), UNCHANGED local
      PROVE  Turns(h)
  BY <1>1, <1>2, <1>7 DEF Turns, Go, IInv, ExplanationsAreKnown
<1>8. ASSUME NEW k \in Resting \cup {"retained"}, Finish(h, k)
      PROVE  Turns(h)
  <2>1. k \in Quiet
    BY DEF Quiet, Explaining, Resting, Outcomes, AtWork
  <2>. QED  BY <1>1, <1>2, <1>8, <2>1, MemoryUpdates DEF Turns, Go, Finish
<1>. QED  BY <1>3, <1>4, <1>5, <1>6, <1>7, <1>8

LEMMA StopForms ==
  ASSUME IInv, NEW h \in Hosts, NEW b
  PROVE  /\ Ambiguous(h, b) => Turns(h)
         /\ StopConsumed(h, b) => Turns(h)
         /\ AfterRelease(h, b) => Turns(h)
<1>1. {"amb", "stop"} \subseteq Explaining
  BY DEF Explaining
<1>2. \A c : Ambiguous(h, c) => Turns(h)
  BY <1>1, TurnForms DEF Ambiguous, Notes
<1>3. \A c : StopConsumed(h, c) => Turns(h)
  BY <1>1, TurnForms DEF StopConsumed, Notes
<1>4. Finish(h, "raced") => Turns(h)
  BY TurnForms DEF Resting, Outcomes
<1>. QED  BY <1>2, <1>3, <1>4 DEF AfterRelease

(* A turn of a host at work, with whatever it wrote, is a move.            *)
LEMMA TurnMoves ==
  ASSUME IInv, NEW h \in Hosts, pc[h] \in AtWork, Turns(h), UNCHANGED attempt,
         Extends(timeline, timeline'),
         comments' \subseteq comments \cup [host : Hosts, req : DOMAIN timeline, kind : Notes],
         spent' \in [acts : 0..MaxPersonActs, attempts : 0..MaxAttempts, faults : 0..MaxFaults]
  PROVE  \E s, m, a : Moves(h, s, m, a)
<1>1. PICK s \in (Resting \cup AtWork) \ {"receipt"}, m \in Memory :
        /\ m.own \in {0, local[h].own}
        /\ s \in Explaining => m.note \in Notes
        /\ pc' = [pc EXCEPT ![h] = s]
        /\ local' = [local EXCEPT ![h] = m]
  BY DEF Turns
<1>2. attempt[h] \in [req : Nat, rec : BOOLEAN]
      /\ attempt' = [attempt EXCEPT ![h] = attempt[h]]
  BY DEF IInv, TypeOK
<1>3. pc[h] # "consumed"
  BY DEF AtWork, Stages
<1>4. Requested(timeline, attempt[h].req)
  BY DEF IInv, AttemptsAreBound, Req
<1>5. m.own # 0 => Removed(timeline, h, m.own)
  BY <1>1 DEF IInv, RemovalsAreOwn
<1>6. Moves(h, s, m, attempt[h])
  BY <1>1, <1>2, <1>3, <1>4, <1>5 DEF Moves
<1>. QED  BY <1>6

LEMMA WriteGrows ==
  ASSUME IInv, NEW h \in Hosts, pc[h] \in AtWork
  PROVE  Extends(timeline, Written(h)) /\ Extends(timeline, timeline)
<1>1. timeline \in Seq(Event) /\ Login[h] \in Authors
  BY LoginAssumption DEF IInv, TypeOK, Authors
<1>2. Label(h) \in Labels
  BY DEF IInv, AttemptsAreBound, Requested, Label, Labels
<1>3. "blocked" \in Labels /\ "inProgress" \in Labels
  BY DEF Labels
<1>4. Extends(timeline, timeline)
  BY <1>1 DEF Extends
<1>. QED  BY <1>1, <1>2, <1>3, <1>4, WriteExtends DEF Written

-----------------------------------------------------------------------------
(* Every step of a host is a move.                                         *)

(* The frame most stages share: nothing but the stage and the note, and at *)
(* most the write of this stage.                                           *)
Frame(h) ==
  /\ timeline' \in {timeline, Written(h)}
  /\ comments' \subseteq comments \cup [host : Hosts, req : DOMAIN timeline, kind : Notes]
  /\ spent' \in [acts : 0..MaxPersonActs, attempts : 0..MaxAttempts, faults : 0..MaxFaults]

LEMMA FramedTurnMoves ==
  ASSUME IInv, NEW h \in Hosts, pc[h] \in AtWork, Turns(h), UNCHANGED attempt, Frame(h)
  PROVE  \E s, m, a : Moves(h, s, m, a)
BY TurnMoves, WriteGrows DEF Frame

LEMMA QuietFrame ==
  ASSUME IInv, NEW h \in Hosts, timeline' \in {timeline, Written(h)},
         comments' = comments, spent' = spent
  PROVE  Frame(h)
BY DEF Frame, IInv, TypeOK

LEMMA ClearingTurns ==
  ASSUME IInv, NEW h \in Hosts, ReadBlock(h) \/ ClearBlock(h) \/ ProveCleared(h)
  PROVE  /\ Turns(h) /\ Frame(h) /\ pc[h] \in AtWork
         /\ UNCHANGED <<attempt, receipts>>
<1>1. CASE ReadBlock(h)
  <2>1. {"before", "unblock", "retained"} \subseteq Quiet
    BY DEF Quiet, Explaining, AtWork, Stages
  <2>. QED  BY <1>1, <2>1, TurnForms, QuietFrame DEF ReadBlock, ReadOnly, SameBudget, AtWork, Stages
<1>2. CASE ClearBlock(h)
  <2>1. "cleared" \in Quiet
    BY DEF Quiet, Explaining, AtWork, Stages
  <2>. QED  BY <1>2, <2>1, TurnForms, QuietFrame DEF ClearBlock, SameBudget, AtWork, Stages
<1>3. CASE ProveCleared(h)
  <2>1. {"retained", "before"} \subseteq Quiet
    BY DEF Quiet, Explaining, AtWork, Stages
  <2>. QED  BY <1>3, <2>1, TurnForms, QuietFrame DEF ProveCleared, ReadOnly,
             SameBudget, AtWork, Stages
<1>. QED  BY <1>1, <1>2, <1>3

LEMMA BeforeTurns ==
  ASSUME IInv, NEW h \in Hosts, DecideBefore(h) \/ DeleteRequest(h) \/ RestoreNewer(h)
  PROVE  /\ Turns(h) /\ Frame(h) /\ pc[h] \in AtWork
         /\ UNCHANGED <<attempt, receipts>>
<1>0. {"cancelled", "recovery_blocked", "delete", "raced", "after"} \subseteq Quiet
  BY DEF Quiet, Explaining, AtWork, Stages, Resting, Outcomes
<1>1. CASE DecideBefore(h)
  <2>1. \/ \E s \in {"cancelled", "recovery_blocked", "delete", "raced"} :
             Go(h, s) /\ UNCHANGED local
        \/ Ambiguous(h, FALSE)
    BY <1>1 DEF DecideBefore
  <2>2. Turns(h)
    BY <1>0, <2>1, TurnForms, StopForms
  <2>. QED  BY <1>1, <2>2, QuietFrame DEF DecideBefore, ReadOnly, SameBudget, AtWork, Stages
<1>2. CASE DeleteRequest(h)
  BY <1>0, <1>2, TurnForms, QuietFrame DEF DeleteRequest, SameBudget, AtWork, Stages
<1>3. CASE RestoreNewer(h)
  BY <1>0, <1>3, TurnForms, QuietFrame DEF RestoreNewer, SameBudget, AtWork, Stages
<1>. QED  BY <1>1, <1>2, <1>3

LEMMA ActivatingTurns ==
  ASSUME IInv, NEW h \in Hosts, CheckNoActiveState(h) \/ AddActiveState(h)
  PROVE  /\ Turns(h) /\ Frame(h) /\ pc[h] \in AtWork
         /\ UNCHANGED <<attempt, receipts>>
<1>0. {"activate", "prove"} \subseteq Quiet
  BY DEF Quiet, Explaining, AtWork, Stages
<1>1. CASE CheckNoActiveState(h)
  BY <1>0, <1>1, TurnForms, StopForms, QuietFrame
     DEF CheckNoActiveState, ReadOnly, SameBudget, AtWork, Stages
<1>2. CASE AddActiveState(h)
  BY <1>0, <1>2, TurnForms, QuietFrame DEF AddActiveState, SameBudget, AtWork, Stages
<1>. QED  BY <1>1, <1>2

LEMMA ReleasingTurns ==
  ASSUME IInv, NEW h \in Hosts,
         ReadActiveState(h) \/ RemoveActiveState(h) \/ ProveReleased(h)
  PROVE  /\ Turns(h) /\ Frame(h) /\ pc[h] \in AtWork
         /\ UNCHANGED <<attempt, receipts>>
<1>0. {"unlabel", "released"} \subseteq Quiet
  BY DEF Quiet, Explaining, AtWork, Stages
<1>1. CASE ReadActiveState(h)
  BY <1>0, <1>1, TurnForms, StopForms, QuietFrame
     DEF ReadActiveState, ReadOnly, SameBudget, AtWork, Stages
<1>2. CASE RemoveActiveState(h)
  BY <1>0, <1>2, TurnForms, QuietFrame DEF RemoveActiveState, SameBudget, AtWork, Stages
<1>3. CASE ProveReleased(h)
  BY <1>3, StopForms, QuietFrame DEF ProveReleased, ReadOnly, SameBudget, AtWork, Stages
<1>. QED  BY <1>1, <1>2, <1>3

(* An explanation names the host and the request it has bound.             *)
LEMMA CommentIsTyped ==
  ASSUME IInv, NEW h \in Hosts, pc[h] \in Explaining, Comment(h)
  PROVE  comments' \subseteq comments \cup [host : Hosts, req : DOMAIN timeline, kind : Notes]
<1>1. Req(h) \in DOMAIN timeline
  BY DEF IInv, AttemptsAreBound, Requested, Explaining, AtWork, Stages
<1>2. local[h].note \in Notes
  BY DEF IInv, ExplanationsAreKnown
<1>. QED  BY <1>1, <1>2 DEF Comment

LEMMA RestoringTurns ==
  ASSUME IInv, NEW h \in Hosts,
         DecideRestore(h) \/ Requeue(h) \/ ProveRequeued(h) \/ ExplainConsumed(h)
  PROVE  /\ Turns(h) /\ Frame(h) /\ pc[h] \in AtWork
         /\ UNCHANGED <<attempt, receipts>>
<1>0. {"requeue", "requeued"} \subseteq Quiet /\ {"explain", "stop"} \subseteq Explaining
  BY DEF Quiet, Explaining, AtWork, Stages
<1>. {"superseded", "superseded_restored"} \subseteq Notes
  BY DEF Notes
<1>1. CASE DecideRestore(h)
  BY <1>0, <1>1, TurnForms, QuietFrame DEF DecideRestore, ReadOnly, SameBudget, AtWork, Stages
<1>2. CASE Requeue(h)
  BY <1>0, <1>2, TurnForms, QuietFrame DEF Requeue, SameBudget, AtWork, Stages
<1>3. CASE ProveRequeued(h)
  BY <1>0, <1>3, TurnForms, QuietFrame DEF ProveRequeued, ReadOnly, SameBudget, AtWork, Stages
<1>4. CASE ExplainConsumed(h)
  <2>1. Frame(h)
    BY <1>0, <1>4, CommentIsTyped DEF ExplainConsumed, SameBudget, Frame, IInv, TypeOK
  <2>2. Turns(h)
    BY <1>4, TurnForms DEF ExplainConsumed, Resting, Outcomes
  <2>. QED  BY <1>4, <2>1, <2>2 DEF ExplainConsumed, AtWork, Stages
<1>. QED  BY <1>1, <1>2, <1>3, <1>4

LEMMA StoppingTurns ==
  ASSUME IInv, NEW h \in Hosts, ReadStop(h) \/ AddStop(h) \/ ExplainStop(h) \/ ProveStop(h)
  PROVE  /\ Turns(h) /\ Frame(h) /\ pc[h] \in AtWork
         /\ UNCHANGED <<attempt, receipts>>
<1>0. {"amb", "amb_add", "amb_explain", "amb_prove"} \subseteq Explaining
      /\ "retained" \in Quiet
  BY DEF Quiet, Explaining, AtWork, Stages
<1>1. CASE ReadStop(h)
  BY <1>0, <1>1, TurnForms, QuietFrame DEF ReadStop, ReadOnly, SameBudget, AtWork, Stages
<1>2. CASE AddStop(h)
  BY <1>0, <1>2, TurnForms, QuietFrame DEF AddStop, SameBudget, AtWork, Stages
<1>3. CASE ExplainStop(h)
  <2>1. Frame(h)
    BY <1>0, <1>3, CommentIsTyped DEF ExplainStop, SameBudget, Frame, IInv, TypeOK
  <2>2. Turns(h)
    BY <1>0, <1>3, TurnForms DEF ExplainStop
  <2>. QED  BY <1>3, <2>1, <2>2 DEF ExplainStop, AtWork, Stages
<1>4. CASE ProveStop(h)
  BY <1>4, TurnForms, QuietFrame
     DEF ProveStop, ReadOnly, SameBudget, AtWork, Stages, Resting, Outcomes
<1>. QED  BY <1>1, <1>2, <1>3, <1>4

LEMMA FaultTurns ==
  ASSUME IInv, NEW h \in Hosts, Fail(h) \/ Crash(h)
  PROVE  /\ Turns(h) /\ Frame(h) /\ pc[h] \in AtWork
         /\ UNCHANGED <<attempt, receipts>>
<1>0. {"release", "retained"} \subseteq Quiet /\ "explain" \in Explaining
      /\ "failed" \in Whys /\ "superseded" \in Notes
  BY DEF Quiet, Explaining, AtWork, Stages, Whys, Notes
<1>1. ASSUME Spend("faults", MaxFaults), timeline' \in {timeline, Written(h)},
             comments' = comments
      PROVE  Frame(h)
  <2>1. spent \in [acts : 0..MaxPersonActs, attempts : 0..MaxAttempts, faults : 0..MaxFaults]
    BY DEF IInv, TypeOK
  <2>2. spent.faults < MaxFaults /\ spent' = [spent EXCEPT !.faults = @ + 1]
    BY <1>1 DEF Spend
  <2>3. spent' \in [acts : 0..MaxPersonActs, attempts : 0..MaxAttempts, faults : 0..MaxFaults]
    BY <2>1, <2>2, BoundAssumption
  <2>. QED  BY <1>1, <2>3 DEF Frame
<1>2. CASE Fail(h)
  <2>1. Turns(h)
    BY <1>0, <1>2, TurnForms, StopForms DEF Fail
  <2>. QED  BY <1>1, <1>2, <2>1 DEF Fail, AtWork
<1>3. CASE Crash(h)
  BY <1>0, <1>1, <1>3, TurnForms DEF Crash, AtWork
<1>. QED  BY <1>2, <1>3

-----------------------------------------------------------------------------
(* The steps that decide something the receipt will say.                   *)

(* A step that only reads, taking host h to stage s with memory m.         *)
LEMMA ReadingMoves ==
  ASSUME IInv, NEW h \in Hosts, pc[h] \in AtWork,
         NEW s \in Resting \cup AtWork, s \notin Explaining,
         NEW m \in Memory, m.own # 0 => Removed(timeline, h, m.own),
         s = "receipt" => Owns(timeline, m),
         pc' = [pc EXCEPT ![h] = s], local' = [local EXCEPT ![h] = m],
         UNCHANGED <<timeline, comments, attempt, spent>>
  PROVE  \E t, n, a : Moves(h, t, n, a)
<1>1. attempt[h] \in [req : Nat, rec : BOOLEAN]
      /\ attempt' = [attempt EXCEPT ![h] = attempt[h]]
  BY DEF IInv, TypeOK
<1>2. pc[h] # "consumed" /\ Requested(timeline, attempt[h].req)
  BY DEF AtWork, Stages, IInv, AttemptsAreBound, Req
<1>3. Extends(timeline, timeline')
  BY WriteGrows
<1>4. spent' \in [acts : 0..MaxPersonActs, attempts : 0..MaxAttempts, faults : 0..MaxFaults]
  BY DEF IInv, TypeOK
<1>5. Moves(h, s, m, attempt[h])
  BY <1>1, <1>2, <1>3, <1>4 DEF Moves
<1>. QED  BY <1>5

LEMMA DecideAfterMoves ==
  ASSUME IInv, NEW h \in Hosts, DecideAfter(h)
  PROVE  \E s, m, a : Moves(h, s, m, a)
<1>1. PICK evs \in Views :
        \/ Ambiguous(h, FALSE) \/ StopConsumed(h, FALSE)
        \/ LET own == IF Req(h) \in DOMAIN evs THEN OwnRemoval(evs, Req(h), Login[h]) ELSE 0
           IN  /\ own # 0 /\ Keep(h, "own", own)
               /\ Go(h, "restore_newer") \/ Go(h, "raced") \/ Go(h, "check")
  BY DEF DecideAfter
<1>2. pc[h] \in AtWork /\ UNCHANGED <<timeline, comments, attempt, spent>>
  BY DEF DecideAfter, ReadOnly, SameBudget, AtWork, Stages
<1>3. CASE Ambiguous(h, FALSE) \/ StopConsumed(h, FALSE)
  BY <1>2, <1>3, StopForms, QuietFrame, FramedTurnMoves
<1>4. CASE ~(Ambiguous(h, FALSE) \/ StopConsumed(h, FALSE))
  <2>. DEFINE own == OwnRemoval(evs, Req(h), Login[h])
              m == [local[h] EXCEPT !.own = own]
  <2>1. /\ own # 0 /\ Keep(h, "own", own)
        /\ Go(h, "restore_newer") \/ Go(h, "raced") \/ Go(h, "check")
    BY <1>1, <1>4
  <2>2. own \in DOMAIN evs /\ own \in Nat /\ evs[own].by = Login[h]
    <3>. DEFINE S == {i \in DOMAIN evs : /\ Req(h) < i
                               /\ evs[i].act = "unlabeled"
                               /\ evs[i].label = evs[Req(h)].label
                               /\ evs[i].by = Login[h]}
    <3>1. evs \in Seq(Event)
      BY ViewExtends DEF IInv, TypeOK, Extends
    <3>2. S \subseteq Nat /\ own = Earliest(S)
      BY <3>1 DEF OwnRemoval
    <3>3. own \in S
      BY <2>1, <3>2, EarliestIn DEF Earliest
    <3>. QED  BY <3>1, <3>3
  <2>3. Removed(timeline, h, own)
    <3>1. Extends(evs, timeline)
      BY ViewExtends DEF IInv, TypeOK
    <3>2. Removed(evs, h, own)
      BY <2>2 DEF Removed
    <3>. QED  BY <3>1, <3>2, GrowthKeeps
  <2>4. m \in Memory /\ m.own = own
    <3>1. local[h] \in Memory
      BY DEF IInv, TypeOK
    <3>. HIDE DEF own
    <3>. QED  BY <2>2, <3>1, MemoryUpdates
  <2>5. local' = [local EXCEPT ![h] = m]
    BY <2>1 DEF Keep
  <2>6. PICK s \in {"restore_newer", "raced", "check"} : pc' = [pc EXCEPT ![h] = s]
    BY <2>1 DEF Go
  <2>7. s \in Resting \cup AtWork /\ s \notin Explaining /\ s # "receipt"
    BY <2>6 DEF Explaining, AtWork, Stages, Resting, Outcomes
  <2>. HIDE DEF m, own
  <2>. QED  BY <1>2, <2>3, <2>4, <2>5, <2>6, <2>7, ReadingMoves
<1>. QED  BY <1>3, <1>4

(* The heart of the argument: what a host proves on its view holds of the  *)
(* whole timeline.                                                         *)
LEMMA WonIsOwned ==
  ASSUME IInv, NEW h \in Hosts, NEW evs \in Views, NEW act,
         act = 0 \/ act = LiveActiveState(evs), Contest(h, evs, act) = "won"
  PROVE  /\ act \in DOMAIN timeline
         /\ local[h].own # 0 /\ local[h].own = ActiveStateOwner(timeline, act)
<1>1. Extends(evs, timeline)
  BY ViewExtends DEF IInv, TypeOK
<1>2. act # 0 /\ ActiveStateOwner(evs, act) # 0 /\ ActiveStateOwner(evs, act) = local[h].own
  BY DEF Contest
<1>3. act \in DOMAIN evs
  BY <1>1, <1>2, ActiveEventIn DEF LiveActiveState, Extends
<1>4. act \in 1..Len(evs) /\ act \in DOMAIN timeline
  BY <1>1, <1>3 DEF Extends
<1>5. ActiveStateOwner(evs, act) = ActiveStateOwner(timeline, act)
  BY <1>1, <1>4, OwnerIsStable
<1>. QED  BY <1>2, <1>4, <1>5

LEMMA ProveActiveStateMoves ==
  ASSUME IInv, NEW h \in Hosts, ProveActiveState(h)
  PROVE  \E s, m, a : Moves(h, s, m, a)
<1>1. PICK evs \in Views :
        LET act == IF "inProgress" \in Shown THEN LiveActiveState(evs) ELSE 0
            keepAct(stage, why) ==
              /\ Go(h, stage)
              /\ local' = [local EXCEPT ![h] = [@ EXCEPT !.act = act, !.why = why]]
        IN  \/ Ambiguous(h, TRUE)
            \/ keepAct("restore", "none")
            \/ \E why \in {"blocked", "newer", "unproven"} : keepAct("release", why)
            \/ Contest(h, evs, act) = "won" /\ keepAct("receipt", "none")
  BY DEF ProveActiveState
<1>2. pc[h] \in AtWork /\ UNCHANGED <<timeline, comments, attempt, spent>>
  BY DEF ProveActiveState, ReadOnly, SameBudget, AtWork, Stages
<1>3. CASE Ambiguous(h, TRUE)
  BY <1>2, <1>3, StopForms, QuietFrame, FramedTurnMoves
<1>4. CASE ~Ambiguous(h, TRUE)
  <2>. DEFINE act == IF "inProgress" \in Shown THEN LiveActiveState(evs) ELSE 0
  <2>1. PICK s \in {"restore", "release", "receipt"}, why \in Whys :
          /\ pc' = [pc EXCEPT ![h] = s]
          /\ local' = [local EXCEPT ![h] = [local[h] EXCEPT !.act = act, !.why = why]]
          /\ s = "receipt" => Contest(h, evs, act) = "won"
    BY <1>1, <1>4 DEF Go, Whys
  <2>. DEFINE m == [local[h] EXCEPT !.act = act, !.why = why]
  <2>2. act \in Nat
    <3>1. evs \in Seq(Event)
      BY ViewExtends DEF IInv, TypeOK, Extends
    <3>. QED  BY <3>1, ActiveEventIn DEF LiveActiveState
  <2>3. m \in Memory /\ m.own = local[h].own /\ m.act = act
    <3>1. local[h] \in Memory
      BY DEF IInv, TypeOK
    <3>. HIDE DEF act
    <3>2. \A i \in Nat, w \in Whys :
            /\ [local[h] EXCEPT !.act = i, !.why = w] \in Memory
            /\ [local[h] EXCEPT !.act = i, !.why = w].own = local[h].own
            /\ [local[h] EXCEPT !.act = i, !.why = w].act = i
      BY <3>1, MemoryUpdates
    <3>. QED  BY <2>1, <2>2, <3>2, Zenon
  <2>4. s \in Resting \cup AtWork /\ s \notin Explaining
    BY <2>1 DEF Explaining, AtWork, Stages
  <2>5. m.own # 0 => Removed(timeline, h, m.own)
    BY <2>3 DEF IInv, RemovalsAreOwn
  <2>6. s = "receipt" => Owns(timeline, m)
    <3>1. act = 0 \/ act = LiveActiveState(evs)
      OBVIOUS
    <3>. HIDE DEF act
    <3>. QED  BY <2>1, <2>3, <3>1, WonIsOwned DEF Owns
  <2>7. local' = [local EXCEPT ![h] = m]
    BY <2>1
  <2>. HIDE DEF m, act
  <2>. QED  BY <1>2, <2>1, <2>3, <2>4, <2>5, <2>6, <2>7, ReadingMoves
<1>. QED  BY <1>3, <1>4

-----------------------------------------------------------------------------
(* The steps that bind an attempt or write its receipt.                    *)

LEMMA SelectMoves ==
  ASSUME IInv, NEW h \in Hosts, Select(h)
  PROVE  \E s, m, a : Moves(h, s, m, a)
<1>1. PICK evs \in Views, l \in RequestLabels :
        /\ ActiveIssueRequestEvent(evs, l) # 0
        /\ attempt' = [attempt EXCEPT ![h] =
                         [req |-> ActiveIssueRequestEvent(evs, l), rec |-> FALSE]]
  BY DEF Select
<1>. DEFINE r == ActiveIssueRequestEvent(evs, l)
            a == [req |-> r, rec |-> FALSE]
<1>2. timeline \in Seq(Event) /\ Extends(evs, timeline)
  BY ViewExtends DEF IInv, TypeOK
<1>3. Requested(evs, r) /\ r \in Nat
  BY <1>1, <1>2, ActiveEventIn DEF Requested, Extends
<1>4. Requested(timeline, r) /\ r \in Nat
  BY <1>2, <1>3, GrowthKeeps
<1>5. spent' \in [acts : 0..MaxPersonActs, attempts : 0..MaxAttempts, faults : 0..MaxFaults]
  <2>1. spent \in [acts : 0..MaxPersonActs, attempts : 0..MaxAttempts, faults : 0..MaxFaults]
    BY DEF IInv, TypeOK
  <2>2. spent.attempts < MaxAttempts /\ spent' = [spent EXCEPT !.attempts = @ + 1]
    BY DEF Select, Spend
  <2>. QED  BY <2>1, <2>2, BoundAssumption
<1>6. pc[h] # "consumed" /\ UNCHANGED <<timeline, comments>>
      /\ pc' = [pc EXCEPT ![h] = "clear"] /\ local' = [local EXCEPT ![h] = NoLocal]
  BY DEF Select, ReadOnly, Go
<1>7. Extends(timeline, timeline')
  BY <1>2, <1>6 DEF Extends
<1>8. "clear" \in Resting \cup AtWork /\ "clear" \notin Explaining
  BY DEF AtWork, Stages, Explaining
<1>9. a \in [req : Nat, rec : BOOLEAN] /\ Requested(timeline, a.req)
  BY <1>4
<1>. HIDE DEF a
<1>10. attempt' = [attempt EXCEPT ![h] = a]
  BY <1>1 DEF a
<1>11. Moves(h, "clear", NoLocal, a)
  BY <1>5, <1>6, <1>7, <1>8, <1>9, <1>10, NoLocalIsMemory DEF Moves
<1>. QED  BY <1>11

LEMMA ReconcileMoves ==
  ASSUME IInv, NEW h \in Hosts, Reconcile(h)
  PROVE  \E s, m, a : Moves(h, s, m, a)
<1>1. attempt[h] \in [req : Nat, rec : BOOLEAN]
      /\ attempt = [attempt EXCEPT ![h] = attempt[h]]
  BY DEF IInv, TypeOK
<1>2. PICK s \in {"before", "prepared_request_released"}, a \in [req : Nat, rec : BOOLEAN] :
        /\ Go(h, s) /\ a.req = attempt[h].req
        /\ attempt' = [attempt EXCEPT ![h] = a]
  <2>1. [attempt[h] EXCEPT !.rec = TRUE] \in [req : Nat, rec : BOOLEAN]
        /\ [attempt[h] EXCEPT !.rec = TRUE].req = attempt[h].req
    BY <1>1
  <2>. QED  BY <1>1, <2>1 DEF Reconcile
<1>3. /\ pc[h] = "retained" /\ UNCHANGED <<timeline, comments, spent>>
      /\ local' = [local EXCEPT ![h] = NoLocal]
  BY DEF Reconcile, ReadOnly, SameBudget
<1>4. s \in Resting \cup AtWork /\ s \notin Explaining /\ s # "receipt" /\ pc[h] \in AtWork
  BY <1>2, <1>3 DEF AtWork, Stages, Resting, Explaining
<1>5. Requested(timeline, a.req)
  BY <1>2, <1>4 DEF IInv, AttemptsAreBound, Req
<1>6. Extends(timeline, timeline')
  BY <1>3, <1>4, WriteGrows
<1>7. spent' \in [acts : 0..MaxPersonActs, attempts : 0..MaxAttempts, faults : 0..MaxFaults]
  BY <1>3 DEF IInv, TypeOK
<1>8. Moves(h, s, NoLocal, a)
  BY <1>2, <1>3, <1>4, <1>5, <1>6, <1>7, NoLocalIsMemory DEF Moves, Go
<1>. QED  BY <1>8

(* The receipt is written, or, in a recovery, refused.                     *)
LEMMA PersistConsumedKeepsIInv ==
  ASSUME IInv, NEW h \in Hosts, PersistConsumed(h)
  PROVE  IInv'
<1>1. CASE attempt[h].rec
  <2>1. "release" \in Quiet /\ "failed" \in Whys /\ pc[h] \in AtWork
    BY DEF PersistConsumed, Quiet, Explaining, AtWork, Stages, Whys
  <2>2. Turns(h) /\ UNCHANGED <<attempt, receipts>>
    BY <1>1, <2>1, TurnForms DEF PersistConsumed
  <2>3. Frame(h)
    BY <1>1, QuietFrame DEF PersistConsumed, SameBudget
  <2>. QED  BY <2>1, <2>2, <2>3, FramedTurnMoves, MovesKeepsIInv
<1>2. CASE ~attempt[h].rec
  <2>. DEFINE r == [host |-> h, req |-> Req(h), own |-> local[h].own, act |-> local[h].act]
  <2>1. /\ pc[h] = "receipt" /\ pc' = [pc EXCEPT ![h] = "consumed"]
        /\ receipts' = receipts \cup {r}
        /\ UNCHANGED <<local, timeline, comments, attempt, spent>>
    BY <1>2 DEF PersistConsumed, Go, SameBudget
  <2>2. Owns(timeline, local[h]) /\ Removed(timeline, h, local[h].own)
        /\ Requested(timeline, attempt[h].req)
    BY <2>1 DEF IInv, AboutToConsumeOwns, RemovalsAreOwn, AttemptsAreBound, Owns, Req,
                AtWork, Stages
  <2>3. r \in [host : Hosts, req : DOMAIN timeline, own : DOMAIN timeline, act : DOMAIN timeline]
    BY <2>2 DEF Owns, Removed, Requested, Req
  <2>4. TypeOK'
    <3>1. pc' \in [Hosts -> Resting \cup Stages \cup {"retained"}]
      BY <2>1 DEF IInv, TypeOK, Resting, Outcomes
    <3>. HIDE DEF r
    <3>. QED  BY <2>1, <2>3, <3>1 DEF IInv, TypeOK
  <2>5. \A g \in Hosts : pc'[g] = IF g = h THEN "consumed" ELSE pc[g]
    BY <2>1 DEF IInv, TypeOK
  <2>6. ExplanationsAreKnown' /\ AttemptsAreBound' /\ RemovalsAreOwn' /\ AboutToConsumeOwns'
    BY <2>1, <2>5 DEF IInv, ExplanationsAreKnown, AttemptsAreBound, RemovalsAreOwn,
                      AboutToConsumeOwns, Req, Explaining, AtWork, Stages
  <2>7. ReceiptsAreRemembered'
    <3>1. \A q \in receipts : q.host \in Hosts /\ q.host # h
      BY <2>1 DEF IInv, ReceiptsAreRemembered, TypeOK
    <3>2. Names(r, local[h], attempt[h]) /\ r.host = h
      BY DEF Names, Req
    <3>. HIDE DEF r
    <3>. QED  BY <2>1, <2>2, <2>5, <3>1, <3>2 DEF IInv, ReceiptsAreRemembered
  <2>. QED  BY <2>4, <2>6, <2>7 DEF IInv
<1>. QED  BY <1>1, <1>2

(* People only make the timeline grow.                                     *)
LEMMA PersonActKeepsIInv ==
  ASSUME IInv, PersonAct
  PROVE  IInv'
<1>1. Person \in Authors /\ timeline \in Seq(Event)
  BY DEF Authors, IInv, TypeOK
<1>2. Extends(timeline, timeline')
  BY <1>1, WriteExtends, BoundAssumption DEF PersonAct
<1>3. spent' \in [acts : 0..MaxPersonActs, attempts : 0..MaxAttempts, faults : 0..MaxFaults]
  <2>1. spent \in [acts : 0..MaxPersonActs, attempts : 0..MaxAttempts, faults : 0..MaxFaults]
    BY DEF IInv, TypeOK
  <2>2. spent.acts < MaxPersonActs /\ spent' = [spent EXCEPT !.acts = @ + 1]
    BY DEF PersonAct, Spend
  <2>. QED  BY <2>1, <2>2, BoundAssumption
<1>4. UNCHANGED <<comments, receipts, pc, attempt, local>>
  BY DEF PersonAct
<1>5. TypeOK'
  <2>1. DOMAIN timeline \subseteq DOMAIN timeline' /\ timeline' \in Seq(Event)
    BY <1>2, GrowthKeeps
  <2>. QED  BY <1>3, <1>4, <2>1 DEF IInv, TypeOK
<1>6. ExplanationsAreKnown'
  BY <1>4 DEF IInv, ExplanationsAreKnown
<1>7. AttemptsAreBound' /\ RemovalsAreOwn' /\ AboutToConsumeOwns' /\ ReceiptsAreRemembered'
  BY <1>2, <1>4, GrowthKeeps DEF IInv, AttemptsAreBound, RemovalsAreOwn, AboutToConsumeOwns,
                                 ReceiptsAreRemembered, Req
<1>. QED  BY <1>5, <1>6, <1>7 DEF IInv

-----------------------------------------------------------------------------
(* The invariant is inductive.                                             *)

LEMMA InitEstablishesIInv == Init => IInv
<1>. SUFFICES ASSUME Init PROVE IInv
  OBVIOUS
<1>1. TypeOK
  BY NoLocalIsMemory, BoundAssumption DEF Init, TypeOK, Resting
<1>2. ExplanationsAreKnown /\ AttemptsAreBound /\ AboutToConsumeOwns /\ ReceiptsAreRemembered
  BY DEF Init, ExplanationsAreKnown, AttemptsAreBound, AboutToConsumeOwns,
         ReceiptsAreRemembered, Explaining, AtWork, Stages
<1>3. RemovalsAreOwn
  BY NoLocalIsMemory DEF Init, RemovalsAreOwn
<1>. QED  BY <1>1, <1>2, <1>3 DEF IInv

LEMMA NextKeepsIInv == IInv /\ [Next]_vars => IInv'
<1>. SUFFICES ASSUME IInv, [Next]_vars PROVE IInv'
  OBVIOUS
<1>1. ASSUME NEW h \in Hosts, Select(h) PROVE IInv'
  BY <1>1, SelectMoves, MovesKeepsIInv DEF Select, ReadOnly
<1>2. ASSUME NEW h \in Hosts, ReadBlock(h) \/ ClearBlock(h) \/ ProveCleared(h) PROVE IInv'
  BY <1>2, ClearingTurns, FramedTurnMoves, MovesKeepsIInv
<1>3. ASSUME NEW h \in Hosts, DecideBefore(h) \/ DeleteRequest(h) \/ RestoreNewer(h) PROVE IInv'
  BY <1>3, BeforeTurns, FramedTurnMoves, MovesKeepsIInv
<1>4. ASSUME NEW h \in Hosts, DecideAfter(h) PROVE IInv'
  BY <1>4, DecideAfterMoves, MovesKeepsIInv DEF DecideAfter, ReadOnly
<1>5. ASSUME NEW h \in Hosts, CheckNoActiveState(h) \/ AddActiveState(h) PROVE IInv'
  BY <1>5, ActivatingTurns, FramedTurnMoves, MovesKeepsIInv
<1>6. ASSUME NEW h \in Hosts, ProveActiveState(h) PROVE IInv'
  BY <1>6, ProveActiveStateMoves, MovesKeepsIInv DEF ProveActiveState, ReadOnly
<1>7. ASSUME NEW h \in Hosts, PersistConsumed(h) PROVE IInv'
  BY <1>7, PersistConsumedKeepsIInv
<1>8. ASSUME NEW h \in Hosts, ReadActiveState(h) \/ RemoveActiveState(h) \/ ProveReleased(h)
      PROVE IInv'
  BY <1>8, ReleasingTurns, FramedTurnMoves, MovesKeepsIInv
<1>9. ASSUME NEW h \in Hosts,
             DecideRestore(h) \/ Requeue(h) \/ ProveRequeued(h) \/ ExplainConsumed(h)
      PROVE IInv'
  BY <1>9, RestoringTurns, FramedTurnMoves, MovesKeepsIInv
<1>10. ASSUME NEW h \in Hosts, ReadStop(h) \/ AddStop(h) \/ ExplainStop(h) \/ ProveStop(h)
       PROVE IInv'
  BY <1>10, StoppingTurns, FramedTurnMoves, MovesKeepsIInv
<1>11. ASSUME NEW h \in Hosts, Reconcile(h) PROVE IInv'
  BY <1>11, ReconcileMoves, MovesKeepsIInv DEF Reconcile, ReadOnly
<1>12. ASSUME NEW h \in Hosts, Fail(h) \/ Crash(h) PROVE IInv'
  BY <1>12, FaultTurns, FramedTurnMoves, MovesKeepsIInv
<1>13. CASE PersonAct
  BY <1>13, PersonActKeepsIInv
<1>14. CASE UNCHANGED vars
  <2>1. TypeOK'
    BY <1>14 DEF vars, IInv, TypeOK
  <2>. QED  BY <1>14, <2>1 DEF vars, IInv, ExplanationsAreKnown, AttemptsAreBound,
                               RemovalsAreOwn, AboutToConsumeOwns, ReceiptsAreRemembered, Req
<1>. QED
  BY <1>1, <1>2, <1>3, <1>4, <1>5, <1>6, <1>7, <1>8, <1>9, <1>10, <1>11, <1>12, <1>13, <1>14
  DEF Next, HostStep

THEOREM IInvHolds == Spec => []IInv
BY InitEstablishesIInv, NextKeepsIInv, PTL DEF Spec

(* Every state the hosts, people and faults can reach is well typed: a     *)
(* comment or a receipt only ever names events of the public timeline.     *)
THEOREM TypeCorrect == Spec => []TypeOK
<1>1. IInv => TypeOK
  BY DEF IInv
<1>. QED  BY <1>1, IInvHolds, PTL

(* A durable receipt names the consumption that every reader of the        *)
(* timeline, then and ever after, derives as the owner of its active state *)
(* (activeStateOwner and persistConsumed).                                 *)
THEOREM ReceiptsOwned == Spec => []ReceiptsAreOwned
<1>1. IInv => ReceiptsAreOwned
  BY DEF IInv, ReceiptsAreRemembered, ReceiptsAreOwned, Names, Owns
<1>. QED  BY <1>1, IInvHolds, PTL

(* Two attempts never run under one active state (consumeIssueRequest on   *)
(* any number of hosts, each with an identity of its own).                 *)
THEOREM OneAttempt == Spec => []OneAttemptPerActiveState
<1>1. ASSUME IInv, NEW r \in receipts, NEW s \in receipts, r.act = s.act,
             Login[r.host] = Login[s.host] => r.host = s.host
      PROVE  r = s
  <2>1. /\ r \in [host : Hosts, req : DOMAIN timeline, own : DOMAIN timeline, act : DOMAIN timeline]
        /\ s \in [host : Hosts, req : DOMAIN timeline, own : DOMAIN timeline, act : DOMAIN timeline]
    BY <1>1 DEF IInv, TypeOK
  <2>2. /\ Names(r, local[r.host], attempt[r.host]) /\ Owns(timeline, local[r.host])
        /\ Names(s, local[s.host], attempt[s.host]) /\ Owns(timeline, local[s.host])
    BY <1>1 DEF IInv, ReceiptsAreRemembered
  <2>3. r.own = s.own
    BY <1>1, <2>2 DEF Names, Owns
  <2>4. timeline[r.own].by = Login[r.host] /\ timeline[s.own].by = Login[s.host]
    BY <1>1, <2>1, <2>2 DEF IInv, RemovalsAreOwn, Removed, Names, Owns
  <2>5. r.host = s.host
    BY <1>1, <2>3, <2>4
  <2>6. r.req = s.req
    BY <2>2, <2>5 DEF Names
  <2>. QED  BY <1>1, <2>1, <2>3, <2>5, <2>6
<1>2. IInv => OneAttemptPerActiveState
  BY <1>1 DEF OneAttemptPerActiveState
<1>. QED  BY <1>2, IInvHolds, PTL

-----------------------------------------------------------------------------
(* A second invariant: what a host that yields has done about the active   *)
(* state it found.                                                         *)

(* The stages before a host has proved an active state.                    *)
Early == {"clear", "unblock", "cleared", "before", "delete", "after",
          "restore_newer", "check", "activate", "prove"}

(* The stages that still have to explain a stop, and the ones past it.     *)
Naming    == {"stop", "amb", "amb_add", "amb_explain"}
Yielded   == {"amb_prove", "raced", "blocked_after_consumption", "ambiguous_blocked"}
Leftovers == {"ambiguous_leftover", "blocked_leftover"}

(* The active state a host remembers is the one in force on evs.           *)
Lives(evs, m) == m.act # 0 /\ m.act = LiveActiveState(evs)

Yields(evs, cs, h, stage, m, req) ==
  /\ m.act \in {0} \cup DOMAIN evs
  /\ stage \in Early => m.act = 0
  /\ stage \in Naming /\ Lives(evs, m) => m.note \in Leftovers
  /\ stage \in Yielded /\ Lives(evs, m) =>
       \E c \in cs : c.host = h /\ c.req = req /\ c.kind \in Leftovers

LeftoversAreNamed ==
  \A h \in Hosts : Yields(timeline, comments, h, pc[h], local[h], Req(h))

(* A label state that ended, or was never in force, is not revived: the    *)
(* one in force on a longer timeline is new or was already in force.       *)
LEMMA NothingIsRevived ==
  ASSUME NEW p, NEW q, Extends(p, q), NEW l,
         NEW a \in DOMAIN p, a = ActiveIssueRequestEvent(q, l)
  PROVE  a = ActiveIssueRequestEvent(p, l)
<1>. DEFINE P == {i \in DOMAIN p : p[i].label = l}
            Q == {i \in DOMAIN q : q[i].label = l}
<1>1. /\ p \in Seq(Event) /\ q \in Seq(Event)
      /\ DOMAIN p = 1..Len(p) /\ DOMAIN q = 1..Len(q) /\ Len(p) <= Len(q)
      /\ Len(p) \in Nat /\ Len(q) \in Nat
      /\ \A i \in DOMAIN p : p[i] = q[i]
  BY DEF Extends
<1>2. a = Latest(Q) /\ a \in Q /\ q[a].act = "labeled"
  BY <1>1, ActiveEventIn DEF ActiveIssueRequestEvent, LabelEvent
<1>3. P \subseteq Q /\ a \in P /\ P \subseteq 0..Len(p) /\ Q \subseteq 0..Len(q)
  BY <1>1, <1>2
<1>4. Latest(P) \in P /\ a <= Latest(P)
  BY <1>1, <1>3, LatestIn
<1>5. Latest(P) <= a
  BY <1>1, <1>2, <1>3, <1>4, LatestIn
<1>6. Latest(P) = a
  BY <1>1, <1>3, <1>4, <1>5
<1>7. LabelEvent(p, l) = a /\ a # 0 /\ p[a].act = "labeled"
  BY <1>1, <1>2, <1>3, <1>6 DEF LabelEvent
<1>. QED  BY <1>7 DEF ActiveIssueRequestEvent, IssueLabelIsActive

(* So what one host has explained stays explained, whatever the others and *)
(* people write.                                                           *)
LEMMA YieldsIsStable ==
  ASSUME NEW p, NEW q, Extends(p, q), NEW cs, NEW ds, cs \subseteq ds,
         NEW h, NEW s, NEW m, NEW req, Yields(p, cs, h, s, m, req)
  PROVE  Yields(q, ds, h, s, m, req)
<1>1. m.act \in {0} \cup DOMAIN q
  BY GrowthKeeps DEF Yields
<1>2. Lives(q, m) => Lives(p, m)
  BY NothingIsRevived DEF Lives, Yields, LiveActiveState
<1>. QED  BY <1>1, <1>2 DEF Yields

(* What the step of one host must show.                                    *)
YieldsNext(h) == Yields(timeline, comments', h, pc'[h], local'[h], Req(h)')

LEMMA HostKeepsLeftovers ==
  ASSUME IInv, LeftoversAreNamed, NEW h \in Hosts, YieldsNext(h),
         NEW s, NEW m, NEW a, Moves(h, s, m, a), comments \subseteq comments'
  PROVE  LeftoversAreNamed'
<1>1. Extends(timeline, timeline')
  BY DEF Moves
<1>2. Yields(timeline', comments', h, pc'[h], local'[h], Req(h)')
  BY <1>1, YieldsIsStable DEF YieldsNext
<1>3. ASSUME NEW g \in Hosts \ {h}
      PROVE  Yields(timeline', comments', g, pc'[g], local'[g], Req(g)')
  <2>1. pc'[g] = pc[g] /\ local'[g] = local[g] /\ Req(g)' = Req(g)
    BY DEF Moves, IInv, TypeOK, Req
  <2>2. Yields(timeline, comments, g, pc[g], local[g], Req(g))
    BY DEF LeftoversAreNamed
  <2>. QED  BY <1>1, <2>1, <2>2, YieldsIsStable
<1>. QED  BY <1>2, <1>3 DEF LeftoversAreNamed

(* What a write to a host's memory leaves of the active state it holds.    *)
LEMMA MemoryKeepsAct ==
  ASSUME NEW m \in Memory
  PROVE  /\ m.act \in Nat
         /\ \A i : [m EXCEPT !.own = i].act = m.act
         /\ \A w : [m EXCEPT !.why = w].act = m.act
         /\ \A n : /\ [m EXCEPT !.note = n].act = m.act
                   /\ [m EXCEPT !.note = n].note = n
         /\ [m EXCEPT !.why = "none", !.note = "none"].act = m.act
         /\ NoLocal.act = 0
BY DEF Memory, NoLocal

(* A host that holds no active state has nothing to explain.               *)
LEMMA NothingHeldYields ==
  ASSUME IInv, NEW h \in Hosts, local'[h].act = 0
  PROVE  YieldsNext(h)
BY DEF YieldsNext, Yields, Lives

(* A host that moves on with the active state it holds.                    *)
LEMMA HeldYields ==
  ASSUME IInv, LeftoversAreNamed, NEW h \in Hosts,
         UNCHANGED attempt, comments \subseteq comments',
         NEW s, NEW m, Go(h, s), local' = [local EXCEPT ![h] = m],
         m.act = local[h].act,
         s \in Early => pc[h] \in Early,
         \/ pc[h] \in Early
         \/ ~Lives(timeline, m)
         \/ /\ s \in Naming => m.note \in Leftovers
            /\ s \in Yielded => \E c \in comments' : /\ c.host = h /\ c.req = Req(h)
                                                     /\ c.kind \in Leftovers
  PROVE  YieldsNext(h)
<1>1. pc'[h] = s /\ local'[h] = m /\ Req(h)' = Req(h)
  BY DEF Go, Req, IInv, TypeOK
<1>2. Yields(timeline, comments, h, pc[h], local[h], Req(h))
  BY DEF LeftoversAreNamed
<1>3. m.act \in {0} \cup DOMAIN timeline /\ (pc[h] \in Early => m.act = 0)
  BY <1>2 DEF Yields
<1>4. CASE m.act = 0
  BY <1>1, <1>4, NothingHeldYields
<1>5. CASE m.act # 0
  <2>1. pc[h] \notin Early /\ s \notin Early
    BY <1>3, <1>5
  <2>. QED  BY <1>1, <1>3, <2>1 DEF YieldsNext, Yields
<1>. QED  BY <1>4, <1>5

(* Every way the stages hand over, as for the first invariant.             *)
LEMMA YieldForms ==
  ASSUME IInv, LeftoversAreNamed, NEW h \in Hosts,
         UNCHANGED attempt, comments \subseteq comments'
  PROVE  /\ \A s : /\ Go(h, s) /\ UNCHANGED local
                   /\ \/ pc[h] \in Early
                      \/ s \notin Early \cup Naming \cup Yielded
                      \/ s \in Naming /\ pc[h] \in Naming
                   => YieldsNext(h)
         /\ \A s : Go(h, s) /\ local' = [local EXCEPT ![h] = NoLocal] => YieldsNext(h)
         /\ \A s, w : Go(h, s) /\ Keep(h, "why", w) /\ s \notin Early \cup Naming \cup Yielded
                      => YieldsNext(h)
         /\ \A s, n : /\ GoNoting(h, s, n) /\ s \notin Early \cup Yielded
                      /\ \/ pc[h] \in Early
                         \/ s \in Naming => ~Lives(timeline, local[h]) \/ n \in Leftovers
                      => YieldsNext(h)
         /\ \A k : /\ Finish(h, k) /\ k \notin Early \cup Naming
                   /\ k \in Yielded =>
                        \/ ~Lives(timeline, local[h])
                        \/ \E c \in comments' : /\ c.host = h /\ c.req = Req(h)
                                                /\ c.kind \in Leftovers
                   => YieldsNext(h)
<1>1. local[h] \in Memory /\ local = [local EXCEPT ![h] = local[h]]
  BY DEF IInv, TypeOK
<1>2. Yields(timeline, comments, h, pc[h], local[h], Req(h))
  BY DEF LeftoversAreNamed
<1>0. Early \cap Naming = {} /\ Early \cap Yielded = {} /\ Naming \cap Yielded = {}
  BY DEF Early, Naming, Yielded
<1>3. ASSUME NEW s, Go(h, s), UNCHANGED local,
             \/ pc[h] \in Early
             \/ s \notin Early \cup Naming \cup Yielded
             \/ s \in Naming /\ pc[h] \in Naming
      PROVE  YieldsNext(h)
  <2>1. local' = [local EXCEPT ![h] = local[h]]
    BY <1>1, <1>3
  <2>2. pc[h] \in Early => local'[h].act = 0
    BY <1>2, <1>3 DEF Yields
  <2>3. s \in Naming /\ pc[h] \in Naming /\ Lives(timeline, local[h])
          => local[h].note \in Leftovers
    BY <1>2 DEF Yields
  <2>4. CASE pc[h] \in Early
    BY <2>2, <2>4, NothingHeldYields
  <2>5. CASE pc[h] \notin Early
    BY <1>0, <1>3, <2>1, <2>3, <2>5, HeldYields
  <2>. QED  BY <2>4, <2>5
<1>4. ASSUME NEW s, Go(h, s), local' = [local EXCEPT ![h] = NoLocal]
      PROVE  YieldsNext(h)
  <2>1. local'[h] = NoLocal /\ NoLocal.act = 0
    BY <1>1, <1>4, MemoryKeepsAct DEF IInv, TypeOK
  <2>. QED  BY <2>1, NothingHeldYields
<1>5. ASSUME NEW s, NEW w, Go(h, s), Keep(h, "why", w), s \notin Early \cup Naming \cup Yielded
      PROVE  YieldsNext(h)
  <2>. DEFINE m == [local[h] EXCEPT !.why = w]
  <2>1. m.act = local[h].act /\ local' = [local EXCEPT ![h] = m]
    BY <1>1, <1>5, MemoryKeepsAct DEF Keep
  <2>. HIDE DEF m
  <2>. QED  BY <1>5, <2>1, HeldYields
<1>6. ASSUME NEW s, NEW n, GoNoting(h, s, n), s \notin Early \cup Yielded,
             \/ pc[h] \in Early
             \/ s \in Naming => ~Lives(timeline, local[h]) \/ n \in Leftovers
      PROVE  YieldsNext(h)
  <2>. DEFINE m == [local[h] EXCEPT !.note = n]
  <2>1. m.act = local[h].act /\ m.note = n /\ local' = [local EXCEPT ![h] = m] /\ Go(h, s)
    BY <1>1, <1>6, MemoryKeepsAct DEF Keep, GoNoting
  <2>. HIDE DEF m
  <2>2. Lives(timeline, m) <=> Lives(timeline, local[h])
    BY <2>1 DEF Lives
  <2>. QED  BY <1>6, <2>1, <2>2, HeldYields
<1>7. ASSUME NEW k, Finish(h, k), k \notin Early \cup Naming,
             k \in Yielded => \/ ~Lives(timeline, local[h])
                              \/ \E c \in comments' : /\ c.host = h /\ c.req = Req(h)
                                                      /\ c.kind \in Leftovers
      PROVE  YieldsNext(h)
  <2>. DEFINE m == [local[h] EXCEPT !.why = "none", !.note = "none"]
  <2>1. m.act = local[h].act /\ local' = [local EXCEPT ![h] = m] /\ Go(h, k)
    BY <1>1, <1>7, MemoryKeepsAct DEF Finish
  <2>. HIDE DEF m
  <2>2. Lives(timeline, m) <=> Lives(timeline, local[h])
    BY <2>1 DEF Lives
  <2>. QED  BY <1>7, <2>1, <2>2, HeldYields
<1>. QED  BY <1>3, <1>4, <1>5, <1>6, <1>7

(* A host stops with its active state ended, or named as a leftover.       *)
LEMMA StopYields ==
  ASSUME IInv, LeftoversAreNamed, NEW h \in Hosts,
         UNCHANGED attempt, comments \subseteq comments', NEW b \in BOOLEAN,
         pc[h] \in Early \/ b \/ ~Lives(timeline, local[h])
  PROVE  Ambiguous(h, b) \/ StopConsumed(h, b) => YieldsNext(h)
BY YieldForms DEF Ambiguous, StopConsumed, Early, Naming, Yielded, Leftovers

LEMMA AfterReleaseYields ==
  ASSUME IInv, LeftoversAreNamed, NEW h \in Hosts,
         UNCHANGED attempt, comments \subseteq comments', NEW released \in BOOLEAN,
         released => ~Lives(timeline, local[h]), AfterRelease(h, released)
  PROVE  YieldsNext(h)
<1>1. \/ Ambiguous(h, ~released) \/ StopConsumed(h, ~released)
      \/ released /\ Finish(h, "raced")
  BY DEF AfterRelease
<1>2. "raced" \notin Early \cup Naming
  BY DEF Early, Naming
<1>. QED  BY <1>1, <1>2, StopYields, YieldForms

(* The steps before an active state is proved hold none.                   *)
LEMMA EarlyStepsYield ==
  ASSUME IInv, LeftoversAreNamed, NEW h \in Hosts,
         \/ Select(h) \/ Reconcile(h) \/ ReadBlock(h) \/ ClearBlock(h) \/ ProveCleared(h)
         \/ DecideBefore(h) \/ DeleteRequest(h) \/ RestoreNewer(h)
         \/ CheckNoActiveState(h) \/ AddActiveState(h)
  PROVE  YieldsNext(h) /\ comments' = comments
<1>1. CASE Select(h) \/ Reconcile(h)
  <2>1. local'[h] = NoLocal
    BY <1>1 DEF Select, Reconcile, IInv, TypeOK
  <2>2. local'[h].act = 0
    BY <2>1 DEF NoLocal
  <2>. QED  BY <1>1, <2>2, NothingHeldYields DEF Select, Reconcile, ReadOnly
<1>2. CASE ReadBlock(h) \/ ClearBlock(h) \/ ProveCleared(h)
  BY <1>2, YieldForms DEF ReadBlock, ClearBlock, ProveCleared, ReadOnly, Early
<1>3. CASE DecideBefore(h)
  <2>1. \/ \E s : Go(h, s) /\ UNCHANGED local
        \/ Ambiguous(h, FALSE)
    BY <1>3 DEF DecideBefore
  <2>2. pc[h] \in Early /\ UNCHANGED <<attempt, comments>>
    BY <1>3 DEF DecideBefore, ReadOnly, Early
  <2>. QED  BY <2>1, <2>2, YieldForms, StopYields
<1>4. CASE DeleteRequest(h) \/ RestoreNewer(h) \/ AddActiveState(h)
  BY <1>4, YieldForms DEF DeleteRequest, RestoreNewer, AddActiveState, Early
<1>5. CASE CheckNoActiveState(h)
  BY <1>5, YieldForms, StopYields DEF CheckNoActiveState, ReadOnly, Early
<1>. QED  BY <1>1, <1>2, <1>3, <1>4, <1>5

LEMMA DecideAfterYields ==
  ASSUME IInv, LeftoversAreNamed, NEW h \in Hosts, DecideAfter(h)
  PROVE  YieldsNext(h) /\ comments' = comments
<1>1. pc[h] \in Early /\ UNCHANGED <<attempt, comments>>
  BY DEF DecideAfter, ReadOnly, Early
<1>2. \/ Ambiguous(h, FALSE) \/ StopConsumed(h, FALSE)
      \/ \E own : Keep(h, "own", own)
  BY DEF DecideAfter
<1>3. ASSUME NEW own, Keep(h, "own", own)
      PROVE  YieldsNext(h)
  <2>1. local[h] \in Memory /\ local[h].act = 0
    BY <1>1 DEF IInv, TypeOK, LeftoversAreNamed, Yields
  <2>2. local'[h] = [local[h] EXCEPT !.own = own]
    BY <1>3 DEF Keep, IInv, TypeOK
  <2>3. local'[h].act = 0
    BY <2>1, <2>2, MemoryKeepsAct
  <2>. QED  BY <2>3, NothingHeldYields
<1>. QED  BY <1>1, <1>2, <1>3, StopYields

(* The host that proves an active state remembers one it was shown.        *)
LEMMA ProveActiveStateYields ==
  ASSUME IInv, LeftoversAreNamed, NEW h \in Hosts, ProveActiveState(h)
  PROVE  YieldsNext(h) /\ comments' = comments
<1>1. PICK evs \in Views :
        LET act == IF "inProgress" \in Shown THEN LiveActiveState(evs) ELSE 0
        IN  \/ Ambiguous(h, TRUE)
            \/ \E s \in {"restore", "release", "receipt"}, w \in Whys :
                 /\ Go(h, s)
                 /\ local' = [local EXCEPT ![h] = [@ EXCEPT !.act = act, !.why = w]]
  BY DEF ProveActiveState, Whys
<1>2. UNCHANGED <<attempt, comments>>
  BY DEF ProveActiveState, ReadOnly
<1>3. CASE Ambiguous(h, TRUE)
  BY <1>2, <1>3, StopYields
<1>4. CASE ~Ambiguous(h, TRUE)
  <2>. DEFINE act == IF "inProgress" \in Shown THEN LiveActiveState(evs) ELSE 0
  <2>1. PICK s \in {"restore", "release", "receipt"}, w \in Whys :
          /\ Go(h, s)
          /\ local' = [local EXCEPT ![h] = [local[h] EXCEPT !.act = act, !.why = w]]
    BY <1>1, <1>4
  <2>2. act \in {0} \cup DOMAIN timeline /\ act \in Nat
    <3>1. Extends(evs, timeline)
      BY ViewExtends DEF IInv, TypeOK
    <3>2. evs \in Seq(Event) /\ DOMAIN evs \subseteq DOMAIN timeline
      BY <3>1, GrowthKeeps
    <3>. QED  BY <3>2, ActiveEventIn DEF LiveActiveState
  <2>3. local'[h].act = act
    <3>1. local[h] \in Memory
      BY DEF IInv, TypeOK
    <3>. HIDE DEF act
    <3>2. local'[h] = [local[h] EXCEPT !.act = act, !.why = w]
      BY <2>1 DEF IInv, TypeOK
    <3>3. \A i \in Nat, v \in Whys : [local[h] EXCEPT !.act = i, !.why = v].act = i
      BY <3>1 DEF Memory
    <3>. QED  BY <2>1, <2>2, <3>2, <3>3, Zenon
  <2>4. pc'[h] = s /\ s \notin Early \cup Naming \cup Yielded
    BY <2>1 DEF Go, IInv, TypeOK, Early, Naming, Yielded
  <2>. HIDE DEF act
  <2>. QED  BY <1>2, <2>2, <2>3, <2>4 DEF YieldsNext, Yields
<1>. QED  BY <1>2, <1>3, <1>4

(* Without the label on the Issue no active state is in force, so a host   *)
(* that saw it gone may leave it out of its explanation.                   *)
LEMMA ReleasingYields ==
  ASSUME IInv, LeftoversAreNamed, NEW h \in Hosts,
         \/ PersistConsumed(h)
         \/ ReadActiveState(h) \/ RemoveActiveState(h) \/ ProveReleased(h)
  PROVE  YieldsNext(h) /\ comments' = comments
<1>1. {"release", "consumed", "unlabel", "released"}
        \cap (Early \cup Naming \cup Yielded) = {}
  BY DEF Early, Naming, Yielded
<1>2. "inProgress" \notin Shown => ~Lives(timeline, local[h])
  BY DEF Shown, LiveLabels, Labels, Lives, LiveActiveState, ActiveIssueRequestEvent
<1>3. CASE PersistConsumed(h)
  BY <1>1, <1>3, YieldForms DEF PersistConsumed
<1>4. CASE ReadActiveState(h)
  BY <1>1, <1>2, <1>4, YieldForms, AfterReleaseYields DEF ReadActiveState, ReadOnly
<1>5. CASE RemoveActiveState(h)
  BY <1>1, <1>5, YieldForms DEF RemoveActiveState
<1>6. CASE ProveReleased(h)
  BY <1>2, <1>6, AfterReleaseYields DEF ProveReleased, ReadOnly
<1>. QED  BY <1>3, <1>4, <1>5, <1>6

(* A stop's comment repeats the note the host kept for it.                 *)
LEMMA CommentNames ==
  ASSUME LeftoversAreNamed, NEW h \in Hosts, pc[h] \in Naming, Comment(h),
         Lives(timeline, local[h])
  PROVE  \E c \in comments' : c.host = h /\ c.req = Req(h) /\ c.kind \in Leftovers
<1>1. local[h].note \in Leftovers
  BY DEF LeftoversAreNamed, Yields
<1>. DEFINE c == [host |-> h, req |-> Req(h), kind |-> local[h].note]
<1>2. c \in comments'
  BY DEF Comment
<1>3. c.host = h /\ c.req = Req(h) /\ c.kind = local[h].note
  OBVIOUS
<1>. HIDE DEF c
<1>. QED  BY <1>1, <1>2, <1>3

LEMMA ExplainingYields ==
  ASSUME IInv, LeftoversAreNamed, NEW h \in Hosts,
         DecideRestore(h) \/ Requeue(h) \/ ProveRequeued(h) \/ ExplainConsumed(h)
  PROVE  YieldsNext(h) /\ comments \subseteq comments'
<1>1. {"explain", "requeue", "requeued", "superseded"}
        \cap (Early \cup Naming \cup Yielded) = {}
      /\ "blocked_after_consumption" \notin Early \cup Naming /\ "stop" \in Naming
  BY DEF Early, Naming, Yielded
<1>2. CASE DecideRestore(h)
  BY <1>1, <1>2, YieldForms DEF DecideRestore, ReadOnly
<1>3. CASE Requeue(h) \/ ProveRequeued(h)
  BY <1>1, <1>3, YieldForms DEF Requeue, ProveRequeued, ReadOnly
<1>4. CASE ExplainConsumed(h)
  BY <1>1, <1>4, YieldForms, CommentNames DEF ExplainConsumed, Comment
<1>. QED  BY <1>2, <1>3, <1>4

LEMMA StoppingYields ==
  ASSUME IInv, LeftoversAreNamed, NEW h \in Hosts,
         ReadStop(h) \/ AddStop(h) \/ ExplainStop(h) \/ ProveStop(h)
  PROVE  YieldsNext(h) /\ comments \subseteq comments'
<1>1. {"amb", "amb_add", "amb_explain"} \subseteq Naming
      /\ "retained" \notin Early \cup Naming \cup Yielded
      /\ "ambiguous_blocked" \notin Early \cup Naming
      /\ "amb_prove" \in Yielded \ (Early \cup Naming)
  BY DEF Early, Naming, Yielded
<1>2. CASE ReadStop(h) \/ AddStop(h)
  BY <1>1, <1>2, YieldForms DEF ReadStop, AddStop, ReadOnly
<1>3. CASE ExplainStop(h)
  <2>1. UNCHANGED <<attempt, local>> /\ comments \subseteq comments' /\ pc[h] \in Naming
    BY <1>1, <1>3 DEF ExplainStop, Comment
  <2>2. local' = [local EXCEPT ![h] = local[h]]
    BY <2>1 DEF IInv, TypeOK
  <2>3. CASE Comment(h) /\ Go(h, "amb_prove")
    BY <1>1, <2>1, <2>2, <2>3, CommentNames, HeldYields
  <2>4. CASE Go(h, "retained")
    BY <1>1, <2>1, <2>4, YieldForms
  <2>. QED  BY <1>3, <2>1, <2>3, <2>4 DEF ExplainStop
<1>4. CASE ProveStop(h)
  <2>1. UNCHANGED <<attempt, comments>> /\ pc[h] \in Yielded
    BY <1>1, <1>4 DEF ProveStop, ReadOnly
  <2>2. \/ ~Lives(timeline, local[h])
        \/ \E c \in comments' : c.host = h /\ c.req = Req(h) /\ c.kind \in Leftovers
    BY <2>1 DEF LeftoversAreNamed, Yields
  <2>. QED  BY <1>1, <1>4, <2>1, <2>2, YieldForms DEF ProveStop
<1>. QED  BY <1>2, <1>3, <1>4

(* A failing call never lets a host believe that its state is gone.        *)
LEMMA FaultYields ==
  ASSUME IInv, LeftoversAreNamed, NEW h \in Hosts, Fail(h) \/ Crash(h)
  PROVE  YieldsNext(h) /\ comments' = comments
<1>1. {"release", "explain"} \cap (Early \cup Naming \cup Yielded) = {}
      /\ {"delete", "after"} \subseteq Early
  BY DEF Early, Naming, Yielded
<1>2. UNCHANGED <<attempt, comments>>
  BY DEF Fail, Crash
<1>3. CASE Fail(h)
  BY <1>1, <1>2, <1>3, YieldForms, StopYields, AfterReleaseYields DEF Fail
<1>4. CASE Crash(h)
  BY <1>2, <1>4, YieldForms DEF Crash
<1>. QED  BY <1>2, <1>3, <1>4

-----------------------------------------------------------------------------
(* The second invariant is inductive beside the first.                     *)

LEMMA InitEstablishesLeftovers == Init => LeftoversAreNamed
<1>1. Init => \A h \in Hosts : local[h].act = 0
  BY DEF Init, NoLocal
<1>. QED  BY <1>1 DEF LeftoversAreNamed, Yields, Lives

(* Every step of a host is a move in the sense of the first invariant.     *)
LEMMA HostStepMoves ==
  ASSUME IInv, NEW h \in Hosts, HostStep(h) \/ Fail(h) \/ Crash(h), ~PersistConsumed(h)
  PROVE  \E s, m, a : Moves(h, s, m, a)
BY SelectMoves, ClearingTurns, BeforeTurns, DecideAfterMoves, ActivatingTurns,
   ProveActiveStateMoves, ReleasingTurns, RestoringTurns, StoppingTurns, ReconcileMoves,
   FaultTurns, FramedTurnMoves
DEF HostStep

LEMMA HostStepYields ==
  ASSUME IInv, LeftoversAreNamed, NEW h \in Hosts, HostStep(h) \/ Fail(h) \/ Crash(h)
  PROVE  YieldsNext(h) /\ comments \subseteq comments'
BY EarlyStepsYield, DecideAfterYields, ProveActiveStateYields, ReleasingYields,
   ExplainingYields, StoppingYields, FaultYields
DEF HostStep

LEMMA PersistConsumedKeepsLeftovers ==
  ASSUME IInv, LeftoversAreNamed, NEW h \in Hosts, PersistConsumed(h)
  PROVE  LeftoversAreNamed'
<1>1. UNCHANGED <<timeline, comments, attempt>> /\ Extends(timeline, timeline)
  BY DEF PersistConsumed, IInv, TypeOK, Extends
<1>2. Yields(timeline', comments', h, pc'[h], local'[h], Req(h)')
  BY <1>1, ReleasingYields DEF YieldsNext
<1>3. ASSUME NEW g \in Hosts \ {h}
      PROVE  pc'[g] = pc[g] /\ local'[g] = local[g] /\ Req(g)' = Req(g)
  BY <1>1 DEF PersistConsumed, Go, Keep, IInv, TypeOK, Req
<1>. QED  BY <1>1, <1>2, <1>3 DEF LeftoversAreNamed

LEMMA NextKeepsLeftovers == IInv /\ LeftoversAreNamed /\ [Next]_vars => LeftoversAreNamed'
<1>. SUFFICES ASSUME IInv, LeftoversAreNamed, [Next]_vars PROVE LeftoversAreNamed'
  OBVIOUS
<1>1. ASSUME NEW h \in Hosts, HostStep(h) \/ Fail(h) \/ Crash(h), ~PersistConsumed(h)
      PROVE  LeftoversAreNamed'
  BY <1>1, HostStepMoves, HostStepYields, HostKeepsLeftovers
<1>2. ASSUME NEW h \in Hosts, PersistConsumed(h)
      PROVE  LeftoversAreNamed'
  BY <1>2, PersistConsumedKeepsLeftovers
<1>3. CASE PersonAct
  <2>1. Person \in Authors /\ timeline \in Seq(Event)
    BY DEF Authors, IInv, TypeOK
  <2>2. Extends(timeline, timeline')
    BY <1>3, <2>1, WriteExtends, BoundAssumption DEF PersonAct
  <2>3. UNCHANGED <<comments, pc, attempt, local>>
    BY <1>3 DEF PersonAct
  <2>. QED  BY <2>2, <2>3, YieldsIsStable DEF LeftoversAreNamed, Req
<1>4. CASE UNCHANGED vars
  BY <1>4 DEF vars, LeftoversAreNamed, Req
<1>. QED  BY <1>1, <1>2, <1>3, <1>4 DEF Next

(* A host that proved the active state its own and then yielded, because   *)
(* of a stop, a newer request or a failure, has seen that state removed or *)
(* names it as a leftover in its comment, whatever failed on the way and   *)
(* however late GitHub's event list is (releaseActiveState,                *)
(* blockAmbiguousConsumption and blockAfterConsumption).                   *)
THEOREM ReleasesAreNamed == Spec => []ReleasedOrNamed
<1>1. Spec => []LeftoversAreNamed
  BY InitEstablishesLeftovers, NextKeepsLeftovers, IInvHolds, PTL DEF Spec
<1>2. LeftoversAreNamed => ReleasedOrNamed
  BY DEF LeftoversAreNamed, Yields, Lives, Yielded, Leftovers, ReleasedOrNamed
<1>. QED  BY <1>1, <1>2, PTL

-----------------------------------------------------------------------------
(* What a host releases: nothing it found to be another's.                 *)

Releasing == {"release", "unlabel", "released"}

(* A host releases what it owns, or what it did not see.                   *)
ReleasersOwn ==
  \A h \in Hosts : pc[h] \in Releasing /\ local[h].act # 0 => Owns(timeline, local[h])

(* What the step of one host must show.                                    *)
OwnsNext(h) == pc'[h] \in Releasing /\ local'[h].act # 0 => Owns(timeline, local'[h])

(* A host on its way to a release keeps what it owned.                     *)
LEMMA KeptIsOwned ==
  ASSUME IInv, LeftoversAreNamed, ReleasersOwn, NEW h \in Hosts,
         pc[h] \in Releasing \cup {"receipt"} \cup Early,
         \/ UNCHANGED local
         \/ \E w : Keep(h, "why", w)
  PROVE  OwnsNext(h)
<1>1. local[h] \in Memory /\ (local[h].act # 0 => Owns(timeline, local[h]))
  BY DEF IInv, TypeOK, AboutToConsumeOwns, ReleasersOwn, LeftoversAreNamed, Yields
<1>2. local'[h].act = local[h].act /\ local'[h].own = local[h].own
  <2>1. ASSUME NEW w, Keep(h, "why", w)
        PROVE  local'[h].act = local[h].act /\ local'[h].own = local[h].own
    <3>1. local'[h] = [local[h] EXCEPT !.why = w]
      BY <2>1 DEF Keep, IInv, TypeOK
    <3>. QED  BY <1>1, <3>1 DEF Memory
  <2>. QED  BY <2>1
<1>. QED  BY <1>1, <1>2 DEF OwnsNext, Owns

(* An active state that was shown is released by its owner only.           *)
LEMMA ProveActiveStateOwns ==
  ASSUME IInv, NEW h \in Hosts, ProveActiveState(h)
  PROVE  OwnsNext(h)
<1>1. PICK evs \in Views :
        LET act == IF "inProgress" \in Shown THEN LiveActiveState(evs) ELSE 0
            keepAct(stage, why) ==
              /\ Go(h, stage)
              /\ local' = [local EXCEPT ![h] = [@ EXCEPT !.act = act, !.why = why]]
        IN  \/ Ambiguous(h, TRUE)
            \/ keepAct("restore", "none") \/ keepAct("receipt", "none")
            \/ \E why \in Whys : /\ Contest(h, evs, act) \in {"none", "won"}
                                 /\ keepAct("release", why)
  BY DEF ProveActiveState, Whys
<1>2. \A s : Go(h, s) => pc'[h] = s
  BY DEF Go, IInv, TypeOK
<1>. DEFINE act == IF "inProgress" \in Shown THEN LiveActiveState(evs) ELSE 0
<1>3. CASE \E why \in Whys :
             /\ Contest(h, evs, act) \in {"none", "won"}
             /\ local' = [local EXCEPT ![h] = [local[h] EXCEPT !.act = act, !.why = why]]
  <2>1. PICK why \in Whys :
          /\ Contest(h, evs, act) \in {"none", "won"}
          /\ local' = [local EXCEPT ![h] = [local[h] EXCEPT !.act = act, !.why = why]]
    BY <1>3
  <2>2. act = 0 \/ act = LiveActiveState(evs)
    OBVIOUS
  <2>3. local[h] \in Memory
    BY DEF IInv, TypeOK
  <2>. HIDE DEF act
  <2>4. local'[h] = [local[h] EXCEPT !.act = act, !.why = why]
    BY <2>1 DEF IInv, TypeOK
  <2>5. local'[h].act = act /\ local'[h].own = local[h].own
    BY <2>3, <2>4 DEF Memory
  <2>6. Contest(h, evs, act) = "none" => act = 0
    BY DEF Contest
  <2>. QED  BY <2>1, <2>2, <2>5, <2>6, WonIsOwned DEF OwnsNext, Owns
<1>4. CASE pc'[h] \notin Releasing
  BY <1>4 DEF OwnsNext
<1>. QED  BY <1>1, <1>2, <1>3, <1>4 DEF Ambiguous, GoNoting, Releasing

LEMMA ReleasingOwns ==
  ASSUME IInv, LeftoversAreNamed, ReleasersOwn, NEW h \in Hosts,
         \/ PersistConsumed(h)
         \/ ReadActiveState(h) \/ RemoveActiveState(h) \/ ProveReleased(h)
         \/ Fail(h) \/ Crash(h)
  PROVE  OwnsNext(h)
<1>0. \A s : Go(h, s) => pc'[h] = s
  BY DEF Go, IInv, TypeOK
<1>1. \A b : Ambiguous(h, b) \/ StopConsumed(h, b) \/ AfterRelease(h, b) => OwnsNext(h)
  BY <1>0 DEF Ambiguous, StopConsumed, AfterRelease, GoNoting, Finish, OwnsNext, Releasing
<1>2. CASE PersistConsumed(h)
  BY <1>0, <1>2, KeptIsOwned DEF PersistConsumed, Releasing
<1>3. CASE ReadActiveState(h) \/ RemoveActiveState(h) \/ ProveReleased(h)
  BY <1>1, <1>3, KeptIsOwned DEF ReadActiveState, RemoveActiveState, ProveReleased, Releasing
<1>4. CASE Fail(h)
  <2>1. CASE pc[h] \in {"check", "activate", "prove", "receipt"} /\ Keep(h, "why", "failed")
    BY <2>1, KeptIsOwned DEF Early
  <2>. QED  BY <1>0, <1>1, <1>4, <2>1 DEF Fail, GoNoting, OwnsNext, Releasing
<1>5. CASE Crash(h)
  BY <1>0, <1>5 DEF Crash, OwnsNext, Releasing
<1>. QED  BY <1>2, <1>3, <1>4, <1>5

(* No other step leads to a release.                                       *)
LEMMA OthersReleaseNothing ==
  ASSUME IInv, NEW h \in Hosts, HostStep(h), ~ProveActiveState(h), ~PersistConsumed(h),
         ~ReadActiveState(h), ~RemoveActiveState(h), ~ProveReleased(h)
  PROVE  OwnsNext(h)
<1>0. \A s : Go(h, s) => pc'[h] = s
  BY DEF Go, IInv, TypeOK
<1>1. CASE Select(h) \/ ReadBlock(h) \/ ClearBlock(h) \/ ProveCleared(h)
  BY <1>0, <1>1 DEF Select, ReadBlock, ClearBlock, ProveCleared, OwnsNext, Releasing
<1>2. CASE DecideBefore(h) \/ DeleteRequest(h)
  BY <1>0, <1>2 DEF DecideBefore, DeleteRequest, Ambiguous, GoNoting, OwnsNext, Releasing
<1>3. CASE DecideAfter(h) \/ RestoreNewer(h) \/ CheckNoActiveState(h) \/ AddActiveState(h)
  BY <1>0, <1>3 DEF DecideAfter, RestoreNewer, CheckNoActiveState, AddActiveState,
                    Ambiguous, StopConsumed, GoNoting, OwnsNext, Releasing
<1>4. CASE DecideRestore(h) \/ Requeue(h) \/ ProveRequeued(h) \/ ExplainConsumed(h)
  BY <1>0, <1>4 DEF DecideRestore, Requeue, ProveRequeued, ExplainConsumed, GoNoting,
                    Finish, OwnsNext, Releasing
<1>5. CASE ReadStop(h) \/ AddStop(h) \/ ExplainStop(h) \/ ProveStop(h) \/ Reconcile(h)
  BY <1>0, <1>5 DEF ReadStop, AddStop, ExplainStop, ProveStop, Reconcile, Finish,
                    OwnsNext, Releasing
<1>. QED  BY <1>1, <1>2, <1>3, <1>4, <1>5 DEF HostStep

LEMMA HostKeepsReleasers ==
  ASSUME IInv, LeftoversAreNamed, ReleasersOwn, NEW h \in Hosts,
         HostStep(h) \/ Fail(h) \/ Crash(h)
  PROVE  ReleasersOwn'
<1>1. /\ Extends(timeline, timeline')
      /\ \A g \in Hosts \ {h} : pc'[g] = pc[g] /\ local'[g] = local[g]
  <2>1. CASE PersistConsumed(h)
    BY <2>1 DEF PersistConsumed, Go, Keep, Extends, IInv, TypeOK
  <2>2. CASE ~PersistConsumed(h)
    <3>1. PICK s, m, a : Moves(h, s, m, a)
      BY <2>2, HostStepMoves
    <3>. QED  BY <3>1 DEF Moves, IInv, TypeOK
  <2>. QED  BY <2>1, <2>2
<1>2. OwnsNext(h)
  BY ProveActiveStateOwns, ReleasingOwns, OthersReleaseNothing
<1>3. \A m : Owns(timeline, m) => Owns(timeline', m)
  BY <1>1, GrowthKeeps
<1>. QED  BY <1>1, <1>2, <1>3 DEF ReleasersOwn, OwnsNext

(* An event of another label leaves a label's state as it was.             *)
LEMMA OtherLabelsStay ==
  ASSUME NEW evs \in Seq(Event), NEW e \in Event, NEW l, e.label # l
  PROVE  ActiveIssueRequestEvent(Append(evs, e), l) = ActiveIssueRequestEvent(evs, l)
<1>. DEFINE q == Append(evs, e)
<1>1. {i \in DOMAIN q : q[i].label = l} = {i \in DOMAIN evs : evs[i].label = l}
  OBVIOUS
<1>2. LabelEvent(q, l) = LabelEvent(evs, l)
  BY <1>1 DEF LabelEvent
<1>3. LabelEvent(evs, l) # 0 => LabelEvent(evs, l) \in DOMAIN evs
  BY LabelEventIn
<1>4. \A i \in DOMAIN evs : q[i] = evs[i]
  OBVIOUS
<1>. HIDE DEF q
<1>. QED  BY <1>2, <1>3, <1>4 DEF q, ActiveIssueRequestEvent, IssueLabelIsActive

(* Only the removal of the label ends an active state: adding it beside a  *)
(* live one changes nothing.                                               *)
LEMMA OtherWritesKeepIt ==
  ASSUME IInv, NEW h \in Hosts, pc[h] \in AtWork, pc[h] # "unlabel",
         LiveActiveState(timeline) # 0, timeline' \in {timeline, Written(h)}
  PROVE  LiveActiveState(timeline') = LiveActiveState(timeline)
<1>1. timeline \in Seq(Event) /\ Login[h] \in Authors
      /\ Label(h) \in RequestLabels /\ "inProgress" \notin RequestLabels
  BY LoginAssumption DEF IInv, TypeOK, Authors, AttemptsAreBound, Requested, Label, RequestLabels
<1>2. "inProgress" \in LiveLabels(timeline)
  BY DEF LiveActiveState, ActiveIssueRequestEvent, LiveLabels, Labels
<1>3. \A l \in Labels \ {"inProgress"}, c \in {"labeled", "unlabeled"} :
        LiveActiveState(Append(timeline, [act |-> c, label |-> l, by |-> Login[h]]))
          = LiveActiveState(timeline)
  <2>. TAKE l \in Labels \ {"inProgress"}, c \in {"labeled", "unlabeled"}
  <2>. DEFINE e == [act |-> c, label |-> l, by |-> Login[h]]
  <2>1. e \in Event /\ e.label # "inProgress"
    BY <1>1 DEF Event
  <2>. HIDE DEF e
  <2>2. LiveActiveState(Append(timeline, e)) = LiveActiveState(timeline)
    BY <1>1, <2>1, OtherLabelsStay DEF LiveActiveState
  <2>. QED  BY <2>2 DEF e
<1>4. \/ timeline' = timeline
      \/ \E l \in {"blocked", Label(h)} :
           timeline' \in {WithLabel(timeline, l, Login[h]), WithoutLabel(timeline, l, Login[h])}
      \/ timeline' = WithLabel(timeline, "inProgress", Login[h])
  BY DEF Written
<1>5. {"blocked", Label(h)} \subseteq Labels \ {"inProgress"}
  BY <1>1 DEF Labels
<1>. QED  BY <1>2, <1>3, <1>4, <1>5 DEF WithLabel, WithoutLabel

(* The step of one host, in the terms of LoserHandsOff.                    *)
SparesOthers(h) ==
  /\ local[h].act # 0 /\ local[h].act = LiveActiveState(timeline)
  /\ ActiveStateOwner(timeline, local[h].act) # local[h].own
  => ~Releases(h)

LEMMA NextSparesOthers ==
  ASSUME IInv, ReleasersOwn, [Next]_vars, NEW h \in Hosts
  PROVE  SparesOthers(h)
<1>. SUFFICES ASSUME Releases(h), pc[h] # "unlabel" PROVE FALSE
  BY DEF SparesOthers, ReleasersOwn, Releasing, Owns
<1>1. CASE HostStep(h) \/ Fail(h) \/ Crash(h)
  <2>1. CASE Select(h)
    BY <2>1 DEF Select, ReadOnly, Releases
  <2>2. CASE ~Select(h)
    <3>1. pc[h] \in AtWork /\ timeline' \in {timeline, Written(h)}
      BY <1>1, <2>2, ClearingTurns, BeforeTurns, ActivatingTurns, ReleasingTurns,
         RestoringTurns, StoppingTurns
      DEF HostStep, Frame, DecideAfter, ProveActiveState, PersistConsumed, Reconcile,
          ReadOnly, AtWork, Stages, Fail, Crash
    <3>. QED  BY <3>1, OtherWritesKeepIt DEF Releases
  <2>. QED  BY <2>1, <2>2
<1>2. ASSUME NEW g \in Hosts \ {h}, HostStep(g) \/ Fail(g) \/ Crash(g)
      PROVE  FALSE
  <2>1. pc'[h] = pc[h]
    <3>1. CASE PersistConsumed(g)
      BY <3>1 DEF PersistConsumed, Go, IInv, TypeOK
    <3>2. CASE ~PersistConsumed(g)
      <4>1. PICK s, m, a : Moves(g, s, m, a)
        BY <1>2, <3>2, HostStepMoves
      <4>. QED  BY <4>1 DEF Moves, IInv, TypeOK
    <3>. QED  BY <3>1, <3>2
  <2>. QED  BY <2>1 DEF Releases
<1>3. CASE PersonAct \/ UNCHANGED vars
  BY <1>3 DEF PersonAct, vars, Releases
<1>. QED  BY <1>1, <1>2, <1>3 DEF Next

LEMMA NextKeepsReleasers ==
  IInv /\ LeftoversAreNamed /\ ReleasersOwn /\ [Next]_vars => ReleasersOwn'
<1>. SUFFICES ASSUME IInv, LeftoversAreNamed, ReleasersOwn, [Next]_vars PROVE ReleasersOwn'
  OBVIOUS
<1>1. ASSUME NEW h \in Hosts, HostStep(h) \/ Fail(h) \/ Crash(h) PROVE ReleasersOwn'
  BY <1>1, HostKeepsReleasers
<1>2. CASE PersonAct
  <2>1. Person \in Authors /\ timeline \in Seq(Event)
    BY DEF Authors, IInv, TypeOK
  <2>2. Extends(timeline, timeline')
    BY <1>2, <2>1, WriteExtends, BoundAssumption DEF PersonAct
  <2>3. UNCHANGED <<pc, local>>
    BY <1>2 DEF PersonAct
  <2>. QED  BY <2>2, <2>3, GrowthKeeps DEF ReleasersOwn
<1>3. CASE UNCHANGED vars
  BY <1>3 DEF vars, ReleasersOwn
<1>. QED  BY <1>1, <1>2, <1>3 DEF Next

(* A host that looked at an active state and found it another's never      *)
(* takes it off, with any faults and however late GitHub's event list is   *)
(* (createActiveState and releaseActiveState).                             *)
THEOREM LosersKeepOff == Spec => LoserHandsOff
<1>1. Init => ReleasersOwn
  BY DEF Init, ReleasersOwn, Releasing
<1>2. Spec => [](IInv /\ LeftoversAreNamed /\ ReleasersOwn)
  BY <1>1, InitEstablishesLeftovers, NextKeepsLeftovers, NextKeepsReleasers, IInvHolds, PTL
  DEF Spec
<1>3. IInv /\ ReleasersOwn /\ [Next]_vars => [\A h \in Hosts : SparesOthers(h)]_vars
  BY NextSparesOthers
<1>4. Spec => [][\A h \in Hosts : SparesOthers(h)]_vars
  BY <1>2, <1>3, PTL DEF Spec
<1>. QED  BY <1>4 DEF LoserHandsOff, SparesOthers

-----------------------------------------------------------------------------
(* What is not lost.  Without faults, with fresh event lists and with one  *)
(* identity per host, a request a host took is settled, or that host is    *)
(* still at work on it: the third invariant.                               *)

Calm == /\ MaxFaults = 0 /\ MaxLag = 0
        /\ \A g, h \in Hosts : Login[g] = Login[h] => g = h

Touched(evs, i) == \E j \in DOMAIN evs : i < j /\ evs[j].label = evs[i].label

Settled(evs, cs, rs, i) ==
  \/ Touched(evs, i)
  \/ \E r \in rs : r.own = i
  \/ \E c \in cs : /\ Login[c.host] = evs[i].by /\ c.req < i
                   /\ evs[c.req].label = evs[i].label
  \/ \E b \in DOMAIN evs :
       /\ evs[b].act = "labeled" /\ evs[b].label = "blocked"
       /\ \A j \in 1..i : evs[j].act = "labeled" /\ evs[j].label = evs[i].label => j < b

(* A host's own removals of the label of its request r.                    *)
OwnRemovals(evs, h, r) ==
  {i \in DOMAIN evs : /\ r < i /\ evs[i].act = "unlabeled"
                      /\ evs[i].label = evs[r].label /\ evs[i].by = Login[h]}

(* The removal i took the request r, and not a newer one.                  *)
NoNewerUntil(evs, r, i) ==
  \A k \in 1..i : evs[k].act = "labeled" /\ evs[k].label = evs[r].label => k <= r

(* A stop in force is newer than the request r.                            *)
BlockIsNewer(evs, r) ==
  LET b == ActiveIssueRequestEvent(evs, "blocked") IN b # 0 => r < b

(* The stages between the check for an active state and the answer.        *)
Owning == {"check", "activate", "prove", "receipt", "release", "unlabel", "released",
           "restore", "requeue", "requeued"}

Holding(evs, h, stage, m, r, i) ==
  /\ i \in OwnRemovals(evs, h, r)
  /\ \/ stage \in {"after", "restore_newer", "stop", "explain"}
     \/ /\ stage \in Owning \cup {"amb", "amb_add", "amb_explain", "retained", "before"}
        /\ NoNewerUntil(evs, r, i) /\ BlockIsNewer(evs, r)
        /\ stage \in Owning => m.own = i
        /\ stage \in {"release", "unlabel", "released"} /\ m.why = "newer" => Touched(evs, i)

TakenAreHeld ==
  \A i \in Taken : \/ Settled(timeline, comments, receipts, i)
                   \/ \E h \in Hosts : Holding(timeline, h, pc[h], local[h], Req(h), i)

(* A host takes a request once.                                            *)
TakesOnce(evs, h, stage, r) ==
  /\ stage = "delete" => OwnRemovals(evs, h, r) = {} /\ BlockIsNewer(evs, r)
  /\ stage = "after"  => /\ \A i, j \in OwnRemovals(evs, h, r) : i = j
                         /\ BlockIsNewer(evs, r)

LossInv == TakenAreHeld /\ \A h \in Hosts : TakesOnce(timeline, h, pc[h], Req(h))

(* A fresh event list is the timeline.                                     *)
LEMMA CalmViews ==
  ASSUME IInv, Calm, NEW evs \in Views
  PROVE  evs = timeline
<1>1. timeline \in Seq(Event) /\ Len(timeline) \in Nat
  BY DEF IInv, TypeOK
<1>2. evs = SubSeq(timeline, 1, Len(timeline))
  BY <1>1 DEF Views, Calm
<1>. QED  BY <1>1, <1>2

(* The newest event of a label comes after every other.                    *)
LEMMA LabelEventIsLast ==
  ASSUME NEW evs \in Seq(Event), NEW i \in DOMAIN evs
  PROVE  LET last == LabelEvent(evs, evs[i].label) IN
         /\ i <= last /\ last \in DOMAIN evs /\ last # 0
         /\ evs[last].label = evs[i].label
<1>. DEFINE S == {j \in DOMAIN evs : evs[j].label = evs[i].label}
<1>1. S \subseteq 0..Len(evs) /\ Len(evs) \in Nat /\ i \in S
  OBVIOUS
<1>2. Latest(S) \in S /\ i <= Latest(S)
  BY <1>1, LatestIn
<1>. QED  BY <1>1, <1>2 DEF LabelEvent

(* The timeline grows, by events that one author wrote.                    *)
GrowsBy(p, q, who) ==
  Extends(p, q) /\ \A i \in DOMAIN q : i \notin DOMAIN p => q[i].by = who

LEMMA SettledIsStable ==
  ASSUME NEW p, NEW q, Extends(p, q), NEW cs, NEW ds, cs \subseteq ds,
         cs \subseteq [host : Hosts, req : DOMAIN p, kind : Notes],
         NEW rs, NEW us, rs \subseteq us, NEW i \in DOMAIN p, Settled(p, cs, rs, i)
  PROVE  Settled(q, ds, us, i)
<1>1. /\ DOMAIN p = 1..Len(p) /\ DOMAIN p \subseteq DOMAIN q /\ Len(p) \in Nat
      /\ \A j \in DOMAIN p : p[j] = q[j]
  BY DEF Extends
<1>2. Touched(p, i) => Touched(q, i)
  BY <1>1 DEF Touched
<1>3. ASSUME NEW b \in DOMAIN p, p[b].act = "labeled", p[b].label = "blocked",
             \A j \in 1..i : p[j].act = "labeled" /\ p[j].label = p[i].label => j < b
      PROVE  /\ b \in DOMAIN q /\ q[b].act = "labeled" /\ q[b].label = "blocked"
             /\ \A j \in 1..i : q[j].act = "labeled" /\ q[j].label = q[i].label => j < b
  <2>1. \A j \in 1..i : j \in DOMAIN p
    BY <1>1
  <2>. QED  BY <1>1, <1>3, <2>1
<1>4. \A c \in cs : c \in ds /\ p[c.req].label = q[c.req].label
  BY <1>1
<1>. QED  BY <1>1, <1>2, <1>3, <1>4 DEF Settled

LEMMA BlockIsNewerIsStable ==
  ASSUME NEW p, NEW q, Extends(p, q), NEW r \in DOMAIN p, BlockIsNewer(p, r)
  PROVE  BlockIsNewer(q, r)
<1>. DEFINE b == ActiveIssueRequestEvent(q, "blocked")
<1>1. b # 0 => b \in DOMAIN q /\ q \in Seq(Event)
  BY ActiveEventIn DEF Extends
<1>2. b \in DOMAIN p => b = ActiveIssueRequestEvent(p, "blocked")
  BY NothingIsRevived
<1>3. /\ b \in DOMAIN q /\ b \notin DOMAIN p => r < b
      /\ b \in DOMAIN p => b # 0
  BY DEF Extends
<1>. HIDE DEF b
<1>4. BlockIsNewer(q, r) <=> (b # 0 => r < b)
  BY DEF BlockIsNewer, b
<1>. QED  BY <1>1, <1>2, <1>3, <1>4 DEF BlockIsNewer

LEMMA HoldingIsStable ==
  ASSUME NEW p, NEW q, Extends(p, q), NEW h, NEW s, NEW m, NEW r \in DOMAIN p, NEW i,
         Holding(p, h, s, m, r, i)
  PROVE  Holding(q, h, s, m, r, i)
<1>1. /\ DOMAIN p = 1..Len(p) /\ DOMAIN p \subseteq DOMAIN q /\ Len(p) \in Nat
      /\ \A j \in DOMAIN p : p[j] = q[j]
  BY DEF Extends
<1>2. i \in DOMAIN p /\ i \in OwnRemovals(q, h, r)
  BY <1>1 DEF Holding, OwnRemovals
<1>3. Touched(p, i) => Touched(q, i)
  BY <1>1, <1>2 DEF Touched
<1>4. NoNewerUntil(p, r, i) => NoNewerUntil(q, r, i)
  BY <1>1, <1>2 DEF NoNewerUntil
<1>5. BlockIsNewer(p, r) => BlockIsNewer(q, r)
  BY BlockIsNewerIsStable
<1>. QED  BY <1>2, <1>3, <1>4, <1>5 DEF Holding

LEMMA TakesOnceIsStable ==
  ASSUME NEW p, NEW q, NEW who, GrowsBy(p, q, who), NEW h, who # Login[h],
         NEW s, NEW r, s \in {"delete", "after"} => r \in DOMAIN p, TakesOnce(p, h, s, r)
  PROVE  TakesOnce(q, h, s, r)
<1>1. /\ Extends(p, q) /\ DOMAIN p \subseteq DOMAIN q
      /\ \A j \in DOMAIN p : p[j] = q[j]
      /\ \A i \in DOMAIN q : i \notin DOMAIN p => q[i].by = who
  BY DEF GrowsBy, Extends
<1>2. r \in DOMAIN p => OwnRemovals(q, h, r) = OwnRemovals(p, h, r)
  BY <1>1 DEF OwnRemovals
<1>. QED  BY <1>1, <1>2, BlockIsNewerIsStable DEF TakesOnce

-----------------------------------------------------------------------------
(* Every step of a host keeps the third invariant, if the host hands over  *)
(* what it holds.                                                          *)

(* What the host h holds before its step is settled or still held after.   *)
HandsOver(h) ==
  \A i \in Taken :
    Holding(timeline, h, pc[h], local[h], Req(h), i) =>
      \/ Settled(timeline', comments', receipts', i)
      \/ Holding(timeline', h, pc'[h], local'[h], Req(h)', i)

(* A host's step leaves the other hosts alone and writes what it may.      *)
StepsAlone(h) ==
  /\ \A g \in Hosts \ {h} : pc'[g] = pc[g] /\ local'[g] = local[g] /\ Req(g)' = Req(g)
  /\ comments \subseteq comments' /\ receipts \subseteq receipts'

LEMMA StepKeepsLossInv ==
  ASSUME IInv, Calm, LossInv, NEW h \in Hosts, StepsAlone(h), HandsOver(h),
         GrowsBy(timeline, timeline', Login[h]),
         TakesOnce(timeline', h, pc'[h], Req(h)'),
         \A i \in DOMAIN timeline' : i \notin DOMAIN timeline =>
           \/ i \notin Taken'
           \/ Holding(timeline', h, pc'[h], local'[h], Req(h)', i)
  PROVE  LossInv'
<1>0. /\ Extends(timeline, timeline')
      /\ \A i \in DOMAIN timeline : timeline'[i] = timeline[i] /\ i \in DOMAIN timeline'
  BY DEF GrowsBy, Extends
<1>1. ASSUME NEW i \in Taken'
      PROVE  \/ Settled(timeline', comments', receipts', i)
             \/ \E g \in Hosts : Holding(timeline', g, pc'[g], local'[g], Req(g)', i)
  <2>1. CASE i \notin DOMAIN timeline
    BY <1>1, <2>1 DEF Taken
  <2>2. CASE i \in DOMAIN timeline
    <3>1. i \in Taken
      BY <1>0, <1>1, <2>2 DEF Taken
    <3>2. CASE Settled(timeline, comments, receipts, i)
      BY <1>0, <2>2, <3>2, SettledIsStable DEF StepsAlone, IInv, TypeOK
    <3>3. CASE Holding(timeline, h, pc[h], local[h], Req(h), i)
      BY <3>1, <3>3 DEF HandsOver
    <3>4. ASSUME NEW g \in Hosts \ {h}, Holding(timeline, g, pc[g], local[g], Req(g), i)
          PROVE  Holding(timeline', g, pc'[g], local'[g], Req(g)', i)
      <4>1. pc[g] \in AtWork
        BY <3>4 DEF Holding, Owning, AtWork, Stages
      <4>2. Req(g) \in DOMAIN timeline
        BY <4>1 DEF IInv, AttemptsAreBound, Requested
      <4>3. Holding(timeline', g, pc[g], local[g], Req(g), i)
        BY <1>0, <3>4, <4>2, HoldingIsStable
      <4>. QED  BY <4>3 DEF StepsAlone
    <3>. QED  BY <3>1, <3>2, <3>3, <3>4 DEF LossInv, TakenAreHeld
  <2>. QED  BY <2>1, <2>2
<1>2. ASSUME NEW g \in Hosts
      PROVE  TakesOnce(timeline', g, pc'[g], Req(g)')
  <2>1. CASE g = h
    BY <2>1
  <2>2. CASE g # h
    <3>1. pc[g] \in {"delete", "after"} => Req(g) \in DOMAIN timeline
      BY DEF IInv, AttemptsAreBound, Requested, AtWork, Stages
    <3>2. TakesOnce(timeline, g, pc[g], Req(g)) /\ Login[h] # Login[g]
      BY <2>2 DEF LossInv, Calm
    <3>3. TakesOnce(timeline', g, pc[g], Req(g))
      BY <3>1, <3>2, TakesOnceIsStable
    <3>. QED  BY <2>2, <3>3 DEF StepsAlone
  <2>. QED  BY <2>1, <2>2
<1>. QED  BY <1>1, <1>2 DEF LossInv, TakenAreHeld

(* What a host writes carries its identity, and only a deletion takes a    *)
(* request.                                                                *)
LEMMA WritesItsOwn ==
  ASSUME IInv, NEW h \in Hosts, pc[h] \in AtWork, timeline' \in {timeline, Written(h)}
  PROVE  /\ GrowsBy(timeline, timeline', Login[h])
         /\ pc[h] # "delete" =>
              \A i \in DOMAIN timeline' : i \notin DOMAIN timeline => i \notin Taken'
<1>1. timeline \in Seq(Event) /\ Extends(timeline, timeline')
  BY WriteGrows DEF IInv, TypeOK
<1>2. \A e : LET q == Append(timeline, e) IN
        \A i \in DOMAIN q : i \notin DOMAIN timeline => q[i] = e
  BY <1>1
<1>3. \A l : /\ WithLabel(timeline, l, Login[h]) \in
                  {timeline, Append(timeline, [act |-> "labeled", label |-> l, by |-> Login[h]])}
             /\ WithoutLabel(timeline, l, Login[h]) \in
                  {timeline, Append(timeline, [act |-> "unlabeled", label |-> l, by |-> Login[h]])}
  BY DEF WithLabel, WithoutLabel
<1>4. \/ timeline' = timeline
      \/ \E l : timeline' = Append(timeline, [act |-> "labeled", label |-> l, by |-> Login[h]])
      \/ \E l : /\ timeline' = Append(timeline, [act |-> "unlabeled", label |-> l, by |-> Login[h]])
                /\ pc[h] = "delete" \/ l \in {"blocked", "inProgress"}
  BY <1>3 DEF Written
<1>5. ASSUME NEW i \in DOMAIN timeline', i \notin DOMAIN timeline
      PROVE  /\ timeline'[i].by = Login[h]
             /\ pc[h] # "delete" => \/ timeline'[i].act = "labeled"
                                   \/ timeline'[i].label \in {"blocked", "inProgress"}
  <2>1. CASE \E l : timeline' = Append(timeline, [act |-> "labeled", label |-> l, by |-> Login[h]])
    <3>1. PICK l : timeline' = Append(timeline, [act |-> "labeled", label |-> l, by |-> Login[h]])
      BY <2>1
    <3>2. timeline'[i] = [act |-> "labeled", label |-> l, by |-> Login[h]]
      BY <1>2, <1>5, <3>1
    <3>. QED  BY <3>2
  <2>2. CASE \E l : /\ timeline' = Append(timeline, [act |-> "unlabeled", label |-> l, by |-> Login[h]])
                    /\ pc[h] = "delete" \/ l \in {"blocked", "inProgress"}
    <3>1. PICK l : /\ timeline' = Append(timeline, [act |-> "unlabeled", label |-> l, by |-> Login[h]])
                   /\ pc[h] = "delete" \/ l \in {"blocked", "inProgress"}
      BY <2>2
    <3>2. timeline'[i] = [act |-> "unlabeled", label |-> l, by |-> Login[h]]
      BY <1>2, <1>5, <3>1
    <3>. QED  BY <3>1, <3>2
  <2>. QED  BY <1>4, <1>5, <2>1, <2>2
<1>. QED  BY <1>1, <1>5 DEF GrowsBy, Taken, RequestLabels

-----------------------------------------------------------------------------
(* Every stage hands over what it holds.                                   *)

Deciding == {"after", "restore_newer", "stop", "explain"}

(* What a host holds is a removal of its label; unless that is the label's *)
(* newest event, the request was touched since.                            *)
LEMMA HeldIsLast ==
  ASSUME IInv, NEW h \in Hosts, NEW i,
         Holding(timeline, h, pc[h], local[h], Req(h), i)
  PROVE  LET last == LabelEvent(timeline, Label(h)) IN
         /\ timeline \in Seq(Event) /\ Req(h) \in DOMAIN timeline
         /\ i \in DOMAIN timeline /\ Req(h) < i
         /\ timeline[i].act = "unlabeled" /\ timeline[i].label = Label(h)
         /\ timeline[i].by = Login[h]
         /\ i <= last /\ last \in DOMAIN timeline
         /\ last # i => Touched(timeline, i)
         /\ timeline[last].act = "labeled" => Touched(timeline, i)
         /\ Label(h) \in Shown => Touched(timeline, i)
         /\ \A k \in DOMAIN timeline : i < k /\ timeline[k].label = Label(h) => Touched(timeline, i)
<1>1. timeline \in Seq(Event) /\ pc[h] \in AtWork
  BY DEF IInv, TypeOK, Holding, Owning, AtWork, Stages
<1>2. /\ Req(h) \in DOMAIN timeline /\ i \in DOMAIN timeline /\ Req(h) < i
      /\ timeline[i].act = "unlabeled" /\ timeline[i].label = Label(h)
      /\ timeline[i].by = Login[h]
  BY <1>1 DEF Holding, OwnRemovals, Label, IInv, AttemptsAreBound, Requested
<1>. DEFINE last == LabelEvent(timeline, Label(h))
<1>3. i <= last /\ last \in DOMAIN timeline /\ timeline[last].label = Label(h)
  BY <1>1, <1>2, LabelEventIsLast
<1>4. Label(h) \in Shown => timeline[last].act = "labeled"
  BY DEF Shown, LiveLabels, IssueLabelIsActive
<1>. HIDE DEF last
<1>5. last # i => Touched(timeline, i)
  BY <1>1, <1>2, <1>3 DEF Touched
<1>6. timeline[last].act = "labeled" => last # i
  BY <1>2
<1>7. \A k \in DOMAIN timeline : i < k /\ timeline[k].label = Label(h) => Touched(timeline, i)
  BY <1>2 DEF Touched
<1>. QED  BY <1>1, <1>2, <1>3, <1>4, <1>5, <1>6, <1>7 DEF last

LEMMA HoldsOn ==
  ASSUME IInv, NEW h \in Hosts, NEW i,
         Holding(timeline, h, pc[h], local[h], Req(h), i),
         Extends(timeline, timeline'), Req(h)' = Req(h),
         \/ pc'[h] \in Deciding
         \/ /\ pc[h] \notin Deciding
            /\ pc'[h] \in {"amb", "amb_add", "amb_explain", "retained", "before"}
         \/ /\ pc[h] \in Owning /\ pc'[h] \in Owning
            /\ local'[h].own = local[h].own
            /\ pc'[h] \in {"release", "unlabel", "released"} /\ local'[h].why = "newer" =>
                 \/ Touched(timeline', i)
                 \/ pc[h] \in {"release", "unlabel", "released"} /\ local[h].why = "newer"
  PROVE  Holding(timeline', h, pc'[h], local'[h], Req(h)', i)
<1>1. Req(h) \in DOMAIN timeline
  BY HeldIsLast
<1>2. Holding(timeline', h, pc[h], local[h], Req(h), i)
  BY <1>1, HoldingIsStable
<1>3. Owning \cap Deciding = {}
      /\ Owning \cap {"amb", "amb_add", "amb_explain", "retained", "before"} = {}
      /\ Deciding \cap {"amb", "amb_add", "amb_explain", "retained", "before"} = {}
      /\ {"release", "unlabel", "released"} \subseteq Owning
  BY DEF Owning, Deciding
<1>. QED  BY <1>2, <1>3 DEF Holding, Deciding

(* What a write to a host's memory leaves of its own removal.              *)
LEMMA MemoryKeepsOwn ==
  ASSUME NEW m \in Memory
  PROVE  /\ \A a, w : /\ [m EXCEPT !.act = a, !.why = w].own = m.own
                      /\ [m EXCEPT !.act = a, !.why = w].why = w
         /\ \A w : /\ [m EXCEPT !.why = w].own = m.own
                   /\ [m EXCEPT !.why = w].why = w
         /\ \A o : [m EXCEPT !.own = o].own = o
         /\ \A n : [m EXCEPT !.note = n].note = n
BY DEF Memory

(* What happens elsewhere when a host moves.                               *)
LEMMA MovesAlone ==
  ASSUME IInv, NEW h \in Hosts, NEW s, NEW m, NEW a, Moves(h, s, m, a)
  PROVE  /\ \A g \in Hosts \ {h} : pc'[g] = pc[g] /\ local'[g] = local[g] /\ Req(g)' = Req(g)
         /\ pc'[h] = s /\ local'[h] = m /\ Req(h)' = a.req
BY DEF Moves, IInv, TypeOK, Req

(* The stages that hold nothing, and the one that takes a request.         *)
LEMMA FreeHandsOver ==
  ASSUME IInv, NEW h \in Hosts,
         \/ Select(h) \/ ReadBlock(h) \/ ClearBlock(h) \/ ProveCleared(h)
         \/ DeleteRequest(h) \/ ProveStop(h)
  PROVE  HandsOver(h)
BY DEF Select, ReadBlock, ClearBlock, ProveCleared, DeleteRequest, ProveStop,
       HandsOver, Holding, Owning, Resting, Outcomes

(* A host that only moves on with what it holds.                           *)
LEMMA MovingHandsOver ==
  ASSUME IInv, NEW h \in Hosts,
         \/ AddActiveState(h) \/ RemoveActiveState(h) \/ Requeue(h)
         \/ ReadStop(h) \/ AddStop(h)
  PROVE  HandsOver(h)
<1>1. UNCHANGED <<attempt, local>> /\ pc[h] \in AtWork /\ timeline' \in {timeline, Written(h)}
  BY DEF AddActiveState, RemoveActiveState, Requeue, ReadStop, AddStop, ReadOnly, AtWork, Stages
<1>2. Extends(timeline, timeline') /\ Req(h)' = Req(h)
  BY <1>1, WriteGrows DEF Req
<1>3. pc[h] \notin Deciding
      /\ \/ pc[h] \in Owning /\ pc'[h] \in Owning
            /\ (pc'[h] \in {"release", "unlabel", "released"} =>
                  pc[h] \in {"release", "unlabel", "released"})
         \/ pc'[h] \in {"amb_explain", "retained", "amb_add"}
  BY DEF AddActiveState, RemoveActiveState, Requeue, ReadStop, AddStop, Go, IInv, TypeOK,
         Owning, Deciding
<1>. QED  BY <1>1, <1>2, <1>3, HoldsOn DEF HandsOver

(* A step that only reads, and what it settles at once.                    *)
LEMMA ReadingSettles ==
  ASSUME IInv, NEW h \in Hosts, timeline' = timeline, comments' = comments,
         receipts' = receipts, NEW i
  PROVE  /\ Touched(timeline, i) => Settled(timeline', comments', receipts', i)
         /\ Extends(timeline, timeline')
BY DEF Settled, Extends, IInv, TypeOK

(* blockAmbiguousConsumption and the stops explain what the host holds.    *)
LEMMA StopsHandOver ==
  ASSUME IInv, NEW h \in Hosts, NEW b, UNCHANGED attempt, Extends(timeline, timeline'),
         NEW i, Holding(timeline, h, pc[h], local[h], Req(h), i)
  PROVE  /\ StopConsumed(h, b) => Holding(timeline', h, pc'[h], local'[h], Req(h)', i)
         /\ pc[h] \notin Deciding /\ Ambiguous(h, b) =>
              Holding(timeline', h, pc'[h], local'[h], Req(h)', i)
<1>1. Req(h)' = Req(h)
  BY DEF Req
<1>2. StopConsumed(h, b) => pc'[h] = "stop"
  BY DEF StopConsumed, GoNoting, Go, IInv, TypeOK
<1>3. Ambiguous(h, b) => pc'[h] = "amb"
  BY DEF Ambiguous, GoNoting, Go, IInv, TypeOK
<1>4. "stop" \in Deciding
  BY DEF Deciding
<1>. QED  BY <1>1, <1>2, <1>3, <1>4, HoldsOn

(* A recovery finds its own removal: it was touched since, the Issue is    *)
(* stopped, or the host explains it.                                       *)
LEMMA DecideBeforeHandsOver ==
  ASSUME IInv, Calm, NEW h \in Hosts, DecideBefore(h)
  PROVE  HandsOver(h)
<1>. SUFFICES ASSUME NEW i \in Taken, Holding(timeline, h, pc[h], local[h], Req(h), i)
              PROVE  \/ Settled(timeline', comments', receipts', i)
                     \/ Holding(timeline', h, pc'[h], local'[h], Req(h)', i)
  BY DEF HandsOver
<1>. DEFINE last == LabelEvent(timeline, Label(h))
<1>1. /\ Req(h) \in DOMAIN timeline /\ i \in DOMAIN timeline /\ Req(h) < i
      /\ timeline[i].act = "unlabeled" /\ timeline[i].label = Label(h)
      /\ timeline[i].by \in Logins
      /\ i <= last /\ last \in DOMAIN timeline
      /\ timeline[last].act = "labeled" => Touched(timeline, i)
      /\ timeline \in Seq(Event)
  BY HeldIsLast, LoginAssumption
<1>2. /\ pc[h] = "before" /\ UNCHANGED <<timeline, comments, receipts, attempt>>
      /\ \E evs \in Views :
           \/ "blocked" \in Shown \/ IssueLabelIsActive(evs, "blocked")
           \/ LabelEvent(evs, Label(h)) = Req(h)
           \/ evs[LabelEvent(evs, Label(h))].act = "labeled"
           \/ Ambiguous(h, FALSE)
           \/ ~\E j \in DOMAIN evs : /\ Req(h) < j /\ evs[j].act = "unlabeled"
                                     /\ evs[j].label = Label(h) /\ evs[j].by \in Logins
           \/ Req(h) \notin DOMAIN evs
  BY DEF DecideBefore, ReadOnly
<1>3. \/ IssueLabelIsActive(timeline, "blocked")
      \/ last = Req(h)
      \/ timeline[last].act = "labeled"
      \/ Ambiguous(h, FALSE)
      \/ ~\E j \in DOMAIN timeline : /\ Req(h) < j /\ timeline[j].act = "unlabeled"
                                     /\ timeline[j].label = Label(h) /\ timeline[j].by \in Logins
      \/ Req(h) \notin DOMAIN timeline
  <2>1. "blocked" \in Shown => IssueLabelIsActive(timeline, "blocked")
    BY DEF Shown, LiveLabels
  <2>2. \A evs \in Views : evs = timeline
    BY CalmViews
  <2>. QED  BY <1>2, <2>1, <2>2
<1>4. pc[h] \notin Deciding /\ Extends(timeline, timeline')
  BY <1>2, ReadingSettles DEF Deciding
<1>5. CASE IssueLabelIsActive(timeline, "blocked")
  <2>. DEFINE b == LabelEvent(timeline, "blocked")
  <2>1. b # 0 /\ timeline[b].act = "labeled" /\ b = ActiveIssueRequestEvent(timeline, "blocked")
    BY <1>5 DEF IssueLabelIsActive, ActiveIssueRequestEvent
  <2>2. b \in DOMAIN timeline /\ timeline[b].label = "blocked"
    BY <1>1, <2>1, LabelEventIn
  <2>3. Req(h) < b /\ NoNewerUntil(timeline, Req(h), i)
    BY <1>2, <2>1 DEF Holding, BlockIsNewer, Owning
  <2>4. \A j \in 1..i : timeline[j].act = "labeled" /\ timeline[j].label = timeline[i].label => j < b
    <3>1. timeline[i].label = timeline[Req(h)].label /\ Req(h) \in Nat /\ b \in Nat
      BY <1>1, <2>2 DEF Label
    <3>. HIDE DEF b
    <3>. QED  BY <2>3, <3>1 DEF NoNewerUntil
  <2>. HIDE DEF b
  <2>. QED  BY <1>2, <2>1, <2>2, <2>4 DEF Settled
<1>6. CASE timeline[last].act = "labeled"
  BY <1>1, <1>2, <1>6, ReadingSettles
<1>7. CASE Ambiguous(h, FALSE)
  BY <1>2, <1>4, <1>7, StopsHandOver
<1>8. last # Req(h)
  <2>1. last \in Nat /\ Req(h) \in Nat /\ i \in Nat
    BY <1>1
  <2>. HIDE DEF last
  <2>. QED  BY <1>1, <2>1
<1>. QED  BY <1>1, <1>3, <1>5, <1>6, <1>7, <1>8

(* After its deletion a host finds the one removal it made, stops before   *)
(* a block, puts a newer request back, or goes on as the request's owner.  *)
LEMMA DecideAfterHandsOver ==
  ASSUME IInv, Calm, LossInv, NEW h \in Hosts, DecideAfter(h)
  PROVE  HandsOver(h)
<1>. SUFFICES ASSUME NEW i \in Taken, Holding(timeline, h, pc[h], local[h], Req(h), i)
              PROVE  \/ Settled(timeline', comments', receipts', i)
                     \/ Holding(timeline', h, pc'[h], local'[h], Req(h)', i)
  BY DEF HandsOver
<1>. DEFINE own == OwnRemoval(timeline, Req(h), Login[h])
            last == LabelEvent(timeline, Label(h))
<1>1. /\ Req(h) \in DOMAIN timeline /\ i \in DOMAIN timeline /\ Req(h) < i
      /\ timeline[i].act = "unlabeled" /\ timeline[i].label = Label(h)
      /\ timeline \in Seq(Event)
      /\ last # i => Touched(timeline, i)
      /\ Label(h) \in Shown => Touched(timeline, i)
  BY HeldIsLast
<1>2. /\ pc[h] = "after" /\ UNCHANGED <<timeline, comments, receipts, attempt>>
      /\ Extends(timeline, timeline') /\ Req(h)' = Req(h)
  BY ReadingSettles DEF DecideAfter, ReadOnly, Req
<1>3. own = i
  <2>1. OwnRemovals(timeline, h, Req(h)) \subseteq Nat
        /\ own = Earliest(OwnRemovals(timeline, h, Req(h)))
        /\ i \in OwnRemovals(timeline, h, Req(h))
    BY <1>1 DEF OwnRemoval, OwnRemovals, Holding
  <2>2. own \in OwnRemovals(timeline, h, Req(h))
    BY <2>1, EarliestIn
  <2>. QED  BY <1>2, <2>1, <2>2 DEF LossInv, TakesOnce
<1>4. \/ StopConsumed(h, FALSE)
      \/ Go(h, "restore_newer")
      \/ Go(h, "raced") /\ (Label(h) \in Shown \/ last # own)
      \/ Go(h, "check") /\ Keep(h, "own", own) /\ ~NewerRequest(timeline, Req(h))
  <2>1. \A evs \in Views : evs = timeline
    BY CalmViews
  <2>2. \E evs \in Views :
          LET o == IF Req(h) \in DOMAIN evs THEN OwnRemoval(evs, Req(h), Login[h]) ELSE 0
          IN  \/ o = 0
              \/ StopConsumed(h, FALSE)
              \/ /\ Keep(h, "own", o)
                 /\ \/ Go(h, "restore_newer")
                    \/ /\ Go(h, "raced")
                       /\ Label(h) \in Shown \/ LabelEvent(evs, Label(h)) # o
                    \/ Go(h, "check") /\ ~NewerRequest(evs, Req(h))
    BY DEF DecideAfter
  <2>3. (IF Req(h) \in DOMAIN timeline THEN own ELSE 0) = own /\ own # 0
    BY <1>1, <1>3
  <2>. HIDE DEF own
  <2>. QED  BY <2>1, <2>2, <2>3 DEF own
<1>5. CASE StopConsumed(h, FALSE)
  BY <1>2, <1>5, StopsHandOver
<1>6. CASE Go(h, "restore_newer")
  <2>1. pc'[h] \in Deciding
    BY <1>6 DEF Go, IInv, TypeOK, Deciding
  <2>. QED  BY <1>2, <2>1, HoldsOn
<1>7. CASE Label(h) \in Shown \/ last # own
  BY <1>1, <1>2, <1>3, <1>7, ReadingSettles
<1>8. CASE Go(h, "check") /\ Keep(h, "own", own) /\ ~NewerRequest(timeline, Req(h))
  <2>. HIDE DEF own
  <2>1. local[h] \in Memory /\ local'[h] = [local[h] EXCEPT !.own = own] /\ pc'[h] = "check"
    BY <1>8 DEF Go, Keep, IInv, TypeOK
  <2>2. local'[h].own = i
    BY <1>3, <2>1, MemoryKeepsOwn
  <2>3. NoNewerUntil(timeline, Req(h), i)
    <3>1. \A k \in 1..i : k \in DOMAIN timeline /\ k \in Nat /\ Req(h) \in Nat
      BY <1>1
    <3>. QED  BY <1>8, <3>1 DEF NewerRequest, NoNewerUntil
  <2>4. BlockIsNewer(timeline, Req(h))
    BY <1>2 DEF LossInv, TakesOnce
  <2>5. "check" \in Owning /\ "check" \notin {"release", "unlabel", "released"}
    BY DEF Owning
  <2>. QED  BY <1>2, <2>1, <2>2, <2>3, <2>4, <2>5 DEF Holding
<1>. QED  BY <1>4, <1>5, <1>6, <1>7, <1>8

(* restoreNewerRequest: the request is back, or was never away.            *)
LEMMA RestoreNewerHandsOver ==
  ASSUME IInv, NEW h \in Hosts, RestoreNewer(h)
  PROVE  HandsOver(h)
<1>. SUFFICES ASSUME NEW i \in Taken, Holding(timeline, h, pc[h], local[h], Req(h), i)
              PROVE  Settled(timeline', comments', receipts', i)
  BY DEF HandsOver
<1>1. /\ timeline \in Seq(Event) /\ i \in DOMAIN timeline /\ timeline[i].label = Label(h)
      /\ Label(h) \in Shown => Touched(timeline, i)
  BY HeldIsLast
<1>2. timeline' = WithLabel(timeline, Label(h), Login[h])
  BY DEF RestoreNewer, Written
<1>3. CASE Label(h) \in Shown
  BY <1>1, <1>2, <1>3 DEF Shown, WithLabel, Settled
<1>4. CASE Label(h) \notin Shown
  <2>. DEFINE e == [act |-> "labeled", label |-> Label(h), by |-> Login[h]]
  <2>1. timeline' = Append(timeline, e) /\ e.label = Label(h)
    BY <1>2, <1>4 DEF Shown, WithLabel
  <2>. HIDE DEF e
  <2>2. /\ Len(timeline) + 1 \in DOMAIN timeline' /\ i < Len(timeline) + 1
        /\ timeline'[Len(timeline) + 1].label = Label(h)
        /\ timeline'[i].label = Label(h)
    BY <1>1, <2>1
  <2>3. Touched(timeline', i)
    BY <2>2 DEF Touched
  <2>. QED  BY <2>3 DEF Settled
<1>. QED  BY <1>3, <1>4

LEMMA CheckHandsOver ==
  ASSUME IInv, NEW h \in Hosts, CheckNoActiveState(h)
  PROVE  HandsOver(h)
<1>. SUFFICES ASSUME NEW i \in Taken, Holding(timeline, h, pc[h], local[h], Req(h), i)
              PROVE  Holding(timeline', h, pc'[h], local'[h], Req(h)', i)
  BY DEF HandsOver
<1>1. /\ pc[h] = "check" /\ UNCHANGED <<timeline, comments, receipts, attempt>>
      /\ Extends(timeline, timeline') /\ Req(h)' = Req(h)
      /\ pc[h] \in Owning /\ pc[h] \notin Deciding
  BY ReadingSettles DEF CheckNoActiveState, ReadOnly, Req, Owning, Deciding
<1>2. CASE Ambiguous(h, TRUE)
  BY <1>1, <1>2, StopsHandOver
<1>3. CASE Go(h, "activate") /\ UNCHANGED local
  <2>1. pc'[h] = "activate" /\ "activate" \in Owning \ {"release", "unlabel", "released"}
    BY <1>3 DEF Go, IInv, TypeOK, Owning
  <2>. QED  BY <1>1, <1>3, <2>1, HoldsOn
<1>. QED  BY <1>2, <1>3 DEF CheckNoActiveState

(* A newer request found beside the active state came after the removal.   *)
LEMMA ProveHandsOver ==
  ASSUME IInv, Calm, NEW h \in Hosts, ProveActiveState(h)
  PROVE  HandsOver(h)
<1>. SUFFICES ASSUME NEW i \in Taken, Holding(timeline, h, pc[h], local[h], Req(h), i)
              PROVE  Holding(timeline', h, pc'[h], local'[h], Req(h)', i)
  BY DEF HandsOver
<1>1. /\ pc[h] = "prove" /\ UNCHANGED <<timeline, comments, receipts, attempt>>
      /\ Extends(timeline, timeline') /\ Req(h)' = Req(h)
      /\ pc[h] \in Owning /\ pc[h] \notin Deciding
  BY ReadingSettles DEF ProveActiveState, ReadOnly, Req, Owning, Deciding
<1>2. \/ Ambiguous(h, TRUE)
      \/ \E s \in {"restore", "release", "receipt"} : \E act, w :
           /\ Go(h, s) /\ local' = [local EXCEPT ![h] = [@ EXCEPT !.act = act, !.why = w]]
           /\ w = "newer" => Label(h) \in Shown \/ NewerRequest(timeline, Req(h))
  <2>1. \A evs \in Views : evs = timeline
    BY CalmViews
  <2>2. PICK evs \in Views :
          LET act == IF "inProgress" \in Shown THEN LiveActiveState(evs) ELSE 0
              newer == Label(h) \in Shown \/ (Req(h) \in DOMAIN evs /\ NewerRequest(evs, Req(h)))
              keepAct(stage, why) ==
                /\ Go(h, stage)
                /\ local' = [local EXCEPT ![h] = [@ EXCEPT !.act = act, !.why = why]]
          IN  \/ Ambiguous(h, TRUE)
              \/ keepAct("restore", "none")
              \/ keepAct("release", "blocked")
              \/ keepAct("release", "newer") /\ newer
              \/ keepAct("release", "unproven")
              \/ keepAct("receipt", "none")
    BY DEF ProveActiveState
  <2>. DEFINE act == IF "inProgress" \in Shown THEN LiveActiveState(evs) ELSE 0
  <2>3. CASE Ambiguous(h, TRUE)
    BY <2>3
  <2>4. CASE ~Ambiguous(h, TRUE)
    <3>1. PICK s \in {"restore", "release", "receipt"}, w \in Whys :
            /\ Go(h, s) /\ local' = [local EXCEPT ![h] = [@ EXCEPT !.act = act, !.why = w]]
            /\ w = "newer" => Label(h) \in Shown \/ NewerRequest(evs, Req(h))
      BY <2>2, <2>4 DEF Whys
    <3>. HIDE DEF act
    <3>. QED  BY <2>1, <3>1
  <2>. QED  BY <2>3, <2>4
<1>3. CASE Ambiguous(h, TRUE)
  BY <1>1, <1>3, StopsHandOver
<1>4. ASSUME NEW s \in {"restore", "release", "receipt"}, NEW act, NEW w,
             Go(h, s), local' = [local EXCEPT ![h] = [@ EXCEPT !.act = act, !.why = w]],
             w = "newer" => Label(h) \in Shown \/ NewerRequest(timeline, Req(h))
      PROVE  Holding(timeline', h, pc'[h], local'[h], Req(h)', i)
  <2>1. /\ local[h] \in Memory /\ local'[h] = [local[h] EXCEPT !.act = act, !.why = w]
        /\ pc'[h] = s /\ s \in Owning
    BY <1>4 DEF Go, IInv, TypeOK, Owning
  <2>2. local'[h].own = local[h].own /\ local'[h].why = w
    BY <2>1, MemoryKeepsOwn
  <2>3. NewerRequest(timeline, Req(h)) => Touched(timeline, i)
    <3>1. NoNewerUntil(timeline, Req(h), i)
      BY <1>1 DEF Holding
    <3>2. /\ timeline \in Seq(Event) /\ i \in DOMAIN timeline /\ Req(h) \in DOMAIN timeline
          /\ \A k \in DOMAIN timeline : i < k /\ timeline[k].label = Label(h) => Touched(timeline, i)
      BY HeldIsLast
    <3>3. \A k \in DOMAIN timeline : k \notin 1..i => i < k
      BY <3>2
    <3>4. \A k \in 1..i : k \in Nat /\ Req(h) \in Nat /\ (k <= Req(h) => ~(Req(h) < k))
      BY <3>2
    <3>. QED  BY <3>1, <3>2, <3>3, <3>4 DEF NewerRequest, NoNewerUntil, Label
  <2>4. w = "newer" => Touched(timeline', i)
    BY <1>1, <1>4, <2>3, HeldIsLast
  <2>. QED  BY <1>1, <2>1, <2>2, <2>4, HoldsOn
<1>. QED  BY <1>2, <1>3, <1>4

(* The receipt settles the removal it names; a recovery writes none.       *)
LEMMA PersistHandsOver ==
  ASSUME IInv, NEW h \in Hosts, PersistConsumed(h)
  PROVE  HandsOver(h)
<1>. SUFFICES ASSUME NEW i \in Taken, Holding(timeline, h, pc[h], local[h], Req(h), i)
              PROVE  \/ Settled(timeline', comments', receipts', i)
                     \/ Holding(timeline', h, pc'[h], local'[h], Req(h)', i)
  BY DEF HandsOver
<1>1. /\ pc[h] = "receipt" /\ UNCHANGED <<timeline, comments, attempt>>
      /\ Extends(timeline, timeline') /\ Req(h)' = Req(h)
      /\ pc[h] \in Owning /\ pc[h] \notin Deciding
  BY DEF PersistConsumed, SameBudget, Req, Owning, Deciding, IInv, TypeOK, Extends
<1>2. CASE attempt[h].rec
  <2>1. Go(h, "release") /\ Keep(h, "why", "failed")
    BY <1>2 DEF PersistConsumed
  <2>2. /\ local[h] \in Memory /\ local'[h] = [local[h] EXCEPT !.why = "failed"]
        /\ pc'[h] = "release" /\ "release" \in Owning
    BY <2>1 DEF Go, Keep, IInv, TypeOK, Owning
  <2>3. local'[h].own = local[h].own /\ local'[h].why = "failed"
    BY <2>2, MemoryKeepsOwn
  <2>. QED  BY <1>1, <2>2, <2>3, HoldsOn
<1>3. CASE ~attempt[h].rec
  <2>. DEFINE r == [host |-> h, req |-> Req(h), own |-> local[h].own, act |-> local[h].act]
  <2>1. r \in receipts' /\ r.own = local[h].own
    BY <1>3 DEF PersistConsumed
  <2>2. local[h].own = i
    BY <1>1 DEF Holding, Deciding
  <2>. HIDE DEF r
  <2>. QED  BY <2>1, <2>2 DEF Settled
<1>. QED  BY <1>2, <1>3

LEMMA AfterReleaseHandsOver ==
  ASSUME IInv, NEW h \in Hosts, ReadActiveState(h) \/ ProveReleased(h)
  PROVE  HandsOver(h)
<1>. SUFFICES ASSUME NEW i \in Taken, Holding(timeline, h, pc[h], local[h], Req(h), i)
              PROVE  \/ Settled(timeline', comments', receipts', i)
                     \/ Holding(timeline', h, pc'[h], local'[h], Req(h)', i)
  BY DEF HandsOver
<1>1. /\ pc[h] \in {"release", "released"} /\ UNCHANGED <<timeline, comments, receipts, attempt>>
      /\ Extends(timeline, timeline') /\ Req(h)' = Req(h)
      /\ pc[h] \in Owning /\ pc[h] \notin Deciding
  BY ReadingSettles DEF ReadActiveState, ProveReleased, ReadOnly, Req, Owning, Deciding
<1>2. \/ Go(h, "unlabel") /\ UNCHANGED local
      \/ \E b \in BOOLEAN : AfterRelease(h, b)
  BY DEF ReadActiveState, ProveReleased
<1>3. CASE Go(h, "unlabel") /\ UNCHANGED local
  <2>1. pc'[h] = "unlabel" /\ "unlabel" \in Owning
    BY <1>3 DEF Go, IInv, TypeOK, Owning
  <2>. QED  BY <1>1, <1>3, <2>1, HoldsOn
<1>4. ASSUME NEW b \in BOOLEAN, AfterRelease(h, b)
      PROVE  \/ Settled(timeline', comments', receipts', i)
             \/ Holding(timeline', h, pc'[h], local'[h], Req(h)', i)
  <2>1. \/ Ambiguous(h, ~b) \/ StopConsumed(h, ~b) \/ local[h].why = "newer"
    BY <1>4 DEF AfterRelease
  <2>2. local[h].why = "newer" => Touched(timeline, i)
    BY <1>1 DEF Holding, Deciding
  <2>. QED  BY <1>1, <2>1, <2>2, StopsHandOver, ReadingSettles
<1>. QED  BY <1>2, <1>3, <1>4

(* A superseded request is put back, or its explanation says so.           *)
LEMMA RestoreHandsOver ==
  ASSUME IInv, NEW h \in Hosts, DecideRestore(h) \/ ProveRequeued(h)
  PROVE  HandsOver(h)
<1>. SUFFICES ASSUME NEW i \in Taken, Holding(timeline, h, pc[h], local[h], Req(h), i)
              PROVE  Holding(timeline', h, pc'[h], local'[h], Req(h)', i)
  BY DEF HandsOver
<1>1. /\ pc[h] \in {"restore", "requeued"} /\ UNCHANGED <<timeline, comments, receipts, attempt>>
      /\ Extends(timeline, timeline') /\ Req(h)' = Req(h)
      /\ pc[h] \in Owning /\ pc[h] \notin Deciding
  BY ReadingSettles DEF DecideRestore, ProveRequeued, ReadOnly, Req, Owning, Deciding
<1>2. \/ Go(h, "requeue") /\ UNCHANGED local
      \/ Go(h, "explain")
  BY DEF DecideRestore, ProveRequeued, GoNoting
<1>3. /\ Go(h, "requeue") => pc'[h] = "requeue"
      /\ Go(h, "explain") => pc'[h] = "explain"
  BY DEF Go, IInv, TypeOK
<1>4. "explain" \in Deciding /\ "requeue" \in Owning \ {"release", "unlabel", "released"}
  BY DEF Deciding, Owning
<1>. QED  BY <1>1, <1>2, <1>3, <1>4, HoldsOn

(* A comment explains every removal its host made for the request.         *)
LEMMA CommentSettles ==
  ASSUME IInv, NEW h \in Hosts, Comment(h), UNCHANGED timeline,
         NEW i, Holding(timeline, h, pc[h], local[h], Req(h), i)
  PROVE  Settled(timeline', comments', receipts', i)
<1>. DEFINE c == [host |-> h, req |-> Req(h), kind |-> local[h].note]
<1>1. c \in comments' /\ c.host = h /\ c.req = Req(h)
  BY DEF Comment
<1>2. /\ Req(h) < i /\ timeline[i].by = Login[h]
      /\ timeline[Req(h)].label = timeline[i].label
  BY HeldIsLast DEF Label
<1>. HIDE DEF c
<1>. QED  BY <1>1, <1>2 DEF Settled

LEMMA ExplainingHandsOver ==
  ASSUME IInv, NEW h \in Hosts, ExplainConsumed(h) \/ ExplainStop(h)
  PROVE  HandsOver(h)
<1>. SUFFICES ASSUME NEW i \in Taken, Holding(timeline, h, pc[h], local[h], Req(h), i)
              PROVE  \/ Settled(timeline', comments', receipts', i)
                     \/ Holding(timeline', h, pc'[h], local'[h], Req(h)', i)
  BY DEF HandsOver
<1>1. \/ Comment(h)
      \/ pc[h] = "amb_explain" /\ Go(h, "retained")
  BY DEF ExplainConsumed, ExplainStop
<1>2. UNCHANGED <<timeline, attempt>> /\ Extends(timeline, timeline') /\ Req(h)' = Req(h)
  BY DEF ExplainConsumed, ExplainStop, Req, IInv, TypeOK, Extends
<1>3. Go(h, "retained") => pc'[h] = "retained"
  BY DEF Go, IInv, TypeOK
<1>4. "amb_explain" \notin Deciding
  BY DEF Deciding
<1>. QED  BY <1>1, <1>2, <1>3, <1>4, CommentSettles, HoldsOn

(* Recovery takes the removal up again, or finds the request back.         *)
LEMMA ReconcileHandsOver ==
  ASSUME IInv, NEW h \in Hosts, Reconcile(h)
  PROVE  HandsOver(h)
<1>. SUFFICES ASSUME NEW i \in Taken, Holding(timeline, h, pc[h], local[h], Req(h), i)
              PROVE  \/ Settled(timeline', comments', receipts', i)
                     \/ Holding(timeline', h, pc'[h], local'[h], Req(h)', i)
  BY DEF HandsOver
<1>1. /\ pc[h] = "retained" /\ UNCHANGED <<timeline, comments, receipts>>
      /\ Extends(timeline, timeline') /\ pc[h] \notin Deciding
  BY ReadingSettles DEF Reconcile, ReadOnly, Deciding
<1>2. Req(h)' = Req(h)
  BY DEF Reconcile, Req, IInv, TypeOK
<1>3. CASE Label(h) \in Shown
  BY <1>1, <1>3, HeldIsLast, ReadingSettles
<1>4. CASE Label(h) \notin Shown
  <2>1. pc'[h] = "before"
    BY <1>4 DEF Reconcile, Go, IInv, TypeOK
  <2>. QED  BY <1>1, <1>2, <2>1, HoldsOn
<1>. QED  BY <1>3, <1>4

-----------------------------------------------------------------------------
(* A request is taken once, and whatever is taken is held.                 *)

(* A host deletes the label only while its request is the newest event.    *)
LEMMA DecideBeforeTakesOnce ==
  ASSUME IInv, Calm, NEW h \in Hosts, DecideBefore(h)
  PROVE  TakesOnce(timeline', h, pc'[h], Req(h)')
<1>1. /\ timeline' = timeline /\ Req(h)' = Req(h) /\ timeline \in Seq(Event)
      /\ pc[h] \in AtWork
  BY DEF DecideBefore, ReadOnly, Req, IInv, TypeOK, AtWork, Stages
<1>2. \E evs \in Views :
        \/ \E s \in {"cancelled", "recovery_blocked", "raced", "amb"} : Go(h, s)
        \/ /\ Go(h, "delete") /\ LabelEvent(evs, Label(h)) = Req(h)
           /\ ~IssueLabelIsActive(evs, "blocked")
  BY DEF DecideBefore, Ambiguous, GoNoting
<1>3. \/ \E s \in {"cancelled", "recovery_blocked", "raced", "amb"} : Go(h, s)
      \/ /\ Go(h, "delete") /\ LabelEvent(timeline, Label(h)) = Req(h)
         /\ ~IssueLabelIsActive(timeline, "blocked")
  <2>1. \A evs \in Views : evs = timeline
    BY CalmViews
  <2>. QED  BY <1>2, <2>1
<1>4. CASE \E s \in {"cancelled", "recovery_blocked", "raced", "amb"} : Go(h, s)
  <2>1. pc'[h] \notin {"delete", "after"}
    BY <1>4 DEF Go, IInv, TypeOK
  <2>. QED  BY <2>1 DEF TakesOnce
<1>5. CASE /\ Go(h, "delete") /\ LabelEvent(timeline, Label(h)) = Req(h)
           /\ ~IssueLabelIsActive(timeline, "blocked")
  <2>1. pc'[h] = "delete"
    BY <1>5 DEF Go, IInv, TypeOK
  <2>2. Req(h) \in DOMAIN timeline /\ Req(h) \in Nat
    BY <1>1 DEF IInv, AttemptsAreBound, Requested
  <2>3. OwnRemovals(timeline, h, Req(h)) = {}
    <3>1. ASSUME NEW i \in OwnRemovals(timeline, h, Req(h)) PROVE FALSE
      <4>1. i \in DOMAIN timeline /\ i \in Nat /\ Req(h) < i /\ timeline[i].label = Label(h)
        BY <1>1, <3>1 DEF OwnRemovals, Label
      <4>2. i <= LabelEvent(timeline, Label(h))
        BY <1>1, <4>1, LabelEventIsLast
      <4>. QED  BY <1>5, <2>2, <4>1, <4>2
    <3>. QED  BY <3>1
  <2>4. BlockIsNewer(timeline, Req(h))
    BY <1>5 DEF BlockIsNewer, ActiveIssueRequestEvent
  <2>. QED  BY <1>1, <2>1, <2>3, <2>4 DEF TakesOnce
<1>. QED  BY <1>3, <1>4, <1>5

(* The deletion, when the label was there, is the host's one removal.      *)
LEMMA DeleteKeepsLossInv ==
  ASSUME IInv, Calm, LossInv, NEW h \in Hosts, DeleteRequest(h), StepsAlone(h)
  PROVE  LossInv'
<1>1. /\ pc[h] = "delete" /\ pc[h] \in AtWork /\ timeline \in Seq(Event)
      /\ timeline' = WithoutLabel(timeline, Label(h), Login[h])
      /\ Req(h)' = Req(h) /\ local' = local
      /\ pc'[h] = IF Label(h) \in Shown THEN "after" ELSE "cancelled"
      /\ Len(timeline) \in Nat
  BY DEF DeleteRequest, Go, Written, Req, IInv, TypeOK, AtWork, Stages
<1>2. /\ Req(h) \in DOMAIN timeline /\ Req(h) \in Nat /\ Req(h) <= Len(timeline)
      /\ OwnRemovals(timeline, h, Req(h)) = {} /\ BlockIsNewer(timeline, Req(h))
  BY <1>1 DEF IInv, AttemptsAreBound, Requested, LossInv, TakesOnce
<1>3. HandsOver(h) /\ GrowsBy(timeline, timeline', Login[h])
  BY <1>1, FreeHandsOver, WritesItsOwn DEF DeleteRequest
<1>4. CASE Label(h) \notin Shown
  <2>1. timeline' = timeline
    BY <1>1, <1>4 DEF Shown, WithoutLabel
  <2>2. TakesOnce(timeline', h, pc'[h], Req(h)')
    BY <1>1, <1>4 DEF TakesOnce
  <2>. QED  BY <1>3, <2>1, <2>2, StepKeepsLossInv
<1>5. CASE Label(h) \in Shown
  <2>. DEFINE e == [act |-> "unlabeled", label |-> Label(h), by |-> Login[h]]
              n == Len(timeline) + 1
  <2>1. timeline' = Append(timeline, e)
    BY <1>1, <1>5 DEF Shown, WithoutLabel
  <2>2. /\ e.act = "unlabeled" /\ e.label = Label(h) /\ e.by = Login[h]
    OBVIOUS
  <2>. HIDE DEF e
  <2>3. /\ DOMAIN timeline' = DOMAIN timeline \cup {n} /\ n \notin DOMAIN timeline
        /\ timeline'[n] = e /\ \A i \in DOMAIN timeline : timeline'[i] = timeline[i]
        /\ Req(h) < n
    BY <1>1, <1>2, <2>1
  <2>4. OwnRemovals(timeline', h, Req(h)) = {n}
    <3>1. \A i \in OwnRemovals(timeline', h, Req(h)) :
            i \in DOMAIN timeline => i \in OwnRemovals(timeline, h, Req(h))
      BY <1>2, <2>3 DEF OwnRemovals
    <3>2. n \in OwnRemovals(timeline', h, Req(h))
      BY <1>2, <2>2, <2>3 DEF OwnRemovals, Label
    <3>3. OwnRemovals(timeline', h, Req(h)) \subseteq DOMAIN timeline \cup {n}
      BY <2>3 DEF OwnRemovals
    <3>. QED  BY <1>2, <3>1, <3>2, <3>3
  <2>5. pc'[h] = "after"
    BY <1>1, <1>5
  <2>6. TakesOnce(timeline', h, pc'[h], Req(h)')
    <3>1. BlockIsNewer(timeline', Req(h))
      BY <1>2, <1>3, BlockIsNewerIsStable DEF GrowsBy
    <3>. QED  BY <1>1, <2>4, <2>5, <3>1 DEF TakesOnce
  <2>7. Holding(timeline', h, pc'[h], local'[h], Req(h)', n)
    BY <1>1, <2>4, <2>5 DEF Holding
  <2>. HIDE DEF n
  <2>. QED  BY <1>3, <2>3, <2>6, <2>7, StepKeepsLossInv
<1>. QED  BY <1>4, <1>5

(* No other step leads to the deletion or away from it.                    *)
LEMMA OthersTakeNothing ==
  ASSUME IInv, NEW h \in Hosts, HostStep(h), ~DecideBefore(h), ~DeleteRequest(h)
  PROVE  pc[h] # "delete" /\ pc'[h] \notin {"delete", "after"}
<1>0. \A s : Go(h, s) => pc'[h] = s
  BY DEF Go, IInv, TypeOK
<1>1. CASE Select(h) \/ ReadBlock(h) \/ ClearBlock(h) \/ ProveCleared(h)
  BY <1>0, <1>1 DEF Select, ReadBlock, ClearBlock, ProveCleared, Resting, Outcomes
<1>2. CASE DecideAfter(h) \/ RestoreNewer(h) \/ CheckNoActiveState(h) \/ AddActiveState(h)
  BY <1>0, <1>2 DEF DecideAfter, RestoreNewer, CheckNoActiveState, AddActiveState,
                    Ambiguous, StopConsumed, GoNoting
<1>3. CASE ProveActiveState(h) \/ PersistConsumed(h)
  BY <1>0, <1>3 DEF ProveActiveState, PersistConsumed, Ambiguous, GoNoting
<1>4. CASE ReadActiveState(h) \/ RemoveActiveState(h) \/ ProveReleased(h)
  BY <1>0, <1>4 DEF ReadActiveState, RemoveActiveState, ProveReleased, AfterRelease,
                    Ambiguous, StopConsumed, GoNoting, Finish
<1>5. CASE DecideRestore(h) \/ Requeue(h) \/ ProveRequeued(h) \/ ExplainConsumed(h)
  BY <1>0, <1>5 DEF DecideRestore, Requeue, ProveRequeued, ExplainConsumed, GoNoting, Finish
<1>6. CASE ReadStop(h) \/ AddStop(h) \/ ExplainStop(h) \/ ProveStop(h) \/ Reconcile(h)
  BY <1>0, <1>6 DEF ReadStop, AddStop, ExplainStop, ProveStop, Reconcile, Finish
<1>. QED  BY <1>1, <1>2, <1>3, <1>4, <1>5, <1>6 DEF HostStep

(* The frame of a host's step.                                             *)
LEMMA HostStepFrame ==
  ASSUME IInv, NEW h \in Hosts, HostStep(h)
  PROVE  /\ StepsAlone(h) /\ GrowsBy(timeline, timeline', Login[h])
         /\ pc[h] # "delete" =>
              \A i \in DOMAIN timeline' : i \notin DOMAIN timeline => i \notin Taken'
<1>1. CASE PersistConsumed(h)
  <2>1. StepsAlone(h)
    BY <1>1 DEF PersistConsumed, StepsAlone, Go, Keep, IInv, TypeOK, Req
  <2>2. pc[h] \in AtWork /\ timeline' = timeline
    BY <1>1 DEF PersistConsumed, AtWork, Stages
  <2>. QED  BY <2>1, <2>2, WritesItsOwn
<1>2. CASE ~PersistConsumed(h)
  <2>1. StepsAlone(h)
    <3>1. receipts' = receipts /\ comments \subseteq comments'
      BY <1>2, ClearingTurns, BeforeTurns, ActivatingTurns, ReleasingTurns, RestoringTurns,
         StoppingTurns
      DEF HostStep, Select, DecideAfter, ProveActiveState, Reconcile, ReadOnly,
          ReadBlock, ClearBlock, ProveCleared, DecideBefore, DeleteRequest, RestoreNewer,
          CheckNoActiveState, AddActiveState, ReadActiveState, RemoveActiveState,
          ProveReleased, DecideRestore, Requeue, ProveRequeued, ExplainConsumed,
          ReadStop, AddStop, ExplainStop, ProveStop, Comment
    <3>. QED  BY <1>2, <3>1, HostStepMoves, MovesAlone DEF StepsAlone
  <2>2. CASE Select(h)
    BY <2>1, <2>2 DEF Select, ReadOnly, GrowsBy, Extends, IInv, TypeOK, Resting, Outcomes
  <2>3. CASE ~Select(h)
    <3>1. pc[h] \in AtWork /\ timeline' \in {timeline, Written(h)}
      BY <1>2, <2>3, ClearingTurns, BeforeTurns, ActivatingTurns, ReleasingTurns,
         RestoringTurns, StoppingTurns
      DEF HostStep, Frame, DecideAfter, ProveActiveState, Reconcile, ReadOnly, AtWork, Stages
    <3>. QED  BY <2>1, <3>1, WritesItsOwn
  <2>. QED  BY <2>2, <2>3
<1>. QED  BY <1>1, <1>2

LEMMA HostStepHandsOver ==
  ASSUME IInv, Calm, LossInv, NEW h \in Hosts, HostStep(h)
  PROVE  HandsOver(h)
BY FreeHandsOver, MovingHandsOver, DecideBeforeHandsOver, DecideAfterHandsOver,
   RestoreNewerHandsOver, CheckHandsOver, ProveHandsOver, PersistHandsOver,
   AfterReleaseHandsOver, RestoreHandsOver, ExplainingHandsOver, ReconcileHandsOver
DEF HostStep

LEMMA HostStepKeepsLossInv ==
  ASSUME IInv, Calm, LossInv, NEW h \in Hosts, HostStep(h)
  PROVE  LossInv'
<1>1. CASE DeleteRequest(h)
  BY <1>1, DeleteKeepsLossInv, HostStepFrame
<1>2. CASE ~DeleteRequest(h)
  <2>1. pc[h] # "delete" /\ TakesOnce(timeline', h, pc'[h], Req(h)')
    <3>1. CASE DecideBefore(h)
      BY <3>1, DecideBeforeTakesOnce DEF DecideBefore
    <3>2. CASE ~DecideBefore(h)
      BY <1>2, <3>2, OthersTakeNothing DEF TakesOnce
    <3>. QED  BY <3>1, <3>2
  <2>. QED  BY <2>1, HostStepFrame, HostStepHandsOver, StepKeepsLossInv
<1>. QED  BY <1>1, <1>2

LEMMA PersonKeepsLossInv ==
  ASSUME IInv, LossInv, PersonAct
  PROVE  LossInv'
<1>1. /\ Person \in Authors /\ timeline \in Seq(Event)
      /\ UNCHANGED <<comments, receipts, pc, attempt, local>>
  BY DEF Authors, IInv, TypeOK, PersonAct
<1>2. PICK l \in Labels : \/ timeline' = WithLabel(timeline, l, Person)
                          \/ timeline' = WithoutLabel(timeline, l, Person)
  BY BoundAssumption DEF PersonAct
<1>3. Extends(timeline, timeline')
  BY <1>1, <1>2, WriteExtends
<1>4. \A e : LET q == Append(timeline, e) IN
        \A i \in DOMAIN q : i \notin DOMAIN timeline => q[i] = e
  BY <1>1
<1>5. \A i \in DOMAIN timeline' : i \notin DOMAIN timeline => timeline'[i].by = Person
  BY <1>2, <1>4 DEF WithLabel, WithoutLabel
<1>6. GrowsBy(timeline, timeline', Person)
  BY <1>3, <1>5 DEF GrowsBy
<1>7. \A i \in Taken' : i \in DOMAIN timeline /\ i \in Taken
  BY <1>3, <1>5, PersonAssumption DEF Taken, Extends
<1>8. ASSUME NEW i \in Taken'
      PROVE  \/ Settled(timeline', comments', receipts', i)
             \/ \E g \in Hosts : Holding(timeline', g, pc'[g], local'[g], Req(g)', i)
  <2>1. i \in Taken /\ i \in DOMAIN timeline
    BY <1>7, <1>8
  <2>2. CASE Settled(timeline, comments, receipts, i)
    BY <1>1, <1>3, <2>1, <2>2, SettledIsStable DEF IInv, TypeOK
  <2>3. ASSUME NEW g \in Hosts, Holding(timeline, g, pc[g], local[g], Req(g), i)
        PROVE  Holding(timeline', g, pc'[g], local'[g], Req(g)', i)
    <3>1. Holding(timeline', g, pc[g], local[g], Req(g), i)
      BY <1>3, <2>3, HeldIsLast, HoldingIsStable
    <3>. QED  BY <1>1, <3>1 DEF Req
  <2>. QED  BY <2>1, <2>2, <2>3 DEF LossInv, TakenAreHeld
<1>9. ASSUME NEW g \in Hosts
      PROVE  TakesOnce(timeline', g, pc'[g], Req(g)')
  <2>1. pc[g] \in {"delete", "after"} => Req(g) \in DOMAIN timeline
    BY DEF IInv, AttemptsAreBound, Requested, AtWork, Stages
  <2>2. TakesOnce(timeline, g, pc[g], Req(g)) /\ Person # Login[g]
    BY PersonAssumption, LoginAssumption DEF LossInv
  <2>3. TakesOnce(timeline', g, pc[g], Req(g))
    BY <1>6, <2>1, <2>2, TakesOnceIsStable
  <2>. QED  BY <1>1, <2>3 DEF Req
<1>. QED  BY <1>8, <1>9 DEF LossInv, TakenAreHeld

LEMMA InitEstablishesLossInv == Init => LossInv
<1>. SUFFICES ASSUME Init PROVE LossInv
  OBVIOUS
<1>1. Taken = {}
  BY DEF Init, Taken
<1>2. \A h \in Hosts : pc[h] = "idle"
  BY DEF Init
<1>. QED  BY <1>1, <1>2 DEF LossInv, TakenAreHeld, TakesOnce

LEMMA NextKeepsLossInv == Calm /\ IInv /\ LossInv /\ [Next]_vars => LossInv'
<1>. SUFFICES ASSUME Calm, IInv, LossInv, [Next]_vars PROVE LossInv'
  OBVIOUS
<1>1. ASSUME NEW h \in Hosts, Fail(h) \/ Crash(h)
      PROVE  FALSE
  <2>1. spent \in [acts : 0..MaxPersonActs, attempts : 0..MaxAttempts, faults : 0..MaxFaults]
        /\ spent.faults < MaxFaults /\ MaxFaults = 0
    BY <1>1 DEF Fail, Crash, Spend, Calm, IInv, TypeOK
  <2>. QED  BY <2>1
<1>2. CASE UNCHANGED vars
  BY <1>2 DEF vars, LossInv, TakenAreHeld, Taken, Req
<1>. QED  BY <1>1, <1>2, HostStepKeepsLossInv, PersonKeepsLossInv DEF Next

(* What is held or settled is accounted for in the sense of the property.  *)
LEMMA LossInvIsEnough == IInv /\ LossInv => LossIsVisible
<1>. SUFFICES ASSUME IInv, LossInv, NEW i \in Taken
              PROVE  AccountedFor(i) \/ StoppedSince(i)
  BY DEF LossIsVisible
<1>1. CASE Settled(timeline, comments, receipts, i)
  BY <1>1 DEF Settled, Touched, AccountedFor, StoppedSince
<1>2. ASSUME NEW h \in Hosts, Holding(timeline, h, pc[h], local[h], Req(h), i)
      PROVE  AccountedFor(i)
  <2>1. pc[h] \in Stages \cup {"retained"}
    BY <1>2 DEF Holding, Owning, Stages
  <2>2. timeline[i].by = Login[h] /\ timeline[i].label = Label(h)
    BY <1>2, HeldIsLast
  <2>. QED  BY <2>1, <2>2 DEF AccountedFor
<1>. QED  BY <1>1, <1>2 DEF LossInv, TakenAreHeld

(* While no call fails, event lists are fresh and every host writes under  *)
(* an identity of its own, a request deadloop took off an Issue is in an   *)
(* attempt's hands, back, explained or behind a visible stop, however many *)
(* hosts race and whatever people do to any label (consumeIssueRequest,    *)
(* restoreConsumedRequest and reconcile-prepared-attempt).                 *)
THEOREM LossesAreVisible == ASSUME Calm PROVE Spec => []LossIsVisible
<1>1. IInv /\ LossInv /\ [Next]_vars => LossInv'
  BY NextKeepsLossInv
<1>2. Spec => []LossInv
  BY <1>1, InitEstablishesLossInv, IInvHolds, PTL DEF Spec
<1>. QED  BY <1>2, LossInvIsEnough, IInvHolds, PTL

=============================================================================

----------------------------- MODULE Enablement -----------------------------
(***************************************************************************)
(* Permission to work on one repository: `/deadloop-enable` and            *)
(* `/deadloop-disable` in several sessions, racing with the operations     *)
(* that act on GitHub under it (extensions/deadloop/index.ts,              *)
(* src/enabled-operation.cjs, src/driver-enablement.cjs,                   *)
(* src/disable-generation.cjs, src/enablement.ts).                         *)
(*                                                                         *)
(* Four files make up the permission: the enabled record, the disable      *)
(* generation (written without the enablement lock), the enable attempt in *)
(* progress, and the lock.  The lock here is an exclusion lock, which is   *)
(* what EnablementLock implements until a process dies inside it.          *)
(*                                                                         *)
(* Commands of one section of the lock that touch nothing others can see   *)
(* are one action; whatever reads the disable generation and acts on it    *)
(* later is two.  `enabledAt` is a counter: the code takes the clock, and  *)
(* at least one more than the record it replaces.                          *)
(***************************************************************************)
EXTENDS Naturals, FiniteSets

CONSTANTS
  Enablers,    \* sessions that run /deadloop-enable
  Disablers,   \* sessions that run /deadloop-disable
  Operations,  \* guarded operations: launches, mutations, pushes
  NoOne,       \* nobody, for the holder of a free lock
  Mortal,      \* the processes that may be killed
  Steps,       \* effects of one guarded operation
  MaxAttempts, \* bound on enable commands
  MaxDisables  \* bound on disable commands

Processes == Enablers \cup Disablers \cup Operations

ASSUME ActorAssumption ==
  /\ Enablers \cap Disablers = {} /\ Enablers \cap Operations = {}
  /\ Disablers \cap Operations = {} /\ NoOne \notin Processes
  /\ Mortal \subseteq Processes
ASSUME StepAssumption == Steps \in Nat \ {0}
ASSUME EnablementBounds == MaxAttempts \in Nat /\ MaxDisables \in Nat

VARIABLES
  rec,      \* the repository's enabled record
  gen,      \* its disable generation
  attempt,  \* the enable attempt file, token 0 when there is none
  holder,   \* who is inside the enablement lock
  pc,
  mem,      \* what an enable command remembers
  op,       \* a guarded operation: its enabledAt, effects left to do
  begun,    \* enable attempts begun so far
  sealed,   \* newest enabledAt and generation a completed disable ended
  late      \* effects each operation had after its permission was withdrawn

vars == <<rec, gen, attempt, holder, pc, mem, op, begun, sealed, late>>

Record == [on : BOOLEAN, at : Nat, gen : Nat, token : Nat]
NoAttempt == [token |-> 0, cancelled |-> FALSE]
NoRecord == [on |-> FALSE, at |-> 0, gen |-> 0, token |-> 0]
Memory == [gen : Nat, token : 0..MaxAttempts, prevAt : Nat, prev : Record, at : Nat]
NoMem == [gen |-> 0, token |-> 0, prevAt |-> 0, prev |-> NoRecord, at |-> 0]

EnableStages == {"begin", "previous", "preflight", "label", "labelling", "save",
                 "saving", "read_attempt", "remove_attempt", "verify", "start",
                 "starting", "undo", "revoke", "drop_attempt", "drop_removing"}
DisableStages == {"disabling", "writing"}
OperationStages == {"waiting", "recheck", "checked"}
Ends == {"idle", "enabled", "failed", "disabled", "not_disabled", "done", "stopped", "killed"}

TypeOK ==
  /\ rec \in Record
  /\ gen \in Nat /\ begun \in 0..MaxAttempts
  /\ attempt \in [token : 0..MaxAttempts, cancelled : BOOLEAN]
  /\ holder \in Processes \cup {NoOne}
  /\ pc \in [Processes -> EnableStages \cup DisableStages \cup OperationStages \cup Ends]
  /\ mem \in [Enablers -> Memory]
  /\ op \in [Operations -> [at : Nat, left : 0..Steps]]
  /\ sealed \in [at : Nat, gen : Nat]
  /\ late \in [Operations -> Nat]

Init ==
  /\ rec = NoRecord /\ gen = 0 /\ attempt = NoAttempt /\ holder = NoOne
  /\ pc = [p \in Processes |-> "idle"]
  /\ mem = [e \in Enablers |-> NoMem]
  /\ op = [o \in Operations |-> [at |-> 0, left |-> 0]]
  /\ begun = 0 /\ sealed = [at |-> 0, gen |-> 0]
  /\ late = [o \in Operations |-> 0]

Go(p, stage) == pc' = [pc EXCEPT ![p] = stage]
Free == holder = NoOne
Remember(e, field, value) == mem' = [mem EXCEPT ![e] = [@ EXCEPT ![field] = value]]

(* assertLocallyEnabled for an operation of the generation `at`.           *)
Authorized(at) == rec.on /\ rec.at = at /\ rec.gen = gen

Records     == <<rec, gen, sealed>>
OfOperation == <<op, late>>

-----------------------------------------------------------------------------
(* /deadloop-enable, up to the saved record.                               *)

(* The disable generation is read, then the attempt published if it still  *)
(* is the current one.                                                     *)
ReadGeneration(e) ==
  /\ pc[e] \in Ends /\ begun < MaxAttempts /\ Free
  /\ mem' = [mem EXCEPT ![e] = [NoMem EXCEPT !.gen = gen]]
  /\ Go(e, "begin")
  /\ UNCHANGED <<Records, attempt, holder, OfOperation, begun>>

WriteAttempt(e) ==
  /\ pc[e] = "begin" /\ Free
  /\ \/ /\ gen = mem[e].gen /\ begun < MaxAttempts
        /\ begun' = begun + 1
        /\ attempt' = [token |-> begun', cancelled |-> FALSE]
        /\ Remember(e, "token", begun')
        /\ Go(e, "previous")
     \/ /\ gen # mem[e].gen
        /\ Go(e, "failed")
        /\ UNCHANGED <<begun, attempt, mem>>
  /\ UNCHANGED <<Records, holder, OfOperation>>

(* ownsEnableAttempt                                                       *)
Owns(e) == attempt.token = mem[e].token /\ ~attempt.cancelled
(* A failure before the record is saved; earlier permission goes with it.  *)
FailUnsaved(e) == Go(e, IF mem[e].prevAt # 0 THEN "revoke" ELSE "drop_attempt")

ReadPrevious(e) ==
  /\ pc[e] = "previous" /\ Free
  /\ Remember(e, "prevAt", IF rec.on THEN rec.at ELSE 0)
  /\ Go(e, "preflight")
  /\ UNCHANGED <<Records, attempt, holder, OfOperation, begun>>

(* resolveEnableProject and prepareGithub, up to the first missing label.  *)
Preflight(e) ==
  /\ pc[e] = "preflight"
  /\ \/ Owns(e) /\ (Go(e, "label") \/ Go(e, "save"))
     \/ FailUnsaved(e)
  /\ UNCHANGED <<Records, attempt, holder, mem, OfOperation, begun>>

Confirmed(e) == Owns(e) /\ gen = mem[e].gen

(* A label is created inside the lock, after the attempt is confirmed.     *)
ConfirmLabel(e) ==
  /\ pc[e] = "label" /\ Free
  /\ \/ Confirmed(e) /\ holder' = e /\ Go(e, "labelling")
     \/ ~Confirmed(e) /\ FailUnsaved(e) /\ UNCHANGED holder
  /\ UNCHANGED <<Records, attempt, mem, OfOperation, begun>>

CreateLabel(e) ==
  /\ pc[e] = "labelling"
  /\ holder' = NoOne
  /\ Go(e, "preflight") \/ FailUnsaved(e)
  /\ UNCHANGED <<Records, attempt, mem, OfOperation, begun>>

ConfirmSave(e) ==
  /\ pc[e] = "save" /\ Free
  /\ \/ Confirmed(e) /\ holder' = e /\ Go(e, "saving")
     \/ ~Confirmed(e) /\ FailUnsaved(e) /\ UNCHANGED holder
  /\ UNCHANGED <<Records, attempt, mem, OfOperation, begun>>

(* Mutant: a record replaced after a disable keeps its enabledAt as well.  *)
UpsertKeepsAt(e) ==
  [on |-> TRUE, at |-> IF rec.at # 0 THEN rec.at ELSE 1,
   gen |-> mem[e].gen, token |-> mem[e].token]

(* upsertEnabledProject: a record in force keeps its enabledAt.            *)
Upsert(e) ==
  [on |-> TRUE, at |-> IF rec.on THEN rec.at ELSE rec.at + 1,
   gen |-> mem[e].gen, token |-> mem[e].token]

Save(e) ==
  /\ pc[e] = "saving"
  /\ holder' = NoOne
  /\ \/ /\ rec' = Upsert(e)
        /\ mem' = [mem EXCEPT ![e] = [@ EXCEPT
                     !.at = rec'.at, !.prev = IF rec.on THEN rec ELSE NoRecord]]
        /\ Go(e, "read_attempt")
     \/ FailUnsaved(e) /\ UNCHANGED <<rec, mem>>
  /\ UNCHANGED <<gen, sealed, attempt, OfOperation, begun>>

-----------------------------------------------------------------------------
(* /deadloop-enable, after the saved record.                               *)

(* finishEnableAttempt reads the attempt file and then removes it.         *)
Mine(e) == attempt.token = mem[e].token

ReadAttempt(e) ==
  /\ \/ pc[e] = "read_attempt" /\ Go(e, IF Mine(e) THEN "remove_attempt" ELSE "verify")
     \/ pc[e] = "drop_attempt" /\ Go(e, IF Mine(e) THEN "drop_removing" ELSE "failed")
  /\ UNCHANGED <<Records, attempt, holder, mem, OfOperation, begun>>

RemoveAttempt(e) ==
  /\ \/ pc[e] = "remove_attempt" /\ Go(e, "verify")
     \/ pc[e] = "drop_removing" /\ Go(e, "failed")
  /\ attempt' = NoAttempt
  /\ UNCHANGED <<Records, holder, mem, OfOperation, begun>>

(* assertSavedAutomationAuthority.                                         *)
SavedAuthorityHolds(e) ==
  /\ rec.on /\ rec.at = mem[e].at /\ rec.token = mem[e].token
  /\ rec.gen = mem[e].gen /\ gen = mem[e].gen

Verify(e) ==
  /\ pc[e] = "verify"
  /\ \/ SavedAuthorityHolds(e) /\ Go(e, "start")
     \/ Go(e, "undo")
  /\ UNCHANGED <<Records, attempt, holder, mem, OfOperation, begun>>

(* The scheduler is started inside the lock, between two verifications.    *)
StartScheduler(e) ==
  /\ pc[e] = "start" /\ Free
  /\ \/ SavedAuthorityHolds(e) /\ holder' = e /\ Go(e, "starting")
     \/ Go(e, "undo") /\ UNCHANGED holder
  /\ UNCHANGED <<Records, attempt, mem, OfOperation, begun>>

ConfirmStarted(e) ==
  /\ pc[e] = "starting"
  /\ holder' = NoOne
  /\ Go(e, IF SavedAuthorityHolds(e) THEN "enabled" ELSE "undo")
  /\ UNCHANGED <<Records, attempt, mem, OfOperation, begun>>

(* rollbackSavedEnablementAttempt: only this attempt's own record is       *)
(* undone, to the record in force when it was saved.                       *)
RollbackSaved(e) ==
  /\ pc[e] = "undo" /\ Free
  /\ rec' = IF ~(rec.on /\ rec.at = mem[e].at /\ rec.token = mem[e].token) THEN rec
            ELSE IF mem[e].prev.on THEN mem[e].prev ELSE [rec EXCEPT !.on = FALSE]
  /\ Go(e, "drop_attempt")
  /\ UNCHANGED <<gen, sealed, attempt, holder, mem, OfOperation, begun>>

(* Mutant: the owner of the enable attempt is not looked at.               *)
RollbackFailedUnowned(e) ==
  /\ pc[e] = "revoke" /\ Free
  /\ rec' = IF rec.on /\ rec.at = mem[e].prevAt THEN [rec EXCEPT !.on = FALSE] ELSE rec
  /\ Go(e, "drop_attempt")
  /\ UNCHANGED <<gen, sealed, attempt, holder, mem, OfOperation, begun>>

(* rollbackFailedEnablementAttempt: a failed repeat revokes what it found. *)
RollbackFailed(e) ==
  /\ pc[e] = "revoke" /\ Free
  /\ rec' = IF Owns(e) /\ rec.on /\ rec.at = mem[e].prevAt
            THEN [rec EXCEPT !.on = FALSE] ELSE rec
  /\ Go(e, "drop_attempt")
  /\ UNCHANGED <<gen, sealed, attempt, holder, mem, OfOperation, begun>>

-----------------------------------------------------------------------------
(* /deadloop-disable: the intent is published first, under a lock of its   *)
(* own; the record is written once the enablement lock is free.            *)

AdvanceGeneration(d) ==
  /\ pc[d] \in Ends /\ gen < MaxDisables
  /\ gen' = gen + 1
  /\ Go(d, "disabling")
  /\ UNCHANGED <<rec, sealed, attempt, holder, mem, OfOperation, begun>>

WriteDisabled(d) ==
  /\ pc[d] = "disabling" /\ Free
  /\ attempt' = IF attempt.token = 0 THEN attempt ELSE [attempt EXCEPT !.cancelled = TRUE]
  /\ rec' = [rec EXCEPT !.on = FALSE]
  /\ sealed' = [at |-> rec.at, gen |-> gen]
  /\ Go(d, "disabled")
  /\ UNCHANGED <<gen, holder, mem, OfOperation, begun>>

-----------------------------------------------------------------------------
(* withEnabledProjectLock and withEnabledDriverLaunch: every effect is     *)
(* preceded by a recheck of the record and the generation.                 *)

(* The scheduler starts work for the record it finds in force.             *)
Begin(o) ==
  /\ pc[o] = "idle" /\ Authorized(rec.at)
  /\ op' = [op EXCEPT ![o] = [at |-> rec.at, left |-> Steps]]
  /\ Go(o, "waiting")
  /\ UNCHANGED <<Records, attempt, holder, mem, begun, late>>

Enter(o) ==
  /\ pc[o] = "waiting" /\ Free
  /\ \/ Authorized(op[o].at) /\ holder' = o /\ Go(o, "recheck")
     \/ ~Authorized(op[o].at) /\ Go(o, "stopped") /\ UNCHANGED holder
  /\ UNCHANGED <<Records, attempt, mem, OfOperation, begun>>

(* Mutant: the recheck reads the record and not the disable generation.    *)
RecheckRecordOnly(o) ==
  LET same == rec.on /\ rec.at = op[o].at IN
  /\ pc[o] = "recheck"
  /\ \/ same /\ Go(o, "checked") /\ UNCHANGED holder
     \/ ~same /\ Go(o, "stopped") /\ holder' = NoOne
  /\ UNCHANGED <<Records, attempt, mem, OfOperation, begun>>

Recheck(o) ==
  /\ pc[o] = "recheck"
  /\ \/ Authorized(op[o].at) /\ Go(o, "checked") /\ UNCHANGED holder
     \/ ~Authorized(op[o].at) /\ Go(o, "stopped") /\ holder' = NoOne
  /\ UNCHANGED <<Records, attempt, mem, OfOperation, begun>>

(* The effect itself: a GitHub write, a journal phase, the agent's start.  *)
Effect(o) ==
  /\ pc[o] = "checked"
  /\ op' = [op EXCEPT ![o].left = @ - 1]
  /\ late' = [late EXCEPT ![o] = @ + (IF Authorized(op[o].at) THEN 0 ELSE 1)]
  /\ \/ op[o].left > 1 /\ Go(o, "recheck") /\ UNCHANGED holder
     \/ op[o].left = 1 /\ Go(o, "done") /\ holder' = NoOne
  /\ UNCHANGED <<Records, attempt, mem, begun>>

-----------------------------------------------------------------------------
(* Waiting for the lock is bounded, and any process may die.  A rollback   *)
(* may also fail to write: the one of a saved record still lets go of the  *)
(* attempt file, the one of an unsaved repeat leaves it where it is.       *)

TimeOut(p) ==
  /\ ~Free \/ pc[p] \in {"undo", "revoke"}
  /\ \/ p \in Enablers /\ pc[p] \in {"begin", "revoke"} /\ Go(p, "failed")
     \/ p \in Enablers /\ pc[p] \in {"previous", "label", "save"} /\ FailUnsaved(p)
     \/ p \in Enablers /\ pc[p] = "start" /\ Go(p, "undo")
     \/ p \in Enablers /\ pc[p] = "undo" /\ Go(p, "drop_attempt")
     \/ p \in Disablers /\ pc[p] = "disabling" /\ Go(p, "not_disabled")
     \/ p \in Operations /\ pc[p] = "waiting" /\ Go(p, "stopped")
  /\ UNCHANGED <<Records, attempt, holder, mem, OfOperation, begun>>

Crash(p) ==
  /\ p \in Mortal /\ pc[p] \notin Ends
  /\ Go(p, "killed")
  /\ holder' = IF holder = p THEN NoOne ELSE holder
  /\ UNCHANGED <<Records, attempt, mem, OfOperation, begun>>

EnableStep(e) ==
  \/ WriteAttempt(e) \/ ReadPrevious(e) \/ Preflight(e)
  \/ ConfirmLabel(e) \/ CreateLabel(e) \/ ConfirmSave(e) \/ Save(e)
  \/ ReadAttempt(e) \/ RemoveAttempt(e) \/ Verify(e)
  \/ StartScheduler(e) \/ ConfirmStarted(e)
  \/ RollbackSaved(e) \/ RollbackFailed(e)

Next ==
  \/ \E e \in Enablers : ReadGeneration(e) \/ EnableStep(e)
  \/ \E d \in Disablers : AdvanceGeneration(d) \/ WriteDisabled(d)
  \/ \E o \in Operations : Begin(o) \/ Enter(o) \/ Recheck(o) \/ Effect(o)
  \/ \E p \in Processes : TimeOut(p) \/ Crash(p)

Spec == Init /\ [][Next]_vars

-----------------------------------------------------------------------------
(* Correctness.                                                            *)

(* Once a disable is published, an operation that was already under way    *)
(* has at most the one effect whose recheck it had passed ("every launch   *)
(* stage can stop even while an earlier stage is stalled").                *)
AtMostOneLateEffect == \A o \in Operations : late[o] <= 1

(* After a disable has completed nothing that began before it has another  *)
(* effect, whatever enables follow: no effect of an operation of an older  *)
(* enabledAt, no label and no record of an older enable command.           *)
NothingRevives ==
  [][/\ \A o \in Operations : op[o].left > op'[o].left => op[o].at > sealed.at
     /\ \A e \in Enablers : pc[e] \in {"labelling", "saving"} => mem[e].gen >= sealed.gen
     /\ rec'.on /\ ~rec.on => rec'.at > sealed.at]_vars

(* The record a failing enable undoes or revokes is never the one a later  *)
(* enable command saved.                                                   *)
RollbackSparesLater ==
  [][\A e \in Enablers :
       pc[e] \in {"undo", "revoke"} /\ pc'[e] = "drop_attempt" /\ rec' # rec
         => rec.token <= mem[e].token]_vars

=============================================================================

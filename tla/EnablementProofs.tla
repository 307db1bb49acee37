-------------------------- MODULE EnablementProofs --------------------------
(***************************************************************************)
(* The safety of enable and disable for any number of sessions, guarded    *)
(* operations, commands and effects; and, at the end, of the lock their    *)
(* sections are taken with, for any number of contenders and lock files.   *)
(*                                                                         *)
(* The argument: nobody writes the record while another process is inside  *)
(* the lock, and nothing lowers a generation or an `enabledAt`.  So a      *)
(* permission that a disable withdrew stays withdrawn for as long as an    *)
(* operation stays inside, and whatever is saved later is newer than what  *)
(* the disable ended.                                                      *)
(***************************************************************************)
EXTENDS EnablementLock, Enablement, TLAPS

Sections == {"labelling", "saving", "starting", "recheck", "checked"}

SectionsAreHeld == \A p \in Processes : pc[p] \in Sections => holder = p

(* Nothing saved or remembered is of a generation yet to come.             *)
GenerationsGrow ==
  /\ sealed.gen <= gen /\ rec.gen <= gen
  /\ \A e \in Enablers : mem[e].gen <= gen /\ mem[e].prev.gen <= gen

(* A record in force is newer than every permission a disable ended.       *)
RecordsAge ==
  /\ sealed.at <= rec.at
  /\ rec.on => sealed.at < rec.at
  /\ \A e \in Enablers : mem[e].prev.on => mem[e].prev.at = mem[e].at

(* Only the newest enable command can own the attempt file.                *)
TokensGrow ==
  /\ attempt.token \in {0, begun} /\ rec.token <= begun
  /\ \A e \in Enablers : /\ mem[e].token <= begun /\ mem[e].prev.token <= begun
                         /\ pc[e] \in EnableStages \ {"begin"} => 0 < mem[e].token

(* An enable about to create a label or a record began after every disable *)
(* that has completed.                                                     *)
EnablesAreCurrent ==
  \A e \in Enablers : pc[e] \in {"labelling", "saving"} => sealed.gen <= mem[e].gen

(* An operation whose permission is gone is on its way out.                *)
OperationIsBounded(o) ==
  /\ late[o] <= 1
  /\ pc[o] \in {"idle", "waiting", "checked"} => late[o] = 0
  /\ pc[o] = "recheck" => late[o] = 0 \/ ~Authorized(op[o].at)
  /\ pc[o] = "checked" => sealed.at < op[o].at
  /\ pc[o] \in OperationStages => 0 < op[o].left

OperationsAreBounded == \A o \in Operations : OperationIsBounded(o)

IInv == /\ TypeOK
        /\ SectionsAreHeld /\ GenerationsGrow /\ RecordsAge /\ TokensGrow
        /\ EnablesAreCurrent /\ OperationsAreBounded

-----------------------------------------------------------------------------

LEMMA NoMemIsMemory == NoMem \in Memory
BY EnablementBounds DEF NoMem, Memory, NoRecord, Record

LEMMA InitIInv == Init => IInv
BY NoMemIsMemory, ActorAssumption, StepAssumption, EnablementBounds
   DEF Init, IInv, TypeOK, SectionsAreHeld, GenerationsGrow, RecordsAge, TokensGrow,
       EnablesAreCurrent, OperationsAreBounded, OperationIsBounded, Authorized, Sections,
       Record, NoRecord, NoAttempt, NoMem, Ends, EnableStages, DisableStages, OperationStages,
       Processes

LEMMA OneEffectLess ==
  ASSUME TypeOK, NEW o \in Operations, Effect(o)
  PROVE  op' = [op EXCEPT ![o] = [at |-> op[o].at, left |-> op[o].left - 1]]
<1>1. op[o] \in [at : Nat, left : 0..Steps]
  BY DEF TypeOK
<1>2. [op[o] EXCEPT !.left = op[o].left - 1] = [at |-> op[o].at, left |-> op[o].left - 1]
  BY <1>1
<1>3. op' = [op EXCEPT ![o] = [op[o] EXCEPT !.left = op[o].left - 1]]
  BY DEF Effect
<1>. QED BY <1>2, <1>3

(* One step per action, and under it the types, who is inside, what only   *)
(* grows, and what operations may still do.                                *)
LEMMA NextIInv == IInv /\ [Next]_vars => IInv'
<1>. SUFFICES ASSUME IInv, [Next]_vars PROVE IInv'
  OBVIOUS
<1>. USE ActorAssumption, StepAssumption, EnablementBounds
     DEF IInv, Processes, Go, Free, Remember, Records, OfOperation, FailUnsaved, Confirmed,
         Owns, Mine, Authorized, Record, NoRecord, NoAttempt, NoMem, Sections, Ends,
         EnableStages, DisableStages, OperationStages
<1>1. ASSUME NEW e \in Enablers, ReadGeneration(e) PROVE IInv'
  <2>. USE <1>1 DEF ReadGeneration
  <2>1. TypeOK'
    <3>1. [NoMem EXCEPT !.gen = gen] \in Memory
      BY NoMemIsMemory DEF TypeOK, Memory
    <3>2. mem' \in [Enablers -> Memory]
      BY <3>1 DEF TypeOK
    <3>. QED BY <3>2 DEF TypeOK
  <2>2. SectionsAreHeld' /\ EnablesAreCurrent'
    BY DEF TypeOK, SectionsAreHeld, EnablesAreCurrent, GenerationsGrow
  <2>3. GenerationsGrow' /\ RecordsAge'
    BY DEF TypeOK, Memory, GenerationsGrow, RecordsAge
  <2>4. TokensGrow'
    BY DEF TypeOK, Memory, TokensGrow
  <2>5. OperationsAreBounded'
    BY DEF TypeOK, SectionsAreHeld, GenerationsGrow, RecordsAge, OperationsAreBounded,
       OperationIsBounded
  <2>. QED BY <2>1, <2>2, <2>3, <2>4, <2>5
<1>2. ASSUME NEW e \in Enablers, WriteAttempt(e) PROVE IInv'
  <2>. USE <1>2 DEF WriteAttempt
  <2>1. TypeOK'
    <3>1. CASE UNCHANGED <<begun, attempt, mem>>
      BY <3>1 DEF TypeOK
    <3>2. CASE begun' = begun + 1 /\ begun < MaxAttempts
      <4>1. begun' \in 0..MaxAttempts
        BY <3>2 DEF TypeOK
      <4>2. attempt' = [token |-> begun', cancelled |-> FALSE]
        BY <3>2 DEF TypeOK
      <4>3. mem' = [mem EXCEPT ![e] = [@ EXCEPT !["token"] = begun']]
        BY <3>2 DEF TypeOK
      <4>4. mem' \in [Enablers -> Memory]
        BY <4>1, <4>3 DEF TypeOK, Memory
      <4>. QED BY <4>1, <4>2, <4>4 DEF TypeOK
    <3>. QED BY <3>1, <3>2
  <2>2. SectionsAreHeld' /\ EnablesAreCurrent'
    BY DEF TypeOK, SectionsAreHeld, EnablesAreCurrent, GenerationsGrow
  <2>3. GenerationsGrow' /\ RecordsAge'
    BY DEF TypeOK, Memory, GenerationsGrow, RecordsAge
  <2>4. TokensGrow'
    BY DEF TypeOK, Memory, TokensGrow
  <2>5. OperationsAreBounded'
    BY DEF TypeOK, SectionsAreHeld, GenerationsGrow, RecordsAge, OperationsAreBounded,
       OperationIsBounded
  <2>. QED BY <2>1, <2>2, <2>3, <2>4, <2>5
<1>3. ASSUME NEW e \in Enablers, ReadPrevious(e) PROVE IInv'
  <2>. USE <1>3 DEF ReadPrevious
  <2>1. TypeOK'
    BY DEF TypeOK, Memory
  <2>2. SectionsAreHeld' /\ EnablesAreCurrent'
    BY DEF TypeOK, SectionsAreHeld, EnablesAreCurrent, GenerationsGrow
  <2>3. GenerationsGrow' /\ RecordsAge'
    BY DEF TypeOK, Memory, GenerationsGrow, RecordsAge
  <2>4. TokensGrow'
    BY DEF TypeOK, Memory, TokensGrow
  <2>5. OperationsAreBounded'
    BY DEF TypeOK, SectionsAreHeld, GenerationsGrow, RecordsAge, OperationsAreBounded,
       OperationIsBounded
  <2>. QED BY <2>1, <2>2, <2>3, <2>4, <2>5
<1>4. ASSUME NEW e \in Enablers, Preflight(e) PROVE IInv'
  <2>. USE <1>4 DEF Preflight
  <2>1. TypeOK'
    BY DEF TypeOK, Memory
  <2>2. SectionsAreHeld' /\ EnablesAreCurrent'
    BY DEF TypeOK, SectionsAreHeld, EnablesAreCurrent, GenerationsGrow
  <2>3. GenerationsGrow' /\ RecordsAge'
    BY DEF TypeOK, Memory, GenerationsGrow, RecordsAge
  <2>4. TokensGrow'
    BY DEF TypeOK, Memory, TokensGrow
  <2>5. OperationsAreBounded'
    BY DEF TypeOK, SectionsAreHeld, GenerationsGrow, RecordsAge, OperationsAreBounded,
       OperationIsBounded
  <2>. QED BY <2>1, <2>2, <2>3, <2>4, <2>5
<1>5. ASSUME NEW e \in Enablers, ConfirmLabel(e) PROVE IInv'
  <2>. USE <1>5 DEF ConfirmLabel
  <2>1. TypeOK'
    BY DEF TypeOK, Memory
  <2>2. SectionsAreHeld' /\ EnablesAreCurrent'
    BY DEF TypeOK, SectionsAreHeld, EnablesAreCurrent, GenerationsGrow
  <2>3. GenerationsGrow' /\ RecordsAge'
    BY DEF TypeOK, Memory, GenerationsGrow, RecordsAge
  <2>4. TokensGrow'
    BY DEF TypeOK, Memory, TokensGrow
  <2>5. OperationsAreBounded'
    BY DEF TypeOK, SectionsAreHeld, GenerationsGrow, RecordsAge, OperationsAreBounded,
       OperationIsBounded
  <2>. QED BY <2>1, <2>2, <2>3, <2>4, <2>5
<1>6. ASSUME NEW e \in Enablers, CreateLabel(e) PROVE IInv'
  <2>. USE <1>6 DEF CreateLabel
  <2>1. TypeOK'
    BY DEF TypeOK, Memory
  <2>2. SectionsAreHeld' /\ EnablesAreCurrent'
    BY DEF TypeOK, SectionsAreHeld, EnablesAreCurrent, GenerationsGrow
  <2>3. GenerationsGrow' /\ RecordsAge'
    BY DEF TypeOK, Memory, GenerationsGrow, RecordsAge
  <2>4. TokensGrow'
    BY DEF TypeOK, Memory, TokensGrow
  <2>5. OperationsAreBounded'
    BY DEF TypeOK, SectionsAreHeld, GenerationsGrow, RecordsAge, OperationsAreBounded,
       OperationIsBounded
  <2>. QED BY <2>1, <2>2, <2>3, <2>4, <2>5
<1>7. ASSUME NEW e \in Enablers, ConfirmSave(e) PROVE IInv'
  <2>. USE <1>7 DEF ConfirmSave
  <2>1. TypeOK'
    BY DEF TypeOK, Memory
  <2>2. SectionsAreHeld' /\ EnablesAreCurrent'
    BY DEF TypeOK, SectionsAreHeld, EnablesAreCurrent, GenerationsGrow
  <2>3. GenerationsGrow' /\ RecordsAge'
    BY DEF TypeOK, Memory, GenerationsGrow, RecordsAge
  <2>4. TokensGrow'
    BY DEF TypeOK, Memory, TokensGrow
  <2>5. OperationsAreBounded'
    BY DEF TypeOK, SectionsAreHeld, GenerationsGrow, RecordsAge, OperationsAreBounded,
       OperationIsBounded
  <2>. QED BY <2>1, <2>2, <2>3, <2>4, <2>5
<1>8. ASSUME NEW e \in Enablers, Save(e) PROVE IInv'
  <2>. USE <1>8 DEF Save, Upsert
  <2>. DEFINE m == [mem[e] EXCEPT !.at = rec'.at, !.prev = IF rec.on THEN rec ELSE NoRecord]
  <2>a. CASE rec' = rec /\ mem' = mem /\ FailUnsaved(e)
    <3>. USE <2>a
    <3>1. TypeOK'
      BY DEF TypeOK
    <3>2. SectionsAreHeld' /\ EnablesAreCurrent'
      BY DEF TypeOK, SectionsAreHeld, EnablesAreCurrent
    <3>3. GenerationsGrow' /\ RecordsAge' /\ TokensGrow'
      BY DEF TypeOK, GenerationsGrow, RecordsAge, TokensGrow
    <3>4. OperationsAreBounded'
      BY DEF TypeOK, SectionsAreHeld, OperationsAreBounded, OperationIsBounded
    <3>. QED BY <3>1, <3>2, <3>3, <3>4
  <2>b. CASE rec' = Upsert(e) /\ mem' = [mem EXCEPT ![e] = m] /\ Go(e, "read_attempt")
    <3>. USE <2>b
    <3>0. mem[e] \in Memory /\ rec' \in Record /\ (IF rec.on THEN rec ELSE NoRecord) \in Record
      BY DEF TypeOK, Memory
    <3>1. /\ m \in Memory
          /\ m.gen = mem[e].gen /\ m.token = mem[e].token /\ m.at = rec'.at
          /\ m.prev = IF rec.on THEN rec ELSE NoRecord
      BY <3>0 DEF Memory
    <3>. HIDE DEF m
    <3>2. TypeOK'
      BY <3>0, <3>1 DEF TypeOK
    <3>3. SectionsAreHeld' /\ EnablesAreCurrent'
      BY <3>1 DEF TypeOK, SectionsAreHeld, EnablesAreCurrent
    <3>4. GenerationsGrow' /\ RecordsAge'
      BY <3>1 DEF TypeOK, GenerationsGrow, RecordsAge
    <3>5. TokensGrow'
      BY <3>1 DEF TypeOK, TokensGrow
    <3>6. OperationsAreBounded'
      BY <3>1 DEF TypeOK, SectionsAreHeld, GenerationsGrow, RecordsAge, OperationsAreBounded,
         OperationIsBounded
    <3>. QED BY <3>2, <3>3, <3>4, <3>5, <3>6
  <2>. QED BY <2>a, <2>b
<1>9. ASSUME NEW e \in Enablers, ReadAttempt(e) PROVE IInv'
  <2>. USE <1>9 DEF ReadAttempt, Mine
  <2>1. TypeOK'
    BY DEF TypeOK, Memory
  <2>2. SectionsAreHeld' /\ EnablesAreCurrent'
    BY DEF TypeOK, SectionsAreHeld, EnablesAreCurrent, GenerationsGrow
  <2>3. GenerationsGrow' /\ RecordsAge'
    BY DEF TypeOK, Memory, GenerationsGrow, RecordsAge
  <2>4. TokensGrow'
    BY DEF TypeOK, Memory, TokensGrow
  <2>5. OperationsAreBounded'
    BY DEF TypeOK, SectionsAreHeld, GenerationsGrow, RecordsAge, OperationsAreBounded,
       OperationIsBounded
  <2>. QED BY <2>1, <2>2, <2>3, <2>4, <2>5
<1>10. ASSUME NEW e \in Enablers, RemoveAttempt(e) PROVE IInv'
  <2>. USE <1>10 DEF RemoveAttempt
  <2>1. TypeOK'
    BY DEF TypeOK, Memory
  <2>2. SectionsAreHeld' /\ EnablesAreCurrent'
    BY DEF TypeOK, SectionsAreHeld, EnablesAreCurrent, GenerationsGrow
  <2>3. GenerationsGrow' /\ RecordsAge'
    BY DEF TypeOK, Memory, GenerationsGrow, RecordsAge
  <2>4. TokensGrow'
    BY DEF TypeOK, Memory, TokensGrow
  <2>5. OperationsAreBounded'
    BY DEF TypeOK, SectionsAreHeld, GenerationsGrow, RecordsAge, OperationsAreBounded,
       OperationIsBounded
  <2>. QED BY <2>1, <2>2, <2>3, <2>4, <2>5
<1>11. ASSUME NEW e \in Enablers, Verify(e) PROVE IInv'
  <2>. USE <1>11 DEF Verify, SavedAuthorityHolds
  <2>1. TypeOK'
    BY DEF TypeOK, Memory
  <2>2. SectionsAreHeld' /\ EnablesAreCurrent'
    BY DEF TypeOK, SectionsAreHeld, EnablesAreCurrent, GenerationsGrow
  <2>3. GenerationsGrow' /\ RecordsAge'
    BY DEF TypeOK, Memory, GenerationsGrow, RecordsAge
  <2>4. TokensGrow'
    BY DEF TypeOK, Memory, TokensGrow
  <2>5. OperationsAreBounded'
    BY DEF TypeOK, SectionsAreHeld, GenerationsGrow, RecordsAge, OperationsAreBounded,
       OperationIsBounded
  <2>. QED BY <2>1, <2>2, <2>3, <2>4, <2>5
<1>12. ASSUME NEW e \in Enablers, StartScheduler(e) PROVE IInv'
  <2>. USE <1>12 DEF StartScheduler, SavedAuthorityHolds
  <2>1. TypeOK'
    BY DEF TypeOK, Memory
  <2>2. SectionsAreHeld' /\ EnablesAreCurrent'
    BY DEF TypeOK, SectionsAreHeld, EnablesAreCurrent, GenerationsGrow
  <2>3. GenerationsGrow' /\ RecordsAge'
    BY DEF TypeOK, Memory, GenerationsGrow, RecordsAge
  <2>4. TokensGrow'
    BY DEF TypeOK, Memory, TokensGrow
  <2>5. OperationsAreBounded'
    BY DEF TypeOK, SectionsAreHeld, GenerationsGrow, RecordsAge, OperationsAreBounded,
       OperationIsBounded
  <2>. QED BY <2>1, <2>2, <2>3, <2>4, <2>5
<1>13. ASSUME NEW e \in Enablers, ConfirmStarted(e) PROVE IInv'
  <2>. USE <1>13 DEF ConfirmStarted, SavedAuthorityHolds
  <2>1. TypeOK'
    BY DEF TypeOK, Memory
  <2>2. SectionsAreHeld' /\ EnablesAreCurrent'
    BY DEF TypeOK, SectionsAreHeld, EnablesAreCurrent, GenerationsGrow
  <2>3. GenerationsGrow' /\ RecordsAge'
    BY DEF TypeOK, Memory, GenerationsGrow, RecordsAge
  <2>4. TokensGrow'
    BY DEF TypeOK, Memory, TokensGrow
  <2>5. OperationsAreBounded'
    BY DEF TypeOK, SectionsAreHeld, GenerationsGrow, RecordsAge, OperationsAreBounded,
       OperationIsBounded
  <2>. QED BY <2>1, <2>2, <2>3, <2>4, <2>5
<1>14. ASSUME NEW e \in Enablers, RollbackSaved(e) PROVE IInv'
  <2>. USE <1>14 DEF RollbackSaved
  <2>1. TypeOK'
    BY DEF TypeOK, Memory
  <2>2. SectionsAreHeld' /\ EnablesAreCurrent'
    BY DEF TypeOK, SectionsAreHeld, EnablesAreCurrent, GenerationsGrow
  <2>3. GenerationsGrow' /\ RecordsAge'
    BY DEF TypeOK, Memory, GenerationsGrow, RecordsAge
  <2>4. TokensGrow'
    BY DEF TypeOK, Memory, TokensGrow
  <2>5. OperationsAreBounded'
    BY DEF TypeOK, SectionsAreHeld, GenerationsGrow, RecordsAge, OperationsAreBounded,
       OperationIsBounded
  <2>. QED BY <2>1, <2>2, <2>3, <2>4, <2>5
<1>15. ASSUME NEW e \in Enablers, RollbackFailed(e) PROVE IInv'
  <2>. USE <1>15 DEF RollbackFailed
  <2>1. TypeOK'
    BY DEF TypeOK, Memory
  <2>2. SectionsAreHeld' /\ EnablesAreCurrent'
    BY DEF TypeOK, SectionsAreHeld, EnablesAreCurrent, GenerationsGrow
  <2>3. GenerationsGrow' /\ RecordsAge'
    BY DEF TypeOK, Memory, GenerationsGrow, RecordsAge
  <2>4. TokensGrow'
    BY DEF TypeOK, Memory, TokensGrow
  <2>5. OperationsAreBounded'
    BY DEF TypeOK, SectionsAreHeld, GenerationsGrow, RecordsAge, OperationsAreBounded,
       OperationIsBounded
  <2>. QED BY <2>1, <2>2, <2>3, <2>4, <2>5
<1>16. ASSUME NEW d \in Disablers, AdvanceGeneration(d) PROVE IInv'
  <2>. USE <1>16 DEF AdvanceGeneration
  <2>1. TypeOK'
    BY DEF TypeOK, Memory
  <2>2. SectionsAreHeld' /\ EnablesAreCurrent'
    BY DEF TypeOK, SectionsAreHeld, EnablesAreCurrent, GenerationsGrow
  <2>3. GenerationsGrow' /\ RecordsAge'
    BY DEF TypeOK, Memory, GenerationsGrow, RecordsAge
  <2>4. TokensGrow'
    BY DEF TypeOK, Memory, TokensGrow
  <2>5. OperationsAreBounded'
    BY DEF TypeOK, SectionsAreHeld, GenerationsGrow, RecordsAge, OperationsAreBounded,
       OperationIsBounded
  <2>. QED BY <2>1, <2>2, <2>3, <2>4, <2>5
<1>17. ASSUME NEW d \in Disablers, WriteDisabled(d) PROVE IInv'
  <2>. USE <1>17 DEF WriteDisabled
  <2>1. TypeOK'
    BY DEF TypeOK, Memory
  <2>2. SectionsAreHeld' /\ EnablesAreCurrent'
    BY DEF TypeOK, SectionsAreHeld, EnablesAreCurrent, GenerationsGrow
  <2>3. GenerationsGrow' /\ RecordsAge'
    BY DEF TypeOK, Memory, GenerationsGrow, RecordsAge
  <2>4. TokensGrow'
    BY DEF TypeOK, Memory, TokensGrow
  <2>5. OperationsAreBounded'
    BY DEF TypeOK, SectionsAreHeld, GenerationsGrow, RecordsAge, OperationsAreBounded,
       OperationIsBounded
  <2>. QED BY <2>1, <2>2, <2>3, <2>4, <2>5
<1>18. ASSUME NEW o \in Operations, Begin(o) PROVE IInv'
  <2>. USE <1>18 DEF Begin
  <2>1. TypeOK'
    BY DEF TypeOK, Memory
  <2>2. SectionsAreHeld' /\ EnablesAreCurrent'
    BY DEF TypeOK, SectionsAreHeld, EnablesAreCurrent, GenerationsGrow
  <2>3. GenerationsGrow' /\ RecordsAge'
    BY DEF TypeOK, Memory, GenerationsGrow, RecordsAge
  <2>4. TokensGrow'
    BY DEF TypeOK, Memory, TokensGrow
  <2>5. OperationsAreBounded'
    BY DEF TypeOK, SectionsAreHeld, GenerationsGrow, RecordsAge, OperationsAreBounded,
       OperationIsBounded
  <2>. QED BY <2>1, <2>2, <2>3, <2>4, <2>5
<1>19. ASSUME NEW o \in Operations, Enter(o) PROVE IInv'
  <2>. USE <1>19 DEF Enter
  <2>1. TypeOK'
    BY DEF TypeOK, Memory
  <2>2. SectionsAreHeld' /\ EnablesAreCurrent'
    BY DEF TypeOK, SectionsAreHeld, EnablesAreCurrent, GenerationsGrow
  <2>3. GenerationsGrow' /\ RecordsAge'
    BY DEF TypeOK, Memory, GenerationsGrow, RecordsAge
  <2>4. TokensGrow'
    BY DEF TypeOK, Memory, TokensGrow
  <2>5. OperationsAreBounded'
    BY DEF TypeOK, SectionsAreHeld, GenerationsGrow, RecordsAge, OperationsAreBounded,
       OperationIsBounded
  <2>. QED BY <2>1, <2>2, <2>3, <2>4, <2>5
<1>20. ASSUME NEW o \in Operations, Recheck(o) PROVE IInv'
  <2>. USE <1>20 DEF Recheck
  <2>1. TypeOK'
    BY DEF TypeOK, Memory
  <2>2. SectionsAreHeld' /\ EnablesAreCurrent'
    BY DEF TypeOK, SectionsAreHeld, EnablesAreCurrent, GenerationsGrow
  <2>3. GenerationsGrow' /\ RecordsAge'
    BY DEF TypeOK, Memory, GenerationsGrow, RecordsAge
  <2>4. TokensGrow'
    BY DEF TypeOK, Memory, TokensGrow
  <2>5. OperationsAreBounded'
    BY DEF TypeOK, SectionsAreHeld, GenerationsGrow, RecordsAge, OperationsAreBounded,
       OperationIsBounded
  <2>. QED BY <2>1, <2>2, <2>3, <2>4, <2>5
<1>21. ASSUME NEW o \in Operations, Effect(o) PROVE IInv'
  <2>. USE <1>21 DEF Effect
  <2>. DEFINE w == [at |-> op[o].at, left |-> op[o].left - 1]
  <2>0. OperationIsBounded(o) /\ holder = o /\ op[o] \in [at : Nat, left : 0..Steps]
    BY DEF TypeOK, SectionsAreHeld, OperationsAreBounded
  <2>c. 0 < op[o].left /\ op[o].left \in 0..Steps /\ op[o].at \in Nat
    BY <2>0 DEF OperationIsBounded
  <2>w. /\ w \in [at : Nat, left : 0..Steps] /\ w.at = op[o].at /\ w.left = op[o].left - 1
        /\ op' = [op EXCEPT ![o] = w]
    <3>1. op[o].left - 1 \in 0..Steps
      BY <2>c
    <3>2. w \in [at : Nat, left : 0..Steps] /\ w.at = op[o].at /\ w.left = op[o].left - 1
      BY <2>c, <3>1
    <3>3. op' = [op EXCEPT ![o] = w]
      BY OneEffectLess
    <3>. QED BY <3>2, <3>3
  <2>. HIDE DEF w
  <2>l. late[o] = 0 /\ late'[o] = IF Authorized(op[o].at) THEN 0 ELSE 1
    BY <2>0 DEF TypeOK, OperationIsBounded
  <2>1. TypeOK'
    <3>1. op' \in [Operations -> [at : Nat, left : 0..Steps]]
      BY <2>w DEF TypeOK
    <3>2. late' \in [Operations -> Nat]
      BY <2>l DEF TypeOK
    <3>. QED BY <3>1, <3>2 DEF TypeOK
  <2>2. SectionsAreHeld' /\ EnablesAreCurrent'
    BY DEF TypeOK, SectionsAreHeld, EnablesAreCurrent, GenerationsGrow
  <2>3. GenerationsGrow' /\ RecordsAge'
    BY DEF TypeOK, GenerationsGrow, RecordsAge
  <2>4. TokensGrow'
    BY DEF TypeOK, TokensGrow
  <2>5. ASSUME NEW x \in Operations PROVE OperationIsBounded(x)'
    <3>1. CASE x = o
      <4>1. op'[o] = w
        BY <2>w DEF TypeOK
      <4>2. pc'[o] = IF op[o].left > 1 THEN "recheck" ELSE "done"
        BY <2>0 DEF TypeOK, OperationIsBounded
      <4>. QED BY <3>1, <4>1, <4>2, <2>0, <2>w, <2>l DEF TypeOK, OperationIsBounded
    <3>2. CASE x # o
      <4>1. op'[x] = op[x] /\ late'[x] = late[x] /\ pc'[x] = pc[x]
        BY <2>w, <3>2 DEF TypeOK
      <4>. QED BY <4>1 DEF OperationsAreBounded, OperationIsBounded
    <3>. QED BY <3>1, <3>2
  <2>. QED BY <2>1, <2>2, <2>3, <2>4, <2>5 DEF OperationsAreBounded
<1>22. ASSUME NEW p \in Processes, TimeOut(p) PROVE IInv'
  <2>. USE <1>22 DEF TimeOut
  <2>1. TypeOK'
    BY DEF TypeOK, Memory
  <2>2. SectionsAreHeld' /\ EnablesAreCurrent'
    BY DEF TypeOK, SectionsAreHeld, EnablesAreCurrent, GenerationsGrow
  <2>3. GenerationsGrow' /\ RecordsAge'
    BY DEF TypeOK, Memory, GenerationsGrow, RecordsAge
  <2>4. TokensGrow'
    BY DEF TypeOK, Memory, TokensGrow
  <2>5. OperationsAreBounded'
    BY DEF TypeOK, SectionsAreHeld, GenerationsGrow, RecordsAge, OperationsAreBounded,
       OperationIsBounded
  <2>. QED BY <2>1, <2>2, <2>3, <2>4, <2>5
<1>23. ASSUME NEW p \in Processes, Crash(p) PROVE IInv'
  <2>. USE <1>23 DEF Crash
  <2>1. TypeOK'
    BY DEF TypeOK, Memory
  <2>2. SectionsAreHeld' /\ EnablesAreCurrent'
    BY DEF TypeOK, SectionsAreHeld, EnablesAreCurrent, GenerationsGrow
  <2>3. GenerationsGrow' /\ RecordsAge'
    BY DEF TypeOK, Memory, GenerationsGrow, RecordsAge
  <2>4. TokensGrow'
    BY DEF TypeOK, Memory, TokensGrow
  <2>5. OperationsAreBounded'
    BY DEF TypeOK, SectionsAreHeld, GenerationsGrow, RecordsAge, OperationsAreBounded,
       OperationIsBounded
  <2>. QED BY <2>1, <2>2, <2>3, <2>4, <2>5
<1>24. CASE UNCHANGED vars
  BY <1>24 DEF vars, TypeOK, SectionsAreHeld, GenerationsGrow, RecordsAge, TokensGrow,
     EnablesAreCurrent, OperationsAreBounded, OperationIsBounded
<1>. QED BY <1>1, <1>2, <1>3, <1>4, <1>5, <1>6, <1>7, <1>8, <1>9, <1>10, <1>11, <1>12,
            <1>13, <1>14, <1>15, <1>16, <1>17, <1>18, <1>19, <1>20, <1>21, <1>22, <1>23,
            <1>24 DEF Next, EnableStep

-----------------------------------------------------------------------------

LEMMA IInvHolds == Spec => []IInv
BY InitIInv, NextIInv, PTL DEF Spec

(* Every file and memory keeps its shape, whatever the sessions do.        *)
THEOREM EnablementTypes == Spec => []TypeOK
<1>1. IInv => TypeOK
  BY DEF IInv
<1>. QED BY <1>1, IInvHolds, PTL

(* A guarded operation has at most one effect after its permission was     *)
(* withdrawn, the one it was about to have: withEnabledDriverLaunch and    *)
(* withEnabledProjectLock recheck before each.                             *)
THEOREM LateEffects == Spec => []AtMostOneLateEffect
<1>1. IInv => AtMostOneLateEffect
  BY DEF IInv, OperationsAreBounded, OperationIsBounded, AtMostOneLateEffect
<1>. QED BY <1>1, IInvHolds, PTL

(* Only an effect takes one of an operation's effects away.                *)
LEMMA OnlyEffectsSpend ==
  ASSUME IInv, Next, NEW o \in Operations, op[o].left > op'[o].left
  PROVE  Effect(o)
<1>. USE DEF Records, OfOperation
<1>1. op' # op /\ op \in [Operations -> [at : Nat, left : 0..Steps]]
  BY DEF IInv, TypeOK
<1>2. ASSUME NEW q \in Operations, Begin(q) PROVE FALSE
  <2>1. CASE q = o
    BY <1>1, <1>2, <2>1, StepAssumption DEF Begin
  <2>2. CASE q # o
    BY <1>1, <1>2, <2>2 DEF Begin
  <2>. QED BY <2>1, <2>2
<1>3. ASSUME NEW q \in Operations, Effect(q), q # o PROVE FALSE
  BY <1>1, <1>3 DEF Effect
<1>4. \E q \in Operations : Begin(q) \/ Effect(q)
  <2>1. ASSUME NEW e \in Enablers, ReadGeneration(e) \/ EnableStep(e) PROVE op' = op
    BY <2>1 DEF ReadGeneration, EnableStep, WriteAttempt, ReadPrevious, Preflight,
       ConfirmLabel, CreateLabel, ConfirmSave, Save, ReadAttempt, RemoveAttempt, Verify,
       StartScheduler, ConfirmStarted, RollbackSaved, RollbackFailed
  <2>2. ASSUME NEW d \in Disablers, AdvanceGeneration(d) \/ WriteDisabled(d) PROVE op' = op
    BY <2>2 DEF AdvanceGeneration, WriteDisabled
  <2>3. ASSUME NEW q \in Operations, Enter(q) \/ Recheck(q) PROVE op' = op
    BY <2>3 DEF Enter, Recheck
  <2>4. ASSUME NEW p \in Processes, TimeOut(p) \/ Crash(p) PROVE op' = op
    BY <2>4 DEF TimeOut, Crash
  <2>. QED BY <1>1, <2>1, <2>2, <2>3, <2>4 DEF Next
<1>. QED BY <1>2, <1>3, <1>4

(* Who may put a record in force or replace it, and who may take it out.   *)
LEMMA WhoWritesRecords ==
  ASSUME Next, rec' # rec
  PROVE  \/ \E e \in Enablers : Save(e) \/ RollbackSaved(e) \/ RollbackFailed(e)
         \/ \E d \in Disablers : WriteDisabled(d)
<1>. USE DEF Records, OfOperation
<1>1. ASSUME NEW e \in Enablers, ReadGeneration(e) \/ EnableStep(e)
      PROVE  Save(e) \/ RollbackSaved(e) \/ RollbackFailed(e)
  BY <1>1 DEF ReadGeneration, EnableStep, WriteAttempt, ReadPrevious, Preflight,
     ConfirmLabel, CreateLabel, ConfirmSave, ReadAttempt, RemoveAttempt, Verify,
     StartScheduler, ConfirmStarted
<1>2. ASSUME NEW d \in Disablers, AdvanceGeneration(d) PROVE FALSE
  BY <1>2 DEF AdvanceGeneration
<1>3. ASSUME NEW o \in Operations, Begin(o) \/ Enter(o) \/ Recheck(o) \/ Effect(o) PROVE FALSE
  BY <1>3 DEF Begin, Enter, Recheck, Effect
<1>4. ASSUME NEW p \in Processes, TimeOut(p) \/ Crash(p) PROVE FALSE
  BY <1>4 DEF TimeOut, Crash
<1>. QED BY <1>1, <1>2, <1>3, <1>4 DEF Next

(* After /deadloop-disable has completed nothing older has an effect or is *)
(* put back in force, however many enable commands and operations race.    *)
THEOREM DisableIsFinal == Spec => NothingRevives
<1>. DEFINE Spends == \A o \in Operations : op[o].left > op'[o].left => op[o].at > sealed.at
            Saves == \A e \in Enablers : pc[e] \in {"labelling", "saving"}
                                           => mem[e].gen >= sealed.gen
            Revives == rec'.on /\ ~rec.on => rec'.at > sealed.at
<1>1. ASSUME IInv, Next PROVE Spends /\ Saves /\ Revives
  <2>1. Spends
    <3>1. SUFFICES ASSUME NEW o \in Operations, op[o].left > op'[o].left
                   PROVE  op[o].at > sealed.at
      OBVIOUS
    <3>2. pc[o] = "checked"
      BY <1>1, <3>1, OnlyEffectsSpend DEF Effect
    <3>. QED BY <1>1, <3>2 DEF IInv, TypeOK, OperationsAreBounded, OperationIsBounded
  <2>2. Saves
    BY <1>1 DEF IInv, TypeOK, Memory, EnablesAreCurrent
  <2>3. Revives
    <3>1. SUFFICES ASSUME rec'.on, ~rec.on PROVE rec'.at > sealed.at
      OBVIOUS
    <3>2. PICK e \in Enablers : Save(e)
      BY <1>1, <3>1, WhoWritesRecords DEF IInv, TypeOK, Record, RollbackSaved, RollbackFailed,
         WriteDisabled
    <3>3. rec' = Upsert(e)
      BY <3>1, <3>2 DEF Save
    <3>. QED BY <1>1, <3>1, <3>3 DEF IInv, TypeOK, Record, RecordsAge, Upsert
  <2>. QED BY <2>1, <2>2, <2>3
<1>2. ASSUME IInv, [Next]_vars PROVE [Spends /\ Saves /\ Revives]_vars
  BY <1>1, <1>2
<1>. QED BY <1>2, IInvHolds, PTL DEF Spec, NothingRevives

(* A failing enable command never undoes what a later one saved: the       *)
(* record it finds carries its own attempt or an older one.                *)
THEOREM RollbacksSpareLater == Spec => RollbackSparesLater
<1>. DEFINE Spared(e) == pc[e] \in {"undo", "revoke"} /\ pc'[e] = "drop_attempt" /\ rec' # rec
                           => rec.token <= mem[e].token
<1>1. ASSUME IInv, Next, NEW e \in Enablers PROVE Spared(e)
  <2>1. SUFFICES ASSUME pc[e] \in {"undo", "revoke"}, pc'[e] = "drop_attempt", rec' # rec
                 PROVE  rec.token <= mem[e].token
    OBVIOUS
  <2>2. rec \in Record /\ mem[e] \in Memory /\ rec.token <= begun /\ begun \in Nat
        /\ pc \in [Processes -> EnableStages \cup DisableStages \cup OperationStages \cup Ends]
    BY <1>1, EnablementBounds DEF IInv, TypeOK, TokensGrow
  <2>3. ASSUME NEW q \in Enablers, Save(q) PROVE FALSE
    BY <2>1, <2>2, <2>3 DEF Save, Go, FailUnsaved, Processes
  <2>4. ASSUME NEW d \in Disablers, WriteDisabled(d) PROVE FALSE
    BY <2>1, <2>2, <2>4, ActorAssumption DEF WriteDisabled, Go, Processes
  <2>5. ASSUME NEW q \in Enablers, RollbackSaved(q) PROVE rec.token <= mem[e].token
    <3>1. q = e
      BY <2>1, <2>2, <2>5 DEF RollbackSaved, Go, Processes
    <3>. QED BY <2>1, <2>2, <2>5, <3>1 DEF RollbackSaved, Record
  <2>6. ASSUME NEW q \in Enablers, RollbackFailed(q) PROVE rec.token <= mem[e].token
    <3>1. q = e /\ attempt.token = mem[e].token
      BY <2>1, <2>2, <2>6 DEF RollbackFailed, Go, Processes, Owns
    <3>2. 0 < mem[e].token /\ attempt.token \in {0, begun}
      BY <1>1, <2>1 DEF IInv, TokensGrow, EnableStages
    <3>. QED BY <2>2, <3>1, <3>2 DEF Record, Memory
  <2>. QED BY <1>1, <2>1, <2>3, <2>4, <2>5, <2>6, WhoWritesRecords
<1>2. ASSUME IInv, [Next]_vars PROVE [\A e \in Enablers : Spared(e)]_vars
  BY <1>1, <1>2
<1>. QED BY <1>2, IInvHolds, PTL DEF Spec, RollbackSparesLater

-----------------------------------------------------------------------------
(* The lock the commands take.                                             *)


(* LockTypeOK is not inductive: whoever tries for the lock has an attempt left.*)
TriesLeft ==
  \A p \in Contenders : step[p] \in ReclaimStages \cup {"clear", "publish"} => tries[p] # 0
Typed == LockTypeOK /\ TriesLeft

LEMMA TypedAtFirst == LockInit => Typed
<1> SUFFICES ASSUME LockInit PROVE LockTypeOK /\ TriesLeft
  BY DEF Typed
<1>1. made \in Seq(Contenders) /\ Files = {0}
  BY DEF LockInit, Files
<1>2. tries \in [Contenders -> 0..MaxTries]
  BY LockBounds DEF LockInit
<1>3. TriesLeft
  BY DEF LockInit, TriesLeft, ReclaimStages
<1> QED
  BY <1>1, <1>2, <1>3 DEF LockInit, LockTypeOK

(* Publishing a lock adds one inode and forgets none.                      *)
LEMMA Published ==
  ASSUME LockTypeOK, NEW p \in Contenders, made' = Append(made, p)
  PROVE  /\ made' \in Seq(Contenders) /\ Len(made') = Len(made) + 1
         /\ Files \subseteq Files' /\ Len(made') \in Files'
         /\ made'[Len(made')] = p /\ \A i \in Inodes : made'[i] = made[i]
BY DEF LockTypeOK, Files, Inodes

LEMMA TypedStep == Typed /\ [LockNext]_lockVars => LockTypeOK'
<1> SUFFICES ASSUME LockTypeOK, TriesLeft, [LockNext]_lockVars PROVE LockTypeOK'
  BY DEF Typed
<1> DEFINE Stages == {"idle", "clear", "publish"} \cup InsideStages \cup ReclaimStages
<1>s. "idle" \in Stages /\ "clear" \in Stages
  OBVIOUS
<1>0. 0 \in Files /\ 0 \in 0..MaxTries /\ MaxTries \in 0..MaxTries
  BY LockBounds DEF LockTypeOK, Files
<1>r. ASSUME NEW p \in Contenders, Retry(p), step[p] \in ReclaimStages
      PROVE  tries' \in [Contenders -> 0..MaxTries] /\ step' \in [Contenders -> Stages]
  <2>1. tries[p] - 1 \in 0..MaxTries
    BY <1>r, LockBounds DEF LockTypeOK, TriesLeft
  <2>2. tries' \in [Contenders -> 0..MaxTries]
    BY <1>r, <2>1 DEF LockTypeOK, Retry
  <2> QED
    BY <1>r, <1>s, <2>2 DEF LockTypeOK, Retry, Goes
<1>g. ASSUME NEW p \in Contenders, NEW stage \in Stages, Goes(p, stage)
      PROVE  step' \in [Contenders -> Stages]
  BY <1>g DEF LockTypeOK, Goes
<1>f. ASSUME UNCHANGED made PROVE Files' = Files
  BY <1>f DEF Files
<1> USE DEF InsideStages, ReclaimStages
<1>1. ASSUME NEW p \in Contenders, Start(p) PROVE LockTypeOK'
  BY <1>0, <1>1, <1>g, <1>f DEF Start, files, LockTypeOK
<1>2. ASSUME NEW p \in Contenders, ClearRemnant(p) PROVE LockTypeOK'
  BY <1>0, <1>2, <1>g, <1>f DEF ClearRemnant, LockTypeOK
<1>3. ASSUME NEW p \in Contenders, Publish(p) PROVE LockTypeOK'
  <2>1. CASE lock # 0
    BY <1>3, <1>g, <1>f, <2>1 DEF Publish, LockTypeOK
  <2>2. CASE lock = 0
    <3>1. made' = Append(made, p) /\ lock' = Len(made') /\ mine' = [mine EXCEPT ![p] = lock']
          /\ Goes(p, "inside") /\ UNCHANGED <<claim, captured, seen, tries, dead>>
      BY <1>3, <2>2 DEF Publish
    <3>2. made' \in Seq(Contenders) /\ Files \subseteq Files' /\ lock' \in Files'
      BY <3>1, Published
    <3>3. mine' \in [Contenders -> Files']
      BY <3>1, <3>2 DEF LockTypeOK
    <3>4. captured' \in [Contenders -> Files'] /\ seen' \in [Contenders -> Files']
          /\ claim' \in Files'
      BY <3>1, <3>2 DEF LockTypeOK
    <3> QED
      BY <1>g, <3>1, <3>2, <3>3, <3>4 DEF LockTypeOK
  <2> QED
    BY <2>1, <2>2
<1>4. ASSUME NEW p \in Contenders, LinkClaim(p) PROVE LockTypeOK'
  BY <1>4, <1>g, <1>r, <1>f DEF LinkClaim, At, LockTypeOK
<1>5. ASSUME NEW p \in Contenders, ReadClaimOwner(p) \/ StatLock(p) \/ StatClaim(p)
      PROVE  LockTypeOK'
  <2>1. UNCHANGED <<lock, claim, captured, made, mine, tries, dead>>
    BY <1>5 DEF ReadClaimOwner, StatLock, StatClaim, files
  <2>2. seen' \in [Contenders -> Files]
    BY <1>0, <1>5 DEF ReadClaimOwner, StatLock, StatClaim, LockTypeOK
  <2>3. step' \in [Contenders -> Stages]
    BY <1>5, <1>g DEF ReadClaimOwner, StatLock, StatClaim
  <2> QED
    BY <1>f, <2>1, <2>2, <2>3 DEF LockTypeOK
<1>6. ASSUME NEW p \in Contenders, Capture(p) \/ VerifyCaptured(p) \/ PutBack(p)
      PROVE  LockTypeOK'
  <2>1. UNCHANGED <<claim, made, mine, seen, tries, dead>>
    BY <1>6 DEF Capture, VerifyCaptured, PutBack
  <2>2. captured' \in [Contenders -> Files] /\ lock' \in Files
    BY <1>0, <1>6 DEF Capture, VerifyCaptured, PutBack, LockTypeOK
  <2>3. step' \in [Contenders -> Stages]
    BY <1>6, <1>g DEF Capture, VerifyCaptured, PutBack
  <2> QED
    BY <1>f, <2>1, <2>2, <2>3 DEF LockTypeOK
<1>7. ASSUME NEW p \in Contenders, Finally(p) PROVE LockTypeOK'
  BY <1>0, <1>7, <1>r, <1>f DEF Finally, At, LockTypeOK
<1>8. ASSUME NEW p \in Contenders, ReadToken(p) \/ Unlink(p) \/ Die(p) PROVE LockTypeOK'
  <2>1. UNCHANGED <<claim, made>> /\ lock' \in Files /\ dead' \subseteq Contenders
    BY <1>0, <1>8 DEF ReadToken, Unlink, Die, files, LockTypeOK
  <2>2. /\ mine' \in [Contenders -> Files] /\ captured' \in [Contenders -> Files]
        /\ seen' \in [Contenders -> Files] /\ tries' \in [Contenders -> 0..MaxTries]
    <3>1. CASE ReadToken(p)
      <4>1. CASE lock = mine[p]
        BY <3>1, <4>1 DEF ReadToken, files, LockTypeOK
      <4>2. CASE lock # mine[p]
        BY <1>0, <3>1, <4>2 DEF ReadToken, files, LockTypeOK
      <4> QED
        BY <4>1, <4>2
    <3>2. CASE Unlink(p)
      BY <1>0, <3>2 DEF Unlink, LockTypeOK
    <3>3. CASE Die(p)
      BY <1>0, <3>3 DEF Die, LockTypeOK
    <3> QED
      BY <1>8, <3>1, <3>2, <3>3
  <2>3. step' \in [Contenders -> Stages]
    BY <1>8, <1>g DEF ReadToken, Unlink, Die
  <2> QED
    BY <1>f, <2>1, <2>2, <2>3 DEF LockTypeOK
<1>9. ASSUME UNCHANGED lockVars PROVE LockTypeOK'
  BY <1>9, <1>f DEF lockVars, LockTypeOK
<1> QED
  BY <1>1, <1>2, <1>3, <1>4, <1>5, <1>6, <1>7, <1>8, <1>9 DEF LockNext, Proceed

LEMMA TriesStep == Typed /\ [LockNext]_lockVars => TriesLeft'
<1> SUFFICES ASSUME LockTypeOK, TriesLeft, [LockNext]_lockVars PROVE TriesLeft'
  BY DEF Typed
<1> DEFINE Trying == ReclaimStages \cup {"clear", "publish"}
<1> USE DEF Goes, At, ReclaimStages
(* Most steps leave the attempts alone, and come from a stage that has one.*)
<1>k. ASSUME NEW p \in Contenders, tries' = tries,
             NEW stage, step' = [step EXCEPT ![p] = stage],
             stage \in Trying => step[p] \in Trying
      PROVE  TriesLeft'
  BY <1>k DEF TriesLeft, LockTypeOK
<1>e. ASSUME NEW p \in Contenders, step' = [step EXCEPT ![p] = "idle"],
             tries' = [tries EXCEPT ![p] = 0]
      PROVE  TriesLeft'
  BY <1>e DEF TriesLeft, LockTypeOK
<1>r. ASSUME NEW p \in Contenders, Retry(p), step[p] \in Trying PROVE TriesLeft'
  <2>1. tries[p] \in Nat /\ tries[p] # 0
    BY <1>r, LockBounds DEF LockTypeOK, TriesLeft
  <2>2. /\ tries' = [tries EXCEPT ![p] = tries[p] - 1]
        /\ step' = [step EXCEPT ![p] = IF tries[p] > 1 THEN "clear" ELSE "idle"]
    BY <1>r DEF Retry
  <2> QED
    BY <2>1, <2>2 DEF TriesLeft, LockTypeOK
<1>1. ASSUME NEW p \in Contenders, Start(p) PROVE TriesLeft'
  BY <1>1, LockBounds DEF Start, TriesLeft, LockTypeOK
<1>2. ASSUME NEW p \in Contenders, ClearRemnant(p) \/ Publish(p) PROVE TriesLeft'
  BY <1>2, <1>k DEF ClearRemnant, Publish
<1>3. ASSUME NEW p \in Contenders, LinkClaim(p) \/ Finally(p) PROVE TriesLeft'
  BY <1>3, <1>k, <1>r DEF LinkClaim, Finally
<1>4. ASSUME NEW p \in Contenders,
             \/ ReadClaimOwner(p) \/ StatLock(p) \/ StatClaim(p) \/ Capture(p)
             \/ VerifyCaptured(p) \/ PutBack(p)
      PROVE  TriesLeft'
  <2>1. tries' = tries /\ step[p] \in Trying
    BY <1>4 DEF ReadClaimOwner, StatLock, StatClaim, Capture, VerifyCaptured, PutBack
  <2>2. PICK stage : step' = [step EXCEPT ![p] = stage]
    BY <1>4 DEF ReadClaimOwner, StatLock, StatClaim, Capture, VerifyCaptured, PutBack
  <2> QED
    BY <1>k, <2>1, <2>2
<1>5. ASSUME NEW p \in Contenders, ReadToken(p) \/ Unlink(p) \/ Die(p) PROVE TriesLeft'
  BY <1>5, <1>k, <1>e DEF ReadToken, Unlink, Die
<1>6. ASSUME UNCHANGED lockVars PROVE TriesLeft'
  BY <1>6 DEF lockVars, TriesLeft
<1> QED
  BY <1>1, <1>2, <1>3, <1>4, <1>5, <1>6 DEF LockNext, Proceed

LEMMA TypedAlways == Typed /\ [LockNext]_lockVars => Typed'
BY TypedStep, TriesStep DEF Typed

(* The files and the variables of every process keep their types, and the  *)
(* attempts never run below zero.                                          *)
THEOREM LockTypes == LockSpec => []LockTypeOK
<1>1. LockInit => Typed
  BY TypedAtFirst
<1>2. Typed /\ [LockNext]_lockVars => Typed'
  BY TypedAlways
<1>3. Typed => LockTypeOK
  BY DEF Typed
<1> QED
  BY <1>1, <1>2, <1>3, PTL DEF LockSpec

-----------------------------------------------------------------------------
(* While nobody has died, nobody takes a lock it does not own away, and a  *)
(* process inside is the one that wrote the lock at the path.              *)
OwnersFile(p) == lock # 0 /\ mine[p] = lock /\ made[lock] = p
Taking == {"stat", "compare", "capture", "verify", "putback"}
LockInv ==
  dead = {} => \A p \in Contenders : /\ step[p] \notin Taking
                                     /\ p \in Inside => OwnersFile(p)

LEMMA LockInvAlways == Typed /\ LockInv /\ [LockNext]_lockVars => LockInv'
<1> SUFFICES ASSUME Typed, LockTypeOK, LockInv, [LockNext]_lockVars, dead' = {} PROVE LockInv'
  BY DEF Typed, LockInv
<1>t. LockTypeOK'
  BY TypedStep
<1>d. dead = {}
  <2>1. dead \subseteq dead'
    BY DEF LockNext, Start, Proceed, ClearRemnant, Publish, LinkClaim, ReadClaimOwner, StatLock,
         StatClaim, Capture, VerifyCaptured, PutBack, Finally, ReadToken, Unlink, Die, lockVars
  <2> QED
    BY <2>1
<1>i. \A p \in Contenders : step[p] \notin Taking /\ (p \in Inside => OwnersFile(p))
  BY <1>d DEF LockInv
(* Most steps touch neither the lock nor what they own.                    *)
<1>q. ASSUME NEW p \in Contenders, UNCHANGED <<lock, made, mine>>,
             NEW stage, step' = [step EXCEPT ![p] = stage],
             stage \notin Taking, stage \in InsideStages => p \in Inside
      PROVE  LockInv'
  BY <1>i, <1>q DEF LockInv, Inside, OwnersFile, LockTypeOK
<1> USE DEF Goes, At, Taking, InsideStages
<1>1. ASSUME NEW p \in Contenders, Start(p) PROVE LockInv'
  BY <1>1, <1>q DEF Start, files
<1>2. ASSUME NEW p \in Contenders, ClearRemnant(p) PROVE LockInv'
  BY <1>2, <1>q DEF ClearRemnant
<1>3. ASSUME NEW p \in Contenders, Publish(p) PROVE LockInv'
  <2>1. CASE lock # 0
    BY <1>3, <1>q, <2>1 DEF Publish
  <2>2. CASE lock = 0
    <3>1. made' = Append(made, p) /\ lock' = Len(made') /\ mine' = [mine EXCEPT ![p] = lock']
          /\ step' = [step EXCEPT ![p] = "inside"]
      BY <1>3, <2>2 DEF Publish
    <3>2. lock' # 0 /\ made'[lock'] = p /\ mine'[p] = lock'
      BY <3>1, Published DEF LockTypeOK
    <3>3. ASSUME NEW q \in Contenders, q # p
          PROVE  step'[q] \notin Taking /\ step'[q] \notin InsideStages
      BY <1>i, <2>2, <3>1, <3>3 DEF LockTypeOK, OwnersFile, Inside
    <3> QED
      BY <1>t, <3>1, <3>2, <3>3 DEF LockInv, Inside, OwnersFile, LockTypeOK
  <2> QED
    BY <2>1, <2>2
<1>r. ASSUME NEW p \in Contenders, Retry(p), UNCHANGED <<lock, made, mine>> PROVE LockInv'
  <2>1. PICK stage \in {"clear", "idle"} : step' = [step EXCEPT ![p] = stage]
    BY <1>r DEF Retry
  <2> QED
    BY <1>q, <1>r, <2>1
<1>4. ASSUME NEW p \in Contenders, LinkClaim(p) PROVE LockInv'
  BY <1>4, <1>q, <1>r DEF LinkClaim
<1>5. ASSUME NEW p \in Contenders, ReadClaimOwner(p) PROVE LockInv'
  BY <1>5, <1>d, <1>q DEF ReadClaimOwner, OwnerIsAlive, files
<1>6. ASSUME NEW p \in Contenders, StatLock(p) \/ StatClaim(p) \/ Capture(p)
                               \/ VerifyCaptured(p) \/ PutBack(p)
      PROVE  LockInv'
  BY <1>6, <1>i DEF StatLock, StatClaim, Capture, VerifyCaptured, PutBack
<1>7. ASSUME NEW p \in Contenders, Finally(p) PROVE LockInv'
  BY <1>7, <1>r DEF Finally
<1>8. ASSUME NEW p \in Contenders, ReadToken(p) PROVE LockInv'
  <2>1. lock = mine[p] /\ p \in Inside
    BY <1>8, <1>i DEF ReadToken, Inside, OwnersFile
  <2> QED
    BY <1>8, <1>q, <2>1 DEF ReadToken, files
<1>9. ASSUME NEW p \in Contenders, Unlink(p) PROVE LockInv'
  <2>1. \A q \in Contenders : q \in Inside => q = p
    BY <1>9, <1>i DEF Unlink, Inside, OwnersFile
  <2> QED
    BY <1>9, <1>i, <2>1 DEF Unlink, LockInv, Inside, LockTypeOK
<1>10. ASSUME NEW p \in Contenders, Die(p) PROVE LockInv'
  BY <1>10 DEF Die
<1>11. ASSUME UNCHANGED lockVars PROVE LockInv'
  BY <1>11, <1>i DEF lockVars, LockInv, Inside, OwnersFile
<1> QED
  BY <1>1, <1>2, <1>3, <1>4, <1>5, <1>6, <1>7, <1>8, <1>9, <1>10, <1>11 DEF LockNext, Proceed

LEMMA StepIsExclusive ==
  Typed /\ LockInv /\ [LockNext]_lockVars => [E!Next]_<<Inside, dead # {}>>
<1> SUFFICES ASSUME Typed, LockTypeOK, LockInv, [LockNext]_lockVars
             PROVE  [E!Next]_<<Inside, dead # {}>>
  BY DEF Typed
<1> DEFINE Stutters == UNCHANGED <<Inside, dead # {}>>
<1> USE DEF Goes, At, InsideStages
<1>a. ASSUME NEW p \in Contenders, dead' = dead,
             NEW stage, step' = [step EXCEPT ![p] = stage],
             stage \in InsideStages <=> step[p] \in InsideStages
      PROVE  Stutters
  BY <1>a DEF Inside, LockTypeOK
<1>b. ASSUME NEW p \in Contenders, p \in Inside, dead \subseteq dead',
             step' = [step EXCEPT ![p] = "idle"]
      PROVE  E!Leave(p)
  <2>1. Inside' = Inside \ {p}
    BY <1>b DEF Inside, LockTypeOK
  <2>2. (dead # {})' \in {dead # {}, TRUE}
    BY <1>b
  <2> QED
    BY <1>b, <2>1, <2>2 DEF E!Leave
<1>r. ASSUME NEW p \in Contenders, Retry(p), dead' = dead, step[p] \notin InsideStages
      PROVE  Stutters
  <2>1. PICK stage \in {"clear", "idle"} : step' = [step EXCEPT ![p] = stage]
    BY <1>r DEF Retry
  <2> QED
    BY <1>a, <1>r, <2>1
<1>1. ASSUME NEW p \in Contenders, Start(p) \/ ClearRemnant(p) PROVE Stutters
  BY <1>1, <1>a DEF Start, ClearRemnant
<1>2. ASSUME NEW p \in Contenders, Publish(p) PROVE E!Enter(p) \/ Stutters
  <2>1. CASE lock # 0
    BY <1>2, <1>a, <2>1 DEF Publish
  <2>2. CASE lock = 0
    <3>1. Inside' = Inside \cup {p} /\ p \notin Inside /\ dead' = dead
      BY <1>2, <2>2 DEF Publish, Inside, LockTypeOK
    <3>2. Inside = {} \/ dead # {}
      <4>1. Inside \subseteq Contenders
        BY DEF Inside
      <4> QED
        BY <2>2, <4>1 DEF LockInv, OwnersFile
    <3> QED
      BY <3>1, <3>2 DEF E!Enter
  <2> QED
    BY <2>1, <2>2
<1>3. ASSUME NEW p \in Contenders, LinkClaim(p) PROVE Stutters
  BY <1>3, <1>a, <1>r DEF LinkClaim
<1>4. ASSUME NEW p \in Contenders,
             \/ ReadClaimOwner(p) \/ StatLock(p) \/ StatClaim(p) \/ Capture(p)
             \/ VerifyCaptured(p) \/ PutBack(p)
      PROVE  Stutters
  <2>1. PICK stage \in {"stat", "compare", "capture", "verify", "putback", "finally"} :
          step' = [step EXCEPT ![p] = stage]
    BY <1>4 DEF ReadClaimOwner, StatLock, StatClaim, Capture, VerifyCaptured, PutBack
  <2>2. dead' = dead /\ step[p] \notin InsideStages
    BY <1>4 DEF ReadClaimOwner, StatLock, StatClaim, Capture, VerifyCaptured, PutBack
  <2> QED
    BY <1>a, <2>1, <2>2
<1>5. ASSUME NEW p \in Contenders, Finally(p) PROVE Stutters
  BY <1>5, <1>r DEF Finally
<1>6. ASSUME NEW p \in Contenders, ReadToken(p) PROVE E!Leave(p) \/ Stutters
  BY <1>6, <1>a, <1>b DEF ReadToken, Inside
<1>7. ASSUME NEW p \in Contenders, Unlink(p) PROVE E!Leave(p)
  BY <1>7, <1>b DEF Unlink, Inside
<1>8. ASSUME NEW p \in Contenders, Die(p) PROVE E!Leave(p) \/ E!Spoil
  <2>1. dead' # {} /\ dead \subseteq dead' /\ step' = [step EXCEPT ![p] = "idle"]
    BY <1>8 DEF Die
  <2>2. CASE p \in Inside
    BY <1>b, <2>1, <2>2
  <2>3. CASE p \notin Inside
    <3>1. Inside' = Inside
      BY <2>1, <2>3 DEF Inside, LockTypeOK
    <3> QED
      BY <2>1, <3>1 DEF E!Spoil
  <2> QED
    BY <2>2, <2>3
<1>9. ASSUME UNCHANGED lockVars PROVE Stutters
  BY <1>9 DEF lockVars, Inside
<1> QED
  BY <1>1, <1>2, <1>3, <1>4, <1>5, <1>6, <1>7, <1>8, <1>9 DEF LockNext, Proceed, E!Next

(* Until somebody dies, one process at a time is inside the lock: what     *)
(* acquireLock, reclaimStale and releaseOwned do implements Exclusion.     *)
THEOREM EnablementLockExcludes == LockSpec => ImplementsExclusion
<1>1. LockInit => Typed /\ LockInv /\ E!Init
  <2> SUFFICES ASSUME LockInit PROVE LockInv /\ E!Init
    BY TypedAtFirst
  <2> QED
    BY DEF LockInit, LockInv, Inside, InsideStages, Taking, E!Init
<1>2. Typed /\ LockInv /\ [LockNext]_lockVars => (Typed /\ LockInv)'
  BY TypedAlways, LockInvAlways
<1>3. Typed /\ LockInv /\ [LockNext]_lockVars => [E!Next]_<<Inside, dead # {}>>
  BY StepIsExclusive
<1> QED
  BY <1>1, <1>2, <1>3, PTL DEF LockSpec, ImplementsExclusion, E!Spec
=============================================================================

--------------------------- MODULE EnablementLock ---------------------------
(***************************************************************************)
(* The lock file that serialises everything deadloop does under a          *)
(* repository's enablement (src/enablement-lock.cjs): hard links publish a *)
(* lock with its owner inside, and a contender may retire the lock of a    *)
(* dead owner by claiming its inode and renaming it away.                  *)
(*                                                                         *)
(* A file is the inode it names; inode i was written by made[i].  Each     *)
(* system call of `tryAcquire`, `reclaimStale` and `releaseOwned` that     *)
(* other processes can see is an action.  `pending` and `captured` paths   *)
(* carry a random name, so only their owner touches them.                  *)
(***************************************************************************)
EXTENDS Naturals, Sequences, FiniteSets

CONSTANTS
  Contenders,
  MaxLocks,   \* bound on the locks ever published
  MaxCrashes, \* bound on the processes that die
  MaxTries    \* options.attempts

ASSUME LockBounds == MaxLocks \in Nat /\ MaxCrashes \in Nat /\ MaxTries \in Nat \ {0}

VARIABLES
  lock,     \* the inode at the lock's path, 0 when there is none
  claim,    \* the inode at <lock>.reclaim
  captured, \* the inode each process renamed away
  made,     \* the process that wrote each inode
  mine,     \* the inode each process published and holds
  seen,     \* the inode `sameFile` found at the lock's path
  tries,    \* attempts left to each acquirer
  step,
  dead

files == <<lock, claim, captured, made>>
lockVars == <<lock, claim, captured, made, mine, seen, tries, step, dead>>

Inodes == 1..Len(made)
Files  == 0..Len(made)
InsideStages == {"inside", "unlink"}
ReclaimStages == {"remnant", "claim", "owner", "stat", "compare", "capture",
                  "verify", "putback", "finally"}

LockTypeOK ==
  /\ made \in Seq(Contenders)
  /\ lock \in Files /\ claim \in Files
  /\ captured \in [Contenders -> Files] /\ mine \in [Contenders -> Files]
  /\ seen \in [Contenders -> Files]
  /\ tries \in [Contenders -> 0..MaxTries]
  /\ step \in [Contenders -> {"idle", "clear", "publish"} \cup InsideStages \cup ReclaimStages]
  /\ dead \subseteq Contenders

LockInit ==
  /\ made = <<>> /\ lock = 0 /\ claim = 0
  /\ captured = [p \in Contenders |-> 0] /\ mine = [p \in Contenders |-> 0]
  /\ seen = [p \in Contenders |-> 0] /\ tries = [p \in Contenders |-> 0]
  /\ step = [p \in Contenders |-> "idle"] /\ dead = {}

At(p, stage) == step[p] = stage /\ p \notin dead
Goes(p, stage) == step' = [step EXCEPT ![p] = stage]
OwnerIsAlive(i) == made[i] \notin dead

-----------------------------------------------------------------------------
(* acquireLock: clear a claim left behind, then publish; on EEXIST try to  *)
(* reclaim, sleep and retry, until the attempts are used up.               *)

Start(p) ==
  /\ At(p, "idle")
  /\ tries' = [tries EXCEPT ![p] = MaxTries]
  /\ Goes(p, "clear")
  /\ UNCHANGED <<files, mine, seen, dead>>

(* Mutant: the claim a dead reclaimer left behind is kept.                 *)
ClearRemnantKeeps(p) ==
  /\ \/ At(p, "clear") /\ Goes(p, "publish")
     \/ At(p, "remnant") /\ Goes(p, "claim")
  /\ UNCHANGED <<files, mine, seen, tries, dead>>

ClearRemnant(p) ==
  /\ \/ At(p, "clear") /\ Goes(p, "publish")
     \/ At(p, "remnant") /\ Goes(p, "claim")
  /\ claim' = 0
  /\ UNCHANGED <<lock, captured, made, mine, seen, tries, dead>>

(* Mutant: the lock is published by renaming, over whatever is there.      *)
PublishRenames(p) ==
  /\ At(p, "publish") /\ Len(made) < MaxLocks
  /\ made' = Append(made, p)
  /\ lock' = Len(made')
  /\ mine' = [mine EXCEPT ![p] = lock']
  /\ Goes(p, "inside")
  /\ UNCHANGED <<claim, captured, seen, tries, dead>>

Publish(p) ==
  /\ At(p, "publish")
  /\ \/ /\ lock = 0 /\ Len(made) < MaxLocks
        /\ made' = Append(made, p)
        /\ lock' = Len(made')
        /\ mine' = [mine EXCEPT ![p] = lock']
        /\ Goes(p, "inside")
     \/ /\ lock # 0
        /\ Goes(p, "remnant")
        /\ UNCHANGED <<lock, made, mine>>
  /\ UNCHANGED <<claim, captured, seen, tries, dead>>

(* The next attempt, or "enablement state is busy".                        *)
Retry(p) ==
  /\ tries' = [tries EXCEPT ![p] = @ - 1]
  /\ Goes(p, IF tries[p] > 1 THEN "clear" ELSE "idle")

-----------------------------------------------------------------------------
(* reclaimStale.                                                           *)

LinkClaim(p) ==
  /\ At(p, "claim")
  /\ \/ lock # 0 /\ claim = 0 /\ claim' = lock /\ Goes(p, "owner") /\ UNCHANGED tries
     \/ (lock = 0 \/ claim # 0) /\ Retry(p) /\ UNCHANGED claim
  /\ UNCHANGED <<lock, captured, made, mine, seen, dead>>

ReadClaimOwner(p) ==
  /\ At(p, "owner")
  /\ Goes(p, IF claim # 0 /\ ~OwnerIsAlive(claim) THEN "stat" ELSE "finally")
  /\ UNCHANGED <<files, mine, seen, tries, dead>>

(* sameFile(lockPath, claimPath) is two calls.                             *)
StatLock(p) ==
  /\ At(p, "stat")
  /\ seen' = [seen EXCEPT ![p] = lock]
  /\ Goes(p, IF lock = 0 THEN "finally" ELSE "compare")
  /\ UNCHANGED <<files, mine, tries, dead>>

StatClaim(p) ==
  /\ At(p, "compare")
  /\ Goes(p, IF claim = seen[p] THEN "capture" ELSE "finally")
  /\ seen' = [seen EXCEPT ![p] = 0]
  /\ UNCHANGED <<files, mine, tries, dead>>

Capture(p) ==
  /\ At(p, "capture")
  /\ captured' = [captured EXCEPT ![p] = lock]
  /\ lock' = 0
  /\ Goes(p, IF lock = 0 THEN "finally" ELSE "verify")
  /\ UNCHANGED <<claim, made, mine, seen, tries, dead>>

(* The captured path is private: discarding it shows nothing to others.    *)
VerifyCaptured(p) ==
  /\ At(p, "verify")
  /\ \/ claim # captured[p] /\ Goes(p, "putback") /\ UNCHANGED captured
     \/ /\ claim = captured[p]
        /\ captured' = [captured EXCEPT ![p] = 0]
        /\ Goes(p, "finally")
  /\ UNCHANGED <<lock, claim, made, mine, seen, tries, dead>>

(* rename(2) replaces whatever is at the lock's path by now.               *)
PutBack(p) ==
  /\ At(p, "putback")
  /\ lock' = captured[p]
  /\ captured' = [captured EXCEPT ![p] = 0]
  /\ Goes(p, "finally")
  /\ UNCHANGED <<claim, made, mine, seen, tries, dead>>

(* Whatever claim is at the path by now is unlinked.                       *)
Finally(p) ==
  /\ At(p, "finally")
  /\ claim' = 0
  /\ captured' = [captured EXCEPT ![p] = 0]
  /\ Retry(p)
  /\ UNCHANGED <<lock, made, mine, seen, dead>>

-----------------------------------------------------------------------------
(* releaseOwned: the token is read, then the path unlinked.                *)

ReadToken(p) ==
  /\ At(p, "inside")
  /\ IF lock = mine[p] THEN Goes(p, "unlink") /\ UNCHANGED <<mine, tries>>
     ELSE /\ Goes(p, "idle")
          /\ mine' = [mine EXCEPT ![p] = 0] /\ tries' = [tries EXCEPT ![p] = 0]
  /\ UNCHANGED <<files, seen, dead>>

Unlink(p) ==
  /\ At(p, "unlink")
  /\ lock' = 0
  /\ mine' = [mine EXCEPT ![p] = 0] /\ tries' = [tries EXCEPT ![p] = 0]
  /\ Goes(p, "idle")
  /\ UNCHANGED <<claim, captured, made, seen, dead>>

Die(p) ==
  /\ p \notin dead /\ step[p] # "idle" /\ Cardinality(dead) < MaxCrashes
  /\ dead' = dead \cup {p}
  /\ Goes(p, "idle")
  /\ mine' = [mine EXCEPT ![p] = 0] /\ captured' = [captured EXCEPT ![p] = 0]
  /\ seen' = [seen EXCEPT ![p] = 0] /\ tries' = [tries EXCEPT ![p] = 0]
  /\ UNCHANGED <<lock, claim, made>>

Proceed(p) ==
  \/ ClearRemnant(p) \/ Publish(p)
  \/ LinkClaim(p) \/ ReadClaimOwner(p) \/ StatLock(p) \/ StatClaim(p)
  \/ Capture(p) \/ VerifyCaptured(p) \/ PutBack(p) \/ Finally(p)
  \/ ReadToken(p) \/ Unlink(p)

LockNext == \E p \in Contenders : Start(p) \/ Proceed(p) \/ Die(p)

(* A process inside the acquisition, or inside the lock, keeps running     *)
(* until it dies; nothing makes an idle one ask for the lock.              *)
LockSpec == LockInit /\ [][LockNext]_lockVars /\ \A p \in Contenders : WF_lockVars(Proceed(p))

-----------------------------------------------------------------------------
(* Correctness.                                                            *)

Inside == {p \in Contenders : step[p] \in InsideStages}

(* At most one live process is inside the lock.                            *)
OneInside == \A p, q \in Inside : p = q

(* Until somebody dies the lock file is an exclusion lock.                 *)
E == INSTANCE Exclusion WITH Processes <- Contenders, inside <- Inside,
                             spoiled <- dead # {}
ImplementsExclusion == E!Spec

(* A lock (or a half-finished reclaim) left by the dead never keeps a lone *)
(* survivor out for more than one of its attempts.  The exception is part  *)
(* of the property: a reclaimer that loses its race renames the lock it    *)
(* captured back to the path, and when its owner released it meanwhile     *)
(* that is a lock whose owner lives and no longer holds it.                *)
Alone(p) == Contenders \ {p} \subseteq dead
Stranded == lock # 0 /\ OwnerIsAlive(lock)
SurvivorEnters ==
  \A p \in Contenders :
    (/\ At(p, "clear") /\ Alone(p) /\ ~Stranded
     /\ tries[p] > 1 /\ Len(made) < MaxLocks)
      ~> (p \in Inside \cup dead)

=============================================================================

---------------------------- MODULE SchedulerLock ----------------------------
(***************************************************************************)
(* The lock that lets one Automation host on a machine serve a repository  *)
(* for its whole lifetime (src/scheduler-lock.cjs): a kernel flock on the  *)
(* inode the host opened, with its identity written inside.                *)
(*                                                                         *)
(* The kernel drops a flock when its holder dies; the pathname stays until *)
(* an owner that releases the lock unlinks it.  A flock is on the inode,   *)
(* the contenders agree only on the pathname: the two can come apart.      *)
(***************************************************************************)
EXTENDS Naturals, FiniteSets

CONSTANTS
  Hosts,      \* Automation host processes on one machine
  MaxInodes,  \* bound on the lock files ever created
  MaxCrashes

ASSUME SchedulerBounds == MaxInodes \in Nat /\ MaxCrashes \in Nat

VARIABLES
  path,     \* the inode at the lock's path, 0 when there is none
  created,  \* inodes created so far
  owner,    \* the host named inside each inode, 0 before one is written
  flock,    \* the host whose descriptor holds each inode's flock, or 0
  fd,       \* the inode each host has open, 0 for none
  pc,
  dead,
  released  \* whether any host has begun to release the lock

vars == <<path, created, owner, flock, fd, pc, dead, released>>
Inodes == 1..MaxInodes
NoHost == 0
ASSUME HostAssumption == NoHost \notin Hosts

TypeOK ==
  /\ path \in 0..created /\ created \in 0..MaxInodes
  /\ owner \in [Inodes -> Hosts \cup {NoHost}]
  /\ flock \in [Inodes -> Hosts \cup {NoHost}]
  /\ fd \in [Hosts -> 0..created]
  /\ pc \in [Hosts -> {"idle", "open", "flock", "publish", "own", "close"}]
  /\ dead \subseteq Hosts /\ released \in BOOLEAN

Init ==
  /\ path = 0 /\ created = 0
  /\ owner = [i \in Inodes |-> NoHost] /\ flock = [i \in Inodes |-> NoHost]
  /\ fd = [h \in Hosts |-> 0] /\ pc = [h \in Hosts |-> "idle"]
  /\ dead = {} /\ released = FALSE

At(h, stage) == pc[h] = stage /\ h \notin dead
Go(h, stage) == pc' = [pc EXCEPT ![h] = stage]

(* readOwner: the host named in the file, when that host is alive; a file  *)
(* emptied or half written by a host that died names nobody.               *)
LiveOwner == path # 0 /\ owner[path] \notin dead \cup {NoHost}

ReadOwner(h) ==
  /\ At(h, "idle")
  /\ ~LiveOwner /\ Go(h, "open")
  /\ UNCHANGED <<path, created, owner, flock, fd, dead, released>>

(* openSync "a+": the inode at the path, created when there is none.       *)
Open(h) ==
  /\ At(h, "open")
  /\ \/ path # 0 /\ UNCHANGED <<path, created>>
     \/ /\ path = 0 /\ created < MaxInodes
        /\ created' = created + 1 /\ path' = created'
  /\ fd' = [fd EXCEPT ![h] = path']
  /\ Go(h, "flock")
  /\ UNCHANGED <<owner, flock, dead, released>>

(* Mutant: the descriptor is taken as locked without asking the kernel.    *)
TryFlockAssumed(h) ==
  /\ At(h, "flock")
  /\ flock' = [flock EXCEPT ![fd[h]] = h]
  /\ Go(h, "publish")
  /\ UNCHANGED <<path, created, owner, fd, dead, released>>

(* Mutant: the record in the file decides, whoever holds the flock.        *)
TryFlockByRecord(h) ==
  /\ At(h, "flock")
  /\ IF owner[fd[h]] = NoHost
     THEN flock' = [flock EXCEPT ![fd[h]] = h] /\ Go(h, "publish") /\ UNCHANGED fd
     ELSE fd' = [fd EXCEPT ![h] = 0] /\ Go(h, "idle") /\ UNCHANGED flock
  /\ UNCHANGED <<path, created, owner, dead, released>>
TryFlock(h) ==
  /\ At(h, "flock")
  /\ \/ /\ flock[fd[h]] = NoHost
        /\ flock' = [flock EXCEPT ![fd[h]] = h]
        /\ Go(h, "publish")
        /\ UNCHANGED fd
     \/ /\ flock[fd[h]] # NoHost
        /\ fd' = [fd EXCEPT ![h] = 0]
        /\ Go(h, "idle")
        /\ UNCHANGED flock
  /\ UNCHANGED <<path, created, owner, dead, released>>

WriteMetadata(h) ==
  /\ At(h, "publish")
  /\ owner' = [owner EXCEPT ![fd[h]] = h]
  /\ Go(h, "own")
  /\ UNCHANGED <<path, created, flock, fd, dead, released>>

(* releaseSchedulerLock: unlink the pathname, then close the descriptor.   *)
Unlink(h) ==
  /\ At(h, "own")
  /\ path' = 0
  /\ released' = TRUE
  /\ Go(h, "close")
  /\ UNCHANGED <<created, owner, flock, fd, dead>>

Drop(h) ==
  /\ flock' = [i \in Inodes |-> IF flock[i] = h THEN NoHost ELSE flock[i]]
  /\ fd' = [fd EXCEPT ![h] = 0]
  /\ Go(h, "idle")

Close(h) ==
  /\ At(h, "close") /\ Drop(h)
  /\ UNCHANGED <<path, created, owner, dead, released>>

Crash(h) ==
  /\ h \notin dead /\ Cardinality(dead) < MaxCrashes
  /\ dead' = dead \cup {h}
  /\ Drop(h)
  /\ UNCHANGED <<path, created, owner, released>>

Acquire(h) == Open(h) \/ TryFlock(h) \/ WriteMetadata(h)
Next == \E h \in Hosts :
  ReadOwner(h) \/ Acquire(h) \/ Unlink(h) \/ Close(h) \/ Crash(h)

(* An acquisition or a release once begun is completed by a live host.     *)
LockFairness == \A h \in Hosts : WF_vars(Acquire(h)) /\ WF_vars(Close(h))
Spec == Init /\ [][Next]_vars /\ LockFairness

-----------------------------------------------------------------------------
(* Correctness.                                                            *)

Owners == {h \in Hosts : pc[h] = "own"}

(* Deaths alone never let two hosts serve one repository.                  *)
E == INSTANCE Exclusion WITH Processes <- Hosts, inside <- Owners,
                             spoiled <- released
ImplementsExclusion == E!Spec

(* A dead owner's lock never keeps a lone survivor out.                    *)
SurvivorServes ==
  \A h \in Hosts :
    (At(h, "open") /\ Hosts \ {h} \subseteq dead /\ created < MaxInodes)
      ~> (pc[h] = "own" \/ h \in dead)

(* The host a refused contender is pointed to does hold the lock.          *)
RefusedByTheOwner == LiveOwner => pc[owner[path]] = "own"

(* "A second local host fails fast": one host serves the repository.       *)
OneOwner == \A h, g \in Owners : h = g

=============================================================================

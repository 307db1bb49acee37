---------------------------- MODULE SchedulingProofs ----------------------------
(***************************************************************************)
(* What holds of the two parts of scheduling for every number of hosts,    *)
(* lock files, sessions, permissions, commands, deaths and deployments.    *)
(*                                                                         *)
(* The kernel lock (SchedulerLock) implements an exclusion lock until its  *)
(* owner releases it: the descriptor a host has open is then the file at   *)
(* the path, and the flock on it is the lock.                              *)
(*                                                                         *)
(* The sessions (SchedulerHost) never run two drivers whose operations     *)
(* would both be let through.                                              *)
(***************************************************************************)
EXTENDS SchedulerLock, SchedulerHost, TLAPS

-----------------------------------------------------------------------------
(* The kernel lock.                                                        *)

LEMMA LockTypedAtFirst == Init => TypeOK
<1> SUFFICES ASSUME Init PROVE TypeOK
  OBVIOUS
<1>1. path \in 0..created /\ created \in 0..MaxInodes
  BY SchedulerBounds DEF Init
<1>2. /\ owner \in [Inodes -> Hosts \cup {NoHost}]
      /\ flock \in [Inodes -> Hosts \cup {NoHost}]
  BY DEF Init
<1>3. fd \in [Hosts -> 0..created]
  BY DEF Init
<1> QED
  BY <1>1, <1>2, <1>3 DEF Init, TypeOK

LEMMA LockTypedAlways == TypeOK /\ [Next]_vars => TypeOK'
<1> SUFFICES ASSUME TypeOK, [Next]_vars PROVE TypeOK'
  OBVIOUS
<1> USE SchedulerBounds DEF TypeOK, Inodes, NoHost, Go, At
<1>1. ASSUME NEW h \in Hosts, ReadOwner(h) PROVE TypeOK'
  BY <1>1 DEF ReadOwner
<1>2. ASSUME NEW h \in Hosts, Open(h) PROVE TypeOK'
  BY <1>2 DEF Open
<1>3. ASSUME NEW h \in Hosts, TryFlock(h) PROVE TypeOK'
  <2>1. flock' \in [Inodes -> Hosts \cup {NoHost}]
    BY <1>3 DEF TryFlock
  <2>2. fd' \in [Hosts -> 0..created] /\ created' = created
    BY <1>3 DEF TryFlock
  <2> QED
    BY <1>3, <2>1, <2>2 DEF TryFlock
<1>4. ASSUME NEW h \in Hosts, WriteMetadata(h) PROVE TypeOK'
  BY <1>4 DEF WriteMetadata
<1>5. ASSUME NEW h \in Hosts, Unlink(h) PROVE TypeOK'
  BY <1>5 DEF Unlink
<1>6. ASSUME NEW h \in Hosts, Close(h) PROVE TypeOK'
  BY <1>6 DEF Close, Drop
<1>7. ASSUME NEW h \in Hosts, Crash(h) PROVE TypeOK'
  BY <1>7 DEF Crash, Drop
<1>8. ASSUME UNCHANGED vars PROVE TypeOK'
  BY <1>8 DEF vars
<1> QED
  BY <1>1, <1>2, <1>3, <1>4, <1>5, <1>6, <1>7, <1>8 DEF Next, Acquire

(* The variables of the kernel lock keep their types.                      *)
THEOREM LockTypeSafety == Spec => []TypeOK
<1>1. Init => TypeOK
  BY LockTypedAtFirst
<1>2. TypeOK /\ [Next]_vars => TypeOK'
  BY LockTypedAlways
<1> QED
  BY <1>1, <1>2, PTL DEF Spec

(* Until a host releases the lock one file at most was created, it stays   *)
(* at the path, and every descriptor names it.  So the hosts past the flock*)
(* hold one and the same flock, which the kernel gives to one of them.     *)
Holds(h) == pc[h] \in {"publish", "own"}
LockInv ==
  /\ ~released => created = path /\ path \in {0, 1}
  /\ \A h \in Hosts : pc[h] \in {"flock", "publish", "own", "close"} => fd[h] # 0
  /\ \A h \in Hosts : Holds(h) => flock[fd[h]] = h
  /\ \A h \in Hosts : pc[h] = "close" => released

LEMMA FdIsAnInode ==
  ASSUME TypeOK, LockInv, NEW h \in Hosts, pc[h] \in {"flock", "publish", "own", "close"}
  PROVE  fd[h] \in Inodes
BY SchedulerBounds DEF TypeOK, LockInv, Inodes

LEMMA LockInvAlways == TypeOK /\ LockInv /\ [Next]_vars => LockInv'
<1> SUFFICES ASSUME TypeOK, LockInv, [Next]_vars PROVE LockInv'
  OBVIOUS
<1>t. TypeOK'
  BY LockTypedAlways
<1>n. NoHost \notin Hosts
  BY HostAssumption
<1> USE SchedulerBounds DEF Holds, At, Go
<1>1. ASSUME NEW h \in Hosts, ReadOwner(h) PROVE LockInv'
  BY <1>1, <1>t DEF ReadOwner, LockInv, TypeOK
<1>2. ASSUME NEW h \in Hosts, Open(h) PROVE LockInv'
  BY <1>2, <1>t DEF Open, LockInv, TypeOK
<1>3. ASSUME NEW h \in Hosts, TryFlock(h) PROVE LockInv'
  <2> USE <1>3 DEF TryFlock
  <2>f. fd[h] \in Inodes
    BY FdIsAnInode DEF LockInv, TypeOK
  <2>1. CASE flock[fd[h]] = NoHost
    <3>1. /\ flock' = [flock EXCEPT ![fd[h]] = h] /\ fd' = fd
          /\ pc' = [pc EXCEPT ![h] = "publish"]
      BY <1>n, <2>1
    <3>2. ASSUME NEW g \in Hosts, Holds(g)' PROVE flock'[fd'[g]] = g
      <4>1. CASE g = h
        BY <2>f, <3>1, <4>1 DEF TypeOK
      <4>2. CASE g # h
        <5>1. flock[fd[g]] = g
          BY <3>1, <3>2, <4>2 DEF LockInv, TypeOK
        <5> QED
          BY <1>n, <2>1, <3>1, <5>1, FdIsAnInode DEF TypeOK
      <4> QED
        BY <4>1, <4>2
    <3> QED
      BY <3>1, <3>2 DEF LockInv, TypeOK
  <2>2. CASE flock[fd[h]] # NoHost
    BY <1>t, <2>2 DEF LockInv, TypeOK
  <2> QED
    BY <2>1, <2>2
<1>4. ASSUME NEW h \in Hosts, WriteMetadata(h) PROVE LockInv'
  BY <1>4, <1>t DEF WriteMetadata, LockInv, TypeOK
<1>5. ASSUME NEW h \in Hosts, Unlink(h) PROVE LockInv'
  BY <1>5, <1>t DEF Unlink, LockInv, TypeOK
<1>d. ASSUME NEW h \in Hosts, Drop(h), UNCHANGED <<path, created, released>>
      PROVE LockInv'
  <2>1. ASSUME NEW g \in Hosts, g # h
        PROVE  pc'[g] = pc[g] /\ fd'[g] = fd[g]
    BY <1>d, <2>1 DEF Drop, TypeOK
  <2>2. ASSUME NEW g \in Hosts, Holds(g)' PROVE flock'[fd'[g]] = g
    <3>1. g # h
      BY <1>d, <2>2 DEF Drop, TypeOK
    <3>2. fd[g] \in Inodes /\ flock[fd[g]] = g
      BY <2>1, <2>2, <3>1, FdIsAnInode DEF LockInv
    <3> QED
      BY <1>d, <2>1, <3>1, <3>2 DEF Drop
  <2>3. pc'[h] = "idle"
    BY <1>d DEF Drop, TypeOK
  <2> QED
    BY <1>d, <2>1, <2>2, <2>3 DEF LockInv
<1>6. ASSUME NEW h \in Hosts, Close(h) PROVE LockInv'
  BY <1>6, <1>d DEF Close
<1>7. ASSUME NEW h \in Hosts, Crash(h) PROVE LockInv'
  BY <1>7, <1>d DEF Crash
<1>8. ASSUME UNCHANGED vars PROVE LockInv'
  BY <1>8 DEF vars, LockInv
<1> QED
  BY <1>1, <1>2, <1>3, <1>4, <1>5, <1>6, <1>7, <1>8 DEF Next, Acquire

LEMMA OneHolds ==
  ASSUME TypeOK, LockInv, ~released, NEW h \in Hosts, NEW g \in Hosts,
         Holds(h), Holds(g)
  PROVE  h = g
<1>1. fd[h] = 1 /\ fd[g] = 1
  BY SchedulerBounds DEF TypeOK, LockInv, Holds
<1> QED
  BY <1>1 DEF LockInv

LEMMA LockStepIsExclusive ==
  TypeOK /\ LockInv /\ [Next]_vars => [E!Next]_<<Owners, released>>
<1> SUFFICES ASSUME TypeOK, LockInv, [Next]_vars
             PROVE  [E!Next]_<<Owners, released>>
  OBVIOUS
<1> USE DEF Owners, At, Go
<1>a. ASSUME NEW h \in Hosts, pc[h] # "own", NEW to, to # "own",
             pc' = [pc EXCEPT ![h] = to]
      PROVE  Owners' = Owners
  BY <1>a DEF TypeOK
<1>b. ASSUME NEW h \in Hosts, pc[h] = "own", NEW to, to # "own",
             pc' = [pc EXCEPT ![h] = to], released' \in {released, TRUE}
      PROVE  E!Leave(h)
  BY <1>b DEF TypeOK, E!Leave
<1>1. ASSUME NEW h \in Hosts, ReadOwner(h) PROVE UNCHANGED <<Owners, released>>
  BY <1>1, <1>a DEF ReadOwner
<1>2. ASSUME NEW h \in Hosts, Open(h) PROVE UNCHANGED <<Owners, released>>
  BY <1>2, <1>a DEF Open
<1>3. ASSUME NEW h \in Hosts, TryFlock(h) PROVE UNCHANGED <<Owners, released>>
  BY <1>3, <1>a DEF TryFlock
<1>4. ASSUME NEW h \in Hosts, WriteMetadata(h) PROVE E!Enter(h)
  <2>1. Owners' = Owners \cup {h} /\ h \notin Owners /\ released' = released
    BY <1>4 DEF WriteMetadata, TypeOK
  <2>2. ASSUME ~released PROVE Owners = {}
    BY <1>4, <2>1, <2>2, OneHolds DEF WriteMetadata, Holds
  <2> QED
    BY <2>1, <2>2 DEF E!Enter, TypeOK
<1>5. ASSUME NEW h \in Hosts, Unlink(h) PROVE E!Leave(h)
  BY <1>5, <1>b DEF Unlink
<1>6. ASSUME NEW h \in Hosts, Close(h) PROVE UNCHANGED <<Owners, released>>
  BY <1>6, <1>a DEF Close, Drop
<1>7. ASSUME NEW h \in Hosts, Crash(h)
      PROVE  E!Leave(h) \/ UNCHANGED <<Owners, released>>
  BY <1>7, <1>a, <1>b DEF Crash, Drop
<1>8. ASSUME UNCHANGED vars PROVE UNCHANGED <<Owners, released>>
  BY <1>8 DEF vars
<1> QED
  BY <1>1, <1>2, <1>3, <1>4, <1>5, <1>6, <1>7, <1>8 DEF Next, Acquire, E!Next

(* releaseSchedulerLock apart, one host at a time serves the repository,   *)
(* whatever hosts die: the kernel lock implements Exclusion.               *)
THEOREM LockExcludes == Spec => ImplementsExclusion
<1>1. Init => TypeOK /\ LockInv /\ E!Init
  <2> SUFFICES ASSUME Init PROVE LockInv /\ E!Init
    BY LockTypedAtFirst
  <2> QED
    BY DEF Init, LockInv, Holds, E!Init, Owners
<1>2. TypeOK /\ LockInv /\ [Next]_vars => (TypeOK /\ LockInv)'
  BY LockTypedAlways, LockInvAlways
<1>3. TypeOK /\ LockInv /\ [Next]_vars => [E!Next]_<<Owners, released>>
  BY LockStepIsExclusive
<1> QED
  BY <1>1, <1>2, <1>3, PTL DEF Spec, ImplementsExclusion, E!Spec
-----------------------------------------------------------------------------
(* The sessions.                                                           *)

(* One session at a time serves the repository, continuously or once.      *)
LockIsHeld ==
  \A s \in Sessions :
    /\ host[s].at # 0 => lock = s
    /\ shot[s] # NoShot => lock = s /\ host[s].at = 0

(* A one-shot permission and a lasting one never have the same number.     *)
NumbersDiffer ==
  /\ scoped # 0 => scoped # permit
  /\ \A s \in Sessions :
       /\ tick[s].at # 0 => tick[s].at # scoped
       /\ shot[s].at # 0 => shot[s].at # permit

(* A tick that works under the permission in force is that of a session    *)
(* which serves the repository under this permission.                      *)
Working == {"authority", "attempts", "driver", "done", "blocked"}
Undisturbed == ~spent.silent /\ ~spent.carried
WorksForItsRun ==
  Undisturbed =>
    \A s \in Sessions :
      tick[s].stage \in Working /\ tick[s].at = permit /\ permit # 0
        => host[s].at = permit

HostInv == LockIsHeld /\ NumbersDiffer /\ WorksForItsRun
HostIInv == HostTypeOK /\ HostInv

LEMMA HostTypedAtFirst == HostInit => HostTypeOK
<1> SUFFICES ASSUME HostInit PROVE HostTypeOK
  OBVIOUS
<1>1. granted \in 0..MaxGrants /\ permit \in Numbers /\ scoped \in Numbers
  BY HostBounds DEF HostInit, Numbers
<1>2. deployed \in 1..MaxVersions /\ lock \in Sessions \cup {Free} /\ up \subseteq Sessions
  BY HostBounds DEF HostInit
<1>3. code \in [Sessions -> [loaded : 1..deployed, asked : 0..deployed]]
  BY DEF HostInit
<1>r. Resting \in Schedulers
  BY <1>1 DEF Resting, Schedulers, Numbers, HostInit
<1>4. host \in [Sessions -> Schedulers]
  BY <1>r DEF HostInit
<1>5. tick \in [Sessions -> Ticks]
  BY DEF HostInit, Idle, Ticks, TickStages, Numbers
<1>6. shot \in [Sessions -> Shots]
  BY DEF HostInit, NoShot, Shots, ShotStages, Numbers
<1>7. command \in [Sessions -> Commands]
  BY DEF HostInit, NoCommand, Commands, Numbers
<1>8. reload \in [Sessions -> {"no", "asked", "closing", "starting"}]
  BY DEF HostInit
<1>9. spent \in Counts
  BY HostBounds DEF HostInit, Counts
<1> QED
  BY <1>1, <1>2, <1>3, <1>4, <1>5, <1>6, <1>7, <1>8, <1>9 DEF HostTypeOK

LEMMA HostInvAtFirst == HostInit => HostIInv
<1> SUFFICES ASSUME HostInit PROVE HostIInv
  OBVIOUS
<1>1. \A s \in Sessions : /\ host[s].at = 0 /\ shot[s] = NoShot /\ shot[s].at = 0
                          /\ tick[s].at = 0 /\ tick[s].stage = "none"
  BY DEF HostInit, Resting, Idle, NoShot
<1>2. permit = 0 /\ scoped = 0
  BY DEF HostInit
<1> QED
  BY <1>1, <1>2, HostTypedAtFirst DEF HostIInv, HostInv, LockIsHeld, NumbersDiffer,
     WorksForItsRun

(* What stopping and starting leave of a scheduler.                        *)
LEMMA Stops ==
  ASSUME NEW h \in Schedulers, NEW busy \in BOOLEAN, granted \in Nat
  PROVE  /\ Stopped(h) \in Schedulers /\ Stopped(h).at = 0
         /\ Stopped(h).running = h.running /\ Stopped(h).stop = FALSE
         /\ Invalidated(h) \in Schedulers /\ Invalidated(h).at = 0
         /\ Stopping(h, busy) \in Schedulers
         /\ Stopping(h, busy).at = IF busy THEN h.at ELSE 0
         /\ [h EXCEPT !.running = FALSE] \in Schedulers
         /\ [h EXCEPT !.running = FALSE].at = h.at
<1>1. Stopped(h) \in Schedulers /\ Stopped(h).at = 0
      /\ Stopped(h).running = h.running /\ Stopped(h).stop = FALSE
  <2>0. 0 \in Numbers
    BY DEF Numbers
  <2>1. Resting \in Schedulers
    BY <2>0 DEF Resting, Schedulers
  <2>2. Resting.at = 0 /\ Resting.stop = FALSE
    BY Zenon DEF Resting
  <2> QED
    BY <2>1, <2>2 DEF Stopped, Schedulers
<1>2. Invalidated(h) \in Schedulers /\ Invalidated(h).at = 0
  BY <1>1 DEF Invalidated, Schedulers
<1>3. CASE busy
  BY <1>1, <1>2, <1>3 DEF Stopping, Schedulers, Numbers
<1>4. CASE ~busy
  BY <1>1, <1>2, <1>4 DEF Stopping, Schedulers, Numbers
<1> QED
  BY <1>3, <1>4

(* A start takes the repository only when nobody else has it, and never    *)
(* takes it from a session that has it under the permission in force.      *)
LEMMA StartsSoundly ==
  ASSUME HostTypeOK, NEW s \in Sessions, NEW h \in Schedulers, NEW at \in Numbers,
         NEW busy \in BOOLEAN, NEW free \in BOOLEAN, NEW silent
  PROVE  /\ Starts(s, h, at, busy, free, silent).host \in Schedulers
         /\ Starts(s, h, at, busy, free, silent).host.at # 0 => h.at # 0 \/ free
         /\ (/\ permit = at /\ at # 0 /\ h.at = at
             /\ busy \/ silent # "enabled")
              => Starts(s, h, at, busy, free, silent).host.at = at
<1> DEFINE new == Starts(s, h, at, busy, free, silent).host
<1>g. granted \in Nat
  BY HostBounds DEF HostTypeOK
<1>s. /\ Stopping(h, busy) \in Schedulers
      /\ Stopping(h, busy).at = IF busy THEN h.at ELSE 0
  BY <1>g, Stops
<1>1. CASE ~Current(s)
  <2>1. new = [h EXCEPT !.shown = "stopped"]
    BY <1>1 DEF Starts, Refuses, Says
  <2> QED
    BY <2>1 DEF Schedulers
<1>2. CASE Current(s) /\ silent = "preflight"
  <2>1. new = [h EXCEPT !.shown = "skipped"]
    BY <1>2 DEF Starts, Refuses, Says
  <2> QED
    BY <2>1 DEF Schedulers
<1>3. CASE Current(s) /\ silent # "preflight" /\ (permit # at \/ silent = "enabled")
  <2>1. new = [Stopping(h, busy) EXCEPT !.shown = "not enabled"]
    BY <1>3 DEF Starts, Refuses, Says
  <2>2. new \in Schedulers /\ new.at = Stopping(h, busy).at
    BY <1>s, <2>1 DEF Schedulers
  <2> QED
    BY <1>3, <1>s, <2>2
<1>4. CASE Current(s) /\ silent # "preflight" /\ permit = at /\ silent # "enabled"
  <2>1. CASE h.stop
    <3>1. new = [h EXCEPT !.pending = at]
      BY <1>4, <2>1 DEF Starts, Says
    <3> QED
      BY <3>1 DEF Schedulers
  <2>2. CASE ~h.stop /\ h.at # 0
    <3>1. new = [h EXCEPT !.at = at]
      BY <1>4, <2>2 DEF Starts, Says
    <3> QED
      BY <2>2, <3>1 DEF Schedulers
  <2>3. CASE ~h.stop /\ h.at = 0
    <3> DEFINE rest == Stopping(h, busy)
    <3>r. rest \in Schedulers /\ rest.at = 0
      BY <1>s, <2>3
    <3>1. new = Serves(h, at, busy, free).host
      BY <1>4, <2>3 DEF Starts
    <3>2. CASE rest.running
      <4>1. new = [rest EXCEPT !.pending = at]
        BY <3>1, <3>2 DEF Serves, Says
      <4>2. new \in Schedulers /\ new.at = 0
        <5> HIDE DEF rest, new
        <5> QED
          BY <3>r, <4>1 DEF Schedulers
      <4> QED
        BY <2>3, <4>2
    <3>3. CASE ~rest.running /\ free
      <4>1. new = [rest EXCEPT !.at = at, !.timer = TRUE]
        BY <3>1, <3>3 DEF Serves, Says
      <4>2. new \in Schedulers /\ new.at = at
        <5> HIDE DEF rest, new
        <5> QED
          BY <3>r, <4>1 DEF Schedulers
      <4> QED
        BY <3>3, <2>3, <4>2
    <3>4. CASE ~rest.running /\ ~free
      <4>1. new = [rest EXCEPT !.shown = "skipped"]
        BY <3>1, <3>4 DEF Serves, Refuses, Says
      <4>2. new \in Schedulers /\ new.at = 0
        <5> HIDE DEF rest, new
        <5> QED
          BY <3>r, <4>1 DEF Schedulers
      <4> QED
        BY <2>3, <4>2
    <3> QED
      BY <3>2, <3>3, <3>4
  <2> QED
    BY <2>1, <2>2, <2>3
<1> QED
  BY <1>1, <1>2, <1>3, <1>4

-----------------------------------------------------------------------------
(* What most steps leave of the invariant, each part from what it is about.*)

(* The scheduler of one session changes, and takes only a free repository. *)
LEMMA TurnKeepsLock ==
  ASSUME HostIInv, NEW s \in Sessions, NEW h \in Schedulers, Become(s, h),
         h.at # 0 => host[s].at # 0 \/ lock = Free, shot' = shot
  PROVE  /\ host' \in [Sessions -> Schedulers] /\ lock' \in Sessions \cup {Free}
         /\ host'[s] = h /\ \A o \in Sessions \ {s} : host'[o] = host[o]
         /\ LockIsHeld'
<1>1. /\ host' \in [Sessions -> Schedulers] /\ lock' \in Sessions \cup {Free}
      /\ host'[s] = h /\ \A o \in Sessions \ {s} : host'[o] = host[o]
  BY DEF HostIInv, HostTypeOK, Become, LockFor
<1>2. /\ h.at # 0 => lock' = s
      /\ h.at = 0 /\ host[s].at # 0 => lock' = Free
      /\ h.at = 0 /\ host[s].at = 0 => lock' = lock
  BY DEF Become, LockFor
<1>3. ASSUME NEW o \in Sessions PROVE host'[o].at # 0 => lock' = o
  BY <1>1, <1>2, SessionAssumption DEF HostIInv, HostInv, LockIsHeld
<1>4. ASSUME NEW o \in Sessions, shot[o] # NoShot
      PROVE  lock' = o /\ host'[o].at = 0
  <2>1. lock = o /\ host[o].at = 0 /\ lock # Free
    BY <1>4, SessionAssumption DEF HostIInv, HostInv, LockIsHeld
  <2>2. h.at = 0 /\ host[s].at = 0
    BY <1>4, <2>1 DEF HostIInv, HostInv, LockIsHeld
  <2> QED
    BY <1>1, <1>2, <2>1, <2>2
<1> QED
  BY <1>1, <1>3, <1>4 DEF LockIsHeld

LEMMA NumbersStayApart ==
  ASSUME HostIInv, permit' \in {permit, 0}, scoped' \in {scoped, 0},
         \A s \in Sessions : tick'[s].at \in {tick[s].at, permit, 0},
         \A s \in Sessions : shot'[s].at \in {shot[s].at, 0}
  PROVE  NumbersDiffer'
BY DEF HostIInv, HostInv, NumbersDiffer

LEMMA WorkGoesOn ==
  ASSUME HostIInv, permit' \in {permit, 0},
         Undisturbed' => Undisturbed,
         \A s \in Sessions : tick'[s].stage \in Working =>
            tick[s].stage \in Working /\ tick'[s].at = tick[s].at,
         \A s \in Sessions :
            (/\ Undisturbed' /\ tick'[s].stage \in Working
             /\ permit' = permit /\ permit # 0 /\ host[s].at = permit)
               => host'[s].at = permit
  PROVE  WorksForItsRun'
BY DEF HostIInv, HostInv, WorksForItsRun

(* What a command or a mishap is counted in.                               *)
LEMMA Counted ==
  ASSUME HostTypeOK, Fault \/ NoFault \/ (spent.commands < MaxCommands /\ Spend("commands"))
  PROVE  /\ spent' \in Counts
         /\ spent'.silent = spent.silent /\ spent'.carried = spent.carried
<1>1. CASE Fault
  BY <1>1, HostBounds DEF HostTypeOK, Counts, Fault, Mishap, Spend
<1>2. CASE NoFault
  BY <1>2 DEF HostTypeOK, NoFault
<1>3. CASE spent.commands < MaxCommands /\ Spend("commands")
  BY <1>3, HostBounds DEF HostTypeOK, Counts, Spend
<1> QED
  BY <1>1, <1>2, <1>3

(* A session whose scheduler does not change keeps what it has.            *)
LEMMA Stays ==
  ASSUME HostIInv, NEW s \in Sessions, UNCHANGED <<lock, host>>
  PROVE  Become(s, host[s])
BY DEF HostIInv, HostTypeOK, HostInv, LockIsHeld, Become, LockFor

(* A step of one session that gives no permission out and lets no tick     *)
(* begin its work.                                                         *)
LEMMA Turn ==
  ASSUME HostIInv, NEW s \in Sessions, NEW h \in Schedulers, Become(s, h),
         h.at # 0 => host[s].at # 0 \/ lock = Free,
         UNCHANGED <<granted, deployed, up, shot>>,
         permit' \in {permit, 0}, scoped' \in {scoped, 0},
         code' \in [Sessions -> [loaded : 1..deployed, asked : 0..deployed]],
         command' \in [Sessions -> Commands],
         reload' \in [Sessions -> {"no", "asked", "closing", "starting"}],
         spent' \in Counts,
         Undisturbed' => Undisturbed,
         tick' \in [Sessions -> Ticks],
         \A o \in Sessions : tick'[o].at \in {tick[o].at, permit, 0},
         \A o \in Sessions : tick'[o].stage \in Working =>
            tick[o].stage \in Working /\ tick'[o].at = tick[o].at,
         (/\ Undisturbed' /\ tick'[s].stage \in Working
          /\ permit' = permit /\ permit # 0 /\ host[s].at = permit)
            => h.at = permit
  PROVE  HostIInv'
<1>1. /\ host' \in [Sessions -> Schedulers] /\ lock' \in Sessions \cup {Free}
      /\ host'[s] = h /\ \A o \in Sessions \ {s} : host'[o] = host[o]
      /\ LockIsHeld'
  BY TurnKeepsLock
<1>2. permit' \in Numbers /\ scoped' \in Numbers /\ Numbers' = Numbers
  BY HostBounds DEF HostIInv, HostTypeOK, Numbers
<1>3. HostTypeOK'
  BY <1>1, <1>2 DEF HostIInv, HostTypeOK, Schedulers, Ticks, Shots, Commands
<1>4. NumbersDiffer'
  BY NumbersStayApart
<1>5. WorksForItsRun'
  <2>1. \A o \in Sessions :
          (/\ Undisturbed' /\ tick'[o].stage \in Working
           /\ permit' = permit /\ permit # 0 /\ host[o].at = permit)
             => host'[o].at = permit
    <3> TAKE o \in Sessions
    <3>1. CASE o = s
      BY <1>1, <3>1
    <3>2. CASE o # s
      <4>1. host'[o].at = host[o].at
        BY <1>1, <3>2
      <4> QED
        BY <4>1
    <3> QED
      BY <3>1, <3>2
  <2> QED
    BY <2>1, WorkGoesOn
<1> QED
  BY <1>1, <1>3, <1>4, <1>5 DEF HostIInv, HostInv

(* The start that waited for a tick takes only a free repository.          *)
LEMMA PendingStarts ==
  ASSUME HostTypeOK, NEW s \in Sessions, NEW h \in Schedulers, NEW number \in Numbers,
         NEW free \in BOOLEAN, NEW silent
  PROVE  /\ Starts(s, Stopped(h), number, FALSE, free, silent).host \in Schedulers
         /\ Starts(s, Stopped(h), number, FALSE, free, silent).host.at # 0 => free
<1>1. Stopped(h) \in Schedulers /\ Stopped(h).at = 0
  <2>1. granted \in Nat
    BY HostBounds DEF HostTypeOK
  <2> QED
    BY <2>1, Stops
<1> DEFINE busy == FALSE
           new == Starts(s, Stopped(h), number, busy, free, silent).host
<1>2. busy \in BOOLEAN
  OBVIOUS
<1>3. new \in Schedulers /\ (new.at # 0 => free)
  <2> HIDE DEF busy
  <2> QED
    BY <1>1, <1>2, StartsSoundly
<1> QED
  BY <1>3

(* The tick of s ends.                                                     *)
LEMMA EndsSoundly ==
  ASSUME HostIInv, NEW s \in Sessions, NEW h \in Schedulers, NEW silent,
         Ends(s, h, silent), h.at # 0 => host[s].at # 0, Rest(s),
         spent' \in Counts,
         Undisturbed' => Undisturbed
  PROVE  HostIInv'
<1> DEFINE idle == [h EXCEPT !.running = FALSE]
           free == lock = Free \/ host[s].at # 0
           new == IF ~idle.stop THEN idle
                  ELSE IF idle.pending = 0 THEN Stopped(idle)
                  ELSE Starts(s, Stopped(idle), idle.pending, FALSE, free, silent).host
<1>g. granted \in Nat
  BY HostBounds DEF HostIInv, HostTypeOK
<1>1. idle \in Schedulers /\ idle.at = h.at
  BY <1>g, Stops
<1>2. Stopped(idle) \in Schedulers /\ Stopped(idle).at = 0
  <2> HIDE DEF idle
  <2> QED
    BY <1>g, <1>1, Stops
<1>3. idle.pending \in Numbers
  <2> HIDE DEF idle
  <2> QED
    BY <1>1 DEF Schedulers
<1>4. new \in Schedulers /\ (new.at # 0 => host[s].at # 0 \/ lock = Free)
  <2>1. CASE ~idle.stop
    BY <1>1, <2>1
  <2>2. CASE idle.stop /\ idle.pending = 0
    BY <1>2, <2>2
  <2>3. CASE idle.stop /\ idle.pending # 0
    BY <1>1, <1>3, <2>3, PendingStarts DEF HostIInv
  <2> QED
    BY <2>1, <2>2, <2>3
<1>5. Become(s, new) /\ tick' = [tick EXCEPT ![s] = Idle]
  BY DEF Ends
<1>6. /\ tick' \in [Sessions -> Ticks]
      /\ tick'[s] = Idle /\ \A o \in Sessions \ {s} : tick'[o] = tick[o]
  BY <1>5, <1>g DEF HostIInv, HostTypeOK, Idle, Ticks, TickStages, Numbers
<1>7. /\ UNCHANGED <<permit, scoped, granted, deployed, up, code, shot, command, reload>>
  BY DEF Rest, shared
<1> HIDE DEF new
<1>8. /\ \A o \in Sessions : tick'[o].at \in {tick[o].at, permit, 0}
      /\ \A o \in Sessions : tick'[o].stage \in Working =>
            tick[o].stage \in Working /\ tick'[o].at = tick[o].at
      /\ tick'[s].stage \notin Working
  BY <1>6 DEF Idle, Working
<1> QED
  BY <1>4, <1>5, <1>6, <1>7, <1>8, Turn DEF HostIInv, HostTypeOK

LEMMA EndSoundly ==
  ASSUME HostIInv, NEW s \in Sessions, NEW h \in Schedulers, End(s, h),
         h.at # 0 => host[s].at # 0, Rest(s)
  PROVE  HostIInv'
<1>1. PICK silent \in {"nothing", "preflight", "enabled"} :
        Ends(s, h, silent) /\ (NoFault \/ Fault)
  BY DEF End
<1>2. spent' \in Counts /\ (Undisturbed' => Undisturbed)
  BY <1>1, Counted DEF HostIInv, Undisturbed
<1> QED
  BY <1>1, <1>2, EndsSoundly

(* A tick in flight goes on to a further stage.                            *)
LEMMA GoesSoundly ==
  ASSUME HostIInv, NEW s \in Sessions, NEW stage \in Working, Goes(s, stage),
         tick[s].stage \in Working, Rest(s), NoFault \/ Fault
  PROVE  HostIInv'
<1>1. spent' \in Counts /\ (Undisturbed' => Undisturbed)
  BY Counted DEF HostIInv, Undisturbed
<1>2. Become(s, host[s]) /\ host[s] \in Schedulers
  BY Stays DEF Goes, HostIInv, HostTypeOK
<1>3. /\ tick' \in [Sessions -> Ticks]
      /\ \A o \in Sessions : tick'[o].at = tick[o].at
      /\ \A o \in Sessions : tick'[o].stage \in Working => tick[o].stage \in Working
  BY DEF Goes, HostIInv, HostTypeOK, Ticks, TickStages, Working
<1>4. UNCHANGED <<permit, scoped, granted, deployed, up, code, shot, command, reload>>
  BY DEF Rest, shared
<1>5. host[s].at # 0 => host[s].at # 0 \/ lock = Free
  OBVIOUS
<1> QED
  BY <1>1, <1>2, <1>3, <1>4, <1>5, Turn DEF HostIInv, HostTypeOK

(* disown: what becomes of a tick whose run is no longer `active`.         *)
LEMMA Disowned ==
  ASSUME HostTypeOK, NEW s \in Sessions, NEW h \in Schedulers, Disown(s, h)
  PROVE  /\ tick' \in [Sessions -> Ticks]
         /\ \A o \in Sessions : tick'[o].at = tick[o].at /\ tick'[o].stage = tick[o].stage
BY DEF Disown, HostTypeOK, Ticks

LEMMA PollSoundly ==
  ASSUME HostIInv, NEW s \in Sessions, Poll(s)
  PROVE  HostIInv'
<1>t. host[s] \in Schedulers /\ tick[s] \in Ticks /\ spent \in Counts /\ granted \in Nat
  BY HostBounds DEF HostIInv, HostTypeOK
<1>1. CASE PollRevoked(s)
  <2> DEFINE h == Invalidated(host[s])
  <2>1. h \in Schedulers /\ h.at = 0
    BY <1>t, Stops
  <2>2. /\ Become(s, h) /\ Disown(s, h)
        /\ UNCHANGED <<permit, scoped, granted, deployed, up, code, shot, command, reload>>
    BY <1>1 DEF PollRevoked, shared
  <2>3. /\ spent' \in Counts /\ (Undisturbed' => Undisturbed)
        /\ Undisturbed' => permit # host[s].at
    <3>1. CASE permit # host[s].at /\ NoFault
      BY <1>t, <3>1 DEF NoFault, Undisturbed
    <3>2. CASE Mishap /\ spent' = [spent EXCEPT !.mishaps = @ + 1, !.silent = TRUE]
      <4>1. spent' \in Counts
        <5> DEFINE n == spent.mishaps + 1
                   once == [spent EXCEPT !.mishaps = n]
        <5>1. n \in 0..MaxMishaps
          BY <1>t, <3>2, HostBounds DEF Mishap, Counts
        <5>2. once \in Counts
          <6> HIDE DEF n
          <6> QED
            BY <1>t, <5>1 DEF Counts
        <5>3. spent' = [once EXCEPT !.silent = TRUE]
          BY <1>t, <3>2 DEF Counts
        <5> HIDE DEF once
        <5> QED
          BY <5>2, <5>3 DEF Counts
      <4>2. spent'.silent
        BY <1>t, <3>2 DEF Counts
      <4> QED
        BY <4>1, <4>2 DEF Undisturbed
    <3> QED
      BY <1>1, <3>1, <3>2 DEF PollRevoked
  <2> HIDE DEF h
  <2>4. /\ tick' \in [Sessions -> Ticks]
        /\ \A o \in Sessions : tick'[o].at = tick[o].at /\ tick'[o].stage = tick[o].stage
    BY <2>1, <2>2, Disowned DEF HostIInv
  <2> QED
    BY <2>1, <2>2, <2>3, <2>4, Turn DEF HostIInv, HostTypeOK
<1>2. CASE PollStaleCode(s)
  <2>1. /\ UNCHANGED <<permit, scoped, granted, deployed, up, tick, shot, command>>
        /\ NoFault \/ Fault
    BY <1>2 DEF PollStaleCode, shared
  <2>2. spent' \in Counts /\ (Undisturbed' => Undisturbed)
    BY <2>1, Counted DEF HostIInv, Undisturbed
  <2>3. PICK shown \in {"stopped", "waiting", "reloading"} :
          Become(s, [host[s] EXCEPT !.shown = shown])
    BY <1>2 DEF PollStaleCode
  <2> DEFINE h == [host[s] EXCEPT !.shown = shown]
  <2>4. h \in Schedulers /\ h.at = host[s].at
    BY <1>t DEF Schedulers
  <2>5. /\ code' \in [Sessions -> [loaded : 1..deployed, asked : 0..deployed]]
        /\ reload' \in [Sessions -> {"no", "asked", "closing", "starting"}]
    BY <1>2, HostBounds DEF PollStaleCode, HostIInv, HostTypeOK
  <2>6. Become(s, h)
    BY <2>3
  <2> HIDE DEF h
  <2> QED
    BY <2>1, <2>2, <2>4, <2>5, <2>6, Turn DEF HostIInv, HostTypeOK
<1>3. CASE PollTick(s)
  <2>1. /\ UNCHANGED <<permit, scoped, granted, deployed, lock, up, code, host, shot,
                       command, reload>>
        /\ NoFault \/ Fault
    BY <1>3 DEF PollTick, shared
  <2>2. spent' \in Counts /\ (Undisturbed' => Undisturbed)
    BY <2>1, Counted DEF HostIInv, Undisturbed
  <2>3. PICK stage \in {"resolve", "recover"}, number \in {0, permit} :
          tick' = [tick EXCEPT ![s] = [stage |-> stage, at |-> number, mine |-> TRUE]]
    BY <1>3 DEF PollTick
  <2>4. /\ tick' \in [Sessions -> Ticks]
        /\ tick'[s].at = number /\ tick'[s].stage = stage
        /\ \A o \in Sessions \ {s} : tick'[o] = tick[o]
    <3>1. number \in Numbers
      BY <1>t DEF HostIInv, HostTypeOK, Numbers
    <3>2. [stage |-> stage, at |-> number, mine |-> TRUE] \in Ticks
      BY <3>1 DEF Ticks, TickStages
    <3> QED
      BY <2>3, <3>2 DEF HostIInv, HostTypeOK
  <2>5. Become(s, host[s])
    BY <2>1, Stays
  <2>6. /\ \A o \in Sessions : tick'[o].at \in {tick[o].at, permit, 0}
        /\ \A o \in Sessions : tick'[o].stage \in Working =>
              tick[o].stage \in Working /\ tick'[o].at = tick[o].at
    BY <2>4 DEF Working
  <2> QED
    BY <1>t, <2>1, <2>2, <2>4, <2>5, <2>6, Turn DEF HostIInv, HostTypeOK
<1> QED
  BY <1>1, <1>2, <1>3 DEF Poll

(* The record the tick goes on with is its own, unless this is noted.      *)
LEMMA ResolveSoundly ==
  ASSUME HostIInv, NEW s \in Sessions, Resolve(s)
  PROVE  HostIInv'
<1>t. host[s] \in Schedulers /\ tick[s] \in Ticks /\ spent \in Counts /\ granted \in Nat
  BY HostBounds DEF HostIInv, HostTypeOK
<1>r. Rest(s)
  BY DEF Resolve
<1>1. ASSUME NEW h \in {host[s], Invalidated(host[s])}, End(s, h) PROVE HostIInv'
  BY <1>1, <1>t, <1>r, Stops, EndSoundly
<1>2. ASSUME Fault, Ends(s, host[s], "nothing") PROVE HostIInv'
  BY <1>2, <1>t, <1>r, Counted, EndsSoundly DEF HostIInv, Undisturbed
<1>3. ASSUME permit # 0,
             IF permit = host[s].at THEN NoFault
               ELSE spent' = [spent EXCEPT !.carried = TRUE],
             tick' = [tick EXCEPT ![s].stage = "authority", ![s].at = permit],
             host' = [host EXCEPT ![s].running = TRUE], lock' = lock
      PROVE  HostIInv'
  <2> DEFINE h == [host[s] EXCEPT !.running = TRUE]
  <2>1. h \in Schedulers /\ h.at = host[s].at
    BY <1>t DEF Schedulers
  <2>2. host' = [host EXCEPT ![s] = h]
    BY <1>3
  <2> HIDE DEF h
  <2>3. Become(s, h)
    BY <1>3, <2>1, <2>2 DEF Become, LockFor, HostIInv, HostInv, LockIsHeld
  <2>4. UNCHANGED <<permit, scoped, granted, deployed, up, code, shot, command, reload>>
    BY <1>r DEF Rest, shared
  <2>5. /\ host' \in [Sessions -> Schedulers] /\ host'[s] = h
        /\ \A o \in Sessions \ {s} : host'[o] = host[o]
        /\ LockIsHeld'
    BY <2>1, <2>3, <2>4, TurnKeepsLock
  <2>6. /\ spent' \in Counts /\ (Undisturbed' => Undisturbed)
        /\ Undisturbed' => permit = host[s].at
    <3>1. CASE permit = host[s].at
      BY <1>3, <1>t, <3>1 DEF NoFault, Undisturbed
    <3>2. CASE permit # host[s].at
      BY <1>3, <1>t, <3>2 DEF Counts, Undisturbed
    <3> QED
      BY <3>1, <3>2
  <2>7. /\ tick' \in [Sessions -> Ticks] /\ tick'[s].at = permit
        /\ \A o \in Sessions \ {s} : tick'[o] = tick[o]
    BY <1>3, <1>t DEF HostIInv, HostTypeOK, Ticks, TickStages
  <2>8. HostTypeOK'
    BY <1>3, <2>4, <2>5, <2>6, <2>7
       DEF HostIInv, HostTypeOK, Numbers, Schedulers, Ticks, Shots, Commands
  <2>9. NumbersDiffer'
    BY <2>4, <2>7, NumbersStayApart
  <2>10. WorksForItsRun'
    BY <2>1, <2>4, <2>5, <2>6, <2>7 DEF HostIInv, HostInv, WorksForItsRun
  <2> QED
    BY <2>5, <2>8, <2>9, <2>10 DEF HostIInv, HostInv
<1> QED
  BY <1>1, <1>2, <1>3 DEF Resolve, EnabledProject

LEMMA TickSoundly ==
  ASSUME HostIInv, NEW s \in Sessions, TickStep(s)
  PROVE  HostIInv'
<1>t. host[s] \in Schedulers /\ (host[s].at # 0 => host[s].at # 0)
  BY DEF HostIInv, HostTypeOK
<1>1. CASE Recover(s)
  BY <1>1, <1>t, EndSoundly DEF Recover
<1>2. CASE Resolve(s)
  BY <1>2, ResolveSoundly
<1>3. CASE Authority(s)
  BY <1>3, GoesSoundly DEF Authority, In, Working
<1>4. CASE Select(s)
  <2>1. Rest(s) /\ tick[s].stage \in Working
    BY <1>4 DEF Select, In, Working
  <2>2. CASE End(s, host[s])
    BY <1>t, <2>1, <2>2, EndSoundly
  <2>3. CASE Fault /\ Ends(s, host[s], "nothing")
    BY <1>t, <2>1, <2>3, Counted, EndsSoundly DEF HostIInv, Undisturbed
  <2>4. ASSUME NEW stage \in {"blocked", "done", "driver"}, Goes(s, stage), Fault \/ NoFault
        PROVE  HostIInv'
    BY <2>1, <2>4, GoesSoundly DEF Working
  <2> QED
    BY <1>4, <2>2, <2>3, <2>4 DEF Select
<1>5. CASE DriverReturns(s)
  BY <1>5, GoesSoundly DEF DriverReturns, In, Working
<1>6. CASE Finish(s)
  BY <1>6, <1>t, EndSoundly DEF Finish
<1> QED
  BY <1>1, <1>2, <1>3, <1>4, <1>5, <1>6 DEF TickStep

-----------------------------------------------------------------------------
(* What people type.                                                       *)

(* A new permission has a number nobody works under yet.                   *)
LEMMA SaveSoundly ==
  ASSUME HostIInv, NEW s \in Sessions, Save(s)
  PROVE  HostIInv'
<1>t. granted \in Nat /\ MaxGrants \in Nat /\ permit \in Numbers /\ scoped \in Numbers
  BY HostBounds DEF HostIInv, HostTypeOK
<1>u. UNCHANGED <<scoped, lock, deployed, up, code, host, tick, shot, reload>>
  BY DEF Save
<1>1. spent' \in Counts /\ (Undisturbed' => Undisturbed)
  BY Counted DEF Save, Types, HostIInv, Undisturbed
<1>2. \/ permit # 0 /\ permit' = permit /\ granted' = granted
      \/ permit = 0 /\ permit' = granted + 1 /\ granted' = granted + 1 /\ granted < MaxGrants
  BY DEF Save
<1>3. permit' \in Numbers' /\ Numbers \subseteq Numbers' /\ granted' \in 0..MaxGrants
  BY <1>t, <1>2 DEF HostIInv, HostTypeOK, Numbers
<1>4. command' \in [Sessions -> Commands']
  <2> DEFINE before == permit # 0
  <2>1. command' = [command EXCEPT ![s] = [at |-> permit', before |-> before]]
    BY DEF Save
  <2>2. [at |-> permit', before |-> before] \in Commands'
    <3>1. before \in BOOLEAN
      OBVIOUS
    <3> HIDE DEF before
    <3> QED
      BY <1>3, <3>1 DEF Commands
  <2>3. Commands \subseteq Commands'
    BY <1>3 DEF Commands
  <2> HIDE DEF before
  <2> QED
    BY <2>1, <2>2, <2>3 DEF HostIInv, HostTypeOK
<1>5. Schedulers \subseteq Schedulers' /\ Ticks \subseteq Ticks' /\ Shots \subseteq Shots'
  BY <1>3 DEF Schedulers, Ticks, Shots
<1>6. HostTypeOK'
  <2>1. /\ host' \in [Sessions -> Schedulers'] /\ tick' \in [Sessions -> Ticks']
        /\ shot' \in [Sessions -> Shots']
    BY <1>u, <1>5 DEF HostIInv, HostTypeOK
  <2>2. scoped' \in Numbers'
    BY <1>u, <1>t, <1>3
  <2> QED
    BY <1>u, <1>1, <1>3, <1>4, <2>1, <2>2 DEF HostIInv, HostTypeOK
<1>7. \A o \in Sessions : tick[o].at \in Numbers /\ shot[o].at \in Numbers
  BY DEF HostIInv, HostTypeOK, Ticks, Shots
<1>8. LockIsHeld'
  BY <1>u DEF HostIInv, HostInv, LockIsHeld
<1>9. NumbersDiffer'
  BY <1>u, <1>t, <1>2, <1>7 DEF HostIInv, HostInv, NumbersDiffer, Numbers
<1>10. WorksForItsRun'
  BY <1>u, <1>1, <1>t, <1>2, <1>7 DEF HostIInv, HostInv, WorksForItsRun, Numbers
<1> QED
  BY <1>6, <1>8, <1>9, <1>10 DEF HostIInv, HostInv

LEMMA StartSavedSoundly ==
  ASSUME HostIInv, NEW s \in Sessions, StartSaved(s)
  PROVE  HostIInv'
<1>t. host[s] \in Schedulers /\ permit \in Numbers /\ granted \in Nat
  BY HostBounds DEF HostIInv, HostTypeOK
<1>u. UNCHANGED <<scoped, granted, deployed, up, code, shot, reload>>
  BY DEF StartSaved
<1>c. command' \in [Sessions -> Commands]
  BY <1>t DEF StartSaved, NoCommand, Commands, Numbers, HostIInv, HostTypeOK
<1>f. host[s].at # 0 => host[s].at # 0 \/ lock = Free
  OBVIOUS
<1>1. CASE NoFault /\ UNCHANGED <<permit, lock, host, tick>>
  <2>1. spent' \in Counts /\ (Undisturbed' => Undisturbed) /\ Become(s, host[s])
    BY <1>1, Counted, Stays DEF HostIInv, Undisturbed
  <2> QED
    BY <1>1, <1>t, <1>u, <1>c, <1>f, <2>1, Turn DEF HostIInv, HostTypeOK
<1>2. ASSUME NEW silent \in {"nothing", "preflight", "enabled"},
             LET start == Starts(s, host[s], permit, Busy(s), lock = Free, silent)
             IN /\ IF silent = "nothing" THEN NoFault ELSE Fault
                /\ Become(s, start.host) /\ Disown(s, start.host)
                /\ IF start.started THEN UNCHANGED permit ELSE TakeBack(s)
      PROVE  HostIInv'
  <2> DEFINE busy == Busy(s)
             free == lock = Free
             h == Starts(s, host[s], permit, busy, free, silent).host
  <2>1. spent' \in Counts /\ (Undisturbed' => Undisturbed)
    BY <1>2, Counted DEF HostIInv, Undisturbed
  <2>2. permit' \in {permit, 0}
    BY <1>2 DEF TakeBack
  <2>3. Become(s, h) /\ Disown(s, h)
    BY <1>2
  <2>4. /\ h \in Schedulers /\ (h.at # 0 => host[s].at # 0 \/ free)
        /\ busy /\ permit # 0 /\ host[s].at = permit => h.at = permit
    <3>1. busy \in BOOLEAN /\ free \in BOOLEAN
      BY DEF Busy
    <3> HIDE DEF busy, free
    <3> QED
      BY <1>t, <3>1, StartsSoundly DEF HostIInv
  <2>5. tick[s].stage \in Working => busy
    BY DEF Busy, Working
  <2> HIDE DEF h
  <2>6. /\ tick' \in [Sessions -> Ticks]
        /\ \A o \in Sessions : tick'[o].at = tick[o].at /\ tick'[o].stage = tick[o].stage
    BY <2>3, <2>4, Disowned DEF HostIInv
  <2> QED
    BY <1>u, <1>c, <2>1, <2>2, <2>3, <2>4, <2>5, <2>6, Turn DEF HostIInv, HostTypeOK
<1> QED
  BY <1>1, <1>2 DEF StartSaved

LEMMA DisableSoundly ==
  ASSUME HostIInv, NEW s \in Sessions, Disable(s)
  PROVE  HostIInv'
<1>t. host[s] \in Schedulers /\ granted \in Nat
  BY HostBounds DEF HostIInv, HostTypeOK
<1> DEFINE h == IF host[s].at # 0 THEN Invalidated(host[s]) ELSE host[s]
<1>1. h \in Schedulers /\ h.at = 0
  BY <1>t, Stops
<1>2. /\ Become(s, h) /\ Disown(s, h) /\ permit' = 0 /\ scoped' = 0
      /\ UNCHANGED <<granted, deployed, up, code, shot, command, reload>>
  BY DEF Disable
<1>3. spent' \in Counts /\ (Undisturbed' => Undisturbed)
  BY Counted DEF Disable, Types, HostIInv, Undisturbed
<1> HIDE DEF h
<1>4. /\ tick' \in [Sessions -> Ticks]
      /\ \A o \in Sessions : tick'[o].at = tick[o].at /\ tick'[o].stage = tick[o].stage
  BY <1>1, <1>2, Disowned DEF HostIInv
<1> QED
  BY <1>1, <1>2, <1>3, <1>4, Turn DEF HostIInv, HostTypeOK

-----------------------------------------------------------------------------
(* The one-shot tick holds the lock while nothing else does.               *)

LEMMA ShotsSoundly ==
  ASSUME HostIInv, NEW s \in Sessions, RunOnce(s) \/ ShotStep(s)
  PROVE  HostIInv'
<1>t. /\ granted \in Nat /\ MaxGrants \in Nat /\ scoped \in Numbers /\ permit \in Numbers
      /\ shot \in [Sessions -> Shots] /\ lock \in Sessions \cup {Free} /\ NoShot \in Shots
  BY HostBounds DEF HostIInv, HostTypeOK, NoShot, Shots, ShotStages, Numbers
<1>u. UNCHANGED <<permit, deployed, up, code, host, tick, command, reload>>
  BY DEF RunOnce, ShotStep
<1>c. spent' \in Counts /\ (Undisturbed' => Undisturbed)
  BY Counted DEF RunOnce, Types, ShotStep, ShotIssues, ShotReconciles, ShotSelects,
                 ShotEnds, HostIInv, Undisturbed
<1>w. WorksForItsRun'
  BY <1>u, <1>c DEF HostIInv, HostInv, WorksForItsRun
<1>h. /\ \A o \in Sessions : host[o].at # 0 => lock = o
      /\ \A o \in Sessions : shot[o] # NoShot => lock = o /\ host[o].at = 0
  BY DEF HostIInv, HostInv, LockIsHeld
<1>s. ASSUME granted' = granted, scoped' \in {scoped, 0}, shot' \in [Sessions -> Shots],
             lock' \in Sessions \cup {Free}, LockIsHeld',
             \A o \in Sessions : shot'[o].at \in {shot[o].at, 0}
      PROVE  HostIInv'
  <2>n. Numbers' = Numbers /\ scoped' \in Numbers
    BY <1>s, <1>t DEF Numbers
  <2>1. HostTypeOK'
    BY <1>s, <1>t, <1>u, <1>c, <2>n
       DEF HostIInv, HostTypeOK, Schedulers, Ticks, Shots, Commands
  <2>2. NumbersDiffer'
    BY <1>s, <1>u, NumbersStayApart
  <2> QED
    BY <1>s, <1>w, <2>1, <2>2 DEF HostIInv, HostInv
<1>1. CASE Current(s) /\ MayRunOnce /\ shot[s] = NoShot /\ granted' = granted /\ lock' = s
           /\ shot' = [shot EXCEPT ![s].stage = "issue"] /\ UNCHANGED scoped
  <2>1. shot' \in [Sessions -> Shots] /\ \A o \in Sessions \ {s} : shot'[o] = shot[o]
        /\ shot'[s].at = shot[s].at
    BY <1>1, <1>t DEF Shots, ShotStages
  <2>2. \A o \in Sessions : host[o].at = 0 /\ shot[o] = NoShot
    BY <1>1, <1>h, SessionAssumption DEF MayRunOnce
  <2>3. LockIsHeld'
    BY <1>1, <1>u, <2>1, <2>2 DEF LockIsHeld
  <2> QED
    BY <1>1, <1>s, <2>1, <2>3
<1>2. CASE ShotOver(s) /\ granted' = granted
  <2>1. /\ shot' \in [Sessions -> Shots] /\ shot'[s] = NoShot /\ scoped' = 0
        /\ \A o \in Sessions \ {s} : shot'[o] = shot[o]
        /\ lock' = IF shot[s] # NoShot THEN Free ELSE lock
    BY <1>2, <1>t DEF ShotOver
  <2>2. NoShot.at = 0
    BY Zenon DEF NoShot
  <2>3. LockIsHeld'
    BY <1>u, <1>h, <1>t, <2>1 DEF LockIsHeld
  <2>4. \A o \in Sessions : shot'[o].at \in {shot[o].at, 0}
    BY <2>1, <2>2
  <2>5. lock' \in Sessions \cup {Free}
    BY <1>t, <2>1
  <2> QED
    BY <1>2, <1>s, <2>1, <2>3, <2>4, <2>5
<1>3. CASE ShotIssues(s)
  <2>1. granted' = granted + 1 /\ scoped' = granted + 1 /\ granted < MaxGrants
        /\ lock' = lock /\ shot[s].stage = "issue"
        /\ shot' = [shot EXCEPT ![s] = [stage |-> "authority", at |-> granted + 1]]
    BY <1>3 DEF ShotIssues
  <2>2. granted' \in 0..MaxGrants /\ Numbers \subseteq Numbers' /\ scoped' \in Numbers'
    BY <1>t, <2>1 DEF Numbers
  <2>3. /\ Schedulers \subseteq Schedulers' /\ Ticks \subseteq Ticks'
        /\ Shots \subseteq Shots' /\ Commands \subseteq Commands'
    BY <2>2 DEF Schedulers, Ticks, Shots, Commands
  <2>4. [stage |-> "authority", at |-> granted + 1] \in Shots'
    BY <2>1, <2>2 DEF Shots, ShotStages
  <2>5. /\ shot' \in [Sessions -> Shots'] /\ shot'[s].at = granted + 1
        /\ \A o \in Sessions \ {s} : shot'[o] = shot[o]
    BY <1>t, <2>1, <2>3, <2>4
  <2>6. HostTypeOK'
    <3>1. /\ host' \in [Sessions -> Schedulers'] /\ tick' \in [Sessions -> Ticks']
          /\ command' \in [Sessions -> Commands'] /\ permit' \in Numbers'
      BY <1>t, <1>u, <2>2, <2>3 DEF HostIInv, HostTypeOK
    <3> QED
      BY <1>c, <1>u, <2>1, <2>2, <2>5, <3>1 DEF HostIInv, HostTypeOK
  <2>7. shot[s] # NoShot
    BY <2>1 DEF NoShot
  <2>8. LockIsHeld'
    BY <1>h, <1>u, <2>1, <2>5, <2>7 DEF LockIsHeld
  <2>9. \A o \in Sessions : tick[o].at \in Numbers
    BY DEF HostIInv, HostTypeOK, Ticks
  <2>10. NumbersDiffer'
    BY <1>t, <1>u, <2>1, <2>5, <2>9 DEF HostIInv, HostInv, NumbersDiffer, Numbers
  <2> QED
    BY <1>w, <2>6, <2>8, <2>10 DEF HostIInv, HostInv
<1>4. ASSUME NEW stage \in {"attempts", "driver"}, ShotGoes(s, stage), shot[s].stage # "none"
      PROVE  HostIInv'
  <2>1. /\ shot' \in [Sessions -> Shots] /\ shot'[s].at = shot[s].at
        /\ \A o \in Sessions \ {s} : shot'[o] = shot[o]
    BY <1>4, <1>t DEF ShotGoes, Shots, ShotStages
  <2>2. shot[s] # NoShot
    BY <1>4 DEF NoShot
  <2>3. LockIsHeld'
    BY <1>4, <1>h, <1>u, <2>1, <2>2 DEF ShotGoes, LockIsHeld
  <2> QED
    BY <1>4, <1>s, <1>t, <2>1, <2>3 DEF ShotGoes
<1>5. CASE RunOnce(s)
  BY <1>1, <1>2, <1>5 DEF RunOnce, Types
<1>6. CASE ShotStep(s)
  BY <1>2, <1>3, <1>4, <1>6 DEF ShotStep, ShotReconciles, ShotSelects, ShotEnds
<1> QED
  BY <1>5, <1>6

-----------------------------------------------------------------------------
(* New code, deaths and time.                                              *)

LEMMA ReloadSoundly ==
  ASSUME HostIInv, NEW s \in Sessions,
         AskReload(s) \/ CloseSession(s) \/ LoadSession(s) \/ StartSession(s)
  PROVE  HostIInv'
<1>t. /\ host[s] \in Schedulers /\ permit \in Numbers /\ granted \in Nat /\ deployed \in Nat \ {0}
      /\ (host[s].at # 0 => host[s].at # 0 \/ lock = Free)
  BY HostBounds DEF HostIInv, HostTypeOK
<1>u. UNCHANGED <<permit, scoped, granted, deployed, up, shot, command>>
  BY DEF AskReload, CloseSession, LoadSession, StartSession, shared
<1>c. spent' \in Counts /\ (Undisturbed' => Undisturbed)
  BY Counted DEF AskReload, Types, CloseSession, LoadSession, StartSession, HostIInv,
                 Undisturbed
<1>r. /\ reload' \in [Sessions -> {"no", "asked", "closing", "starting"}]
      /\ code' \in [Sessions -> [loaded : 1..deployed, asked : 0..deployed]]
  <2>1. reload' \in [Sessions -> {"no", "asked", "closing", "starting"}]
    BY DEF AskReload, CloseSession, LoadSession, StartSession, HostIInv, HostTypeOK
  <2>2. [loaded |-> deployed, asked |-> 0] \in [loaded : 1..deployed, asked : 0..deployed]
    BY <1>t
  <2>3. code' = code \/ code' = [code EXCEPT ![s] = [loaded |-> deployed, asked |-> 0]]
    BY DEF AskReload, CloseSession, LoadSession, StartSession
  <2>4. code \in [Sessions -> [loaded : 1..deployed, asked : 0..deployed]]
    BY DEF HostIInv, HostTypeOK
  <2>5. code' \in [Sessions -> [loaded : 1..deployed, asked : 0..deployed]]
    BY <2>2, <2>3, <2>4
  <2> QED
    BY <2>1, <2>5
<1>1. CASE UNCHANGED <<lock, host, tick>>
  <2>1. Become(s, host[s])
    BY <1>1, Stays
  <2> QED
    BY <1>1, <1>t, <1>u, <1>c, <1>r, <2>1, Turn DEF HostIInv, HostTypeOK
<1>2. CASE /\ Become(s, Stopping(host[s], Busy(s)))
           /\ Disown(s, Stopping(host[s], Busy(s)))
  <2> DEFINE busy == Busy(s)
             h == Stopping(host[s], busy)
  <2>1. h \in Schedulers /\ h.at = IF busy THEN host[s].at ELSE 0
    <3>1. busy \in BOOLEAN
      BY DEF Busy
    <3> HIDE DEF busy
    <3> QED
      BY <1>t, <3>1, Stops
  <2>2. tick[s].stage \in Working => busy
    BY DEF Busy, Working
  <2>3. Become(s, h) /\ Disown(s, h)
    BY <1>2
  <2> HIDE DEF busy, h
  <2>4. /\ tick' \in [Sessions -> Ticks]
        /\ \A o \in Sessions : tick'[o].at = tick[o].at /\ tick'[o].stage = tick[o].stage
    BY <2>1, <2>3, Disowned DEF HostIInv
  <2> QED
    BY <1>u, <1>c, <1>r, <2>1, <2>2, <2>3, <2>4, Turn DEF HostIInv, HostTypeOK
<1>3. CASE Become(s, [host[s] EXCEPT !.shown = "skipped"]) /\ tick' = tick
  <2> DEFINE h == [host[s] EXCEPT !.shown = "skipped"]
  <2>1. h \in Schedulers /\ h.at = host[s].at /\ Become(s, h)
    BY <1>3, <1>t DEF Schedulers
  <2> HIDE DEF h
  <2> QED
    BY <1>3, <1>u, <1>c, <1>r, <2>1, Turn DEF HostIInv, HostTypeOK
<1>4. CASE /\ permit # 0 /\ tick' = tick
           /\ Become(s, Starts(s, host[s], permit, FALSE, lock = Free, "nothing").host)
  <2> DEFINE busy == FALSE
             free == lock = Free
             silent == "nothing"
             h == Starts(s, host[s], permit, busy, free, silent).host
  <2>1. /\ h \in Schedulers /\ (h.at # 0 => host[s].at # 0 \/ free)
        /\ permit # 0 /\ host[s].at = permit => h.at = permit
    <3>1. busy \in BOOLEAN /\ free \in BOOLEAN /\ silent # "enabled"
      OBVIOUS
    <3> HIDE DEF busy, free, silent
    <3> QED
      BY <1>t, <3>1, StartsSoundly DEF HostIInv
  <2>2. Become(s, h)
    BY <1>4
  <2> HIDE DEF h
  <2> QED
    BY <1>4, <1>u, <1>c, <1>r, <2>1, <2>2, Turn DEF HostIInv, HostTypeOK
<1> QED
  BY <1>1, <1>2, <1>3, <1>4 DEF AskReload, CloseSession, LoadSession, StartSession

LEMMA DieSoundly ==
  ASSUME HostIInv, NEW s \in Sessions, Die(s)
  PROVE  HostIInv'
<1>t. /\ granted \in Nat /\ lock \in Sessions \cup {Free}
      /\ NoShot \in Shots /\ Idle \in Ticks /\ NoCommand \in Commands
  BY HostBounds DEF HostIInv, HostTypeOK, NoShot, Shots, ShotStages, Idle, Ticks,
                    TickStages, NoCommand, Commands, Numbers
<1>r. Resting \in Schedulers
  <2>1. 0 \in Numbers
    BY <1>t DEF Numbers
  <2> QED
    BY <2>1 DEF Resting, Schedulers
<1>u. UNCHANGED <<permit, scoped, granted, deployed, code>>
  BY DEF Die, shared
<1>c. spent' \in Counts /\ (Undisturbed' => Undisturbed)
  BY Counted DEF Die, HostIInv, Undisturbed
<1>1. /\ lock' = IF lock = s THEN Free ELSE lock
      /\ host' = [host EXCEPT ![s] = Resting] /\ tick' = [tick EXCEPT ![s] = Idle]
      /\ shot' = [shot EXCEPT ![s] = NoShot] /\ command' = [command EXCEPT ![s] = NoCommand]
      /\ reload' = [reload EXCEPT ![s] = "no"] /\ up' = up \ {s}
  BY DEF Die
<1>2. /\ host' \in [Sessions -> Schedulers] /\ tick' \in [Sessions -> Ticks]
      /\ shot' \in [Sessions -> Shots] /\ command' \in [Sessions -> Commands]
      /\ reload' \in [Sessions -> {"no", "asked", "closing", "starting"}]
  BY <1>1, <1>t, <1>r DEF HostIInv, HostTypeOK
<1>3. /\ host'[s].at = 0 /\ shot'[s] = NoShot /\ shot'[s].at = 0
      /\ tick'[s].at = 0 /\ tick'[s].stage \notin Working
  BY <1>1, <1>t DEF HostIInv, HostTypeOK, Resting, NoShot, Idle, Working
<1>4. \A o \in Sessions \ {s} :
        host'[o] = host[o] /\ tick'[o] = tick[o] /\ shot'[o] = shot[o]
  BY <1>1 DEF HostIInv, HostTypeOK
<1>5. HostTypeOK'
  <2>1. Numbers' = Numbers /\ lock' \in Sessions \cup {Free} /\ up' \subseteq Sessions
    BY <1>1, <1>t, <1>u DEF Numbers, HostIInv, HostTypeOK
  <2> QED
    BY <1>u, <1>c, <1>2, <2>1 DEF HostIInv, HostTypeOK, Schedulers, Ticks, Shots, Commands
<1>6. LockIsHeld'
  BY <1>1, <1>3, <1>4 DEF HostIInv, HostInv, LockIsHeld
<1>7. NumbersDiffer'
  BY <1>u, <1>3, <1>4 DEF HostIInv, HostInv, NumbersDiffer
<1>8. WorksForItsRun'
  BY <1>u, <1>c, <1>3, <1>4 DEF HostIInv, HostInv, WorksForItsRun
<1> QED
  BY <1>5, <1>6, <1>7, <1>8 DEF HostIInv, HostInv

LEMMA WorldSoundly ==
  ASSUME HostIInv, Deploy \/ Expire \/ \E s \in Sessions : Restart(s)
  PROVE  HostIInv'
<1>t. granted \in Nat /\ deployed \in 1..MaxVersions /\ MaxVersions \in Nat
  BY HostBounds DEF HostIInv, HostTypeOK
<1>u. /\ UNCHANGED <<permit, granted, lock, host, tick, shot, command>>
      /\ scoped' \in {scoped, 0}
  BY DEF Deploy, Expire, Restart, shared
<1>c. spent' \in Counts /\ (Undisturbed' => Undisturbed)
  BY Counted DEF Deploy, Expire, Restart, HostIInv, HostTypeOK, Undisturbed
<1>1. /\ deployed' \in 1..MaxVersions
      /\ code' \in [Sessions -> [loaded : 1..deployed', asked : 0..deployed']]
      /\ reload' \in [Sessions -> {"no", "asked", "closing", "starting"}]
      /\ up' \subseteq Sessions
  <2>1. CASE Deploy
    <3>1. [loaded : 1..deployed, asked : 0..deployed]
            \subseteq [loaded : 1..deployed', asked : 0..deployed']
      BY <1>t, <2>1 DEF Deploy
    <3> QED
      BY <1>t, <2>1, <3>1 DEF Deploy, HostIInv, HostTypeOK
  <2>2. CASE Expire
    BY <2>2 DEF Expire, HostIInv, HostTypeOK
  <2>3. ASSUME NEW s \in Sessions, Restart(s)
        PROVE  /\ deployed' \in 1..MaxVersions
               /\ code' \in [Sessions -> [loaded : 1..deployed', asked : 0..deployed']]
               /\ reload' \in [Sessions -> {"no", "asked", "closing", "starting"}]
               /\ up' \subseteq Sessions
    <3>1. [loaded |-> deployed, asked |-> 0] \in [loaded : 1..deployed, asked : 0..deployed]
      BY <1>t
    <3> QED
      BY <1>t, <2>3, <3>1 DEF Restart, shared, HostIInv, HostTypeOK
  <2> QED
    BY <2>1, <2>2, <2>3
<1>2. HostTypeOK'
  <2>1. Numbers' = Numbers /\ scoped' \in Numbers
    BY <1>t, <1>u DEF Numbers, HostIInv, HostTypeOK
  <2> QED
    BY <1>u, <1>c, <1>1, <2>1 DEF HostIInv, HostTypeOK, Schedulers, Ticks, Shots, Commands
<1>3. NumbersDiffer'
  BY <1>u DEF HostIInv, HostInv, NumbersDiffer
<1>4. LockIsHeld' /\ WorksForItsRun'
  BY <1>u, <1>c DEF HostIInv, HostInv, LockIsHeld, WorksForItsRun
<1> QED
  BY <1>2, <1>3, <1>4 DEF HostIInv, HostInv

LEMMA HostInvAlways == HostIInv /\ [HostNext]_hostVars => HostIInv'
<1> SUFFICES ASSUME HostIInv, [HostNext]_hostVars PROVE HostIInv'
  OBVIOUS
<1>1. CASE UNCHANGED hostVars
  <2>1. HostTypeOK'
    BY <1>1 DEF hostVars, HostIInv, HostTypeOK, Numbers, Schedulers, Ticks, Shots, Commands
  <2> QED
    BY <1>1, <2>1 DEF hostVars, HostIInv, HostInv, LockIsHeld, NumbersDiffer,
                      WorksForItsRun, Undisturbed
<1>2. ASSUME NEW s \in Sessions, SessionStep(s) PROVE HostIInv'
  BY <1>2, PollSoundly, TickSoundly, StartSavedSoundly, ShotsSoundly, ReloadSoundly
     DEF SessionStep
<1> QED
  BY <1>1, <1>2, SaveSoundly, DisableSoundly, ShotsSoundly, ReloadSoundly, DieSoundly,
     WorldSoundly DEF HostNext

LEMMA HostInvIsInvariant == HostSpec => []HostIInv
<1>1. HostInit => HostIInv
  BY HostInvAtFirst
<1>2. HostIInv /\ [HostNext]_hostVars => HostIInv'
  BY HostInvAlways
<1> QED
  BY <1>1, <1>2, PTL DEF HostSpec

(* The variables of the sessions keep their types.                         *)
THEOREM HostTypeSafety == HostSpec => []HostTypeOK
<1>1. HostIInv => HostTypeOK
  BY DEF HostIInv
<1> QED
  BY <1>1, HostInvIsInvariant, PTL

(* assertLocallyEnabled lets at most one of the drivers that run act: two  *)
(* ticks under the permission in force hold the one lock, a one-shot tick  *)
(* and a continuous one are never both let through, and two one-shot ticks *)
(* hold the one lock too.                                                  *)
LEMMA OneDriverActs == HostIInv => OneAuthorizedDriver
<1> SUFFICES ASSUME HostIInv, Undisturbed,
                    NEW d \in Driving, NEW e \in Driving,
                    HasAuthority(d[2]), HasAuthority(e[2])
             PROVE  d = e
  BY DEF OneAuthorizedDriver, OneAuthority, Undisturbed
<1>1. ASSUME NEW s \in Sessions, tick[s].stage = "driver", HasAuthority(tick[s].at)
      PROVE  permit # 0 /\ lock = s
  <2>1. tick[s].at = permit /\ permit # 0
    BY <1>1 DEF HasAuthority, HostIInv, HostInv, NumbersDiffer
  <2>2. host[s].at = permit
    BY <1>1, <2>1 DEF Working, HostIInv, HostInv, WorksForItsRun
  <2> QED
    BY <2>1, <2>2 DEF HostIInv, HostInv, LockIsHeld
<1>2. ASSUME NEW s \in Sessions, shot[s].stage = "driver", HasAuthority(shot[s].at)
      PROVE  permit = 0 /\ lock = s
  <2>1. permit = 0
    BY <1>2 DEF HasAuthority, HostIInv, HostInv, NumbersDiffer
  <2>2. shot[s] # NoShot
    BY <1>2 DEF NoShot
  <2> QED
    BY <2>1, <2>2 DEF HostIInv, HostInv, LockIsHeld
<1>3. ASSUME NEW f \in Driving
      PROVE  \E s \in Sessions : \/ (f = <<s, tick[s].at>> /\ tick[s].stage = "driver")
                                \/ (f = <<s, shot[s].at>> /\ shot[s].stage = "driver")
  BY DEF Driving
<1> QED
  BY <1>1, <1>2, <1>3

(* "Two scheduling authorities must never coexist": two drivers whose      *)
(* operations would both be let through never run at once.                 *)
THEOREM OneDriver == HostSpec => []OneAuthorizedDriver
BY HostInvIsInvariant, OneDriverActs, PTL
=============================================================================

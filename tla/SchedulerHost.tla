----------------------------- MODULE SchedulerHost -----------------------------
(***************************************************************************)
(* The scheduler of every Pi session on one machine, for one repository    *)
(* (the second half of src/extensions/deadloop/index.ts): when it starts,  *)
(* stops and takes in new code, what a tick may still do once it was told  *)
(* to stop, and the one tick that /deadloop-run-once may run instead.      *)
(*                                                                         *)
(* A session is one thread: it changes hands only where the code awaits.   *)
(* So a tick is a sequence of stages, one per await, and a command, a timer*)
(* or another session may act between any two.  Several sessions share the *)
(* enabled record, the one-shot record and the repository's lock; the lock *)
(* itself is SchedulerLock.                                                *)
(***************************************************************************)
EXTENDS Naturals

CONSTANTS
  Sessions,
  MaxGrants,   \* bound on the values enabledAt may take
  MaxCommands, \* bound on what people type
  MaxMishaps,  \* bound on failing calls, deaths and ticks that find a chat
  MaxVersions  \* bound on the commits of deadloop ever deployed

VARIABLES
  permit,   \* enabledAt of the enabled record, 0 when there is none
  scoped,   \* enabledAt of the one-shot record while it is valid, or 0
  granted,  \* the latest enabledAt given out
  lock,     \* the session that holds the repository's lock, or Free
  deployed, \* the commit of the deadloop checkout
  up,       \* sessions that run
  code,     \* per session: the commit it loaded, and the last it asked for
  host,     \* per session: the variables of the scheduler
  tick,     \* per session: where its tick awaits
  shot,     \* per session: where its one-shot tick awaits
  command,  \* per session: the enable command between its last two sections
  reload,   \* per session: a reload of the extension, from request to start
  spent     \* counts of what the bounds limit

ASSUME HostBounds ==
  /\ MaxGrants \in Nat /\ MaxCommands \in Nat /\ MaxMishaps \in Nat
  /\ MaxVersions \in Nat \ {0}

shared == <<permit, scoped, granted, deployed>>
hostVars == <<permit, scoped, granted, lock, deployed, up, code, host, tick,
              shot, command, reload, spent>>

Free == "free"
ASSUME SessionAssumption == Free \notin Sessions
Idle == [stage |-> "none", at |-> 0, mine |-> FALSE]
NoShot == [stage |-> "none", at |-> 0]
NoCommand == [at |-> 0, before |-> FALSE]
(* at: enabledAt of `active`, 0 when it is null.  ownsLock is true exactly *)
(* while `active` is set: every assignment of one goes with the other.     *)
Resting == [at |-> 0, timer |-> FALSE, stop |-> FALSE, pending |-> 0,
            running |-> FALSE, shown |-> ""]

TickStages == {"none", "recover", "resolve", "authority", "attempts", "driver",
               "done", "blocked"}
ShotStages == {"none", "issue", "authority", "attempts", "driver"}
Numbers == 0..granted
Schedulers == [at : Numbers, timer : BOOLEAN, stop : BOOLEAN, pending : Numbers,
               running : BOOLEAN,
               shown : {"", "not enabled", "stopped", "skipped", "waiting", "reloading"}]
Ticks == [stage : TickStages, at : Numbers, mine : BOOLEAN]
Shots == [stage : ShotStages, at : Numbers]
Commands == [at : Numbers, before : BOOLEAN]
Counts == [commands : 0..MaxCommands, mishaps : 0..MaxMishaps,
           silent : BOOLEAN, carried : BOOLEAN]

HostTypeOK ==
  /\ granted \in 0..MaxGrants /\ permit \in Numbers /\ scoped \in Numbers
  /\ lock \in Sessions \cup {Free} /\ up \subseteq Sessions
  /\ deployed \in 1..MaxVersions
  /\ code \in [Sessions -> [loaded : 1..deployed, asked : 0..deployed]]
  /\ host \in [Sessions -> Schedulers]
  /\ tick \in [Sessions -> Ticks] /\ shot \in [Sessions -> Shots]
  /\ command \in [Sessions -> Commands]
  /\ reload \in [Sessions -> {"no", "asked", "closing", "starting"}]
  /\ spent \in Counts

HostInit ==
  /\ permit = 0 /\ scoped = 0 /\ granted = 0 /\ lock = Free
  /\ deployed = 1 /\ up = Sessions
  /\ code = [s \in Sessions |-> [loaded |-> 1, asked |-> 0]]
  /\ host = [s \in Sessions |-> Resting]
  /\ tick = [s \in Sessions |-> Idle]
  /\ shot = [s \in Sessions |-> NoShot]
  /\ command = [s \in Sessions |-> NoCommand]
  /\ reload = [s \in Sessions |-> "no"]
  /\ spent = [commands |-> 0, mishaps |-> 0, silent |-> FALSE, carried |-> FALSE]

Spend(what) == spent' = [spent EXCEPT ![what] = @ + 1]
Mishap == spent.mishaps < MaxMishaps
Fault == Mishap /\ Spend("mishaps")
NoFault == UNCHANGED spent
Types(s) == /\ s \in up /\ reload[s] = "no" /\ command[s] = NoCommand
            /\ shot[s] = NoShot
            /\ spent.commands < MaxCommands /\ Spend("commands")
Current(s) == code[s].loaded = deployed

-----------------------------------------------------------------------------
(* Starting and stopping, as functions on the scheduler of one session.    *)

Busy(s) == tick[s].stage # "none"

(* finishStoppingScheduler; `running` belongs to the tick and stays.       *)
Stopped(h) == [Resting EXCEPT !.running = h.running]

(* Mutant: with a tick in flight only the timers are stopped.              *)
StoppingTimers(h, busy) ==
  IF busy THEN [h EXCEPT !.timer = FALSE, !.pending = 0, !.shown = ""]
          ELSE Stopped(h)

(* stopScheduler: with a tick in flight it only asks the tick to stop.     *)
Stopping(h, busy) ==
  IF busy THEN [h EXCEPT !.timer = FALSE, !.pending = 0, !.stop = TRUE, !.shown = ""]
          ELSE Stopped(h)

(* invalidateSchedulerRun: at once, even under a tick.                     *)
Invalidated(h) == [Stopped(h) EXCEPT !.shown = "not enabled"]

(* startScheduler: what it leaves, and whether it says that it started.    *)
Says(h, started) == [host |-> h, started |-> started]
Refuses(h, shown) == Says([h EXCEPT !.shown = shown], FALSE)

(* Its end, for a session that serves nothing: the stop it asks of a tick  *)
(* in flight is waited for only when that tick is `running`.               *)
Serves(h, at, busy, free) ==
  LET rest == Stopping(h, busy) IN
  IF rest.running THEN Says([rest EXCEPT !.pending = at], TRUE)
  ELSE IF free THEN Says([rest EXCEPT !.at = at, !.timer = TRUE], TRUE)
  ELSE Refuses(rest, "skipped")

(* silent: the check that gets no answer.                                  *)
Starts(s, h, at, busy, free, silent) ==
  IF ~Current(s) THEN Refuses(h, "stopped")
  ELSE IF silent = "preflight" THEN Refuses(h, "skipped")
  ELSE IF permit # at \/ silent = "enabled"
    THEN Refuses(Stopping(h, busy), "not enabled")
  ELSE IF h.stop THEN Says([h EXCEPT !.pending = at], TRUE)
  ELSE IF h.at # 0 THEN Says([h EXCEPT !.at = at], TRUE)
  ELSE Serves(h, at, busy, free)

(* The scheduler of s becomes h: the lock goes with `active`.              *)
LockFor(s, h) ==
  IF h.at # 0 THEN s ELSE IF host[s].at # 0 THEN Free ELSE lock
Become(s, h) == /\ host' = [host EXCEPT ![s] = h]
                /\ lock' = LockFor(s, h)
(* A run that is no longer `active` never is again.                        *)
Disown(s, h) == tick' = [tick EXCEPT ![s].mine = @ /\ h.at # 0]

(* Mutant: the start that waited for the tick is forgotten.                *)
EndsForgets(s, h, silent) ==
  LET idle == [h EXCEPT !.running = FALSE]
  IN /\ tick' = [tick EXCEPT ![s] = Idle]
     /\ Become(s, IF idle.stop THEN Stopped(idle) ELSE idle)

(* finishTick: after a stop, the start that waited for it is made now.     *)
Ends(s, h, silent) ==
  LET idle == [h EXCEPT !.running = FALSE]
      free == lock = Free \/ host[s].at # 0
  IN /\ tick' = [tick EXCEPT ![s] = Idle]
     /\ Become(s, IF ~idle.stop THEN idle
                  ELSE IF idle.pending = 0 THEN Stopped(idle)
                  ELSE Starts(s, Stopped(idle), idle.pending, FALSE, free, silent).host)

-----------------------------------------------------------------------------
(* The timer, and the stages of a tick.                                    *)

PollRevoked(s) ==
  /\ host[s].timer
  /\ \/ permit # host[s].at /\ NoFault
     \/ permit = host[s].at /\ Mishap
        /\ spent' = [spent EXCEPT !.mishaps = @ + 1, !.silent = TRUE]
  /\ Become(s, Invalidated(host[s])) /\ Disown(s, Invalidated(host[s]))
  /\ UNCHANGED <<shared, up, code, shot, command, reload>>

(* decideCodeReload asks once for each deployed commit.                    *)
AskedBefore(s) == code[s].asked = deployed

(* At the boundary of a tick, and only in a session nobody is talking to.  *)
PollStaleCode(s) ==
  /\ host[s].timer /\ permit = host[s].at /\ ~Busy(s) /\ ~Current(s)
  /\ \/ /\ AskedBefore(s) /\ NoFault
        /\ Become(s, [host[s] EXCEPT !.shown = "stopped"])
        /\ UNCHANGED <<code, reload>>
     \/ /\ ~AskedBefore(s) /\ Fault
        /\ Become(s, [host[s] EXCEPT !.shown = "waiting"])
        /\ UNCHANGED <<code, reload>>
     \/ /\ ~AskedBefore(s) /\ NoFault /\ reload[s] = "no"
        /\ code' = [code EXCEPT ![s].asked = deployed]
        /\ reload' = [reload EXCEPT ![s] = "asked"]
        /\ Become(s, [host[s] EXCEPT !.shown = "reloading"])
  /\ UNCHANGED <<shared, up, tick, shot, command>>

PollTick(s) ==
  /\ host[s].timer /\ permit = host[s].at /\ ~Busy(s) /\ Current(s)
  /\ \/ /\ NoFault
        /\ tick' = [tick EXCEPT ![s] = [stage |-> "resolve", at |-> 0, mine |-> TRUE]]
     \/ /\ Fault
        /\ tick' = [tick EXCEPT ![s] = [stage |-> "recover", at |-> permit, mine |-> TRUE]]
  /\ UNCHANGED <<shared, lock, up, code, host, shot, command, reload>>

Poll(s) == PollRevoked(s) \/ PollStaleCode(s) \/ PollTick(s)

In(s, stage) == s \in up /\ tick[s].stage = stage
Rest(s) == UNCHANGED <<shared, up, code, shot, command, reload>>
(* The tick ends, and what a pending start then meets.                     *)
End(s, h) == \/ NoFault /\ Ends(s, h, "nothing")
             \/ /\ h.stop /\ h.pending # 0 /\ Fault
                /\ \E silent \in {"preflight", "enabled"} : Ends(s, h, silent)
Goes(s, stage) ==
  tick' = [tick EXCEPT ![s].stage = stage] /\ UNCHANGED <<lock, host>>

(* The recovery that a tick whose runtime does not answer still makes.     *)
Recover(s) == In(s, "recover") /\ End(s, host[s]) /\ Rest(s)

(* activeSchedulerProject: this checkout as it is now enabled, by whomever.*)
EnabledProject == permit

(* The tick goes on with that project, when there is one.                  *)
Resolve(s) ==
  /\ In(s, "resolve")
  /\ \/ /\ EnabledProject = 0 /\ Current(s)
        /\ End(s, IF tick[s].mine THEN Invalidated(host[s]) ELSE host[s])
     \/ ~Current(s) /\ End(s, host[s])
     \/ Fault /\ Ends(s, host[s], "nothing")
     \/ /\ EnabledProject # 0 /\ Current(s)
        /\ IF EnabledProject = host[s].at THEN NoFault
           ELSE spent' = [spent EXCEPT !.carried = TRUE]
        /\ tick' = [tick EXCEPT ![s].stage = "authority", ![s].at = EnabledProject]
        /\ host' = [host EXCEPT ![s].running = TRUE]
        /\ UNCHANGED lock
  /\ Rest(s)

Authority(s) ==
  /\ In(s, "authority")
  /\ \/ NoFault /\ Goes(s, "attempts")
     \/ Fault /\ Goes(s, "blocked")
  /\ Rest(s)

(* guard                                                                   *)
StillRuns(s) == tick[s].mine /\ ~host[s].stop

(* isEnabled, asked once more before the driver is started.                *)
EntersDriver(s) == StillRuns(s) /\ permit = tick[s].at

(* Up to the driver nothing else is waited for.                            *)
Select(s) ==
  /\ In(s, "attempts")
  /\ \/ ~Current(s) /\ End(s, host[s])
     \/ Current(s) /\ Fault /\ Goes(s, "blocked")
     \/ /\ Current(s) /\ NoFault
        /\ \/ Goes(s, "done")
           \/ ~StillRuns(s) /\ Goes(s, "blocked")
           \/ EntersDriver(s) /\ Goes(s, "driver")
     \/ Current(s) /\ Fault /\ Ends(s, host[s], "nothing")
  /\ Rest(s)

DriverReturns(s) == In(s, "driver") /\ NoFault /\ Goes(s, "done") /\ Rest(s)
Finish(s) == /\ In(s, "done") \/ In(s, "blocked")
             /\ End(s, host[s]) /\ Rest(s)

TickStep(s) == \/ Recover(s) \/ Resolve(s) \/ Authority(s) \/ Select(s)
               \/ DriverReturns(s) \/ Finish(s)

-----------------------------------------------------------------------------
(* What people type.                                                       *)

(* Mutant: a new permission takes over the number of the last one.         *)
SaveReuses(s) ==
  /\ Types(s) /\ Current(s)
  /\ \A o \in Sessions : command[o] = NoCommand
  /\ permit' = IF permit # 0 THEN permit ELSE 1
  /\ granted' = IF granted = 0 THEN 1 ELSE granted
  /\ command' = [command EXCEPT ![s] = [at |-> permit', before |-> permit # 0]]
  /\ UNCHANGED <<scoped, lock, deployed, up, code, host, tick, shot, reload>>

(* Enable commands that overlap are the subject of Enablement.             *)
Save(s) ==
  /\ Types(s) /\ Current(s)
  /\ \A o \in Sessions : command[o] = NoCommand
  /\ permit = 0 => granted < MaxGrants
  /\ permit' = IF permit # 0 THEN permit ELSE granted + 1
  /\ granted' = IF permit # 0 THEN granted ELSE granted + 1
  /\ command' = [command EXCEPT ![s] = [at |-> permit', before |-> permit # 0]]
  /\ UNCHANGED <<scoped, lock, deployed, up, code, host, tick, shot, reload>>

(* A refused start takes the permission back, which only current code may. *)
TakeBack(s) == permit' = IF Current(s) /\ ~command[s].before THEN 0 ELSE permit

StartSaved(s) ==
  /\ s \in up /\ command[s] # NoCommand
  /\ command' = [command EXCEPT ![s] = NoCommand]
  /\ \/ permit # command[s].at /\ NoFault /\ UNCHANGED <<permit, lock, host, tick>>
     \/ /\ permit = command[s].at
        /\ \E silent \in {"nothing", "preflight", "enabled"} :
             LET start == Starts(s, host[s], permit, Busy(s), lock = Free, silent)
             IN /\ IF silent = "nothing" THEN NoFault ELSE Fault
                /\ Become(s, start.host) /\ Disown(s, start.host)
                /\ IF start.started THEN UNCHANGED permit ELSE TakeBack(s)
  /\ UNCHANGED <<scoped, granted, deployed, up, code, shot, reload>>

Disable(s) ==
  /\ Types(s) /\ Current(s)
  /\ permit' = 0 /\ scoped' = 0
  /\ LET h == IF host[s].at # 0 THEN Invalidated(host[s]) ELSE host[s]
     IN Become(s, h) /\ Disown(s, h)
  /\ UNCHANGED <<granted, deployed, up, code, shot, command, reload>>

-----------------------------------------------------------------------------
(* /deadloop-run-once: the same tick, without the scheduler around it.     *)

(* planOneShotTick                                                         *)
MayRunOnce == permit = 0 /\ lock = Free

(* Whatever the outcome, the one-shot record of the machine is removed.    *)
ShotOver(s) ==
  /\ scoped' = 0 /\ shot' = [shot EXCEPT ![s] = NoShot]
  /\ lock' = IF shot[s] # NoShot THEN Free ELSE lock
ShotGoes(s, stage) ==
  shot' = [shot EXCEPT ![s].stage = stage] /\ UNCHANGED <<scoped, granted, lock>>

RunOnce(s) ==
  /\ Types(s)
  /\ \/ /\ Current(s) /\ MayRunOnce
        /\ lock' = s /\ shot' = [shot EXCEPT ![s].stage = "issue"]
        /\ UNCHANGED scoped
     \/ ~(Current(s) /\ MayRunOnce) /\ ShotOver(s)
  /\ UNCHANGED <<permit, granted, deployed, up, code, host, tick, command, reload>>

(* issueOneShotExecution, once GitHub has named the host and the repository*)
ShotIssues(s) ==
  /\ shot[s].stage = "issue" /\ granted < MaxGrants /\ NoFault
  /\ granted' = granted + 1 /\ scoped' = granted'
  /\ shot' = [shot EXCEPT ![s] = [stage |-> "authority", at |-> granted']]
  /\ UNCHANGED lock

(* readValidOneShotExecution                                               *)
ShotIsValid(s) == scoped # 0 /\ scoped = shot[s].at

ShotReconciles(s) ==
  shot[s].stage = "authority" /\ NoFault /\ ShotGoes(s, "attempts")
ShotSelects(s) ==
  shot[s].stage = "attempts" /\ Current(s) /\ ShotIsValid(s)
    /\ NoFault /\ ShotGoes(s, "driver")
ShotEnds(s) ==
  /\ \/ shot[s].stage \in {"attempts", "driver"} /\ NoFault
     \/ shot[s].stage # "none" /\ Fault
  /\ ShotOver(s) /\ UNCHANGED granted

ShotStep(s) ==
  /\ s \in up
  /\ ShotIssues(s) \/ ShotReconciles(s) \/ ShotSelects(s) \/ ShotEnds(s)
  /\ UNCHANGED <<permit, deployed, up, code, host, tick, command, reload>>

-----------------------------------------------------------------------------
(* New code, deaths and time.                                              *)

Deploy ==
  /\ deployed < MaxVersions /\ deployed' = deployed + 1
  /\ UNCHANGED <<permit, scoped, granted, lock, up, code, host, tick, shot,
                 command, reload, spent>>

AskReload(s) ==
  /\ Types(s) /\ reload' = [reload EXCEPT ![s] = "asked"]
  /\ UNCHANGED <<shared, lock, up, code, host, tick, shot, command>>

(* session_shutdown waits for the tick in flight; a reload may be lost.    *)
CloseSession(s) ==
  /\ s \in up /\ reload[s] = "asked" /\ command[s] = NoCommand /\ shot[s] = NoShot
  /\ \/ /\ NoFault /\ reload' = [reload EXCEPT ![s] = "closing"]
        /\ Become(s, Stopping(host[s], Busy(s)))
        /\ Disown(s, Stopping(host[s], Busy(s)))
     \/ /\ Fault /\ reload' = [reload EXCEPT ![s] = "no"]
        /\ UNCHANGED <<lock, host, tick>>
  /\ UNCHANGED <<shared, up, code, shot, command>>

LoadSession(s) ==
  /\ s \in up /\ reload[s] = "closing" /\ ~Busy(s)
  /\ reload' = [reload EXCEPT ![s] = "starting"]
  /\ code' = [code EXCEPT ![s] = [loaded |-> deployed, asked |-> 0]]
  /\ NoFault /\ UNCHANGED <<shared, lock, up, host, tick, shot, command>>

StartSession(s) ==
  /\ s \in up /\ reload[s] = "starting"
  /\ reload' = [reload EXCEPT ![s] = "no"]
  /\ \/ permit = 0 /\ NoFault /\ UNCHANGED <<lock, host>>
     \/ Fault /\ Become(s, [host[s] EXCEPT !.shown = "skipped"])
     \/ /\ permit # 0 /\ NoFault
        /\ Become(s, Starts(s, host[s], permit, FALSE, lock = Free, "nothing").host)
  /\ UNCHANGED <<shared, up, code, tick, shot, command>>

Die(s) ==
  /\ s \in up /\ Fault
  /\ up' = up \ {s}
  /\ lock' = IF lock = s THEN Free ELSE lock
  /\ host' = [host EXCEPT ![s] = Resting] /\ tick' = [tick EXCEPT ![s] = Idle]
  /\ shot' = [shot EXCEPT ![s] = NoShot]
  /\ command' = [command EXCEPT ![s] = NoCommand]
  /\ reload' = [reload EXCEPT ![s] = "no"]
  /\ UNCHANGED <<shared, code>>

Restart(s) ==
  /\ s \notin up /\ up' = up \cup {s}
  /\ code' = [code EXCEPT ![s] = [loaded |-> deployed, asked |-> 0]]
  /\ reload' = [reload EXCEPT ![s] = "starting"]
  /\ UNCHANGED <<shared, lock, host, tick, shot, command, spent>>

Expire ==
  /\ scoped # 0 /\ Fault /\ scoped' = 0
  /\ UNCHANGED <<permit, granted, lock, deployed, up, code, host, tick, shot,
                 command, reload>>

SessionStep(s) ==
  Poll(s) \/ TickStep(s) \/ StartSaved(s) \/ ShotStep(s) \/ CloseSession(s)
    \/ LoadSession(s) \/ StartSession(s)

HostNext ==
  \/ Deploy \/ Expire
  \/ \E s \in Sessions :
       \/ SessionStep(s) \/ Save(s) \/ Disable(s) \/ RunOnce(s) \/ AskReload(s)
       \/ Die(s) \/ Restart(s)

(* The interval timer keeps firing, and every call a session awaits has a  *)
(* time limit.  Nobody has to type, deploy or restart anything.            *)
HostFairness ==
  \A s \in Sessions :
    /\ WF_hostVars(Poll(s)) /\ WF_hostVars(TickStep(s))
    /\ WF_hostVars(StartSaved(s)) /\ WF_hostVars(ShotStep(s))
    /\ WF_hostVars(CloseSession(s) \/ LoadSession(s) \/ StartSession(s))

HostSpec == HostInit /\ [][HostNext]_hostVars /\ HostFairness

-----------------------------------------------------------------------------
(* Correctness.                                                            *)

(* assertLocallyEnabled: a one-shot counts only where nothing is enabled.  *)
HasAuthority(at) == at # 0 /\ (permit = at \/ (permit = 0 /\ scoped = at))

Driving == {<<s, tick[s].at>> : s \in {s \in Sessions : tick[s].stage = "driver"}}
           \cup {<<s, shot[s].at>> : s \in {s \in Sessions : shot[s].stage = "driver"}}

(* "Two scheduling authorities must never coexist" (index.ts, run-once).   *)
OneAuthority ==
  \A d, e \in Driving : HasAuthority(d[2]) /\ HasAuthority(e[2]) => d = e

(* Two drivers whose guarded operations would both be let through never    *)
(* run at once, in one session or in two, continuous or one-shot, as long  *)
(* as no check of the enabled record went unanswered under a tick, and no  *)
(* tick took over a record saved after its run had been started.           *)
OneAuthorizedDriver == ~spent.silent /\ ~spent.carried => OneAuthority

(* Once nothing is enabled, every scheduler lets the repository go.        *)
StopFreesTheRepository ==
  permit = 0 ~> (permit # 0 \/ \A s \in Sessions : host[s].at = 0)

(* The start that a tick not yet `running` turns into a stop.              *)
LateStart(s) == host[s].timer /\ host[s].stop
Looks(s) == tick[s].stage \in {"driver", "done"}
Promised(s) == host[s].at # 0 \/ host[s].pending # 0
ShownAsOff(s) == host[s].shown \in {"stopped", "skipped", "not enabled"}

(* Whoever serves a repository that stays enabled, or was promised to,     *)
(* comes to look for work, or its status line says that it does not.       *)
ServedOrShown ==
  \A s \in Sessions :
    Promised(s) ~> \/ Looks(s) \/ permit = 0 \/ s \notin up
                   \/ ShownAsOff(s) \/ LateStart(s)

(* The same without the exception: an enable that reported success lasts.  *)
StartedIsServed ==
  \A s \in Sessions :
    Promised(s) ~> Looks(s) \/ permit = 0 \/ s \notin up \/ ShownAsOff(s)
=============================================================================

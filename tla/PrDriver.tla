------------------------------- MODULE PrDriver -------------------------------
(***************************************************************************)
(* One run of pr-reviewer-driver.cts on the pull request, when nothing is  *)
(* handed over: the request it selects, the requests it only redirects,    *)
(* and the launch.  A consumption that does not end is PrRequest's; here it*)
(* is one step, after which the pull request shows the claim alone.        *)
(***************************************************************************)
EXTENDS PrAuthority

Shown == Exposed(pr.labels, pr.born)
Request == SelectPrRequest(Shown)
(* A claim beside an attempt that still owns its work is not a candidate.  *)
Selectable == /\ Open /\ Waiting(Shown) /\ "blocked" \notin Shown
              /\ ~("progress" \in Shown /\ Owners # {})

(* A review of this head asked for a repair, and none was recorded since.  *)
PersistedRepairContract ==
  \E a \in AttemptIds : /\ attempts[a].report = "changes_requested" /\ said[a].result > 0
                        /\ attempts[a].head = pr.head
RepairOutcomeAlreadyRecorded ==
  \E a \in AttemptIds : /\ attempts[a].role = "review-repair" /\ attempts[a].head = pr.head
                        /\ said[a].result + said[a].block > 0
(* Branch updates already tried on this head and base; one may be tried    *)
(* again when every one of them was stopped for want of a report.          *)
PairAttempts == {a \in AttemptIds : /\ attempts[a].role = "branch-update"
                                    /\ attempts[a].phase # "unused"
                                    /\ attempts[a].head = pr.head /\ attempts[a].base = pr.base}
Restartable(a) == attempts[a].phase = "authority_released" /\ attempts[a].stopped
PairForgotten == FALSE      \* mutant: the pair's earlier attempts do not count
PairWasAttempted == PairAttempts # {} /\ ~(\A a \in PairAttempts : Restartable(a))

Redirect(new) == /\ pr' = [Edited(pr, new) EXCEPT !.history = @ + 1]
                 /\ UNCHANGED <<said, attempts>>
LaunchOf(l) ==
  CASE l = "review" /\ pr.conflict     -> "to_update"
    [] l = "update" /\ ~pr.conflict    -> "to_review"
    [] l = "implement" /\ (~PersistedRepairContract \/ RepairOutcomeAlreadyRecorded) -> "to_review"
    [] l = "update" /\ pr.conflict /\ PairWasAttempted -> "to_block"
    [] OTHER -> "launch"
RedirectRequest ==
  /\ At("drive") /\ Selectable /\ Go("idle") /\ Smooth
  /\ \/ LaunchOf(Request) = "to_update" /\ Redirect({"update"})
     \/ LaunchOf(Request) = "to_review" /\ Redirect({"review"})
     \/ LaunchOf(Request) = "to_block"  /\ Redirect({"blocked"})

-----------------------------------------------------------------------------
(* releaseStoppedAttemptWorkspace: a released attempt's workspace is closed*)
(* for the next; any other open one refuses the launch, after the claim.   *)
OpenOwner == \E a \in Owners : attempts[a].open
Fresh(a) == attempts[a].phase = "unused" /\ \A b \in AttemptIds : b < a => attempts[b].phase # "unused"
Claim == Edited(pr, {"progress"})
(* A branch update says that it starts.                                    *)
Starting(p, l) == IF l = "update" THEN [p EXCEPT !.history = @ + 1] ELSE p
Launched == [Unused EXCEPT
  !.phase = "agent_started", !.role = RoleOf(Request), !.head = pr.head, !.base = pr.base,
  !.born = pr.born[Request], !.history = pr.history, !.agent = "working",
  !.auto = host.auto, !.open = TRUE, !.handoff = TRUE]
NeverLaunched == [Unused EXCEPT
  !.phase = "never_launched", !.role = RoleOf(Request), !.head = pr.head, !.base = pr.base,
  !.born = pr.second]

Launch == \E a \in AttemptIds :
  /\ At("drive") /\ Selectable /\ LaunchOf(Request) = "launch" /\ Fresh(a)
  /\ Spend("attempts", MaxAttempts) /\ Go("idle") /\ UNCHANGED said
  /\ IF OpenOwner
     THEN /\ pr' = Claim
          /\ attempts' = [attempts EXCEPT ![a] = NeverLaunched]
     ELSE /\ pr' = Starting(Claim, Request)
          /\ attempts' = [b \in AttemptIds |->
               CASE b = a -> Launched
                 [] b # a /\ attempts[b].open -> [attempts[b] EXCEPT !.open = FALSE]
                 [] OTHER -> attempts[b]]

NothingToDrive ==
  /\ At("drive") /\ Go("idle") /\ UNCHANGED <<pr, said, attempts>> /\ Smooth
  /\ Selectable => LaunchOf(Request) = "launch" /\ spent.attempts = MaxAttempts

Driver == RedirectRequest \/ Launch \/ NothingToDrive
=============================================================================

----------------------------- MODULE PullRequest -----------------------------
(***************************************************************************)
(* The labels of a pull request and what deadloop reads from them: the     *)
(* Agent requests and the order they are consumed in                       *)
(* (src/pr-request-selection.cts), the block that stops a pull request and *)
(* the request that answers it.                                            *)
(*                                                                         *)
(* GitHub's event list is kept as one number per label: the second of its  *)
(* newest `labeled` event, 0 when there is none.  Labels that one edit adds*)
(* share their second, and no label is added twice within one, so the      *)
(* number is also the identity of that event.  Removing a label leaves it. *)
(***************************************************************************)
EXTENDS Naturals, FiniteSets

Roles    == {"branch-update", "review-repair", "reviewer"}
Requests == {"update", "implement", "review"}
Labels   == Requests \cup {"progress", "blocked"}
RequestOf == [r \in Roles |-> CASE r = "branch-update" -> "update"
                                [] r = "review-repair" -> "implement"
                                [] r = "reviewer"      -> "review"]
RoleOf(l) == CHOOSE r \in Roles : RequestOf[r] = l

(* A branch update first, then a repair, the review last.                  *)
SelectPrRequest(shown) ==
  IF "update" \in shown THEN "update"
  ELSE IF "implement" \in shown THEN "implement" ELSE "review"
Waiting(shown) == shown \cap Requests # {}

(* A stopped pull request holds no request and no claim.                   *)
Blocked(shown) == {"blocked"}

(* A request answers a block only when it is strictly later.               *)
PostBlockRequestIsEligible(l, born) == born["blocked"] # 0 /\ born[l] > born["blocked"]

(* What selection sees: one eligible request hides the block.              *)
Exposed(shown, born) ==
  IF \E l \in shown \cap Requests : PostBlockRequestIsEligible(l, born)
  THEN shown \ {"blocked"} ELSE shown

(* What reconciliation decides about a pull request nobody finished:       *)
(* runtime is what the execution runtime answers for the attempts on it,   *)
(* newer whether a request came after every recorded launch failure.       *)
ReconcilePrWorkAuthority(runtime, refused, failures, newer, storage) ==
  CASE runtime \in {"running", "ambiguous"}    -> "keep_active"
    [] runtime = "stopped" /\ refused          -> "block"
    [] failures /\ ~newer                      -> "block"
    [] storage                                 -> "block"
    [] runtime = "unobservable"                -> "block"
    [] runtime = "absent" /\ ~newer            -> "block"
    [] OTHER                                   -> "restore_request"
(* The request label a stopped attempt returns its pull request to.        *)
RestoredRequest(r) == IF r = "branch-update" THEN "update" ELSE "review"
RestoreRequestLabels(shown, roles) ==
  (shown \cap Requests) \cup {RestoredRequest(r) : r \in roles}

(* The second of a label that an edit at this second may add.              *)
Stamped(born, old, new, second) ==
  [l \in Labels |-> IF l \in new \ old THEN second ELSE born[l]]
=============================================================================

-------------------------- MODULE VerificationPolicy --------------------------
(***************************************************************************)
(* What an attempt's required verification is bound to                     *)
(* (src/worker-required-verification-runtime.cjs).  The contract is fixed  *)
(* when the attempt is launched: the trusted base revision and the command *)
(* with its source.  It is kept twice, in the attempt's journal, which the *)
(* agent can write, and in a snapshot of the host, written once.  The      *)
(* record of a check is also kept twice, beside the journal and as a       *)
(* host file whose name the record carries: a record is authentic when     *)
(* both say the same.                                                      *)
(*                                                                         *)
(* A policy is known by what the comparison with the contract tells apart: *)
(* whether the base still is the contract's (the shared policy is read at  *)
(* the contract's own base and cannot change), and whether the operator's  *)
(* configuration yields the same command, another one, or cannot be read.  *)
(***************************************************************************)
EXTENDS Naturals, FiniteSets

CONSTANTS
  Commits,   \* what the branch of the attempt may point to
  Start,     \* the attempt's input revision
  Passing,   \* the commits whose tree passes the command
  Straying   \* the commits that do not descend from the input revision

ASSUME CommitAssumption ==
  /\ Start \in Commits \ Straying
  /\ Passing \subseteq Commits /\ Straying \subseteq Commits

None == "none"
ASSUME NoneAssumption == None \notin Commits

Outcomes == {"passed", "failed", "timed_out", "interrupted"}
(* A record names the commit it is bound to; by_host is whether the host   *)
(* wrote it, with its twin among the evidence.                             *)
Records == [of : Commits, outcome : Outcomes, by_host : BOOLEAN]
NoRecord == [of |-> Start, outcome |-> "none", by_host |-> FALSE]

Policies == [base : {"fixed", "moved"}, config : {"same", "other", "malformed"}]
Contract == [base |-> "fixed", config |-> "same"]

(* What a stop says of a policy that is not the contract any more: what it *)
(* inspected, or the contract's own sources when nothing could be selected.*)
Scope(p) == IF p.base = "moved" \/ p.config = "malformed" THEN "fixed" ELSE "current"
Current(p) == p = Contract

Authentic(r, evidence) == r.by_host /\ r \in evidence

Bound(r, commit) == r.of = commit
ExactPassed(r, commit) == r.outcome = "passed" /\ Bound(r, commit)

(* intact: the journal's contract is the snapshot's.                       *)
Authorized(intact, p, r, evidence, commit) ==
  intact /\ Current(p) /\ ExactPassed(r, commit) /\ Authentic(r, evidence)
=============================================================================

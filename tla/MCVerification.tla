---------------------------- MODULE MCVerification ----------------------------
(* Model-checking instance: one attempt up to its push or its approval, or *)
(* the reviews that follow each other on one pull request whose checks may *)
(* fail.  The two share no state; the initial state says which is checked, *)
(* and the other rests: no step of it, and nothing fair, is enabled.       *)
EXTENDS RequiredVerification, CiFallback

VARIABLE part
MCFits == {<<1, 1>>, <<2, 2>>}

RestingAttempt ==
  /\ attempt = [role |-> "worker", intact |-> TRUE, tracked |-> FALSE]
  /\ policy = Contract /\ report = Start /\ record = NoRecord /\ evidence = {}
  /\ tree = [head |-> Start, clean |-> TRUE, scratch |-> "home"]
  /\ check = NoCheck /\ run = [Rest("worker") EXCEPT !.pc = "done"]
  /\ target = [open |-> FALSE, active |-> FALSE, blocked |-> FALSE,
               said |-> {}, told |-> {}]
  /\ remote = None /\ ran = {}
  /\ spent = [acts |-> 0, moves |-> 0, faults |-> 0, runs |-> 0]
RestingFallback ==
  /\ tip = 1 /\ pull = [head |-> 1, checks |-> "absent", label |-> "merged"]
  /\ review = [head |-> 1, base |-> 1, open |-> FALSE]
  /\ FallbackRest

MCInit == \/ part = "attempt" /\ Init /\ RestingFallback
          \/ part = "fallback" /\ RestingAttempt /\ FallbackInit
MCNext == /\ UNCHANGED part
          /\ \/ part = "attempt" /\ Next /\ UNCHANGED fallbackVars
             \/ part = "fallback" /\ FallbackNext /\ UNCHANGED vars
MCSpec == MCInit /\ [][MCNext]_<<vars, fallbackVars, part>>
          /\ Fairness /\ FallbackFairness
=============================================================================

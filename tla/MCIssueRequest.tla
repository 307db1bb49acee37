--------------------------- MODULE MCIssueRequest ---------------------------
(* Model-checking instances of IssueRequest: every host has an identity of *)
(* its own.                                                                *)
EXTENDS IssueRequest, TLC

MCLogin  == [h \in Hosts |-> h]
HostsAreAlike == Permutations(Hosts)
=============================================================================

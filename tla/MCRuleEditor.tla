---------------------------- MODULE MCRuleEditor ----------------------------
(* Values for the constants of RuleEditor in the model-checking runs.      *)
EXTENDS RuleEditor

CONSTANTS p1, p2, r1, r2, r3, open, ssh

\* A rule in force and one for SSH that is paused: switching it on is a trial.
TwoRules == <<[id |-> r1, says |-> open, enabled |-> TRUE], [id |-> r2, says |-> ssh, enabled |-> FALSE]>>
=============================================================================

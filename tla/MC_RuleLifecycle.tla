-------------------------- MODULE MC_RuleLifecycle --------------------------
(* Two rules, two triggers and one group, on which TLC explores RuleLifecycle. *)
EXTENDS RuleLifecycle, TLC

CONSTANTS r1, r2, a, b, g

Symmetric == Permutations({r1, r2}) \cup Permutations({a, b})
=============================================================================

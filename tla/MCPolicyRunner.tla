--------------------------- MODULE MCPolicyRunner ---------------------------
(***************************************************************************)
(* Instances of PolicyRunner for TLC.                                      *)
(***************************************************************************)
EXTENDS PolicyRunner

Basic(m, rl, el) == [custom |-> FALSE, max |-> m, retryRateLimits |-> rl, maxElapsed |-> el]

\* A policy of the caller's own; BasicPolicy's settings mean nothing to it.
Own == [custom |-> TRUE, max |-> 0, retryRateLimits |-> FALSE, maxElapsed |-> FALSE]

BasicPolicies == {Basic(2, TRUE, FALSE), Basic(0, FALSE, TRUE)}
AllPolicies == BasicPolicies \cup {Own}
=============================================================================

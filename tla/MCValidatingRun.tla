-------------------------- MODULE MCValidatingRun --------------------------
(***************************************************************************)
(* Instances of ValidatingRun for TLC.                                     *)
(***************************************************************************)
EXTENDS ValidatingRun

Template == <<"A", "B">>

\* No repair; a repair that a hook may refuse; one with each kind of fallback.
RepairConfigs ==
  {[max |-> 0, continue |-> TRUE, fallback |-> FALSE, onError |-> FALSE, hook |-> FALSE],
   [max |-> 1, continue |-> TRUE, fallback |-> FALSE, onError |-> FALSE, hook |-> TRUE],
   [max |-> 1, continue |-> TRUE, fallback |-> TRUE, onError |-> TRUE, hook |-> FALSE]}

RepairSpecs ==
  {[template |-> Template, required |-> TRUE, max |-> r.max, continue |-> r.continue,
    fallback |-> r.fallback, onError |-> r.onError, hook |-> r.hook] : r \in RepairConfigs}

\* The template's headings in order, and out of order.
SomeArtifacts ==
  {[readable |-> TRUE, headings |-> <<"A", "B">>, slots |-> FALSE],
   [readable |-> TRUE, headings |-> <<"B", "A">>, slots |-> FALSE]}
=============================================================================

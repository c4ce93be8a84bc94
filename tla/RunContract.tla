---------------------------- MODULE RunContract ----------------------------
(***************************************************************************)
(* What every run handle of agentwrap promises to its caller (the Run      *)
(* interface of runtime.go).  A handle has one outcome, fixed once; Wait   *)
(* unblocks on the done channel, which closes only when the outcome is     *)
(* there; the event stream is closed, and only after the outcome is fixed; *)
(* and once the context of the run is over, by Cancel, by a parent context *)
(* or by a deadline, the run ends.  Whether done or the event stream is    *)
(* closed first differs between the handles, so the contract leaves it     *)
(* open.                                                                   *)
(***************************************************************************)
CONSTANTS
  Outcomes,    \* the outcomes a run may report
  NoOutcome    \* the value of a handle that has none yet, not one of Outcomes

VARIABLES
  outcome,       \* what Wait returns
  doneClosed,    \* the done channel that Wait selects on
  eventsClosed,  \* the channel returned by Events
  stopAsked      \* the context of the run is over

contractVars == <<outcome, doneClosed, eventsClosed, stopAsked>>

Init ==
  /\ outcome = NoOutcome
  /\ doneClosed = FALSE
  /\ eventsClosed = FALSE
  /\ stopAsked = FALSE

\* The context ends: a caller's Cancel, a parent context or a deadline.
AskStop ==
  /\ ~stopAsked
  /\ stopAsked' = TRUE
  /\ UNCHANGED <<outcome, doneClosed, eventsClosed>>

\* The run stores its result.
Settle(o) ==
  /\ outcome = NoOutcome
  /\ outcome' = o
  /\ UNCHANGED <<doneClosed, eventsClosed, stopAsked>>

CloseDone ==
  /\ outcome # NoOutcome
  /\ ~doneClosed
  /\ doneClosed' = TRUE
  /\ UNCHANGED <<outcome, eventsClosed, stopAsked>>

CloseEvents ==
  /\ outcome # NoOutcome
  /\ ~eventsClosed
  /\ eventsClosed' = TRUE
  /\ UNCHANGED <<outcome, doneClosed, stopAsked>>

SettleAny == \E o \in Outcomes : Settle(o)

Next == AskStop \/ SettleAny \/ CloseDone \/ CloseEvents

SafeSpec == Init /\ [][Next]_contractVars

\* A run whose context is over ends; what has settled gets closed.
Fairness ==
  /\ WF_contractVars(stopAsked /\ SettleAny)
  /\ WF_contractVars(CloseDone)
  /\ WF_contractVars(CloseEvents)

Spec == SafeSpec /\ Fairness
=============================================================================

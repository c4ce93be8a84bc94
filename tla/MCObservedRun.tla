--------------------------- MODULE MCObservedRun ---------------------------
(***************************************************************************)
(* Instances of ObservedRun for TLC.                                       *)
(***************************************************************************)
EXTENDS ObservedRun

\* Progress, and lifecycle events with a status that is terminal or not; without raw
\* data, with some of what the log may have in these instances, and with all of it.
Progress  == [droppable |-> TRUE, status |-> "none", raw |-> 1]
Running   == [droppable |-> FALSE, status |-> "running", raw |-> 2]
Completed == [droppable |-> FALSE, status |-> "completed", raw |-> 0]

ThreeEvents == <<{Completed}, {Running}, {Progress}>>
OneEvent == <<{Progress, Running, Completed}>>

\* A long stream with one call of Wait, or a short one with two, or with two stops.
load(e, w, s) == [events |-> e, waits |-> w, stops |-> s]
LongOrContended == {load(3, 1, 1), load(1, 2, 1), load(1, 1, 2)}
Single == {load(1, 1, 0)}

\* A limit that is disabled.
Unlimited == -1
=============================================================================

--------------------------- MODULE MCOpenCodeRun ---------------------------
(***************************************************************************)
(* Instances of OpenCodeRun for TLC: the scripts the native process plays. *)
(***************************************************************************)
EXTENDS OpenCodeRun, TLC

\* Every sequence of at most n records of the given kinds.
upTo(n, kinds) == UNION {[1 .. k -> kinds] : k \in 0 .. n}

\* Records before and after a final result, and undecodable lines.
OutputScripts == upTo(2, {"message", "final", "malformed"})

\* The kinds of evidence a record can be of, alone and around a final result.
EvidenceScripts == upTo(1, NativeKind) \cup {<<"final", "fatal">>, <<"final", "fatal_rate">>}

\* A process that only finishes, and one that says nothing.
ShortScripts == {<<>>, <<"final">>}

\* More events, with those of StartRun, than the channel holds.
OverflowScripts == {<<"message", "final">>}

\* Output with an undecodable line in it.
MalformedScripts == {<<"malformed", "message", "message">>, <<"malformed">>}

\* Callers of Cancel are all alike (for runs that check invariants only).
CallerSymmetry == Permutations(Callers)
=============================================================================

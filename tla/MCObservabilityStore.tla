----------------------- MODULE MCObservabilityStore -----------------------
(***************************************************************************)
(* A store of two events, two threads, and three events recorded: enough   *)
(* for an eviction between any two steps of a request.                     *)
(***************************************************************************)
EXTENDS ObservabilityStore

MCVerticals == {"mobility"}
MCIds == {"c1"}
MCLimits == {0, 1, 2}

MCKind(v, ok, c) == [vertical |-> v, ok |-> ok, conversation_id |-> c]

\* A success, a failure of the same vertical with an empty conversation id, and
\* a call of an unknown tool.
MCKinds == {MCKind("mobility", TRUE, "c1"), MCKind("mobility", FALSE, Blank),
            MCKind(None, FALSE, "c1")}
=============================================================================

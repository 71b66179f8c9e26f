--------------------------- MODULE MCZoneWorkflow ---------------------------
(* Model checking of ZoneWorkflow: a cut of the default workflow with one    *)
(* state the lifecycle does not have, and the edits that matter: one that    *)
(* drops states, one without any transition, one that is not valid.          *)
EXTENDS ZoneWorkflow, TLC

CONSTANTS d1, d2

MCDocs == {d1, d2}
MCTechStates == {"INPUT", "INDEXED"}
MCSeedStates == <<"INPUT", "INDEXED", "ON_HOLD">>
MCSeedTransitions == <<<<"INPUT", "INDEXED">>, <<"INDEXED", "ON_HOLD">>>>
MCGoals == {"INDEXED", "ON_HOLD", "FILED"}

Filing == [states |-> {"INPUT", "FILED"}, default |-> "INPUT",
           transitions |-> {<<"INPUT", "FILED">>}]
NoMoves == [states |-> {"FILED", "INDEXED"}, default |-> "FILED", transitions |-> {}]
Dangling == [states |-> {"INPUT"}, default |-> "FILED", transitions |-> {<<"INPUT", "FILED">>}]
MCEdits == {Filing, NoMoves, Dangling}

Symmetry == Permutations(MCDocs)
=============================================================================

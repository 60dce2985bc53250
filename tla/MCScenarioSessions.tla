------------------------ MODULE MCScenarioSessions ------------------------
(* Three scenarios: one whose second step is prepared by a goroutine, one   *)
(* whose second step is prepared within the answer, and one of three steps, *)
(* with a gap in their orders, with crash traps and without scripts.        *)
EXTENDS ScenarioSessions, TLC

MCScenarios ==
    {[kind |-> (0 :> "terminal") @@ (1 :> "info"), scripted |-> {0, 1}, slow |-> {1}, traps |-> FALSE],
     [kind |-> (0 :> "quiz") @@ (2 :> "flag"), scripted |-> {2}, slow |-> {}, traps |-> FALSE],
     [kind |-> (0 :> "terminal") @@ (1 :> "flag") @@ (3 :> "quiz"), scripted |-> {}, slow |-> {}, traps |-> TRUE]}

============================================================================

----------------------------- MODULE MCCouncil -----------------------------
(* The seats' poll and the chamber for TLC, one of them at a time: they share *)
(* nothing, so the scene picked at the start is all that moves.               *)
EXTENDS Council, Chamber, TLC

VARIABLE scene
sceneVars == <<scene, councilVars, chamberVars>>

\* The code seat off the box, where COUNCIL_LANE_MAP may put it.
MCFamily == ("heretic" :> "heretic" @@ "code" :> "codestral" @@ "mlx" :> "qwen")
MCShared == ("heretic" :> {"qwen"} @@ "code" :> {} @@ "mlx" :> {})

SceneInit ==
    /\ scene \in {"poll", "chamber"} /\ CouncilInit /\ ChamberInit
    /\ scene = "chamber" => attests /\ names /\ strict /\ concurrency = 0 /\ points = Family /\ healthy = Seats
SceneNext ==
    /\ UNCHANGED scene
    /\ \/ scene = "poll" /\ CouncilNext /\ UNCHANGED chamberVars
       \/ scene = "chamber" /\ ChamberNext /\ UNCHANGED councilVars

\* The threads run, and every wait of theirs has a time limit.
SceneSpec ==
    /\ SceneInit /\ [][SceneNext]_sceneVars
    /\ WF_sceneVars(scene = "poll" /\ Chair /\ UNCHANGED <<scene, chamberVars>>)
    /\ \A s \in Seats : WF_sceneVars(scene = "poll" /\ Request(s) /\ UNCHANGED <<scene, chamberVars>>)

\* However the seats fail and wait for each other, the poll comes to an end:
\* every seat reports and the command gives its verdict.
EverySeatReports == scene = "poll" ~> verdict # "open"
=============================================================================

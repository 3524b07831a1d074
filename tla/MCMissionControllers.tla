------------------------ MODULE MCMissionControllers ------------------------
(* Values of the constants of MissionControllers for TLC.                     *)
EXTENDS MissionControllers, TLC

CONSTANTS m1, m2, r1, r2

\* One mission, to be resumed between its actions: the controllers differ in
\* charging, and only a trolley has an active action.
OneMission == m1 :> <<"charge", "trolley">>
OneRobot == {m1 :> r1}

\* Two short ones, for one robot, which must do both, or for two of them.
TwoMissions == (m1 :> <<"charge">>) @@ (m2 :> <<"move">>)
OneOrTwoRobots == {(m1 :> r1) @@ (m2 :> r1), (m1 :> r1) @@ (m2 :> r2)}

=============================================================================

------------------------- MODULE MCRobotStateMachine -------------------------
(* Instances of RobotStateMachine for TLC.                                  *)
EXTENDS RobotStateMachine, TLC

CONSTANTS o1, o2, s1, t1, t2, t3

\* A moveTrolley order with one task; one with two tasks beside a pickPackPass
\* order; that one alone; the sub order.
MCOneTask   == o1 :> {t1}
MCTwoOrders == o1 :> {t1, t2} @@ o2 :> {t3}
MCPickOrder == o2 :> {t3}
MCNoTop     == [s \in {} |-> None]
MCPickTop   == s1 :> o2
=============================================================================

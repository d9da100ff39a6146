----------------------------- MODULE MCRobotLink -----------------------------
(* Model checking of RobotLink. *)
EXTENDS RobotLink

CONSTANTS r1, r2

MCRobots == {r1, r2}
=============================================================================

------------------------------ MODULE MCRestart ------------------------------
(* Model checking of Restart: the robots are interchangeable. *)
EXTENDS Restart, TLC

CONSTANTS r1, r2, r3, x    \* three robots of ours; x is an id config.toml does not list

MCRobots == {r1, r2, r3}
MCIds    == MCRobots \cup {x}

RobotSymmetry == Permutations(MCRobots)
=============================================================================

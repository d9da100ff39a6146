------------------------------- MODULE MCModes -------------------------------
(* Model checking of Modes: two robots and an operator with nine packets. *)
EXTENDS Modes

CONSTANTS r1, r2, x    \* our robots; x is an id config.toml does not list

MCRobots    == {r1, r2}
MCIds       == MCRobots \cup {x}
MCRobotList == <<r1, r2>>

Control(mode, running, gcData, test, ids) ==
  [mode |-> mode, running |-> running, gcData |-> gcData, test |-> test, ids |-> ids]
Packet(control, orders) == [control |-> control, orders |-> orders]

NoOrders == [r \in {} |-> DefaultOrder]
Sends     == [r \in {r1} |-> Plays]
TakesBack == [r \in {r1} |-> Order("Stop", "RecKick")]

MCPackets ==
  {Packet(Control("Manual", TRUE, TRUE, "None", << >>), Sends),
   Packet(Control("Manual", FALSE, FALSE, "None", << >>), TakesBack),
   Packet(Control("Game", TRUE, FALSE, "Kicker", <<r2, r2>>), NoOrders),
   Packet(Control("Test", FALSE, FALSE, "None", << >>), NoOrders),
   Packet(Control("Test", FALSE, FALSE, "Dribbler", << >>), NoOrders),
   Packet(Control("Test", FALSE, FALSE, "Kicker", <<x>>), NoOrders),
   Packet(Control("Test", FALSE, FALSE, "GoalShoot", <<r2>>), NoOrders),
   Packet(Control("Test", FALSE, FALSE, "Goalie", <<r2>>), NoOrders),
   Packet(Control("Test", TRUE, FALSE, "GoalieAndShoot", <<r2, r1>>), NoOrders)}

MCTeams   == {"Yellow"}
MCKeepers == {r1}
MCCommands ==
  {[kind |-> "Halt", team |-> "None"], [kind |-> "Stop", team |-> "None"],
   [kind |-> "Running", team |-> "None"], [kind |-> "PrepareKickoff", team |-> "Yellow"]}
=============================================================================

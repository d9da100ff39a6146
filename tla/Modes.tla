-------------------------------- MODULE Modes --------------------------------
(***************************************************************************)
(* The operator's interface and the modes: manual, game and test.          *)
(*                                                                         *)
(* A WebSocket task puts the operator's packet into the one slot of Events *)
(* (communication/interface.rs).  The control loop takes it at the start   *)
(* of a tick (CrashPilot::interpret, lib.rs), keeps the orders it holds    *)
(* for each robot and its interface command, and at the end of the tick    *)
(* lets the mode named there give the orders (game_logic.rs): mode_manual, *)
(* mode_game or mode_test.  The referee's half of a tick runs in every     *)
(* mode.  Both halves are those of module Restart, whose game mode this    *)
(* module puts beside the other two.                                       *)
(*                                                                         *)
(* Vision and the robots' feedback are inputs of a tick.  What a test      *)
(* makes a robot do with the ball is abstracted as in Restart: every task  *)
(* that neither kicks nor awaits the ball is "Move".                       *)
(***************************************************************************)
EXTENDS Restart, SequencesExt

CONSTANTS
  RobotList,  \* the configured robots in the order of their ids
  Packets,    \* what the operator's interface may send
  OurTeams,   \* the colours, keepers and commands the referee's packets may name:
  Keepers,    \*   bounds of the model, the program takes all of Teams, Ids and RefStates
  Commands,
  NoPacket    \* Option::None of the slot

VARIABLES
  slot,       \* Events.ws
  iface,      \* packet_buffer.interface_command
  manual,     \* robots_ws_data: the operator's last order for each robot
  goal        \* whether the command read as Halt is one of the deprecated Goal commands

modeVars == <<slot, iface, manual, goal>>
allVars  == <<vars, modeVars>>

\* CrashpilotMode; a mode this version does not know is read as "Manual".
Modes == {"Manual", "Game", "Test"}
Tests == {"None", "BallControl", "Dribbler", "Kicker", "GoalShoot", "Goalie",
          "GoalieAndShoot"}

\* CrashpilotInterfaceCommand: game.running, manual.gc_data, test.test, test.robot_ids.
Controls(idLists) ==
  [mode : Modes, running : BOOLEAN, gcData : BOOLEAN, test : Tests, ids : idLists]

DefaultOrder == Order("Halt", "Move")

\* A packet holds orders for some robots; those for robots not configured are never read.
ASSUME PacketsAssumption ==
  /\ NoPacket \notin Packets
  /\ \A p \in Packets :
       /\ p.control \in Controls({p.control.ids})
       /\ p.control.ids \in Seq(Ids)
       /\ DOMAIN p.orders \subseteq Robots
       /\ \A r \in DOMAIN p.orders : p.orders[r] \in Orders

ASSUME RobotListAssumption == Range(RobotList) = Robots /\ IsInjective(RobotList)

ASSUME RefereeAssumption ==
  OurTeams \subseteq Teams /\ Keepers \subseteq Ids /\ Commands \subseteq RefStates

\* Which mode the default of the protocol is does not matter here.
ModesInit ==
  /\ Init
  /\ slot = NoPacket
  /\ iface \in [mode : Modes, running : {FALSE}, gcData : {FALSE},
                test : {"None"}, ids : {<< >>}]
  /\ manual = [r \in Robots |-> DefaultOrder]
  /\ goal = FALSE

-----------------------------------------------------------------------------
(* Outside the tick *)

\* A packet of the operator replaces one the loop has not taken yet.  One that arrives
\* within a tick is as good as one right after it: the loop reads the slot once, at the
\* start of a tick.
Receive(p) ==
  /\ pc = "update"
  /\ slot' = p
  /\ UNCHANGED <<vars, iface, manual, goal>>

\* The program that embeds the control loop starts and stops the game between two ticks.
StartGame ==
  /\ pc = "update"
  /\ iface' = [iface EXCEPT !.mode = "Game", !.running = TRUE, !.gcData = TRUE]
  /\ UNCHANGED <<vars, slot, manual, goal>>

StopGame ==
  /\ pc = "update"
  /\ iface' = [iface EXCEPT !.running = FALSE]
  /\ UNCHANGED <<vars, slot, manual, goal>>

-----------------------------------------------------------------------------
(* First half of a tick: take the packet, read the referee *)

\* Mutation: a robot's first order is kept.
InterpretKeepingOrders ==
  IF slot = NoPacket
    THEN UNCHANGED <<iface, manual>>
    ELSE /\ iface' = slot.control
         /\ manual' = [r \in Robots |-> IF r \in DOMAIN slot.orders /\ manual[r] = DefaultOrder
                                          THEN slot.orders[r] ELSE manual[r]]

Interpret ==
  IF slot = NoPacket
    THEN UNCHANGED <<iface, manual>>
    ELSE /\ iface' = slot.control
         /\ manual' = [r \in Robots |-> IF r \in DOMAIN slot.orders
                                          THEN slot.orders[r] ELSE manual[r]]

UpdateTick ==
  /\ \E t \in OurTeams, g \in Keepers, moved \in BOOLEAN :
       \/ \E c \in Commands :
            \/ StartRestart(t, g, c)
            \/ BeginPlay(t, g, c, moved)
            \/ Interrupt(t, g, c)
       \/ KeepCommand(t, g, moved)
  /\ Interpret
  /\ slot' = NoPacket
  /\ IF isNew' THEN goal' \in {FALSE, ref'.kind = "Halt"} ELSE UNCHANGED goal

-----------------------------------------------------------------------------
(* Second half of a tick: the mode gives the orders *)

\* The referee's command is Halt or Stop itself: its number is that of a robot's state.
StillOrdered == ref.kind \in {"Halt", "Stop"} /\ ~goal

\* Mutation: the referee's Stop leaves the orders alone.
ManualInStop ==
  /\ Logic
  /\ iface.mode = "Manual"
  /\ cmd' = IF iface.gcData /\ ref.kind = "Halt" /\ ~goal
              THEN [r \in Robots |-> [manual[r] EXCEPT !.state = ref.kind]]
              ELSE manual
  /\ UNCHANGED <<prep, mirror, modeVars>>

Manual ==
  /\ Logic
  /\ iface.mode = "Manual"
  /\ cmd' = IF iface.gcData /\ StillOrdered
              THEN [r \in Robots |-> [manual[r] EXCEPT !.state = ref.kind]]
              ELSE manual
  /\ UNCHANGED <<prep, mirror, modeVars>>

\* The game goes on where its restart was when the operator left it.
Game ==
  /\ iface.mode = "Game"
  /\ IF iface.running THEN ModeGame ELSE GameNotRunning
  /\ UNCHANGED modeVars

\* clear_commands: every order of before is taken back.
Cleared == [r \in Robots |-> Order("Free", "Move")]

\* The robots a test is for, in the operator's order and as often as they were named.
Selected ==
  LET named == SelectSeq(iface.ids, LAMBDA id : id \in Robots)
  IN  IF named = << >> THEN RobotList ELSE named

Testing(tests, orders) ==
  /\ Logic
  /\ iface.mode = "Test"
  /\ iface.test \in tests
  /\ cmd' = orders
  /\ UNCHANGED <<prep, mirror, modeVars>>

TestNone == Testing({"None"}, [r \in Robots |-> Order("Halt", "Move")])

\* The selected robots dribble or drive to changing targets; the others are free too.
TestMove == Testing({"BallControl", "Dribbler"}, Cleared)

\* Two robots kick the ball to each other; a robot alone drives to the ball.
TestKicker(hasBall) ==
  Testing({"Kicker"},
    IF Len(Selected) < 2
      THEN Cleared
      ELSE LET first  == Selected[1]
               second == Selected[2]
           IN [Cleared EXCEPT
                 ![first].task  = IF first \in hasBall THEN "Kick" ELSE "Move",
                 ![second].task = IF first \in hasBall THEN "RecKick"
                                  ELSE IF second \in hasBall THEN "Kick" ELSE "Move"])

\* shoot_to_goal for the n-th robot named, if it is configured and in view.
Shooting(orders, n, visible) ==
  IF Len(iface.ids) >= n /\ iface.ids[n] \in visible
    THEN [orders EXCEPT ![iface.ids[n]] = Plays]
    ELSE orders

\* The first robot named guards the goal, if it is configured.
Guarding(orders) ==
  IF iface.ids # << >> /\ Head(iface.ids) \in Robots
    THEN [orders EXCEPT ![Head(iface.ids)].state = "Goalie"]
    ELSE orders

TestGoal(visible) ==
  \/ Testing({"GoalShoot"}, Shooting(Cleared, 1, visible))
  \/ Testing({"Goalie"}, Guarding(Cleared))
  \/ Testing({"GoalieAndShoot"},
       IF Len(iface.ids) >= 2 THEN Shooting(Guarding(Cleared), 2, visible) ELSE Cleared)

\* game_logic
LogicTick ==
  \/ Manual
  \/ Game
  \/ TestNone
  \/ TestMove
  \/ \E some \in SUBSET Robots : TestKicker(some) \/ TestGoal(some)

ModesNext ==
  \/ \E p \in Packets : Receive(p)
  \/ StartGame
  \/ StopGame
  \/ UpdateTick
  \/ LogicTick

\* The loop ticks for as long as the program runs.
ModesSpec ==
  /\ ModesInit
  /\ [][ModesNext]_allVars
  /\ WF_allVars(UpdateTick)
  /\ WF_allVars(LogicTick)

-----------------------------------------------------------------------------
(* Properties *)

\* Types; and Restart's, in every mode.
ModesTypeOK ==
  /\ TypeOK
  /\ slot \in Packets \cup {NoPacket}
  /\ iface \in Controls({iface.ids})
  /\ manual \in [Robots -> Orders]
  /\ goal \in BOOLEAN

AllIn(states) == \A r \in Robots : cmd'[r].state \in states

\* Who must keep still in a tick, and how.
StandStill ==
  /\ iface.mode = "Game" /\ iface.running =>
       /\ phase = "Halted" => AllIn({"Halt"})
       /\ ref.kind = "Stop" => AllIn({"Stop"})
       /\ prep.status = "Preparing" =>
            \A r \in Robots : cmd'[r].state = IF r = goalie THEN "Goalie" ELSE "Stop"
  /\ iface.mode = "Game" /\ ~iface.running => AllIn({"Stop"})
  /\ iface.mode = "Manual" /\ iface.gcData /\ ref.kind \in {"Halt", "Stop"} =>
       goal \/ AllIn({ref.kind})
  /\ iface.mode = "Test" /\ iface.test = "None" => AllIn({"Halt"})

\* Orders that must keep everybody still do so in the very tick they apply to, whatever the
\* operator, a test or the game had the robots do before and whenever the operator changed
\* the mode: the referee's Halt and Stop in a running game and in manual mode if the
\* operator asks for it, a preparation that is not ours to play but for the keeper, a game
\* that is not running and the test "None".
Stilled == [][LogicTick => StandStill]_allVars

\* The orders the operator gave last come into force, whatever mode was on and whatever was
\* sent and lost just before: they are kept for their robots, and in manual mode they are
\* what the robots get.  Only a newer packet that arrives before they are taken replaces them.
OperatorHeard ==
  \A p \in {q \in Packets : DOMAIN q.orders # {}} :
    slot = p ~>
      \/ slot \notin {p, NoPacket}
      \/ /\ pc = "update"
         /\ iface = p.control
         /\ \A r \in DOMAIN p.orders :
              /\ manual[r] = p.orders[r]
              /\ p.control.mode = "Manual" =>
                   /\ cmd[r].task = p.orders[r].task
                   /\ cmd[r].state = p.orders[r].state \/ p.control.gcData
==============================================================================

--------------------------- MODULE RestartLifecycle ---------------------------
(***************************************************************************)
(* What the team promises about a restart, as the referee sees it: at most *)
(* one is under way, it was opened by a command of its own, it is played   *)
(* only once it may be, the ball is played by the taker once and by the    *)
(* receiver at most once after it, and while the pass is on its way the    *)
(* ball it moves does not end the restart.                                 *)
(***************************************************************************)
VARIABLES
  command,   \* what the referee said last
  restart,   \* which restart is under way, and for whom
  stage      \* how far it is: "none", "preparing", "ready", "passed" or "played"

CommandKinds == {"Halt", "Stop", "Timeout", "BallPlacement", "Running",
                 "PrepareKickoff", "PreparePenalty", "FreeKick"}

Opens(c) ==
  CASE c = "PrepareKickoff" -> {"OffensiveKickoff", "DefensiveKickoff"}
    [] c = "PreparePenalty" -> {"OffensivePenalty", "DefensivePenalty"}
    [] c = "FreeKick"       -> {"OffensiveFreeKick", "DefensiveFreeKick"}
    [] OTHER                -> {}

Over == stage' = "none" /\ restart' = "Unknown"

Init ==
  /\ command = "Halt"
  /\ restart = "Unknown"
  /\ stage = "none"

\* The referee opens a restart.  A free kick is played at once, the others are prepared.
Open(c) ==
  /\ command' = c
  /\ restart' \in Opens(c)
  /\ stage' = IF c = "FreeKick" THEN "ready" ELSE "preparing"

\* The referee releases the ball; it may have moved already.
Release ==
  /\ command' = "Running"
  /\ \/ stage' = (IF stage = "preparing" THEN "ready" ELSE stage) /\ UNCHANGED restart
     \/ stage # "passed" /\ Over

CallOff(c) ==
  /\ Opens(c) = {}
  /\ c # "Running"
  /\ command' = c
  /\ Over

\* The ball is gone from its spot, or the kickoff's only kick is over.
BallInPlay ==
  /\ stage \in {"ready", "played"}
  /\ Over
  /\ UNCHANGED command

Pass ==
  /\ stage = "ready"
  /\ restart \in {"OffensiveKickoff", "OffensiveFreeKick"}
  /\ stage' = "passed"
  /\ UNCHANGED <<command, restart>>

\* A penalty, or there is nobody to pass to.
Shoot ==
  /\ stage = "ready"
  /\ restart \in {"OffensiveKickoff", "OffensivePenalty", "OffensiveFreeKick"}
  /\ stage' = "played"
  /\ UNCHANGED <<command, restart>>

\* A kickoff ends with the reception, a free kick is shot on; so, too, if the receiver is gone.
Receive ==
  /\ stage = "passed"
  /\ \/ restart = "OffensiveKickoff" /\ Over
     \/ restart = "OffensiveFreeKick" /\ stage' = "played" /\ UNCHANGED restart
  /\ UNCHANGED command

Next ==
  \/ \E c \in CommandKinds : Open(c) \/ CallOff(c)
  \/ Release
  \/ BallInPlay
  \/ Pass
  \/ Shoot
  \/ Receive

Spec == Init /\ [][Next]_<<command, restart, stage>>
==============================================================================

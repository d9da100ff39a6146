------------------------------- MODULE Restart -------------------------------
(***************************************************************************)
(* Match restarts: kickoff, penalty and free kick.                         *)
(*                                                                         *)
(* One control tick runs WorldState::update_states (game_logic/types.rs),  *)
(* which turns the referee's command into a game phase and a latched       *)
(* PrepTask, and then mode_game (game_logic/mode_game.rs), which turns the *)
(* phase and the task into one order per robot.  The two halves are the    *)
(* actions below pc = "update" and below pc = "logic"; orders go out to    *)
(* the robots when pc is back at "update".                                 *)
(*                                                                         *)
(* Geometry is an input.  The robots vision reports, those of them in our  *)
(* half, which robot is closest, whether the ball is 50 mm away from where *)
(* the task latched it, and whether a robot has reached its spot or holds  *)
(* the ball are read afresh by every tick and chosen by \E.  Robots that    *)
(* config.toml does not list get no order and are left out of what vision  *)
(* reports.                                                                *)
(***************************************************************************)
EXTENDS Naturals

CONSTANTS
  Robots,    \* the robots config.toml lists: the keys of CrashPilot.robots
  Ids,       \* every robot id the referee may name as our keeper
  NoId       \* no robot: Option::None

ASSUME RobotsAssumption == Robots \subseteq Ids /\ NoId \notin Ids

VARIABLES
  pc,        \* "update" or "logic": the half of CrashPilot::update that is next
  team,      \* WorldState.team
  goalie,    \* WorldState.goalie
  ref,       \* RefMachine.state
  phase,     \* WorldState.phase
  prep,      \* WorldState.prep_task
  mirror,    \* WorldState.prep_phase, .acting_robot and .has_acted
  isNew,     \* is_new_ref_command of the update before this tick's logic
  cmd        \* robot.msg.cmd of each robot: its state and its task

vars == <<pc, team, goalie, ref, phase, prep, mirror, isNew, cmd>>

-----------------------------------------------------------------------------
(* Referee commands and restart tasks *)

Teams == {"Yellow", "Blue"}

\* RefState.  DirectFree and IndirectFree are one kind: no code tells them apart.
RestartKinds   == {"PrepareKickoff", "PreparePenalty", "FreeKick"}
InterruptKinds == {"Halt", "Stop", "Timeout", "BallPlacement"}
RefStates ==
  [kind : {"Halt", "Stop", "Timeout", "Running"}, team : {"None"}]
    \cup [kind : {"PrepareKickoff", "PreparePenalty", "FreeKick", "BallPlacement"},
          team : Teams]

Offensive == {"OffensiveKickoff", "OffensivePenalty", "OffensiveFreeKick"}
Defensive == {"DefensiveKickoff", "DefensivePenalty", "DefensiveFreeKick"}

OptId == Ids \cup {NoId}

\* PrepTask; a task whose status is "None" is no task.
Tasks ==
  [phase    : Offensive \cup Defensive \cup {"Unknown"},
   status   : {"None", "Preparing", "Ready"},
   actor    : OptId,
   receiver : OptId,
   acted    : BOOLEAN,
   followUp : BOOLEAN]

NewTask(ph, st) ==
  [phase |-> ph, status |-> st, actor |-> NoId, receiver |-> NoId,
   acted |-> FALSE, followUp |-> FALSE]
NoTask == NewTask("Unknown", "None")

Mirrors  == [phase : Offensive \cup Defensive \cup {"Unknown"},
             actor : OptId, acted : BOOLEAN]
NoMirror == [phase |-> "Unknown", actor |-> NoId, acted |-> FALSE]

CmdStates == {"Halt", "Stop", "Free", "Goalie"}
\* Every task that neither kicks nor awaits the ball (Pos, PosBall, Block, Steal,
\* Dribble) is "Move".
CmdTasks  == {"Move", "Kick", "RecKick"}
Orders    == [state : CmdStates, task : CmdTasks]
Order(s, t) == [state |-> s, task |-> t]

Plays  == Order("Free", "Kick")      \* kicks the ball to somebody or at the goal
Awaits == Order("Free", "RecKick")   \* awaits a pass
Drives == Order("Free", "Move")      \* drives to its spot for a pass
Posted == Order("Stop", "Move")      \* drives to the ball or stays there, without playing it
Guards == Order("Goalie", "Move")    \* guards the goal
Walls  == Order("Free", "Move")      \* takes its place in the wall before the goal

PhaseOf(c, t) ==
  CASE c.kind = "Halt"          -> "Halted"
    [] c.kind = "Running"       -> "Running"
    [] c.kind = "Timeout"       -> "Timeout"
    [] c.kind = "BallPlacement" -> IF c.team = t THEN "BallPlacement" ELSE "Halted"
    [] OTHER                    -> "Stopped"

PrepPhaseFor(c, t) ==
  CASE c.kind = "PrepareKickoff" ->
         IF c.team = t THEN "OffensiveKickoff" ELSE "DefensiveKickoff"
    [] c.kind = "PreparePenalty" ->
         IF c.team = t THEN "OffensivePenalty" ELSE "DefensivePenalty"
    [] OTHER ->
         IF c.team = t THEN "OffensiveFreeKick" ELSE "DefensiveFreeKick"

Init ==
  /\ pc = "update"
  /\ team = "Yellow"
  /\ goalie = NoId
  /\ ref = [kind |-> "Halt", team |-> "None"]
  /\ phase = "Unknown"
  /\ prep = NoTask
  /\ mirror = NoMirror
  /\ isNew = FALSE
  /\ cmd = [r \in Robots |-> Order("Halt", "Move")]

-----------------------------------------------------------------------------
(* First half of a tick: update_states.  Every action reads the referee    *)
(* packet: our team t, our keeper g (always some id) and the command c,    *)
(* which RefMachine::apply found new or not.                               *)

ReadReferee(t, g, c, new) ==
  /\ pc = "update"
  /\ pc' = "logic"
  /\ isNew' = new
  /\ team' = t
  /\ goalie' = g
  /\ ref' = c
  /\ phase' = PhaseOf(c, t)
  /\ UNCHANGED cmd

\* The pass of a kickoff or free kick is on its way.
PassPending(task) ==
  /\ task.phase \in {"OffensiveKickoff", "OffensiveFreeKick"}
  /\ task.acted
  /\ ~task.followUp

\* Mutation: the interface's copies of the task survive it.
ClearTaskAlone == prep' = NoTask /\ UNCHANGED mirror

\* Mutation: the task is marked as over but its robots stay latched.
ClearStatus == prep' = [prep EXCEPT !.status = "None"] /\ mirror' = NoMirror

ClearTask == prep' = NoTask /\ mirror' = NoMirror

\* Mutation: the task ends as soon as the ball moves, pass or no pass.
FinishedByPass(task) == task.status = "Ready"

\* A ball that moved away from the spot finishes this task.
FinishedByBall(task) == task.status = "Ready" /\ ~PassPending(task)

ClearFinished(task, moved) ==
  IF moved /\ FinishedByBall(task)
    THEN ClearTask
    ELSE prep' = task /\ UNCHANGED mirror

\* A new command opens a restart; the ball's spot is latched, so it is not moved.
StartRestart(t, g, c) ==
  /\ c.kind \in RestartKinds
  /\ ReadReferee(t, g, c, TRUE)
  /\ LET ph == PrepPhaseFor(c, t)
     IN /\ prep' = NewTask(ph, IF c.kind = "FreeKick" THEN "Ready" ELSE "Preparing")
        /\ mirror' = [NoMirror EXCEPT !.phase = ph]

\* A new NormalStart or ForceStart releases a prepared restart.
BeginPlay(t, g, c, moved) ==
  /\ c.kind = "Running"
  /\ ReadReferee(t, g, c, TRUE)
  /\ ClearFinished(IF prep.status = "Preparing" THEN [prep EXCEPT !.status = "Ready"]
                                                ELSE prep, moved)

\* Mutation: a ball placement leaves the restart latched.
InterruptKeepingTask(t, g, c) ==
  /\ c.kind \in InterruptKinds
  /\ ReadReferee(t, g, c, TRUE)
  /\ IF c.kind = "BallPlacement" THEN UNCHANGED <<prep, mirror>> ELSE ClearTask

\* Any other new command calls the restart off.
Interrupt(t, g, c) ==
  /\ c.kind \in InterruptKinds
  /\ ReadReferee(t, g, c, TRUE)
  /\ ClearTask

\* The packet repeats the command RefMachine::apply saw last, or is that very packet.
KeepCommand(t, g, moved) ==
  /\ ReadReferee(t, g, ref, FALSE)
  /\ ClearFinished(prep, moved)

Update ==
  \E t \in Teams, g \in Ids, moved \in BOOLEAN :
    \/ \E c \in RefStates :
         \/ StartRestart(t, g, c)
         \/ BeginPlay(t, g, c, moved)
         \/ Interrupt(t, g, c)
    \/ KeepCommand(t, g, moved)

-----------------------------------------------------------------------------
(* Who takes the restart *)

\* Mutation: the keeper may be asked to take a restart.
AvailableOrKeeper(r) == r \in Robots

\* A configured robot that is not the keeper; it need not be in view.
Available(r) == r \in Robots /\ r # goalie

\* The robot latched before while it is available, else the closest in view.
Actors(visible) ==
  LET latched == IF prep.actor # NoId THEN prep.actor ELSE mirror.actor
  IN  IF Available(latched) THEN {latched} ELSE {r \in visible : Available(r)}

\* Mutation: the receiver latched earlier is kept even when it is the taker now.
ReceiversOrActor(a, field) ==
  IF Available(prep.receiver) THEN {prep.receiver}
                              ELSE {r \in field : r # a /\ Available(r)}

\* Receiver of a free kick by robot a.
Receivers(a, visible) ==
  IF prep.receiver # a /\ Available(prep.receiver)
    THEN {prep.receiver}
    ELSE {r \in visible : r # a /\ Available(r)}

\* Receiver of a kickoff by robot a: a robot in view in our half.
KickoffReceivers(a, ownHalf) ==
  IF prep.receiver # a /\ Available(prep.receiver) /\ prep.receiver \in ownHalf
    THEN {prep.receiver}
    ELSE {r \in ownHalf : r # a /\ Available(r)}

\* Receiver of a kickoff already passed: the latched one or none.
PassedReceivers(a) == {r \in {prep.receiver} : r # a /\ Available(r)}

-----------------------------------------------------------------------------
(* Second half of a tick: mode_game *)

All(s) == [r \in Robots |-> [cmd[r] EXCEPT !.state = s]]
WithGoalie(orders) ==
  [r \in Robots |-> IF r = goalie THEN [orders[r] EXCEPT !.state = "Goalie"] ELSE orders[r]]

\* mark_prep_actor, then mark_prep_receiver, _acted and _follow_up_acted.
Mark(a, r, acted, followUp) ==
  /\ prep' = [prep EXCEPT !.actor = a, !.receiver = r,
                          !.acted = acted, !.followUp = followUp]
  /\ mirror' = [mirror EXCEPT !.actor = a, !.acted = acted]

Logic ==
  /\ pc = "logic"
  /\ pc' = "update"
  /\ isNew' = FALSE
  /\ UNCHANGED <<team, goalie, ref, phase>>

\* The operator has not started the game: every robot is stopped.
GameNotRunning ==
  /\ Logic
  /\ cmd' = All("Stop")
  /\ UNCHANGED <<prep, mirror>>

PrepareTask ==
  /\ Logic
  /\ prep.status = "Preparing"

PrepareDefensive ==
  /\ PrepareTask
  /\ prep.phase \notin Offensive
  /\ cmd' = WithGoalie(All("Stop"))
  /\ UNCHANGED <<prep, mirror>>

\* The taker drives to the ball; a kickoff also latches its receiver.
PrepareOffensive(visible, ownHalf) ==
  /\ PrepareTask
  /\ prep.phase \in Offensive
  /\ \/ /\ Actors(visible) = {}
        /\ cmd' = WithGoalie(All("Stop"))
        /\ UNCHANGED <<prep, mirror>>
     \/ \E a \in Actors(visible) :
          /\ cmd' = [WithGoalie(All("Stop")) EXCEPT ![a] = Posted]
          /\ LET receivers == IF prep.phase = "OffensiveKickoff"
                                THEN KickoffReceivers(a, ownHalf) ELSE {}
             IN \/ receivers = {} /\ Mark(a, prep.receiver, prep.acted, prep.followUp)
                \/ \E r \in receivers : Mark(a, r, prep.acted, prep.followUp)

ExecuteDefensive ==
  /\ Logic
  /\ prep.status = "Ready"
  /\ prep.phase \notin Offensive
  /\ cmd' = WithGoalie(All("Stop"))
  /\ UNCHANGED <<prep, mirror>>

Executing(ph) ==
  /\ Logic
  /\ prep.status = "Ready"
  /\ prep.phase = ph

NobodyExecutes(visible) ==
  /\ Logic
  /\ prep.status = "Ready"
  /\ prep.phase \in Offensive
  /\ Actors(visible) = {}
  /\ UNCHANGED <<prep, mirror, cmd>>

\* The taker shoots when vision sees it; the task counts as acted either way.
Penalty(visible) ==
  /\ Executing("OffensivePenalty")
  /\ \E a \in Actors(visible) :
       /\ cmd' = IF a \in visible THEN [cmd EXCEPT ![a] = Plays] ELSE cmd
       /\ Mark(a, prep.receiver, TRUE, prep.followUp)

\* Nobody can receive: the taker kicks towards the goal and that is all.
KickAlone(a) ==
  /\ cmd' = [cmd EXCEPT ![a] = Plays]
  /\ Mark(a, prep.receiver, TRUE, TRUE)

\* Mutation: the receiver is ordered first, so the order to kick overwrites its own.
PassLosingKick(a, r) ==
  /\ cmd' = [cmd EXCEPT ![a] = Drives, ![r] = Awaits]
  /\ Mark(a, r, TRUE, prep.followUp)

\* The taker passes and the receiver waits for the ball.
Pass(a, r) ==
  /\ cmd' = [cmd EXCEPT ![a] = Plays, ![r] = Awaits]
  /\ Mark(a, r, TRUE, prep.followUp)

\* Mutation: whether the taker has acted is not asked.
KickoffAgain(visible, ownHalf) ==
  /\ Executing("OffensiveKickoff")
  /\ \E a \in Actors(visible) :
       \/ KickoffReceivers(a, ownHalf) = {} /\ KickAlone(a)
       \/ \E r \in KickoffReceivers(a, ownHalf) : Pass(a, r)

Kickoff(visible, ownHalf) ==
  /\ Executing("OffensiveKickoff")
  /\ ~prep.acted
  /\ \E a \in Actors(visible) :
       \/ KickoffReceivers(a, ownHalf) = {} /\ KickAlone(a)
       \/ \E r \in KickoffReceivers(a, ownHalf) : Pass(a, r)

\* After the pass: the task ends when the receiver has the ball or is gone.
KickoffPassed(visible, ready) ==
  /\ Executing("OffensiveKickoff")
  /\ prep.acted
  /\ \E a \in Actors(visible) :
       \/ /\ PassedReceivers(a) = {}
          /\ ClearTask
          /\ UNCHANGED cmd
       \/ \E r \in PassedReceivers(a) :
            \/ /\ ready
               /\ ClearTask
               /\ cmd' = [cmd EXCEPT ![a] = Posted]
            \/ /\ ~ready
               /\ Mark(a, r, prep.acted, prep.followUp)
               /\ cmd' = [cmd EXCEPT ![a] = Posted,
                                     ![r] = Awaits]

FreeKickAlone(visible) ==
  /\ Executing("OffensiveFreeKick")
  /\ \E a \in Actors(visible) : Receivers(a, visible) = {} /\ KickAlone(a)

\* Both drive to their spots; the taker passes once both have arrived.
FreeKick(visible, arrived) ==
  /\ Executing("OffensiveFreeKick")
  /\ ~prep.followUp
  /\ ~prep.acted
  /\ \E a \in Actors(visible) : \E r \in Receivers(a, visible) :
       \/ arrived /\ {a, r} \subseteq visible /\ Pass(a, r)
       \/ /\ ~arrived
          /\ cmd' = [cmd EXCEPT ![a] = Drives, ![r] = Drives]
          /\ Mark(a, r, prep.acted, prep.followUp)

\* Mutation: a shot that could not be ordered counts as taken.
FreeKickPassedUnseen(visible, ready) ==
  /\ Executing("OffensiveFreeKick")
  /\ ~prep.followUp
  /\ prep.acted
  /\ \E a \in Actors(visible) : \E r \in Receivers(a, visible) :
       LET posted == [cmd EXCEPT ![a] = Posted]
       IN \/ /\ ready
             /\ cmd' = IF r \in visible THEN [posted EXCEPT ![r] = Plays] ELSE posted
             /\ Mark(a, r, prep.acted, TRUE)
          \/ /\ ~ready
             /\ cmd' = [posted EXCEPT ![r] = Awaits]
             /\ Mark(a, r, prep.acted, prep.followUp)

\* The receiver waits for the pass, and shoots once it is ready and in view.
FreeKickPassed(visible, ready) ==
  /\ Executing("OffensiveFreeKick")
  /\ ~prep.followUp
  /\ prep.acted
  /\ \E a \in Actors(visible) : \E r \in Receivers(a, visible) :
       LET posted == [cmd EXCEPT ![a] = Posted]
       IN \/ /\ ready /\ r \in visible
             /\ cmd' = [posted EXCEPT ![r] = Plays]
             /\ Mark(a, r, prep.acted, TRUE)
          \/ /\ ready /\ r \notin visible
             /\ cmd' = posted
             /\ Mark(a, r, prep.acted, prep.followUp)
          \/ /\ ~ready
             /\ cmd' = [posted EXCEPT ![r] = Awaits]
             /\ Mark(a, r, prep.acted, prep.followUp)

FreeKickShot(visible) ==
  /\ Executing("OffensiveFreeKick")
  /\ prep.followUp
  /\ \E a \in Actors(visible) : \E r \in Receivers(a, visible) :
       LET posted == [cmd EXCEPT ![a] = Posted]
       IN /\ cmd' = IF r \in visible THEN [posted EXCEPT ![r] = Plays]
                                     ELSE posted
          /\ Mark(a, r, prep.acted, prep.followUp)

-----------------------------------------------------------------------------
(* mode_game with no restart latched *)

OpenPlay(ph) ==
  /\ Logic
  /\ prep.status = "None"
  /\ phase = ph
  /\ UNCHANGED <<prep, mirror>>

HaltAll == OpenPlay("Halted") /\ cmd' = All("Halt")
StopAll == OpenPlay("Stopped") /\ cmd' = All("Stop")

\* What ai_handler and the wall may make of one robot's order o: no command, a
\* command with or without a task of its own, the order to guard the goal; for the
\* keeper, only guarding and passing.
AIOrders(r, o) ==
  {o, Guards} \cup
    (IF r = goalie THEN {Plays} ELSE {Walls} \cup {Order("Free", t) : t \in CmdTasks})

RunAI ==
  /\ OpenPlay("Running")
  /\ LET base    == WithGoalie(cmd)
         choices == [r \in Robots |-> AIOrders(r, base[r])]
     IN cmd' \in {f \in [Robots -> UNION {choices[r] : r \in Robots}] :
                     \A r \in Robots : f[r] \in choices[r]}

\* Substitution spots; the robots' states are left as they were.
LineUp ==
  /\ OpenPlay("Timeout")
  /\ cmd' = [r \in Robots |-> [cmd[r] EXCEPT !.task = "Move"]]

\* The robot of ours closest to the ball, whichever it is, gets the task; none does
\* when vision sees nobody, the referee names no spot or that robot is not configured.
PlaceBall ==
  /\ OpenPlay("BallPlacement")
  /\ \/ UNCHANGED cmd
     \/ \E r \in Robots : cmd' = [cmd EXCEPT ![r].task = "Move"]

ModeGame ==
  \/ PrepareDefensive
  \/ ExecuteDefensive
  \/ \E visible \in SUBSET Robots, seen \in BOOLEAN :
       \/ \E ownHalf \in SUBSET visible :
            \/ PrepareOffensive(visible, ownHalf)
            \/ Kickoff(visible, ownHalf)
       \/ NobodyExecutes(visible)
       \/ Penalty(visible)
       \/ KickoffPassed(visible, seen)
       \/ FreeKickAlone(visible)
       \/ FreeKick(visible, seen)
       \/ FreeKickPassed(visible, seen)
       \/ FreeKickShot(visible)
  \/ HaltAll
  \/ StopAll
  \/ RunAI
  \/ LineUp
  \/ PlaceBall

Next == Update \/ ModeGame \/ GameNotRunning

Spec == Init /\ [][Next]_vars

-----------------------------------------------------------------------------
(* Invariants *)

\* Types; and Option::None has no fields: no task, no latched robot.
TypeOK ==
  /\ pc \in {"update", "logic"}
  /\ team \in Teams
  /\ goalie \in OptId
  /\ ref \in RefStates
  /\ phase \in {"Unknown", "Halted", "Stopped", "Running", "Timeout", "BallPlacement"}
  /\ prep \in Tasks
  /\ prep.status = "None" => prep = NoTask
  /\ mirror \in Mirrors
  /\ isNew \in BOOLEAN
  /\ cmd \in [Robots -> Orders]

\* WorldState keeps the restart's phase, taker and "acted" flag twice: in prep_task and
\* in prep_phase, acting_robot, has_acted, which the interface and prep_actor_id read.
\* No order of starts, marks and clears lets the two copies drift apart.
MirrorAgrees ==
  mirror = [phase |-> prep.phase, actor |-> prep.actor, acted |-> prep.acted]

\* A latched restart is the one the referee's current command allows: a task is prepared
\* only under its own Prepare command, a kickoff or penalty is executed only in play and
\* a free kick under its own command or in play.  So no task outlives the referee's Halt,
\* Stop, Timeout or BallPlacement, whatever commands were repeated, skipped or lost.
TaskMatchesReferee ==
  /\ prep.status = "Preparing" =>
       \/ ref.kind = "PrepareKickoff" /\ prep.phase \in {"OffensiveKickoff", "DefensiveKickoff"}
       \/ ref.kind = "PreparePenalty" /\ prep.phase \in {"OffensivePenalty", "DefensivePenalty"}
  /\ prep.status = "Ready" =>
       \/ ref.kind = "Running"
       \/ ref.kind = "FreeKick" /\ prep.phase \in {"OffensiveFreeKick", "DefensiveFreeKick"}
  /\ prep.acted => prep.status = "Ready"
  /\ prep.followUp => prep.acted

\* What goes out to the robots at the end of a tick keeps everybody still when it must:
\* in Halt and while the opponents place the ball every robot is halted or stopped, in
\* Stop every robot is stopped, and until NormalStart every robot but the keeper is,
\* whatever the orders of earlier ticks were.  (The override of the phase that README.md's
\* implementation notes describe is not in the code.)
HoldsStill ==
  pc = "update" =>
    /\ phase = "Halted" => \A r \in Robots : cmd[r].state \in {"Halt", "Stop"}
    /\ ref.kind = "Stop" /\ phase # "Unknown" => \A r \in Robots : cmd[r].state = "Stop"
    /\ prep.status = "Preparing" =>
         \A r \in Robots : cmd[r].state = "Stop" \/ (r = goalie /\ cmd[r].state = "Goalie")

\* A pass on its way has a taker and another robot to receive it, both configured,
\* although keeper, vision and geometry may have changed in every tick since.
PassHasTwoEnds ==
  PassPending(prep) =>
    /\ prep.actor \in Robots
    /\ prep.receiver \in Robots
    /\ prep.actor # prep.receiver

-----------------------------------------------------------------------------
(* Action properties *)

Tick == pc = "logic"
Latched == prep.status # "None"

\* mode_game never sends today's keeper away from the goal for a restart: no tick with a
\* restart latched gives the keeper a new order to act freely.
KeeperStaysHome ==
  [][Tick /\ Latched /\ goalie \in Robots =>
       cmd'[goalie] = cmd[goalie] \/ cmd'[goalie].state # "Free"]_vars

\* A kickoff or free kick counts as acted, and its pass as played on, only in the tick that
\* does order the ball played: the taker goes out with a kick and a receiver, if there is
\* one, awaits it; then the receiver does, or the taker if nobody is left to receive.  So no
\* restart is given up to the moving ball for a shot that was never ordered, although the
\* receiver may be out of view in the tick in which it is ready.
ActedIsOrdered ==
  [][/\ Tick /\ prep.phase # "OffensivePenalty" /\ ~prep.acted /\ prep'.acted =>
          /\ cmd'[prep'.actor] = Plays
          /\ ~prep'.followUp => cmd'[prep'.receiver] = Awaits
     /\ Tick /\ PassPending(prep) /\ prep'.followUp =>
          cmd'[IF Available(prep'.receiver) /\ prep'.receiver # prep'.actor
                 THEN prep'.receiver ELSE prep'.actor] = Plays]_vars

\* "should stay alive while pass is travelling" (types.rs tests): until the
\* referee gives a new command, a moving ball does not end a restart whose pass is not
\* taken, nor does a change of team or keeper.
PassStaysAlive ==
  [][pc = "update" /\ PassPending(prep) /\ ~isNew' => prep' = prep]_vars

\* The taker does not touch the ball a second time: while its pass is on the way and the
\* receiver is not needed as keeper, no tick sends it out with a kick again.
TakerPlaysOnce ==
  [][Tick /\ PassPending(prep) /\ Available(prep.actor) /\ Available(prep.receiver) =>
       cmd'[prep.actor] # Plays]_vars

\* How far the restart is: nothing in prep says so in one place.
Stage ==
  IF prep.status = "None" THEN "none"
  ELSE IF prep.status = "Preparing" THEN "preparing"
  ELSE IF ~prep.acted THEN "ready"
  ELSE IF PassPending(prep) THEN "passed"
  ELSE "played"

Lifecycle == INSTANCE RestartLifecycle
               WITH command <- ref.kind, restart <- prep.phase, stage <- Stage

\* Whatever the referee says in whatever order, and however team, keeper, vision and ball
\* change from tick to tick, a restart runs its course from its own command over one pass or
\* shot to its end, with no step skipped, repeated or taken for the other team.
ImplementsLifecycle == Lifecycle!Spec

\* "kickoff, penalty, and free-kick phases keep the goalie in goalie state" (README.md).
\* Not so: execute_offensive_restart never calls set_goalie, and our free kick is Ready
\* from its first tick, so a keeper that was halted or stopped stays so while the taker plays.
GoalieKept ==
  [][ModeGame /\ prep'.actor # NoId /\ goalie \in Robots => cmd'[goalie].state = "Goalie"]_vars
==============================================================================

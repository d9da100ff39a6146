---------------------------- MODULE Restart_proofs ----------------------------
(***************************************************************************)
(* Proofs about Restart and about Modes, which puts the other modes beside *)
(* it, for any set of robots, any packets and any referee.  Four parts:    *)
(*                                                                         *)
(* 1 The invariant of Restart.  IInv is inductive.  HoldsStill needs       *)
(*   TaskMatchesReferee (a task latched past a Halt would keep mode_game   *)
(*   from halting) and the fact that the phase is always the one of the    *)
(*   last command; PassHasTwoEnds needs that only configured robots are    *)
(*   ever latched, which TypeOK alone does not say.                        *)
(* 2 The action properties of Restart and its refinement of                *)
(*   RestartLifecycle.  Each follows from IInv at the state before the     *)
(*   step.  What the steps of mode_game have in common: robots are chosen  *)
(*   among the configured ones that are not the keeper, and the taker      *)
(*   latched before is taken again while it is available.                  *)
(* 3 The invariant of Modes.  Restart's does not survive the other modes:  *)
(*   manual mode and the tests give orders that do not hold still.  What   *)
(*   survives is TickInv, all of it but HoldsStill, and that is enough: at *)
(*   pc = "logic" HoldsStill says nothing, so every tick of the game       *)
(*   starts from Restart's whole invariant, whatever mode the tick before  *)
(*   was in.                                                               *)
(* 4 The action properties of Modes.                                       *)
(* 5 What holds of Restart whatever the mode: its refinement and the       *)
(*   action properties about the restart's state survive every change of   *)
(*   mode, those about orders hold in the ticks of game mode.              *)
(***************************************************************************)
EXTENDS Modes, TLAPS

USE DEF Plays, Awaits, Posted, Drives, Guards, Walls

-----------------------------------------------------------------------------
(* Lemmas about the operators *)

LEMMA NewTaskType ==
  ASSUME NEW ph \in Offensive \cup Defensive \cup {"Unknown"},
         NEW st \in {"None", "Preparing", "Ready"}
  PROVE  NewTask(ph, st) \in Tasks
BY DEF NewTask, Tasks, OptId

LEMMA NoTaskType == NoTask \in Tasks /\ NoMirror \in Mirrors
BY NewTaskType DEF NoTask, NoMirror, Mirrors, OptId

LEMMA PrepPhaseForType ==
  ASSUME NEW c, NEW t
  PROVE  PrepPhaseFor(c, t) \in Offensive \cup Defensive
BY DEF PrepPhaseFor, Offensive, Defensive

LEMMA AllType ==
  ASSUME cmd \in [Robots -> Orders], NEW s \in CmdStates
  PROVE  /\ All(s) \in [Robots -> Orders]
         /\ WithGoalie(All(s)) \in [Robots -> Orders]
         /\ WithGoalie(cmd) \in [Robots -> Orders]
         /\ \A r \in Robots : All(s)[r].state = s
         /\ \A r \in Robots : r # goalie => WithGoalie(All(s))[r].state = s
BY DEF All, WithGoalie, Orders, CmdStates

LEMMA OrderType ==
  ASSUME NEW s \in CmdStates, NEW t \in CmdTasks
  PROVE  Order(s, t) \in Orders
BY DEF Order, Orders

LEMMA ActorsAreRobots ==
  ASSUME NEW visible \in SUBSET Robots, NEW a \in Actors(visible)
  PROVE  a \in Robots /\ a # goalie /\ a \in OptId /\ a # NoId
BY RobotsAssumption DEF Actors, Available, OptId

LEMMA ReceiversAreRobots ==
  ASSUME NEW seen \in SUBSET Robots, NEW a,
         NEW r \in Receivers(a, seen) \cup KickoffReceivers(a, seen) \cup PassedReceivers(a)
  PROVE  r \in Robots /\ r # a /\ r # goalie /\ r \in OptId /\ r # NoId
BY RobotsAssumption DEF Receivers, KickoffReceivers, PassedReceivers, Available, OptId

-----------------------------------------------------------------------------
(* The inductive invariant *)

\* The phase is the one of the referee's last command, from the first packet on.
PhaseFollowsReferee ==
  phase = PhaseOf(ref, team) \/ (phase = "Unknown" /\ pc = "update" /\ prep = NoTask)

\* Only configured robots are ever latched.
RobotsLatched == {prep.actor, prep.receiver} \subseteq Robots \cup {NoId}

\* What holds whatever orders the robots had before the tick.
TickInv ==
  /\ TypeOK
  /\ MirrorAgrees
  /\ TaskMatchesReferee
  /\ PhaseFollowsReferee
  /\ RobotsLatched
  /\ PassHasTwoEnds

IInv == TickInv /\ HoldsStill

\* What every step must keep of a task and of its copy.
TaskInv(task, m) ==
  /\ task \in Tasks
  /\ task.status = "None" => task = NoTask
  /\ m = [phase |-> task.phase, actor |-> task.actor, acted |-> task.acted]
  /\ {task.actor, task.receiver} \subseteq Robots \cup {NoId}
  /\ PassPending(task) => /\ task.actor \in Robots
                          /\ task.receiver \in Robots
                          /\ task.actor # task.receiver
  /\ task.acted => task.status = "Ready"
  /\ task.followUp => task.acted

LEMMA NoTaskInv == TaskInv(NoTask, NoMirror)
BY NoTaskType DEF TaskInv, NoTask, NewTask, NoMirror, PassPending

LEMMA TickTask == ASSUME TickInv PROVE TaskInv(prep, mirror)
BY DEF TickInv, TypeOK, MirrorAgrees, TaskMatchesReferee, RobotsLatched, PassHasTwoEnds, TaskInv

LEMMA IInvTask == ASSUME IInv PROVE TaskInv(prep, mirror)
BY TickTask DEF IInv

LEMMA InitIInv == Init => IInv
<1> SUFFICES ASSUME Init PROVE IInv
  OBVIOUS
<1>1. TypeOK
  BY NoTaskType, OrderType DEF Init, TypeOK, RefStates, Teams, OptId, CmdStates, CmdTasks
<1>2. QED
  BY <1>1, NoTaskInv DEF Init, IInv, TickInv, MirrorAgrees, TaskMatchesReferee, PhaseFollowsReferee,
     RobotsLatched, PassHasTwoEnds, HoldsStill, TaskInv, NoTask, NewTask, NoMirror, PassPending

-----------------------------------------------------------------------------
(* The first half of a tick *)

LEMMA PhaseOfType ==
  ASSUME NEW c, NEW t
  PROVE  PhaseOf(c, t) \in {"Halted", "Stopped", "Running", "Timeout", "BallPlacement"}
BY DEF PhaseOf

LEMMA ReadKeeps ==
  ASSUME TickInv, NEW t \in Teams, NEW g \in Ids, NEW c \in RefStates, NEW new \in BOOLEAN,
         ReadReferee(t, g, c, new), TaskInv(prep', mirror'), TaskMatchesReferee'
  PROVE  IInv'
<1>1. TypeOK'
  BY PhaseOfType DEF TickInv, TypeOK, ReadReferee, TaskInv, OptId, Mirrors, Tasks
<1>2. PhaseFollowsReferee' /\ HoldsStill'
  BY DEF ReadReferee, PhaseFollowsReferee, HoldsStill
<1>3. QED
  BY <1>1, <1>2 DEF IInv, TickInv, MirrorAgrees, RobotsLatched, PassHasTwoEnds, TaskInv

LEMMA ClearFinishedKeeps ==
  ASSUME NEW task, TaskInv(task, mirror), NEW moved \in BOOLEAN, ClearFinished(task, moved)
  PROVE  TaskInv(prep', mirror') /\ (prep' = task \/ prep' = NoTask)
BY NoTaskInv DEF ClearFinished, ClearTask

LEMMA StartRestartKeeps ==
  ASSUME TickInv, NEW t \in Teams, NEW g \in Ids, NEW c \in RefStates, StartRestart(t, g, c)
  PROVE  IInv'
<1> DEFINE ph == PrepPhaseFor(c, t)
<1>1. ph \in Offensive \cup Defensive
  BY PrepPhaseForType
<1>2. /\ ReadReferee(t, g, c, TRUE)
      /\ c.kind \in RestartKinds
      /\ prep' = NewTask(ph, IF c.kind = "FreeKick" THEN "Ready" ELSE "Preparing")
      /\ mirror' = [NoMirror EXCEPT !.phase = ph]
  BY DEF StartRestart
<1>3. prep' \in Tasks
  BY <1>1, <1>2, NewTaskType
<1>4. TaskInv(prep', mirror')
  BY <1>1, <1>2, <1>3 DEF TaskInv, NewTask, NoMirror, PassPending
<1>5. TaskMatchesReferee'
  BY <1>2 DEF TaskMatchesReferee, NewTask, ReadReferee, RestartKinds, PrepPhaseFor
<1>6. QED
  BY <1>2, <1>4, <1>5, ReadKeeps

LEMMA BeginPlayKeeps ==
  ASSUME TickInv, NEW t \in Teams, NEW g \in Ids, NEW c \in RefStates, NEW moved \in BOOLEAN,
         BeginPlay(t, g, c, moved)
  PROVE  IInv'
<1> DEFINE task == IF prep.status = "Preparing" THEN [prep EXCEPT !.status = "Ready"] ELSE prep
<1>1. TaskInv(task, mirror)
  BY TickTask DEF TaskInv, Tasks, PassPending
<1>2. TaskInv(prep', mirror') /\ (prep' = task \/ prep' = NoTask)
  BY <1>1, ClearFinishedKeeps DEF BeginPlay
<1>3. c.kind = "Running" /\ ReadReferee(t, g, c, TRUE)
  BY DEF BeginPlay
<1>4. prep'.status # "Preparing"
  BY <1>2, TickTask DEF TaskInv, Tasks, NoTask, NewTask
<1>5. TaskMatchesReferee'
  BY <1>2, <1>3, <1>4 DEF TaskMatchesReferee, ReadReferee, TaskInv
<1>6. QED
  BY <1>2, <1>3, <1>5, ReadKeeps

LEMMA InterruptKeeps ==
  ASSUME TickInv, NEW t \in Teams, NEW g \in Ids, NEW c \in RefStates, Interrupt(t, g, c)
  PROVE  IInv'
<1>1. prep' = NoTask /\ mirror' = NoMirror /\ ReadReferee(t, g, c, TRUE)
  BY DEF Interrupt, ClearTask
<1>2. TaskMatchesReferee'
  BY <1>1 DEF TaskMatchesReferee, NoTask, NewTask
<1>3. QED
  BY <1>1, <1>2, NoTaskInv, ReadKeeps

LEMMA KeepCommandKeeps ==
  ASSUME TickInv, NEW t \in Teams, NEW g \in Ids, NEW moved \in BOOLEAN, KeepCommand(t, g, moved)
  PROVE  IInv'
<1>1. ReadReferee(t, g, ref, FALSE) /\ ref \in RefStates
  BY DEF KeepCommand, TickInv, TypeOK
<1>2. TaskInv(prep', mirror') /\ (prep' = prep \/ prep' = NoTask)
  BY TickTask, ClearFinishedKeeps DEF KeepCommand
<1>3. TaskMatchesReferee'
  BY <1>1, <1>2 DEF TickInv, TaskMatchesReferee, ReadReferee, NoTask, NewTask
<1>4. QED
  BY <1>1, <1>2, <1>3, ReadKeeps

LEMMA UpdateKeeps == TickInv /\ Update => IInv'
BY StartRestartKeeps, BeginPlayKeeps, InterruptKeeps, KeepCommandKeeps DEF Update

-----------------------------------------------------------------------------
(* The second half of a tick *)

\* A tick that leaves the referee alone and keeps or clears the task.
LEMMA TickKeeps ==
  ASSUME IInv, Logic, TaskInv(prep', mirror'), cmd' \in [Robots -> Orders], HoldsStill',
         prep' = NoTask \/ (prep'.phase = prep.phase /\ prep'.status = prep.status)
  PROVE  IInv'
<1>1. TypeOK'
  BY DEF IInv, TickInv, TypeOK, Logic, TaskInv, Mirrors, Tasks
<1>2. TaskMatchesReferee'
  BY DEF IInv, TickInv, TaskMatchesReferee, Logic, TaskInv, NoTask, NewTask
<1>3. PhaseFollowsReferee'
  BY DEF IInv, TickInv, PhaseFollowsReferee, Logic
<1>4. QED
  BY <1>1, <1>2, <1>3 DEF IInv, TickInv, MirrorAgrees, RobotsLatched, PassHasTwoEnds, TaskInv

\* Nothing has to hold still while a restart is executed.
LEMMA ExecutionMoves ==
  ASSUME IInv, Logic, prep.status = "Ready", prep'.status # "Preparing"
  PROVE  HoldsStill'
BY DEF IInv, TickInv, TaskMatchesReferee, PhaseFollowsReferee, PhaseOf, Logic, HoldsStill

\* Every action of an executed restart clears the task or marks it.
LEMMA ExecuteKeeps ==
  ASSUME IInv, Logic, prep.status = "Ready", cmd' \in [Robots -> Orders],
         TaskInv(prep', mirror'),
         prep' = NoTask \/ (prep'.phase = prep.phase /\ prep'.status = prep.status)
  PROVE  IInv'
<1>1. prep'.status # "Preparing"
  BY DEF NoTask, NewTask
<1>2. QED
  BY <1>1, ExecutionMoves, TickKeeps

\* A mark latches available robots, and says "acted" only with both ends known.
LEMMA MarkKeeps ==
  ASSUME TaskInv(prep, mirror), prep.status # "None",
         NEW a \in Robots, NEW r \in Robots \cup {NoId}, NEW acted \in BOOLEAN,
         NEW followUp \in BOOLEAN,
         acted => prep.status = "Ready", followUp => acted,
         acted /\ ~followUp => prep.phase = "OffensivePenalty" \/ (r \in Robots /\ r # a),
         Mark(a, r, acted, followUp)
  PROVE  /\ TaskInv(prep', mirror')
         /\ prep'.phase = prep.phase /\ prep'.status = prep.status
<1>1. prep \in Tasks /\ mirror = [phase |-> prep.phase, actor |-> prep.actor, acted |-> prep.acted]
  BY DEF TaskInv
<1>2. /\ prep'.phase = prep.phase /\ prep'.status = prep.status
      /\ prep'.actor = a /\ prep'.receiver = r
      /\ prep'.acted = acted /\ prep'.followUp = followUp
      /\ prep' \in Tasks
  BY <1>1, RobotsAssumption DEF Tasks, OptId, Mark
<1>3. mirror' = [phase |-> prep'.phase, actor |-> prep'.actor, acted |-> prep'.acted]
  BY <1>1, <1>2 DEF Mark
<1>4. QED
  BY <1>2, <1>3 DEF TaskInv, PassPending

\* The order of one or two robots changes.
LEMMA OrdersType ==
  ASSUME NEW orders \in [Robots -> Orders], NEW a \in Robots, NEW r \in Robots,
         NEW o \in Orders, NEW p \in Orders
  PROVE  /\ [orders EXCEPT ![a] = o] \in [Robots -> Orders]
         /\ [orders EXCEPT ![a] = o, ![r] = p] \in [Robots -> Orders]
OBVIOUS

LEMMA Kinds ==
  /\ \A t \in CmdTasks : Order("Free", t) \in Orders /\ Order("Stop", t) \in Orders
  /\ "Move" \in CmdTasks /\ "Kick" \in CmdTasks /\ "RecKick" \in CmdTasks
BY OrderType DEF CmdStates, CmdTasks

LEMMA CmdType == ASSUME IInv PROVE cmd \in [Robots -> Orders]
BY DEF IInv, TickInv, TypeOK

LEMMA FlagTypes ==
  ASSUME IInv
  PROVE  /\ prep.acted \in BOOLEAN /\ prep.followUp \in BOOLEAN
         /\ prep.actor \in Robots \cup {NoId} /\ prep.receiver \in Robots \cup {NoId}
         /\ prep.followUp => prep.acted
         /\ prep.acted => prep.status = "Ready"
BY IInvTask DEF TaskInv, Tasks

LEMMA KickAloneKeeps ==
  ASSUME IInv, Logic, prep.status = "Ready", NEW a \in Robots, KickAlone(a)
  PROVE  IInv'
<1>1. cmd' \in [Robots -> Orders]
  BY Kinds, CmdType, OrdersType DEF KickAlone
<1>2. /\ TaskInv(prep', mirror')
      /\ prep'.phase = prep.phase /\ prep'.status = prep.status
  BY IInvTask, FlagTypes, MarkKeeps DEF KickAlone
<1>3. QED
  BY <1>1, <1>2, ExecuteKeeps

LEMMA PassKeeps ==
  ASSUME IInv, Logic, prep.status = "Ready",
         NEW a \in Robots, NEW r \in Robots, r # a, Pass(a, r)
  PROVE  IInv'
<1>1. cmd' \in [Robots -> Orders]
  BY Kinds, CmdType, OrdersType DEF Pass
<1>2. /\ TaskInv(prep', mirror')
      /\ prep'.phase = prep.phase /\ prep'.status = prep.status
  BY IInvTask, FlagTypes, MarkKeeps DEF Pass
<1>3. QED
  BY <1>1, <1>2, ExecuteKeeps

-----------------------------------------------------------------------------
(* One lemma per action of the second half *)

LEMMA PrepareKeeps ==
  ASSUME IInv, PrepareTask, cmd' \in [Robots -> Orders],
         TaskInv(prep', mirror'), prep'.phase = prep.phase, prep'.status = prep.status,
         \A r \in Robots : cmd'[r].state = "Stop" \/ (r = goalie /\ cmd'[r].state = "Goalie")
  PROVE  IInv'
<1>1. Logic /\ prep.status = "Preparing"
  BY DEF PrepareTask
<1>2. phase = "Stopped" /\ ref.kind # "Stop"
  BY <1>1 DEF IInv, TickInv, TaskMatchesReferee, PhaseFollowsReferee, PhaseOf, Logic
<1>3. HoldsStill'
  BY <1>1, <1>2 DEF HoldsStill, Logic
<1>4. QED
  BY <1>1, <1>3, TickKeeps

LEMMA StoppedWithGoalie ==
  ASSUME IInv
  PROVE  /\ WithGoalie(All("Stop")) \in [Robots -> Orders]
         /\ \A r \in Robots : \/ WithGoalie(All("Stop"))[r].state = "Stop"
                              \/ r = goalie /\ WithGoalie(All("Stop"))[r].state = "Goalie"
BY CmdType DEF WithGoalie, All, Orders, CmdStates

LEMMA PrepareDefensiveKeeps == IInv /\ PrepareDefensive => IInv'
BY StoppedWithGoalie, IInvTask, PrepareKeeps DEF PrepareDefensive

LEMMA PrepareOffensiveKeeps ==
  ASSUME IInv, NEW visible \in SUBSET Robots, NEW ownHalf \in SUBSET visible,
         PrepareOffensive(visible, ownHalf)
  PROVE  IInv'
<1>1. CASE UNCHANGED <<prep, mirror>> /\ cmd' = WithGoalie(All("Stop"))
  BY <1>1, StoppedWithGoalie, IInvTask, PrepareKeeps DEF PrepareOffensive
<1>2. ASSUME NEW a \in Actors(visible), NEW r \in Robots \cup {NoId},
             cmd' = [WithGoalie(All("Stop")) EXCEPT ![a] = Posted],
             Mark(a, r, prep.acted, prep.followUp)
      PROVE  IInv'
  <2>1. a \in Robots
    BY ActorsAreRobots
  <2>2. PrepareTask
    BY DEF PrepareOffensive
  <2>3. ~prep.acted /\ ~prep.followUp
    BY <2>2, FlagTypes DEF PrepareTask
  <2>4. /\ TaskInv(prep', mirror')
        /\ prep'.phase = prep.phase /\ prep'.status = prep.status
    BY <1>2, <2>1, <2>2, <2>3, IInvTask, FlagTypes, MarkKeeps DEF PrepareTask
  <2>5. cmd' \in [Robots -> Orders]
    BY <1>2, <2>1, StoppedWithGoalie, Kinds, OrdersType
  <2>6. \A s \in Robots : cmd'[s].state = "Stop" \/ (s = goalie /\ cmd'[s].state = "Goalie")
    BY <1>2, <2>1, StoppedWithGoalie DEF Order
  <2>7. QED
    BY <2>2, <2>4, <2>5, <2>6, PrepareKeeps
<1>3. CASE Actors(visible) = {}
  BY <1>1, <1>3 DEF PrepareOffensive
<1>4. CASE Actors(visible) # {}
  <2>1. PICK a \in Actors(visible) :
          /\ cmd' = [WithGoalie(All("Stop")) EXCEPT ![a] = Posted]
          /\ \/ Mark(a, prep.receiver, prep.acted, prep.followUp)
             \/ \E r \in KickoffReceivers(a, ownHalf) : Mark(a, r, prep.acted, prep.followUp)
    BY <1>4 DEF PrepareOffensive
  <2>2. CASE Mark(a, prep.receiver, prep.acted, prep.followUp)
    BY <1>2, <2>1, <2>2, FlagTypes
  <2>3. ASSUME NEW r \in KickoffReceivers(a, ownHalf), Mark(a, r, prep.acted, prep.followUp)
        PROVE  IInv'
    <3>1. r \in Robots
      BY ReceiversAreRobots
    <3>2. QED
      BY <1>2, <2>1, <2>3, <3>1
  <2>4. QED
    BY <2>1, <2>2, <2>3
<1>5. QED
  BY <1>3, <1>4

LEMMA ExecuteDefensiveKeeps == IInv /\ ExecuteDefensive => IInv'
BY StoppedWithGoalie, IInvTask, ExecuteKeeps DEF ExecuteDefensive

LEMMA NobodyExecutesKeeps ==
  ASSUME IInv, NEW visible \in SUBSET Robots, NobodyExecutes(visible)
  PROVE  IInv'
BY CmdType, IInvTask, ExecuteKeeps DEF NobodyExecutes

LEMMA PenaltyKeeps ==
  ASSUME IInv, NEW visible \in SUBSET Robots, Penalty(visible)
  PROVE  IInv'
<1>1. PICK a \in Actors(visible) :
        /\ cmd' = IF a \in visible THEN [cmd EXCEPT ![a] = Plays] ELSE cmd
        /\ Mark(a, prep.receiver, TRUE, prep.followUp)
  BY DEF Penalty
<1>2. Logic /\ prep.status = "Ready" /\ prep.phase = "OffensivePenalty"
  BY DEF Penalty, Executing
<1>3. a \in Robots
  BY ActorsAreRobots
<1>4. cmd' \in [Robots -> Orders]
  BY <1>1, <1>3, CmdType, Kinds, OrdersType
<1>5. /\ TaskInv(prep', mirror')
      /\ prep'.phase = prep.phase /\ prep'.status = prep.status
  BY <1>1, <1>2, <1>3, IInvTask, FlagTypes, MarkKeeps
<1>6. QED
  BY <1>2, <1>4, <1>5, ExecuteKeeps

LEMMA KickoffKeeps ==
  ASSUME IInv, NEW visible \in SUBSET Robots, NEW ownHalf \in SUBSET visible,
         Kickoff(visible, ownHalf)
  PROVE  IInv'
<1>1. PICK a \in Actors(visible) :
        KickAlone(a) \/ \E r \in KickoffReceivers(a, ownHalf) : Pass(a, r)
  BY DEF Kickoff
<1>2. Logic /\ prep.status = "Ready" /\ a \in Robots
  BY ActorsAreRobots DEF Kickoff, Executing
<1>3. \A r \in KickoffReceivers(a, ownHalf) : r \in Robots /\ r # a
  BY ReceiversAreRobots
<1>4. QED
  BY <1>1, <1>2, <1>3, KickAloneKeeps, PassKeeps

\* A tick of an executed restart that latches a and r again and changes no flag but,
\* after the pass, the follow-up's.
LEMMA RemarkKeeps ==
  ASSUME IInv, Logic, prep.status = "Ready", cmd' \in [Robots -> Orders],
         NEW a \in Robots, NEW r \in Robots, r # a,
         \/ Mark(a, r, prep.acted, prep.followUp)
         \/ Mark(a, r, prep.acted, TRUE) /\ prep.acted
  PROVE  IInv'
<1>1. /\ TaskInv(prep', mirror')
      /\ prep'.phase = prep.phase /\ prep'.status = prep.status
  BY IInvTask, FlagTypes, MarkKeeps
<1>2. QED
  BY <1>1, ExecuteKeeps

LEMMA KickoffPassedKeeps ==
  ASSUME IInv, NEW visible \in SUBSET Robots, NEW ready \in BOOLEAN,
         KickoffPassed(visible, ready)
  PROVE  IInv'
<1>1. Logic /\ prep.status = "Ready"
  BY DEF KickoffPassed, Executing
<1>2. PICK a \in Actors(visible) :
        \/ ClearTask /\ UNCHANGED cmd
        \/ ClearTask /\ cmd' = [cmd EXCEPT ![a] = Posted]
        \/ \E r \in PassedReceivers(a) :
             /\ Mark(a, r, prep.acted, prep.followUp)
             /\ cmd' = [cmd EXCEPT ![a] = Posted, ![r] = Awaits]
  BY DEF KickoffPassed
<1>3. a \in Robots
  BY ActorsAreRobots
<1>4. CASE ClearTask
  <2>1. cmd' \in [Robots -> Orders]
    BY <1>2, <1>3, CmdType, Kinds, OrdersType, ReceiversAreRobots
  <2>2. QED
    BY <1>1, <1>4, <2>1, NoTaskInv, ExecuteKeeps DEF ClearTask
<1>5. ASSUME NEW r \in PassedReceivers(a), Mark(a, r, prep.acted, prep.followUp),
             cmd' = [cmd EXCEPT ![a] = Posted, ![r] = Awaits]
      PROVE  IInv'
  <2>1. r \in Robots /\ r # a
    BY ReceiversAreRobots
  <2>2. cmd' \in [Robots -> Orders]
    BY <1>3, <1>5, <2>1, CmdType, Kinds, OrdersType
  <2>3. QED
    BY <1>1, <1>3, <1>5, <2>1, <2>2, RemarkKeeps
<1>6. QED
  BY <1>2, <1>4, <1>5

LEMMA FreeKickAloneKeeps ==
  ASSUME IInv, NEW visible \in SUBSET Robots, FreeKickAlone(visible)
  PROVE  IInv'
BY ActorsAreRobots, KickAloneKeeps DEF FreeKickAlone, Executing

LEMMA FreeKickKeeps ==
  ASSUME IInv, NEW visible \in SUBSET Robots, NEW arrived \in BOOLEAN,
         FreeKick(visible, arrived)
  PROVE  IInv'
<1>1. Logic /\ prep.status = "Ready"
  BY DEF FreeKick, Executing
<1>2. PICK a \in Robots, r \in Robots :
        /\ r # a
        /\ \/ Pass(a, r)
           \/ /\ cmd' = [cmd EXCEPT ![a] = Drives, ![r] = Drives]
              /\ Mark(a, r, prep.acted, prep.followUp)
  BY ActorsAreRobots, ReceiversAreRobots DEF FreeKick
<1>3. a \in Robots /\ r \in Robots /\ r # a
  BY <1>2
<1>4. CASE Pass(a, r)
  BY <1>1, <1>3, <1>4, PassKeeps
<1>5. CASE /\ cmd' = [cmd EXCEPT ![a] = Drives, ![r] = Drives]
           /\ Mark(a, r, prep.acted, prep.followUp)
  <2>1. cmd' \in [Robots -> Orders]
    BY <1>3, <1>5, CmdType, Kinds, OrdersType
  <2>2. QED
    BY <1>1, <1>3, <1>5, <2>1, RemarkKeeps
<1>6. QED
  BY <1>2, <1>4, <1>5

LEMMA FreeKickPassedKeeps ==
  ASSUME IInv, NEW visible \in SUBSET Robots, NEW ready \in BOOLEAN,
         FreeKickPassed(visible, ready)
  PROVE  IInv'
<1>1. Logic /\ prep.status = "Ready" /\ prep.acted
  BY DEF FreeKickPassed, Executing
<1> DEFINE posted(a) == [cmd EXCEPT ![a] = Posted]
<1>2. PICK a \in Robots, r \in Robots :
        /\ r # a
        /\ \/ cmd' = [posted(a) EXCEPT ![r] = Plays]
           \/ cmd' = posted(a)
           \/ cmd' = [posted(a) EXCEPT ![r] = Awaits]
        /\ Mark(a, r, prep.acted, TRUE) \/ Mark(a, r, prep.acted, prep.followUp)
  BY ActorsAreRobots, ReceiversAreRobots DEF FreeKickPassed
<1>3. a \in Robots /\ r \in Robots /\ r # a
  BY <1>2
<1>4. posted(a) \in [Robots -> Orders]
  BY <1>3, CmdType, Kinds, OrdersType
<1> HIDE DEF posted
<1>5. cmd' \in [Robots -> Orders]
  BY <1>2, <1>3, <1>4, Kinds, OrdersType
<1>6. QED
  BY <1>1, <1>2, <1>3, <1>5, RemarkKeeps

LEMMA FreeKickShotKeeps ==
  ASSUME IInv, NEW visible \in SUBSET Robots, FreeKickShot(visible)
  PROVE  IInv'
<1>1. Logic /\ prep.status = "Ready"
  BY DEF FreeKickShot, Executing
<1> DEFINE posted(a) == [cmd EXCEPT ![a] = Posted]
<1>2. PICK a \in Robots, r \in Robots :
        /\ r # a
        /\ \/ cmd' = [posted(a) EXCEPT ![r] = Plays]
           \/ cmd' = posted(a)
        /\ Mark(a, r, prep.acted, prep.followUp)
  BY ActorsAreRobots, ReceiversAreRobots DEF FreeKickShot
<1>3. a \in Robots /\ r \in Robots /\ r # a
  BY <1>2
<1>4. posted(a) \in [Robots -> Orders]
  BY <1>3, CmdType, Kinds, OrdersType
<1> HIDE DEF posted
<1>5. cmd' \in [Robots -> Orders]
  BY <1>2, <1>3, <1>4, Kinds, OrdersType
<1>6. QED
  BY <1>1, <1>2, <1>3, <1>5, RemarkKeeps

LEMMA OpenPlayKeeps ==
  ASSUME IInv, Logic, UNCHANGED <<prep, mirror>>, cmd' \in [Robots -> Orders], HoldsStill'
  PROVE  IInv'
BY IInvTask, TickKeeps

LEMMA GameNotRunningKeeps == IInv /\ GameNotRunning => IInv'
<1> SUFFICES ASSUME IInv, GameNotRunning PROVE IInv'
  OBVIOUS
<1>1. cmd' = All("Stop") /\ Logic /\ UNCHANGED <<prep, mirror>>
  BY DEF GameNotRunning
<1>2. cmd' \in [Robots -> Orders] /\ \A r \in Robots : cmd'[r].state = "Stop"
  BY <1>1, CmdType, AllType DEF CmdStates
<1>3. HoldsStill'
  BY <1>2 DEF HoldsStill
<1>4. QED
  BY <1>1, <1>2, <1>3, OpenPlayKeeps

LEMMA HaltAllKeeps == IInv /\ HaltAll => IInv'
<1> SUFFICES ASSUME IInv, HaltAll PROVE IInv'
  OBVIOUS
<1>1. /\ cmd' = All("Halt") /\ Logic /\ UNCHANGED <<prep, mirror>>
      /\ phase = "Halted" /\ prep.status = "None"
  BY DEF HaltAll, OpenPlay
<1>2. cmd' \in [Robots -> Orders] /\ \A r \in Robots : cmd'[r].state = "Halt"
  BY <1>1, CmdType, AllType DEF CmdStates
<1>3. ref.kind # "Stop"
  BY <1>1 DEF IInv, TickInv, PhaseFollowsReferee, PhaseOf
<1>4. HoldsStill'
  BY <1>1, <1>2, <1>3 DEF HoldsStill, Logic
<1>5. QED
  BY <1>1, <1>2, <1>4, OpenPlayKeeps

LEMMA StopAllKeeps == IInv /\ StopAll => IInv'
<1> SUFFICES ASSUME IInv, StopAll PROVE IInv'
  OBVIOUS
<1>1. cmd' = All("Stop") /\ Logic /\ UNCHANGED <<prep, mirror>>
  BY DEF StopAll, OpenPlay
<1>2. cmd' \in [Robots -> Orders] /\ \A r \in Robots : cmd'[r].state = "Stop"
  BY <1>1, CmdType, AllType DEF CmdStates
<1>3. HoldsStill'
  BY <1>2 DEF HoldsStill
<1>4. QED
  BY <1>1, <1>2, <1>3, OpenPlayKeeps

\* In play, a timeout and our own ball placement nobody has to hold still.
LEMMA FreePhaseKeeps ==
  ASSUME IInv, NEW ph \in {"Running", "Timeout", "BallPlacement"}, OpenPlay(ph),
         cmd' \in [Robots -> Orders]
  PROVE  IInv'
<1>1. Logic /\ UNCHANGED <<prep, mirror>> /\ phase = ph /\ prep.status = "None"
  BY DEF OpenPlay
<1>2. ref.kind # "Stop"
  BY <1>1 DEF IInv, TickInv, PhaseFollowsReferee, PhaseOf
<1>3. HoldsStill'
  BY <1>1, <1>2 DEF HoldsStill, Logic
<1>4. QED
  BY <1>1, <1>3, OpenPlayKeeps

LEMMA RunAIKeeps == IInv /\ RunAI => IInv'
<1> SUFFICES ASSUME IInv, RunAI PROVE IInv'
  OBVIOUS
<1> DEFINE base == WithGoalie(cmd)
<1>1. base \in [Robots -> Orders]
  BY CmdType DEF WithGoalie, Orders, CmdStates
<1>2. \A r \in Robots : AIOrders(r, base[r]) \subseteq Orders
  BY <1>1 DEF AIOrders, Order, Orders, CmdStates, CmdTasks
<1>3. cmd' \in [Robots -> Orders]
  <2> DEFINE choices == [r \in Robots |-> AIOrders(r, base[r])]
  <2>1. cmd' \in [Robots -> UNION {choices[r] : r \in Robots}]
        /\ \A r \in Robots : cmd'[r] \in choices[r]
    BY DEF RunAI
  <2>2. \A r \in Robots : choices[r] = AIOrders(r, base[r])
    OBVIOUS
  <2> HIDE DEF choices, base
  <2>3. QED
    BY <1>2, <2>1, <2>2
<1>4. QED
  BY <1>3, FreePhaseKeeps DEF RunAI

LEMMA LineUpKeeps == IInv /\ LineUp => IInv'
<1> SUFFICES ASSUME IInv, LineUp PROVE IInv'
  OBVIOUS
<1>1. cmd' \in [Robots -> Orders]
  BY CmdType DEF LineUp, Orders, CmdTasks
<1>2. QED
  BY <1>1, FreePhaseKeeps DEF LineUp

LEMMA PlaceBallKeeps == IInv /\ PlaceBall => IInv'
<1> SUFFICES ASSUME IInv, PlaceBall PROVE IInv'
  OBVIOUS
<1>1. cmd' \in [Robots -> Orders]
  BY CmdType DEF PlaceBall, Orders, CmdTasks
<1>2. QED
  BY <1>1, FreePhaseKeeps DEF PlaceBall

-----------------------------------------------------------------------------
(* Theorems *)

LEMMA ModeGameKeeps == IInv /\ ModeGame => IInv'
BY PrepareDefensiveKeeps, ExecuteDefensiveKeeps, PrepareOffensiveKeeps, KickoffKeeps,
   NobodyExecutesKeeps, PenaltyKeeps, KickoffPassedKeeps, FreeKickAloneKeeps, FreeKickKeeps,
   FreeKickPassedKeeps, FreeKickShotKeeps, HaltAllKeeps, StopAllKeeps, RunAIKeeps,
   LineUpKeeps, PlaceBallKeeps
   DEF ModeGame

LEMMA StutterKeeps == IInv /\ UNCHANGED vars => IInv'
BY DEF vars, IInv, TickInv, TypeOK, MirrorAgrees, TaskMatchesReferee, PhaseFollowsReferee,
       RobotsLatched, PassHasTwoEnds, PassPending, HoldsStill

\* IInv holds in every state of every behaviour, for any robots.
THEOREM Invariance == Spec => []IInv
<1>1. IInv /\ [Next]_vars => IInv'
  BY UpdateKeeps, ModeGameKeeps, GameNotRunningKeeps, StutterKeeps DEF Next, IInv
<1>2. QED
  BY InitIInv, <1>1, PTL DEF Spec

\* Every variable keeps its type; a task that is over leaves nothing latched.
THEOREM TypeCorrect == Spec => []TypeOK
BY Invariance, PTL DEF IInv, TickInv

\* WorldState's two copies of the restart agree.
THEOREM MirrorCorrect == Spec => []MirrorAgrees
BY Invariance, PTL DEF IInv, TickInv

\* No restart outlives the referee command that allows it.
THEOREM RestartCorrect == Spec => []TaskMatchesReferee
BY Invariance, PTL DEF IInv, TickInv

\* Halt, Stop and the time before NormalStart keep the robots still.
THEOREM StillCorrect == Spec => []HoldsStill
BY Invariance, PTL DEF IInv, TickInv

\* A pass on its way has two different configured robots at its ends.
THEOREM PassCorrect == Spec => []PassHasTwoEnds
BY Invariance, PTL DEF IInv, TickInv

-----------------------------------------------------------------------------
(* The action properties of Restart *)

-----------------------------------------------------------------------------
(* Until the referee gives a new command, a pass on its way is not ended *)

LEMMA KeepCommandKeepsPass ==
  ASSUME NEW t, NEW g, NEW moved \in BOOLEAN, KeepCommand(t, g, moved), PassPending(prep)
  PROVE  prep' = prep
BY DEF KeepCommand, ClearFinished, FinishedByBall

LEMMA NewCommandIsNew ==
  ASSUME NEW t, NEW g, NEW c, NEW moved,
         StartRestart(t, g, c) \/ BeginPlay(t, g, c, moved) \/ Interrupt(t, g, c)
  PROVE  isNew' = TRUE
BY DEF StartRestart, BeginPlay, Interrupt, ReadReferee

\* Only the second half of a tick runs at pc = "logic".
LEMMA ModeGameIsLogic == ModeGame => Logic
BY DEF ModeGame, PrepareDefensive, PrepareTask, ExecuteDefensive, PrepareOffensive, Kickoff,
       Executing, NobodyExecutes, Penalty, KickoffPassed, FreeKickAlone, FreeKick,
       FreeKickPassed, FreeKickShot, HaltAll, StopAll, RunAI, LineUp, PlaceBall, OpenPlay

\* A ball that moves, or a change of team or keeper, does not end a restart whose pass is
\* not taken (clear_finished_prep_task).
THEOREM PassLives == Spec => PassStaysAlive
<1>1. [Next]_vars => [pc = "update" /\ PassPending(prep) /\ ~isNew' => prep' = prep]_vars
  <2> SUFFICES ASSUME Next, pc = "update", PassPending(prep), ~isNew'
               PROVE  prep' = prep
    OBVIOUS
  <2>1. ~ModeGame /\ ~GameNotRunning
    BY ModeGameIsLogic DEF GameNotRunning, Logic
  <2>2. PICK t \in Teams, g \in Ids, moved \in BOOLEAN : KeepCommand(t, g, moved)
    BY <2>1, NewCommandIsNew DEF Next, Update
  <2>3. QED
    BY <2>2, KeepCommandKeepsPass
<1>2. QED
  BY <1>1, PTL DEF Spec, PassStaysAlive

-----------------------------------------------------------------------------
(* The taker plays the ball once *)

\* A tick in which the pass is on its way and its two ends are still available.
PassTick ==
  /\ PassPending(prep)
  /\ Available(prep.actor)
  /\ Available(prep.receiver)

LEMMA PassTickFacts ==
  ASSUME IInv, PassTick
  PROVE  /\ prep.status = "Ready"
         /\ prep.phase \in {"OffensiveKickoff", "OffensiveFreeKick"}
         /\ prep.acted = TRUE /\ prep.followUp = FALSE
         /\ prep.actor \in Robots /\ prep.receiver \in Robots /\ prep.actor # prep.receiver
         /\ \A visible : Actors(visible) = {prep.actor}
         /\ \A visible : Receivers(prep.actor, visible) = {prep.receiver}
         /\ PassedReceivers(prep.actor) = {prep.receiver}
<1>1. /\ prep.status = "Ready"
      /\ prep.phase \in {"OffensiveKickoff", "OffensiveFreeKick"}
      /\ prep.acted = TRUE /\ prep.followUp = FALSE
  BY FlagTypes DEF PassTick, PassPending, IInv, TickInv, TaskMatchesReferee
<1>2. prep.actor \in Robots /\ prep.receiver \in Robots /\ prep.actor # prep.receiver
  BY DEF PassTick, IInv, TickInv, PassHasTwoEnds
<1>3. \A visible : Actors(visible) = {prep.actor}
  BY <1>2, RobotsAssumption DEF PassTick, Actors
<1>4. \A visible : Receivers(prep.actor, visible) = {prep.receiver}
  BY <1>2 DEF PassTick, Receivers
<1>5. PassedReceivers(prep.actor) = {prep.receiver}
  BY <1>2 DEF PassTick, PassedReceivers
<1>6. QED
  BY <1>1, <1>2, <1>3, <1>4, <1>5

LEMMA PassTickOrders ==
  ASSUME IInv, PassTick, ModeGame
  PROVE  cmd'[prep.actor] # Plays
<1> DEFINE a == prep.actor
           r == prep.receiver
           posted == [cmd EXCEPT ![a] = Posted]
<1>1. /\ ~PrepareDefensive /\ ~ExecuteDefensive
      /\ ~HaltAll /\ ~StopAll /\ ~RunAI /\ ~LineUp /\ ~PlaceBall
  BY PassTickFacts DEF PrepareDefensive, PrepareTask, ExecuteDefensive, HaltAll, StopAll, RunAI,
     LineUp, PlaceBall, OpenPlay, Offensive
<1>2. ASSUME NEW visible \in SUBSET Robots
      PROVE  /\ \A ownHalf : ~PrepareOffensive(visible, ownHalf) /\ ~Kickoff(visible, ownHalf)
             /\ ~NobodyExecutes(visible) /\ ~Penalty(visible) /\ ~FreeKickAlone(visible)
             /\ ~FreeKickShot(visible) /\ \A seen : ~FreeKick(visible, seen)
  BY PassTickFacts DEF PrepareOffensive, PrepareTask, Kickoff, Executing, NobodyExecutes,
     Penalty, FreeKickAlone, FreeKickShot, FreeKick
<1>3. PICK visible \in SUBSET Robots, seen \in BOOLEAN :
        KickoffPassed(visible, seen) \/ FreeKickPassed(visible, seen)
  BY <1>1, <1>2 DEF ModeGame
<1>4. \/ cmd' = posted
      \/ cmd' = [posted EXCEPT ![r] = Plays]
      \/ cmd' = [posted EXCEPT ![r] = Awaits]
  <2>1. CASE KickoffPassed(visible, seen)
    <3>1. PICK b \in Actors(visible) :
            \/ PassedReceivers(b) = {}
            \/ \E s \in PassedReceivers(b) :
                 \/ cmd' = [cmd EXCEPT ![b] = Posted]
                 \/ cmd' = [cmd EXCEPT ![b] = Posted, ![s] = Awaits]
      BY <2>1 DEF KickoffPassed
    <3>2. b = a /\ PassedReceivers(b) = {r}
      BY PassTickFacts
    <3>3. QED
      BY <3>1, <3>2
  <2>2. CASE FreeKickPassed(visible, seen)
    <3>1. PICK b \in Actors(visible) : \E s \in Receivers(b, visible) :
            \/ cmd' = [[cmd EXCEPT ![b] = Posted] EXCEPT ![s] = Plays]
            \/ cmd' = [cmd EXCEPT ![b] = Posted]
            \/ cmd' = [[cmd EXCEPT ![b] = Posted] EXCEPT ![s] = Awaits]
      BY <2>2 DEF FreeKickPassed
    <3>2. b = a
      BY PassTickFacts
    <3>3. Receivers(b, visible) = {r}
      BY <3>2, PassTickFacts
    <3>4. QED
      BY <3>1, <3>2, <3>3
  <2>3. QED
    BY <1>3, <2>1, <2>2
<1>5. a \in Robots /\ r \in Robots /\ a # r
  BY PassTickFacts
<1>6. posted[a] = Posted
  BY <1>5, CmdType
<1>7. cmd'[a] = posted[a]
  BY <1>4, <1>5, CmdType
<1>8. QED
  BY <1>6, <1>7 DEF Order

\* While its pass is on the way, the taker is not sent out with a kick again.
THEOREM TakerCorrect == Spec => TakerPlaysOnce
<1>1. IInv /\ [Next]_vars =>
        [Tick /\ PassPending(prep) /\ Available(prep.actor) /\ Available(prep.receiver) =>
           cmd'[prep.actor] # Plays]_vars
  <2> SUFFICES ASSUME IInv, Next, Tick, PassTick
               PROVE  cmd'[prep.actor] # Plays
    BY DEF PassTick
  <2>1. CASE ModeGame
    BY <2>1, PassTickOrders
  <2>2. CASE GameNotRunning
    <3>1. cmd' = All("Stop") /\ prep.actor \in Robots
      BY <2>2, PassTickFacts DEF GameNotRunning
    <3>2. cmd'[prep.actor].state = "Stop"
      BY <3>1, CmdType, AllType DEF CmdStates
    <3>3. QED
      BY <3>2 DEF Order
  <2>3. ~Update
    BY DEF Tick, Update, StartRestart, BeginPlay, Interrupt, KeepCommand, ReadReferee
  <2>4. QED
    BY <2>1, <2>2, <2>3 DEF Next
<1>2. QED
  BY Invariance, <1>1, PTL DEF Spec, TakerPlaysOnce

-----------------------------------------------------------------------------
(* A restart counts as acted when the ball is ordered played *)

\* What ActedIsOrdered asks of a step that sets the flag.
OrderedPlayed ==
  /\ cmd'[prep'.actor] = Plays
  /\ ~prep'.followUp => cmd'[prep'.receiver] = Awaits

LEMMA KickAloneOrders ==
  ASSUME IInv, NEW a \in Robots, KickAlone(a)
  PROVE  OrderedPlayed
<1>1. prep'.actor = a /\ prep'.followUp = TRUE
  BY IInvTask DEF KickAlone, Mark, TaskInv, Tasks
<1>2. cmd'[a] = Plays
  BY CmdType DEF KickAlone
<1>3. QED
  BY <1>1, <1>2 DEF OrderedPlayed

LEMMA PassOrders ==
  ASSUME IInv, NEW a \in Robots, NEW r \in Robots, r # a, Pass(a, r)
  PROVE  OrderedPlayed
<1>1. prep'.actor = a /\ prep'.receiver = r
  BY IInvTask DEF Pass, Mark, TaskInv, Tasks
<1>2. cmd'[a] = Plays /\ cmd'[r] = Awaits
  BY CmdType DEF Pass
<1>3. QED
  BY <1>1, <1>2 DEF OrderedPlayed

\* A step that clears the task, leaves it, or marks it with the flag it has sets no flag.
LEMMA NotActed ==
  ASSUME IInv, ~prep.acted,
         \/ ClearTask
         \/ prep' = prep
         \/ \E a, r, followUp : Mark(a, r, prep.acted, followUp)
  PROVE  ~prep'.acted
<1>1. prep.acted = FALSE
  BY FlagTypes
<1>2. CASE ClearTask
  BY <1>2 DEF ClearTask, NoTask, NewTask
<1>3. CASE prep' = prep
  BY <1>1, <1>3
<1>4. ASSUME NEW a, NEW r, NEW followUp, Mark(a, r, prep.acted, followUp)
      PROVE  prep'.acted = FALSE
  BY <1>1, <1>4, IInvTask DEF Mark, TaskInv, Tasks
<1>5. QED
  BY <1>2, <1>3, <1>4

LEMMA ActedOrders ==
  ASSUME IInv, ModeGame, prep.phase # "OffensivePenalty", ~prep.acted, prep'.acted
  PROVE  OrderedPlayed
<1>1. /\ ~PrepareDefensive /\ ~ExecuteDefensive
      /\ ~HaltAll /\ ~StopAll /\ ~RunAI /\ ~LineUp /\ ~PlaceBall
  BY NotActed DEF PrepareDefensive, ExecuteDefensive, HaltAll, StopAll, RunAI, LineUp,
     PlaceBall, OpenPlay
<1>2. PICK visible \in SUBSET Robots, seen \in BOOLEAN :
        \/ \E ownHalf \in SUBSET visible :
             PrepareOffensive(visible, ownHalf) \/ Kickoff(visible, ownHalf)
        \/ NobodyExecutes(visible)
        \/ Penalty(visible)
        \/ KickoffPassed(visible, seen)
        \/ FreeKickAlone(visible)
        \/ FreeKick(visible, seen)
        \/ FreeKickPassed(visible, seen)
        \/ FreeKickShot(visible)
  BY <1>1 DEF ModeGame
<1>3. ASSUME NEW ownHalf \in SUBSET visible, PrepareOffensive(visible, ownHalf)
      PROVE  FALSE
  BY <1>3, NotActed DEF PrepareOffensive
<1>4. ASSUME NEW ownHalf \in SUBSET visible, Kickoff(visible, ownHalf)
      PROVE  OrderedPlayed
  <2>1. PICK a \in Actors(visible) :
          KickAlone(a) \/ \E r \in KickoffReceivers(a, ownHalf) : Pass(a, r)
    BY <1>4 DEF Kickoff
  <2>2. a \in Robots /\ \A r \in KickoffReceivers(a, ownHalf) : r \in Robots /\ r # a
    BY ActorsAreRobots, ReceiversAreRobots
  <2>3. QED
    BY <2>1, <2>2, KickAloneOrders, PassOrders
<1>5. ~NobodyExecutes(visible) /\ ~Penalty(visible)
  BY NotActed DEF NobodyExecutes, Penalty, Executing
<1>6. ~KickoffPassed(visible, seen) /\ ~FreeKickPassed(visible, seen)
  BY DEF KickoffPassed, FreeKickPassed
<1>7. ~FreeKickShot(visible)
  BY NotActed DEF FreeKickShot
<1>8. CASE FreeKickAlone(visible)
  BY <1>8, ActorsAreRobots, KickAloneOrders DEF FreeKickAlone
<1>9. CASE FreeKick(visible, seen)
  <2>1. PICK a \in Actors(visible) : \E r \in Receivers(a, visible) :
          Pass(a, r) \/ Mark(a, r, prep.acted, prep.followUp)
    BY <1>9 DEF FreeKick
  <2>2. a \in Robots /\ \A r \in Receivers(a, visible) : r \in Robots /\ r # a
    BY ActorsAreRobots, ReceiversAreRobots
  <2>3. QED
    BY <2>1, <2>2, PassOrders, NotActed
<1>10. QED
  BY <1>2, <1>3, <1>4, <1>5, <1>6, <1>7, <1>8, <1>9

\* What ActedIsOrdered asks of a step that sets the flag of the follow-up.
OrderedOn ==
  cmd'[IF Available(prep'.receiver) /\ prep'.receiver # prep'.actor
         THEN prep'.receiver ELSE prep'.actor] = Plays

\* A step that clears the task, leaves it, or marks it with the flag it has sets no flag.
LEMMA NotPlayedOn ==
  ASSUME IInv, ~prep.followUp,
         \/ ClearTask
         \/ prep' = prep
         \/ \E a, r, acted : Mark(a, r, acted, prep.followUp)
  PROVE  ~prep'.followUp
<1>1. prep.followUp = FALSE
  BY FlagTypes
<1>2. CASE ClearTask
  BY <1>2 DEF ClearTask, NoTask, NewTask
<1>3. CASE prep' = prep
  BY <1>1, <1>3
<1>4. ASSUME NEW a, NEW r, NEW acted, Mark(a, r, acted, prep.followUp)
      PROVE  prep'.followUp = FALSE
  BY <1>1, <1>4, IInvTask DEF Mark, TaskInv, Tasks
<1>5. QED
  BY <1>2, <1>3, <1>4

\* With nobody left to receive, the taker plays the ball.
LEMMA AloneOrdersOn ==
  ASSUME IInv, NEW visible \in SUBSET Robots, NEW a \in Actors(visible), Logic,
         Receivers(a, visible) = {}, KickAlone(a)
  PROVE  OrderedOn
<1>1. a \in Robots
  BY ActorsAreRobots
<1>2. prep'.actor = a /\ prep'.receiver = prep.receiver
  BY IInvTask DEF KickAlone, Mark, TaskInv, Tasks
<1>3. ~(Available(prep.receiver) /\ prep.receiver # a)
  BY DEF Receivers
<1>4. cmd'[a] = Plays
  BY <1>1, CmdType DEF KickAlone
<1>5. QED
  BY <1>2, <1>3, <1>4 DEF OrderedOn

LEMMA PlayedOnOrders ==
  ASSUME IInv, ModeGame, PassPending(prep), prep'.followUp
  PROVE  OrderedOn
<1>1. prep.acted /\ ~prep.followUp /\ prep.status = "Ready"
      /\ prep.phase \in {"OffensiveKickoff", "OffensiveFreeKick"}
  BY FlagTypes DEF PassPending
<1>2. /\ ~PrepareDefensive /\ ~ExecuteDefensive
      /\ ~HaltAll /\ ~StopAll /\ ~RunAI /\ ~LineUp /\ ~PlaceBall
  BY <1>1, NotPlayedOn DEF PrepareDefensive, ExecuteDefensive, HaltAll, StopAll, RunAI,
     LineUp, PlaceBall, OpenPlay
<1>3. PICK visible \in SUBSET Robots, seen \in BOOLEAN :
        \/ \E ownHalf \in SUBSET visible :
             PrepareOffensive(visible, ownHalf) \/ Kickoff(visible, ownHalf)
        \/ NobodyExecutes(visible)
        \/ Penalty(visible)
        \/ KickoffPassed(visible, seen)
        \/ FreeKickAlone(visible)
        \/ FreeKick(visible, seen)
        \/ FreeKickPassed(visible, seen)
        \/ FreeKickShot(visible)
  BY <1>2 DEF ModeGame
<1>4. \A ownHalf \in SUBSET visible :
        ~PrepareOffensive(visible, ownHalf) /\ ~Kickoff(visible, ownHalf)
  BY <1>1 DEF PrepareOffensive, PrepareTask, Kickoff
<1>5. ~NobodyExecutes(visible) /\ ~Penalty(visible)
  BY <1>1, NotPlayedOn DEF NobodyExecutes, Penalty, Executing
<1>6. ~KickoffPassed(visible, seen)
  BY <1>1, NotPlayedOn DEF KickoffPassed
<1>7. ~FreeKick(visible, seen) /\ ~FreeKickShot(visible)
  BY <1>1 DEF FreeKick, FreeKickShot
<1>8. CASE FreeKickAlone(visible)
  BY <1>8, AloneOrdersOn DEF FreeKickAlone, Executing
<1>9. CASE FreeKickPassed(visible, seen)
  <2>. PICK a \in Actors(visible) : \E r \in Receivers(a, visible) :
         /\ cmd' = [[cmd EXCEPT ![a] = Posted] EXCEPT ![r] = Plays]
         /\ Mark(a, r, prep.acted, TRUE)
    BY <1>1, <1>9, NotPlayedOn DEF FreeKickPassed
  <2>1. PICK r \in Receivers(a, visible) :
          /\ cmd' = [[cmd EXCEPT ![a] = Posted] EXCEPT ![r] = Plays]
          /\ Mark(a, r, prep.acted, TRUE)
    OBVIOUS
  <2>2. a \in Robots /\ r \in Robots /\ r # a /\ r # goalie
    BY ActorsAreRobots, ReceiversAreRobots
  <2>3. prep'.actor = a /\ prep'.receiver = r
    BY <2>1, IInvTask DEF Mark, TaskInv, Tasks
  <2>4. cmd'[r] = Plays
    BY <2>1, <2>2, CmdType
  <2>5. QED
    BY <2>2, <2>3, <2>4 DEF OrderedOn, Available
<1>10. QED
  BY <1>3, <1>4, <1>5, <1>6, <1>7, <1>8, <1>9

\* has_acted and follow_up_acted are never set without the orders that get the ball played.
THEOREM ActedCorrect == Spec => ActedIsOrdered
<1>1. IInv /\ [Next]_vars =>
        [/\ Tick /\ prep.phase # "OffensivePenalty" /\ ~prep.acted /\ prep'.acted => OrderedPlayed
         /\ Tick /\ PassPending(prep) /\ prep'.followUp => OrderedOn]_vars
  <2> SUFFICES ASSUME IInv, Next, Tick
               PROVE  /\ prep.phase # "OffensivePenalty" /\ ~prep.acted /\ prep'.acted => OrderedPlayed
                      /\ PassPending(prep) /\ prep'.followUp => OrderedOn
    OBVIOUS
  <2>1. GameNotRunning => prep' = prep
    BY DEF GameNotRunning
  <2>2. ~Update
    BY DEF Tick, Update, StartRestart, BeginPlay, Interrupt, KeepCommand, ReadReferee
  <2>3. CASE ModeGame
    BY <2>3, ActedOrders, PlayedOnOrders
  <2>4. QED
    BY <2>1, <2>2, <2>3 DEF Next, PassPending
<1>2. QED
  BY Invariance, <1>1, PTL DEF Spec, ActedIsOrdered, OrderedPlayed, OrderedOn

-----------------------------------------------------------------------------
(* A restart never sends the keeper out *)

\* What KeeperStaysHome asks of a step.
KeeperHome == cmd'[goalie] = cmd[goalie] \/ cmd'[goalie].state # "Free"

\* Orders for robots that are not the keeper, on top of f.
LEMMA OthersOrdered ==
  ASSUME goalie \in Robots, NEW f \in [Robots -> Orders],
         f[goalie] = cmd[goalie] \/ f[goalie].state # "Free",
         NEW a \in Robots \ {goalie}, NEW r \in Robots \ {goalie}, NEW o, NEW p,
         \/ cmd' = f
         \/ cmd' = [f EXCEPT ![a] = o]
         \/ cmd' = [f EXCEPT ![a] = o, ![r] = p]
         \/ cmd' = [[f EXCEPT ![a] = o] EXCEPT ![r] = p]
  PROVE  KeeperHome
<1>1. cmd'[goalie] = f[goalie]
  OBVIOUS
<1>2. QED
  BY <1>1 DEF KeeperHome

\* The robots of a restart are not the keeper.
LEMMA FieldRobots ==
  ASSUME NEW visible \in SUBSET Robots
  PROVE  /\ Actors(visible) \subseteq Robots \ {goalie}
         /\ \A a : /\ Receivers(a, visible) \subseteq Robots \ {goalie}
                   /\ KickoffReceivers(a, visible) \subseteq Robots \ {goalie}
                   /\ PassedReceivers(a) \subseteq Robots \ {goalie}
BY ActorsAreRobots, ReceiversAreRobots

LEMMA StoppedKeeper ==
  ASSUME IInv, goalie \in Robots
  PROVE  WithGoalie(All("Stop"))[goalie].state # "Free"
BY StoppedWithGoalie

LEMMA RestartKeepsHome ==
  ASSUME IInv, goalie \in Robots, Latched, ModeGame
  PROVE  KeeperHome
<1>1. ~HaltAll /\ ~StopAll /\ ~RunAI /\ ~LineUp /\ ~PlaceBall
  BY DEF Latched, HaltAll, StopAll, RunAI, LineUp, PlaceBall, OpenPlay
<1>2. CASE cmd' = WithGoalie(All("Stop"))
  BY <1>2, StoppedKeeper DEF KeeperHome
<1>3. CASE UNCHANGED cmd
  BY <1>3 DEF KeeperHome
<1>4. ASSUME NEW visible \in SUBSET Robots, NEW ownHalf \in SUBSET visible,
             PrepareOffensive(visible, ownHalf)
      PROVE  KeeperHome
  <2>1. CASE Actors(visible) = {}
    BY <1>2, <1>4, <2>1 DEF PrepareOffensive
  <2>2. ASSUME NEW a \in Actors(visible), cmd' = [WithGoalie(All("Stop")) EXCEPT ![a] = Posted]
        PROVE  KeeperHome
    BY <2>2, FieldRobots, StoppedWithGoalie, StoppedKeeper, OthersOrdered
  <2>3. QED
    BY <1>4, <2>1, <2>2 DEF PrepareOffensive
<1>5. ASSUME NEW a \in Robots \ {goalie}, NEW r \in Robots \ {goalie}, NEW o, NEW p,
             \/ cmd' = [cmd EXCEPT ![a] = o]
             \/ cmd' = [cmd EXCEPT ![a] = o, ![r] = p]
             \/ cmd' = [[cmd EXCEPT ![a] = o] EXCEPT ![r] = p]
      PROVE  KeeperHome
  BY <1>5, CmdType, OthersOrdered
<1>6. ASSUME NEW visible \in SUBSET Robots, NEW ownHalf \in SUBSET visible,
             Kickoff(visible, ownHalf)
      PROVE  KeeperHome
  <2>1. PICK a \in Actors(visible) :
          KickAlone(a) \/ \E r \in KickoffReceivers(a, ownHalf) : Pass(a, r)
    BY <1>6 DEF Kickoff
  <2>2. a \in Robots \ {goalie} /\ KickoffReceivers(a, ownHalf) \subseteq Robots \ {goalie}
    BY FieldRobots
  <2>3. CASE KickAlone(a)
    BY <1>5, <2>2, <2>3 DEF KickAlone
  <2>4. ASSUME NEW r \in KickoffReceivers(a, ownHalf), Pass(a, r)
        PROVE  KeeperHome
    BY <1>5, <2>2, <2>4 DEF Pass
  <2>5. QED
    BY <2>1, <2>3, <2>4
<1>7. ASSUME NEW visible \in SUBSET Robots, Penalty(visible) \/ FreeKickAlone(visible)
      PROVE  KeeperHome
  BY <1>3, <1>5, <1>7, FieldRobots DEF Penalty, FreeKickAlone, KickAlone
<1>8. ASSUME NEW visible \in SUBSET Robots, NEW seen \in BOOLEAN, KickoffPassed(visible, seen)
      PROVE  KeeperHome
  <2>1. PICK a \in Actors(visible) :
          \/ UNCHANGED cmd
          \/ \E r \in PassedReceivers(a) :
               \/ cmd' = [cmd EXCEPT ![a] = Posted]
               \/ cmd' = [cmd EXCEPT ![a] = Posted, ![r] = Awaits]
    BY <1>8 DEF KickoffPassed
  <2>2. a \in Robots \ {goalie} /\ PassedReceivers(a) \subseteq Robots \ {goalie}
    BY FieldRobots
  <2>3. QED
    BY <1>3, <1>5, <2>1, <2>2
<1>9. ASSUME NEW visible \in SUBSET Robots, NEW seen \in BOOLEAN,
             \/ FreeKick(visible, seen)
             \/ FreeKickPassed(visible, seen)
             \/ FreeKickShot(visible)
      PROVE  KeeperHome
  <2>1. PICK a \in Actors(visible) : \E r \in Receivers(a, visible), o, p \in Orders :
          \/ cmd' = [cmd EXCEPT ![a] = o]
          \/ cmd' = [cmd EXCEPT ![a] = o, ![r] = p]
          \/ cmd' = [[cmd EXCEPT ![a] = o] EXCEPT ![r] = p]
    <3>1. {Plays, Awaits, Drives, Posted} \subseteq Orders
      BY Kinds
    <3>2. CASE FreeKick(visible, seen)
      BY <3>1, <3>2 DEF FreeKick, Pass
    <3>3. CASE FreeKickPassed(visible, seen)
      BY <3>1, <3>3 DEF FreeKickPassed
    <3>4. CASE FreeKickShot(visible)
      BY <3>1, <3>4 DEF FreeKickShot
    <3>5. QED
      BY <1>9, <3>2, <3>3, <3>4
  <2>2. a \in Robots \ {goalie} /\ Receivers(a, visible) \subseteq Robots \ {goalie}
    BY FieldRobots
  <2>3. QED
    BY <1>5, <2>1, <2>2
<1>10. QED
  BY <1>1, <1>2, <1>3, <1>4, <1>6, <1>7, <1>8, <1>9
     DEF ModeGame, PrepareDefensive, ExecuteDefensive, NobodyExecutes

\* No tick with a restart latched gives the keeper a new order to act freely.
THEOREM KeeperCorrect == Spec => KeeperStaysHome
<1>1. IInv /\ [Next]_vars =>
        [Tick /\ Latched /\ goalie \in Robots =>
           cmd'[goalie] = cmd[goalie] \/ cmd'[goalie].state # "Free"]_vars
  <2> SUFFICES ASSUME IInv, Next, Tick, Latched, goalie \in Robots
               PROVE  KeeperHome
    BY DEF KeeperHome
  <2>1. CASE ModeGame
    BY <2>1, RestartKeepsHome
  <2>2. CASE GameNotRunning
    BY <2>2, CmdType, AllType DEF GameNotRunning, KeeperHome, CmdStates
  <2>3. ~Update
    BY DEF Tick, Update, StartRestart, BeginPlay, Interrupt, KeepCommand, ReadReferee
  <2>4. QED
    BY <2>1, <2>2, <2>3 DEF Next
<1>2. QED
  BY Invariance, <1>1, PTL DEF Spec, KeeperStaysHome

-----------------------------------------------------------------------------
(* Restart implements RestartLifecycle *)

course == <<ref.kind, prep.phase, Stage>>

LEMMA StartRefines ==
  ASSUME NEW t, NEW g, NEW c, StartRestart(t, g, c)
  PROVE  Lifecycle!Open(c.kind)
<1>1. c.kind \in RestartKinds /\ ref' = c
  BY DEF StartRestart, ReadReferee
<1>2. prep' = NewTask(PrepPhaseFor(c, t), IF c.kind = "FreeKick" THEN "Ready" ELSE "Preparing")
  BY DEF StartRestart
<1>3. prep'.phase \in Lifecycle!Opens(c.kind)
  BY <1>1, <1>2 DEF RestartKinds, NewTask, PrepPhaseFor, Lifecycle!Opens
<1>4. Stage' = IF c.kind = "FreeKick" THEN "ready" ELSE "preparing"
  BY <1>2 DEF Stage, PassPending, NewTask
<1>5. QED
  BY <1>1, <1>3, <1>4 DEF Lifecycle!Open

LEMMA OverWithoutTask ==
  ASSUME prep' = NoTask
  PROVE  Lifecycle!Over
BY DEF Lifecycle!Over, Stage, NoTask, NewTask

LEMMA InterruptRefines ==
  ASSUME NEW t, NEW g, NEW c, Interrupt(t, g, c)
  PROVE  Lifecycle!CallOff(c.kind)
<1>1. c.kind \in InterruptKinds /\ ref' = c /\ prep' = NoTask
  BY DEF Interrupt, ReadReferee, ClearTask
<1>2. QED
  BY <1>1, OverWithoutTask DEF Lifecycle!CallOff, Lifecycle!Opens, InterruptKinds

LEMMA BeginPlayRefines ==
  ASSUME TickInv, NEW t, NEW g, NEW c, NEW moved, BeginPlay(t, g, c, moved)
  PROVE  Lifecycle!Release
<1> DEFINE task == IF prep.status = "Preparing" THEN [prep EXCEPT !.status = "Ready"] ELSE prep
<1>1. ref'.kind = "Running" /\ ClearFinished(task, moved)
  BY DEF BeginPlay, ReadReferee
<1>2. CASE prep' = task
  <2>1. prep'.phase = prep.phase
    BY <1>2, TickTask DEF TaskInv, Tasks
  <2>2. Stage' = IF Stage = "preparing" THEN "ready" ELSE Stage
    <3>1. CASE prep.status = "Preparing"
      <4>1. prep'.status = "Ready" /\ prep'.acted = FALSE
        BY <1>2, <3>1, TickTask DEF TaskInv, Tasks
      <4>2. QED
        BY <3>1, <4>1 DEF Stage, PassPending
    <3>2. CASE prep.status # "Preparing"
      <4>1. prep' = prep
        BY <1>2, <3>2
      <4>2. Stage # "preparing" /\ Stage' = Stage
        BY <3>2, <4>1 DEF Stage, PassPending
      <4>3. QED
        BY <4>2
    <3>3. QED
      BY <3>1, <3>2
  <2>3. QED
    BY <1>1, <2>1, <2>2 DEF Lifecycle!Release
<1>3. CASE prep' # task
  <2>1. prep' = NoTask /\ FinishedByBall(task)
    BY <1>1, <1>3 DEF ClearFinished, ClearTask
  <2>2. Stage # "passed"
    <3>1. CASE prep.status = "Preparing"
      BY <3>1 DEF Stage
    <3>2. CASE prep.status # "Preparing"
      BY <2>1, <3>2 DEF Stage, FinishedByBall
    <3>3. QED
      BY <3>1, <3>2
  <2>3. QED
    BY <1>1, <2>1, <2>2, OverWithoutTask DEF Lifecycle!Release
<1>4. QED
  BY <1>2, <1>3

LEMMA KeepCommandRefines ==
  ASSUME NEW t, NEW g, NEW moved, KeepCommand(t, g, moved)
  PROVE  Lifecycle!BallInPlay \/ UNCHANGED course
<1>1. ref' = ref /\ ClearFinished(prep, moved)
  BY DEF KeepCommand, ReadReferee
<1>2. CASE prep' = prep
  BY <1>1, <1>2 DEF course, Stage, PassPending
<1>3. CASE prep' # prep
  <2>1. prep' = NoTask /\ FinishedByBall(prep)
    BY <1>1, <1>3 DEF ClearFinished, ClearTask
  <2>2. Stage \in {"ready", "played"}
    BY <2>1 DEF Stage, FinishedByBall
  <2>3. QED
    BY <1>1, <2>1, <2>2, OverWithoutTask DEF Lifecycle!BallInPlay
<1>4. QED
  BY <1>2, <1>3

LEMMA UpdateRefines == TickInv /\ Update => [Lifecycle!Next]_course
<1> SUFFICES ASSUME TickInv, Update PROVE [Lifecycle!Next]_course
  OBVIOUS
<1>1. PICK t \in Teams, g \in Ids, moved \in BOOLEAN :
        \/ \E c \in RefStates :
             StartRestart(t, g, c) \/ BeginPlay(t, g, c, moved) \/ Interrupt(t, g, c)
        \/ KeepCommand(t, g, moved)
  BY DEF Update
<1>2. CASE KeepCommand(t, g, moved)
  BY <1>2, KeepCommandRefines DEF Lifecycle!Next
<1>3. ASSUME NEW c \in RefStates,
             StartRestart(t, g, c) \/ BeginPlay(t, g, c, moved) \/ Interrupt(t, g, c)
      PROVE  Lifecycle!Next
  <2>1. c.kind \in Lifecycle!CommandKinds
    BY DEF RefStates, Lifecycle!CommandKinds
  <2>2. QED
    BY <1>3, <2>1, StartRefines, BeginPlayRefines, InterruptRefines DEF Lifecycle!Next
<1>4. QED
  BY <1>1, <1>2, <1>3

\* A mark says how far the restart is and leaves its kind and the referee alone.
LEMMA MarkMoves ==
  ASSUME IInv, Logic, prep.status = "Ready", NEW a, NEW r, NEW acted \in BOOLEAN,
         NEW followUp \in BOOLEAN, Mark(a, r, acted, followUp)
  PROVE  /\ ref' = ref
         /\ prep'.phase = prep.phase
         /\ Stage' = IF ~acted THEN "ready"
                     ELSE IF ~followUp /\ prep.phase \in {"OffensiveKickoff", "OffensiveFreeKick"}
                       THEN "passed" ELSE "played"
<1>1. prep \in Tasks
  BY IInvTask DEF TaskInv
<1>2. /\ prep'.phase = prep.phase /\ prep'.status = "Ready"
      /\ prep'.acted = acted /\ prep'.followUp = followUp
  BY <1>1 DEF Mark, Tasks
<1>3. QED
  BY <1>2 DEF Logic, Stage, PassPending

\* The stage of a restart that may be played.
LEMMA ReadyStage ==
  ASSUME IInv, prep.status = "Ready"
  PROVE  Stage = IF ~prep.acted THEN "ready"
                 ELSE IF ~prep.followUp /\ prep.phase \in {"OffensiveKickoff", "OffensiveFreeKick"}
                   THEN "passed" ELSE "played"
BY FlagTypes DEF Stage, PassPending

LEMMA SameTask ==
  ASSUME Logic, UNCHANGED prep
  PROVE  UNCHANGED course
BY DEF Logic, course, Stage, PassPending

LEMMA SameMark ==
  ASSUME IInv, Logic, prep.status = "Ready", NEW a, NEW r, Mark(a, r, prep.acted, prep.followUp)
  PROVE  UNCHANGED course
BY MarkMoves, ReadyStage, FlagTypes DEF course

LEMMA KickAloneRefines ==
  ASSUME IInv, Logic, prep.status = "Ready", NEW a, KickAlone(a),
         prep.phase = "OffensiveFreeKick" \/ (prep.phase = "OffensiveKickoff" /\ ~prep.acted)
  PROVE  [Lifecycle!Next]_course
<1>1. ref' = ref /\ prep'.phase = prep.phase /\ Stage' = "played"
  BY MarkMoves DEF KickAlone
<1>2. QED
  BY <1>1, ReadyStage DEF course, Lifecycle!Next, Lifecycle!Shoot, Lifecycle!Receive

LEMMA PassRefines ==
  ASSUME IInv, Logic, prep.status = "Ready", NEW a, NEW r, Pass(a, r), ~prep.acted,
         prep.phase \in {"OffensiveKickoff", "OffensiveFreeKick"}
  PROVE  Lifecycle!Pass
<1>1. prep.followUp = FALSE
  BY FlagTypes
<1>2. ref' = ref /\ prep'.phase = prep.phase /\ Stage' = "passed"
  BY <1>1, MarkMoves DEF Pass
<1>3. QED
  BY <1>2, ReadyStage DEF Lifecycle!Pass

LEMMA PrepareOffensiveRefines ==
  ASSUME IInv, NEW visible, NEW ownHalf, PrepareOffensive(visible, ownHalf)
  PROVE  UNCHANGED course
<1>1. Logic /\ prep.status = "Preparing" /\ prep \in Tasks
  BY IInvTask DEF PrepareOffensive, PrepareTask, TaskInv
<1>2. prep' = prep \/ \E a, r : Mark(a, r, prep.acted, prep.followUp)
  BY DEF PrepareOffensive
<1>3. prep'.phase = prep.phase /\ prep'.status = "Preparing"
  BY <1>1, <1>2 DEF Mark, Tasks
<1>4. QED
  BY <1>1, <1>3 DEF course, Stage, Logic

LEMMA KickoffPassedRefines ==
  ASSUME IInv, NEW visible, NEW ready, KickoffPassed(visible, ready)
  PROVE  [Lifecycle!Next]_course
<1>1. Logic /\ prep.status = "Ready" /\ prep.phase = "OffensiveKickoff" /\ prep.acted
  BY DEF KickoffPassed, Executing
<1>2. prep' = NoTask \/ \E a, r : Mark(a, r, prep.acted, prep.followUp)
  BY DEF KickoffPassed, ClearTask
<1>3. CASE prep' = NoTask
  <2>1. Stage \in {"passed", "played"}
    BY <1>1, ReadyStage
  <2>2. ref' = ref
    BY <1>1 DEF Logic
  <2>3. QED
    BY <1>1, <1>3, <2>1, <2>2, OverWithoutTask
       DEF Lifecycle!Next, Lifecycle!Receive, Lifecycle!BallInPlay
<1>4. QED
  BY <1>1, <1>2, <1>3, SameMark

LEMMA ModeGameRefines == IInv /\ ModeGame => [Lifecycle!Next]_course
<1> SUFFICES ASSUME IInv, ModeGame PROVE [Lifecycle!Next]_course
  OBVIOUS
<1> USE DEF Executing
<1>1. Logic
  BY ModeGameIsLogic
<1>2. CASE UNCHANGED prep
  BY <1>1, <1>2, SameTask
<1>3. ASSUME NEW visible, NEW ownHalf, Kickoff(visible, ownHalf)
      PROVE  [Lifecycle!Next]_course
  BY <1>1, <1>3, KickAloneRefines, PassRefines DEF Kickoff, Lifecycle!Next
<1>4. ASSUME NEW visible, Penalty(visible)
      PROVE  [Lifecycle!Next]_course
  <2>1. prep.status = "Ready" /\ prep.phase = "OffensivePenalty"
    BY <1>4 DEF Penalty
  <2>2. PICK a : Mark(a, prep.receiver, TRUE, prep.followUp)
    BY <1>4 DEF Penalty
  <2>3. ref' = ref /\ prep'.phase = prep.phase /\ Stage' = "played"
    BY <1>1, <2>1, <2>2, MarkMoves, FlagTypes
  <2>4. QED
    BY <2>1, <2>3, ReadyStage DEF course, Lifecycle!Next, Lifecycle!Shoot
<1>5. ASSUME NEW visible, FreeKickAlone(visible)
      PROVE  [Lifecycle!Next]_course
  <2>1. prep.status = "Ready" /\ prep.phase = "OffensiveFreeKick"
    BY <1>5 DEF FreeKickAlone
  <2>2. PICK a : KickAlone(a)
    BY <1>5 DEF FreeKickAlone
  <2>3. QED
    BY <1>1, <2>1, <2>2, KickAloneRefines
<1>6. ASSUME NEW visible, NEW arrived, FreeKick(visible, arrived)
      PROVE  [Lifecycle!Next]_course
  BY <1>1, <1>6, PassRefines, SameMark DEF FreeKick, Lifecycle!Next
<1>7. ASSUME NEW visible, NEW ready, FreeKickPassed(visible, ready)
      PROVE  [Lifecycle!Next]_course
  <2>1. prep.status = "Ready" /\ prep.phase = "OffensiveFreeKick" /\ prep.acted /\ ~prep.followUp
    BY <1>7 DEF FreeKickPassed
  <2>2. PICK a, r : Mark(a, r, prep.acted, TRUE) \/ Mark(a, r, prep.acted, prep.followUp)
    BY <1>7 DEF FreeKickPassed
  <2>3. CASE Mark(a, r, prep.acted, TRUE)
    <3>1. ref' = ref /\ prep'.phase = prep.phase /\ Stage' = "played"
      BY <1>1, <2>1, <2>3, MarkMoves, FlagTypes
    <3>2. QED
      BY <2>1, <3>1, ReadyStage DEF Lifecycle!Next, Lifecycle!Receive
  <2>4. QED
    BY <1>1, <2>1, <2>2, <2>3, SameMark
<1>8. ASSUME NEW visible, FreeKickShot(visible)
      PROVE  [Lifecycle!Next]_course
  BY <1>1, <1>8, SameMark DEF FreeKickShot
<1>9. QED
  BY <1>2, <1>3, <1>4, <1>5, <1>6, <1>7, <1>8, PrepareOffensiveRefines, KickoffPassedRefines
     DEF ModeGame, PrepareDefensive, ExecuteDefensive, NobodyExecutes, HaltAll, StopAll, RunAI,
         LineUp, PlaceBall, OpenPlay

\* Restart implements RestartLifecycle: every tick is a stage of the restart's course, the end
\* of the restart, or nothing to the referee.
THEOREM Refinement == Spec => ImplementsLifecycle
<1>1. Init => Lifecycle!Init
  BY DEF Init, Lifecycle!Init, Stage, NoTask, NewTask
<1>2. IInv /\ [Next]_vars => [Lifecycle!Next]_course
  <2>1. ASSUME GameNotRunning PROVE UNCHANGED course
    BY <2>1, SameTask DEF GameNotRunning
  <2>2. ASSUME UNCHANGED vars PROVE UNCHANGED course
    BY <2>2 DEF vars, course, Stage, PassPending
  <2>3. QED
    BY <2>1, <2>2, UpdateRefines, ModeGameRefines DEF Next, IInv
<1>3. QED
  BY <1>1, <1>2, Invariance, PTL DEF Spec, course, Lifecycle!Spec, ImplementsLifecycle

HIDE DEF Plays, Awaits, Posted, Drives, Guards, Walls

-----------------------------------------------------------------------------
(* The inductive invariant of Modes *)

ModesInv == TickInv /\ ModesTypeOK

LEMMA InitModesInv == ModesInit => ModesInv
<1> SUFFICES ASSUME ModesInit PROVE ModesInv
  OBVIOUS
<1>1. TickInv
  BY InitIInv DEF ModesInit, IInv
<1>2. iface \in Controls({iface.ids})
  BY DEF ModesInit, Controls, Modes, Tests
<1>3. manual \in [Robots -> Orders]
  BY OrderType DEF ModesInit, DefaultOrder, CmdStates, CmdTasks
<1>4. QED
  BY <1>1, <1>2, <1>3 DEF ModesInit, ModesInv, ModesTypeOK, TickInv

\* The referee's half of a tick is Restart's, in every mode.
LEMMA UpdateTickIsUpdate == UpdateTick => Update
BY RefereeAssumption DEF UpdateTick, Update

LEMMA InterpretType ==
  ASSUME ModesTypeOK, Interpret
  PROVE  iface' \in Controls({iface'.ids}) /\ manual' \in [Robots -> Orders]
<1>1. CASE slot = NoPacket
  BY <1>1 DEF Interpret, ModesTypeOK
<1>2. CASE slot # NoPacket
  <2>1. slot \in Packets
    BY <1>2 DEF ModesTypeOK
  <2>2. /\ iface' = slot.control
        /\ manual' = [r \in Robots |-> IF r \in DOMAIN slot.orders
                                         THEN slot.orders[r] ELSE manual[r]]
    BY <1>2 DEF Interpret
  <2>3. slot.control \in Controls({slot.control.ids})
    BY <2>1, PacketsAssumption
  <2>4. \A r \in DOMAIN slot.orders : slot.orders[r] \in Orders
    BY <2>1, PacketsAssumption
  <2>5. QED
    BY <2>2, <2>3, <2>4 DEF ModesTypeOK
<1>3. QED
  BY <1>1, <1>2

LEMMA UpdateTickKeeps == ModesInv /\ UpdateTick => ModesInv'
<1> SUFFICES ASSUME ModesInv, UpdateTick PROVE ModesInv'
  OBVIOUS
<1>1. TickInv'
  BY UpdateTickIsUpdate, UpdateKeeps DEF ModesInv, IInv
<1>2. iface' \in Controls({iface'.ids}) /\ manual' \in [Robots -> Orders]
  BY InterpretType DEF ModesInv, UpdateTick
<1>3. slot' \in Packets \cup {NoPacket} /\ goal' \in BOOLEAN
  BY DEF UpdateTick, ModesInv, ModesTypeOK
<1>4. QED
  BY <1>1, <1>2, <1>3 DEF ModesInv, ModesTypeOK, TickInv

\* Between two ticks only the operator's side changes.
LEMMA OutsideKeeps ==
  ASSUME ModesInv, UNCHANGED <<vars, manual, goal>>,
         slot' \in Packets \cup {NoPacket}, iface' \in Controls({iface'.ids})
  PROVE  ModesInv'
BY DEF ModesInv, ModesTypeOK, TickInv, vars, TypeOK, MirrorAgrees, TaskMatchesReferee,
       PhaseFollowsReferee, RobotsLatched, PassHasTwoEnds, PassPending

LEMMA ReceiveKeeps ==
  ASSUME ModesInv, NEW p \in Packets, Receive(p)
  PROVE  ModesInv'
BY OutsideKeeps DEF Receive, ModesInv, ModesTypeOK

LEMMA StartStopKeeps == ModesInv /\ (StartGame \/ StopGame) => ModesInv'
<1> SUFFICES ASSUME ModesInv, StartGame \/ StopGame PROVE ModesInv'
  OBVIOUS
<1>1. iface' \in Controls({iface'.ids})
  BY DEF StartGame, StopGame, ModesInv, ModesTypeOK, Controls, Modes
<1>2. QED
  BY <1>1, OutsideKeeps DEF StartGame, StopGame, ModesInv, ModesTypeOK

-----------------------------------------------------------------------------
(* A tick of the modes *)

LEMMA TickStartsFromIInv == ASSUME TickInv, Logic PROVE IInv
BY DEF IInv, HoldsStill, Logic

\* A tick of another mode leaves the restart where it is.
LEMMA OtherModeKeeps ==
  ASSUME ModesInv, Logic, UNCHANGED <<prep, mirror, modeVars>>, cmd' \in [Robots -> Orders]
  PROVE  ModesInv'
<1>1. TypeOK'
  BY DEF ModesInv, TickInv, TypeOK, Logic
<1>2. TickInv'
  BY <1>1 DEF ModesInv, TickInv, MirrorAgrees, TaskMatchesReferee, PhaseFollowsReferee,
              RobotsLatched, PassHasTwoEnds, PassPending, Logic
<1>3. QED
  BY <1>1, <1>2 DEF ModesInv, ModesTypeOK, modeVars

LEMMA ManualKeeps == ModesInv /\ Manual => ModesInv'
<1> SUFFICES ASSUME ModesInv, Manual PROVE ModesInv'
  OBVIOUS
<1>1. manual \in [Robots -> Orders]
  BY DEF ModesInv, ModesTypeOK
<1>2. cmd' \in [Robots -> Orders]
  BY <1>1 DEF Manual, StillOrdered, Orders, CmdStates
<1>3. QED
  BY <1>2, OtherModeKeeps DEF Manual

LEMMA GameKeeps == ModesInv /\ Game => ModesInv'
<1> SUFFICES ASSUME ModesInv, Game PROVE ModesInv'
  OBVIOUS
<1>1. ModeGame \/ GameNotRunning
  BY DEF Game
<1>2. Logic
  BY <1>1, ModeGameIsLogic DEF GameNotRunning
<1>3. IInv
  BY <1>2, TickStartsFromIInv DEF ModesInv
<1>4. TickInv'
  BY <1>1, <1>3, ModeGameKeeps, GameNotRunningKeeps DEF IInv
<1>5. QED
  BY <1>4 DEF Game, ModesInv, ModesTypeOK, TickInv, modeVars

LEMMA ClearedType == Cleared \in [Robots -> Orders]
BY OrderType DEF Cleared, CmdStates, CmdTasks

\* However the operator named the robots, each still has one order.
LEMMA TestOrders ==
  ASSUME NEW orders \in [Robots -> Orders], NEW n, NEW some
  PROVE  /\ Shooting(orders, n, some) \in [Robots -> Orders]
         /\ Guarding(orders) \in [Robots -> Orders]
<1>1. Plays \in Orders
  BY OrderType DEF Plays, CmdStates, CmdTasks
<1>2. ASSUME NEW r PROVE [orders EXCEPT ![r] = Plays] \in [Robots -> Orders]
  BY <1>1
<1>3. ASSUME NEW r PROVE [orders EXCEPT ![r].state = "Goalie"] \in [Robots -> Orders]
  BY DEF Orders, CmdStates
<1>4. Shooting(orders, n, some) \in [Robots -> Orders]
  BY <1>2, Zenon DEF Shooting
<1>5. QED
  BY <1>3, <1>4, Zenon DEF Guarding

LEMMA KickerOrders ==
  ASSUME NEW first, NEW second, NEW s \in CmdTasks, NEW t \in CmdTasks
  PROVE  [Cleared EXCEPT ![first].task = s, ![second].task = t] \in [Robots -> Orders]
BY ClearedType DEF Orders

LEMMA TestingKeeps ==
  ASSUME ModesInv, NEW tests, NEW orders \in [Robots -> Orders], Testing(tests, orders)
  PROVE  ModesInv'
BY OtherModeKeeps DEF Testing

LEMMA TestKeeps ==
  ASSUME ModesInv, NEW some \in SUBSET Robots,
         TestNone \/ TestMove \/ TestKicker(some) \/ TestGoal(some)
  PROVE  ModesInv'
<1>1. CASE TestNone
  BY <1>1, OrderType, TestingKeeps DEF TestNone, CmdStates, CmdTasks
<1>2. CASE TestMove
  BY <1>2, ClearedType, TestingKeeps DEF TestMove
<1>3. CASE TestKicker(some)
  <2> DEFINE first  == Selected[1]
             second == Selected[2]
             s == IF first \in some THEN "Kick" ELSE "Move"
             t == IF first \in some THEN "RecKick"
                  ELSE IF second \in some THEN "Kick" ELSE "Move"
  <2>1. s \in CmdTasks /\ t \in CmdTasks
    BY DEF CmdTasks
  <2>2. [Cleared EXCEPT ![first].task = s, ![second].task = t] \in [Robots -> Orders]
    BY <2>1, KickerOrders
  <2>3. \/ Testing({"Kicker"}, Cleared)
        \/ Testing({"Kicker"}, [Cleared EXCEPT ![first].task = s, ![second].task = t])
    BY <1>3, Zenon DEF TestKicker
  <2>4. QED
    BY <2>2, <2>3, ClearedType, TestingKeeps
<1>4. CASE TestGoal(some)
  BY <1>4, ClearedType, TestOrders, TestingKeeps DEF TestGoal
<1>5. QED
  BY <1>1, <1>2, <1>3, <1>4

LEMMA LogicTickKeeps == ModesInv /\ LogicTick => ModesInv'
BY ManualKeeps, GameKeeps, TestKeeps DEF LogicTick

LEMMA ModesNextKeeps == ModesInv /\ [ModesNext]_allVars => ModesInv'
<1> SUFFICES ASSUME ModesInv, [ModesNext]_allVars PROVE ModesInv'
  OBVIOUS
<1>1. CASE ModesNext
  BY <1>1, ReceiveKeeps, StartStopKeeps, UpdateTickKeeps, LogicTickKeeps DEF ModesNext
<1>2. CASE UNCHANGED allVars
  BY <1>2, OutsideKeeps DEF allVars, modeVars, ModesInv, ModesTypeOK
<1>3. QED
  BY <1>1, <1>2

THEOREM ModesInvariant == ModesSpec => []ModesInv
BY InitModesInv, ModesNextKeeps, PTL DEF ModesSpec

\* Types, in every mode and after any change of mode: what interpret keeps of the
\* operator's packets is well-formed, and so is what the modes order.
THEOREM ModesTypeCorrect == ModesSpec => []ModesTypeOK
BY ModesInvariant, PTL DEF ModesInv

-----------------------------------------------------------------------------
(* Orders that must keep everybody still *)

\* At the start of a tick of the game a Halt or a Stop has no restart to execute.
LEMMA NoRestartInHaltOrStop ==
  ASSUME IInv, Logic, phase = "Halted" \/ ref.kind = "Stop"
  PROVE  prep.status = "None"
<1>1. phase = PhaseOf(ref, team)
  BY DEF IInv, TickInv, PhaseFollowsReferee, Logic
<1>2. prep.status \in {"None", "Preparing", "Ready"}
  BY DEF IInv, TickInv, TypeOK, Tasks
<1>3. QED
  BY <1>1, <1>2 DEF IInv, TickInv, TaskMatchesReferee, PhaseOf

LEMMA OpenPlayOnly ==
  ASSUME ModeGame, prep.status = "None"
  PROVE  HaltAll \/ StopAll \/ OpenPlay("Running") \/ OpenPlay("Timeout") \/ OpenPlay("BallPlacement")
BY DEF ModeGame, PrepareDefensive, PrepareTask, ExecuteDefensive, PrepareOffensive, Kickoff,
       Executing, NobodyExecutes, Penalty, KickoffPassed, FreeKickAlone, FreeKick,
       FreeKickPassed, FreeKickShot, RunAI, LineUp, PlaceBall

LEMMA PreparingOnly ==
  ASSUME ModeGame, prep.status = "Preparing"
  PROVE  \/ PrepareDefensive
         \/ \E visible \in SUBSET Robots : \E ownHalf \in SUBSET visible :
              PrepareOffensive(visible, ownHalf)
BY DEF ModeGame, ExecuteDefensive, Kickoff, Executing, NobodyExecutes, Penalty,
       KickoffPassed, FreeKickAlone, FreeKick, FreeKickPassed, FreeKickShot,
       HaltAll, StopAll, RunAI, LineUp, PlaceBall, OpenPlay

\* The taker is never the keeper, so that the keeper alone guards.
LEMMA PreparingStands ==
  ASSUME IInv, ModeGame, prep.status = "Preparing"
  PROVE  \A r \in Robots : cmd'[r].state = IF r = goalie THEN "Goalie" ELSE "Stop"
<1> DEFINE base == WithGoalie(All("Stop"))
<1>1. /\ base \in [Robots -> Orders]
      /\ \A r \in Robots : base[r].state = IF r = goalie THEN "Goalie" ELSE "Stop"
  BY CmdType DEF WithGoalie, All, Orders, CmdStates
<1> HIDE DEF base
<1>2. ASSUME cmd' = base
      PROVE  \A r \in Robots : cmd'[r].state = IF r = goalie THEN "Goalie" ELSE "Stop"
  BY <1>1, <1>2
<1>3. ASSUME NEW a \in Robots, a # goalie, cmd' = [base EXCEPT ![a] = Posted]
      PROVE  \A r \in Robots : cmd'[r].state = IF r = goalie THEN "Goalie" ELSE "Stop"
  BY <1>1, <1>3 DEF Posted, Order
<1>4. CASE PrepareDefensive
  BY <1>2, <1>4 DEF PrepareDefensive, base
<1>5. ASSUME NEW visible \in SUBSET Robots, NEW ownHalf \in SUBSET visible,
             PrepareOffensive(visible, ownHalf)
      PROVE  cmd' = base \/ \E a \in Robots : a # goalie /\ cmd' = [base EXCEPT ![a] = Posted]
  BY <1>5, ActorsAreRobots DEF PrepareOffensive, base
<1>6. QED
  BY <1>2, <1>3, <1>4, <1>5, PreparingOnly

LEMMA GameStills ==
  ASSUME IInv, ModeGame
  PROVE  /\ phase = "Halted" => AllIn({"Halt"})
         /\ ref.kind = "Stop" => AllIn({"Stop"})
<1>1. Logic
  BY ModeGameIsLogic
<1>2. phase = PhaseOf(ref, team)
  BY <1>1 DEF IInv, TickInv, PhaseFollowsReferee, Logic
<1>3. CASE phase = "Halted"
  <2>1. HaltAll
    BY <1>1, <1>3, NoRestartInHaltOrStop, OpenPlayOnly DEF StopAll, OpenPlay
  <2>2. QED
    BY <1>2, <1>3, <2>1, CmdType, AllType DEF HaltAll, AllIn, CmdStates, PhaseOf
<1>4. CASE ref.kind = "Stop"
  <2>1. phase = "Stopped"
    BY <1>2, <1>4 DEF PhaseOf
  <2>2. StopAll
    BY <1>1, <1>4, <2>1, NoRestartInHaltOrStop, OpenPlayOnly DEF HaltAll, OpenPlay
  <2>3. QED
    BY <2>1, <2>2, CmdType, AllType DEF StopAll, AllIn, CmdStates
<1>5. QED
  BY <1>3, <1>4

LEMMA ManualStills ==
  ASSUME ModesInv, Manual, iface.gcData, ref.kind \in {"Halt", "Stop"}, ~goal
  PROVE  AllIn({ref.kind})
BY DEF ModesInv, ModesTypeOK, Manual, StillOrdered, AllIn, Orders

LEMMA StillStep == ModesInv /\ LogicTick => StandStill
<1> SUFFICES ASSUME ModesInv, LogicTick PROVE StandStill
  OBVIOUS
<1>1. iface.mode = "Game" => Game
  BY DEF LogicTick, Manual, Testing, TestNone, TestMove, TestKicker, TestGoal
<1>2. Game /\ iface.running => ModeGame
  BY DEF Game
<1>3. Game /\ ~iface.running => GameNotRunning
  BY DEF Game
<1>4. ASSUME ModeGame PROVE IInv
  BY <1>4, ModeGameIsLogic, TickStartsFromIInv DEF ModesInv
<1>5. ASSUME GameNotRunning PROVE AllIn({"Stop"})
  <2>1. IInv
    BY <1>5, TickStartsFromIInv DEF GameNotRunning, ModesInv
  <2>2. QED
    BY <1>5, <2>1, CmdType, AllType DEF GameNotRunning, AllIn, CmdStates
<1>6. iface.mode = "Manual" => Manual
  BY DEF LogicTick, Game, Testing, TestNone, TestMove, TestKicker, TestGoal
<1>7. iface.mode = "Test" /\ iface.test = "None" => TestNone
  BY DEF LogicTick, Game, Manual, Testing, TestMove, TestKicker, TestGoal
<1>8. TestNone => AllIn({"Halt"})
  BY DEF TestNone, Testing, AllIn, Order
<1>9. QED
  BY <1>1, <1>2, <1>3, <1>4, <1>5, <1>6, <1>7, <1>8, GameStills, PreparingStands,
     ManualStills DEF StandStill

\* Whatever the operator, a test or the game had the robots do in the tick before, and
\* whenever the mode was changed, the orders that must keep everybody still do so in the
\* very tick they apply to (game_logic, mode_manual, mode_game, mode_test).
THEOREM Stills == ModesSpec => Stilled
<1>1. ModesInv /\ [ModesNext]_allVars => [LogicTick => StandStill]_allVars
  BY StillStep
<1>2. QED
  BY <1>1, ModesInvariant, PTL DEF ModesSpec, Stilled

-----------------------------------------------------------------------------
(* What holds of a restart in every mode *)

\* The copies agree, no restart outlives its command and a pass has two ends although the
\* operator may change the mode in any tick.
THEOREM ModesKeepRestart == ModesSpec => [](MirrorAgrees /\ TaskMatchesReferee /\ PassHasTwoEnds)
<1>1. ModesInv => MirrorAgrees /\ TaskMatchesReferee /\ PassHasTwoEnds
  BY DEF ModesInv, TickInv
<1>2. QED
  BY <1>1, ModesInvariant, PTL

\* What a step of Modes is to the restart: the referee's half of a tick, a tick of game mode
\* from Restart's whole invariant, or nothing.
LEMMA StepOfModes ==
  ASSUME ModesInv, [ModesNext]_allVars
  PROVE  \/ pc = "update" /\ TickInv /\ Update
         \/ Logic /\ IInv /\ iface.mode = "Game" /\ ModeGame
         \/ Logic /\ IInv /\ iface.mode = "Game" /\ GameNotRunning
         \/ Logic /\ iface.mode # "Game" /\ UNCHANGED <<prep, mirror>>
         \/ pc = "update" /\ UNCHANGED vars
         \/ UNCHANGED allVars
<1>1. CASE UpdateTick
  BY <1>1, UpdateTickIsUpdate
     DEF ModesInv, Update, StartRestart, BeginPlay, Interrupt, KeepCommand, ReadReferee
<1>2. CASE Game
  <2>1. ModeGame \/ GameNotRunning
    BY <1>2 DEF Game
  <2>2. Logic
    BY <2>1, ModeGameIsLogic DEF GameNotRunning
  <2>3. QED
    BY <1>2, <2>1, <2>2, TickStartsFromIInv DEF Game, ModesInv
<1>3. CASE Manual
  BY <1>3 DEF Manual
<1>4. ASSUME NEW tests, NEW orders, Testing(tests, orders)
      PROVE  Logic /\ iface.mode # "Game" /\ UNCHANGED <<prep, mirror>>
  BY <1>4 DEF Testing
<1>5. ASSUME NEW some \in SUBSET Robots, TestNone \/ TestMove \/ TestKicker(some) \/ TestGoal(some)
      PROVE  Logic /\ iface.mode # "Game" /\ UNCHANGED <<prep, mirror>>
  BY <1>4, <1>5, Zenon DEF TestNone, TestMove, TestKicker, TestGoal
<1>6. CASE LogicTick
  BY <1>2, <1>3, <1>5, <1>6 DEF LogicTick
<1>7. CASE (\E p \in Packets : Receive(p)) \/ StartGame \/ StopGame \/ UNCHANGED allVars
  BY <1>7 DEF Receive, StartGame, StopGame, allVars
<1>8. QED
  BY <1>1, <1>6, <1>7 DEF ModesNext

\* A restart runs its course whatever the operator does meanwhile: manual mode and the tests
\* neither advance nor end it, and game mode goes on where it was (game_logic).
THEOREM ModesRefinement == ModesSpec => ImplementsLifecycle
<1>1. ModesInit => Lifecycle!Init
  BY DEF ModesInit, Init, Lifecycle!Init, Stage, NoTask, NewTask
<1>2. ModesInv /\ [ModesNext]_allVars => [Lifecycle!Next]_course
  <2> SUFFICES ASSUME ModesInv, [ModesNext]_allVars PROVE [Lifecycle!Next]_course
    OBVIOUS
  <2>1. ASSUME GameNotRunning PROVE UNCHANGED course
    BY <2>1, SameTask DEF GameNotRunning
  <2>2. ASSUME UNCHANGED vars PROVE UNCHANGED course
    BY <2>2 DEF vars, course, Stage, PassPending
  <2>3. QED
    BY <2>1, <2>2, StepOfModes, SameTask, UpdateRefines, ModeGameRefines DEF allVars
<1>3. QED
  BY <1>1, <1>2, ModesInvariant, PTL DEF ModesSpec, course, Lifecycle!Spec, ImplementsLifecycle

\* A pass on its way is not ended by a change of mode either.
THEOREM ModesPassLives == ModesSpec => PassStaysAlive
<1>1. ModesInv /\ [ModesNext]_allVars =>
        [pc = "update" /\ PassPending(prep) /\ ~isNew' => prep' = prep]_vars
  <2> SUFFICES ASSUME ModesInv, [ModesNext]_allVars, pc = "update", PassPending(prep), ~isNew'
               PROVE  prep' = prep
    OBVIOUS
  <2>1. ~Logic
    BY DEF Logic
  <2>2. CASE Update
    <3>1. PICK t \in Teams, g \in Ids, moved \in BOOLEAN : KeepCommand(t, g, moved)
      BY <2>2, NewCommandIsNew DEF Update
    <3>2. QED
      BY <3>1, KeepCommandKeepsPass
  <2>3. QED
    BY <2>1, <2>2, StepOfModes DEF vars, allVars
<1>2. QED
  BY <1>1, ModesInvariant, PTL DEF ModesSpec, PassStaysAlive

\* In no mode does a kickoff or free kick count as acted without the orders that get the
\* ball played.
THEOREM ModesActed == ModesSpec => ActedIsOrdered
<1>1. ModesInv /\ [ModesNext]_allVars =>
        [/\ Tick /\ prep.phase # "OffensivePenalty" /\ ~prep.acted /\ prep'.acted => OrderedPlayed
         /\ Tick /\ PassPending(prep) /\ prep'.followUp => OrderedOn]_vars
  <2> SUFFICES ASSUME ModesInv, [ModesNext]_allVars, Tick, prep' # prep
               PROVE  /\ prep.phase # "OffensivePenalty" /\ ~prep.acted /\ prep'.acted => OrderedPlayed
                      /\ PassPending(prep) /\ prep'.followUp => OrderedOn
    BY DEF PassPending
  <2>1. IInv /\ ModeGame
    BY StepOfModes DEF Tick, GameNotRunning, vars, allVars
  <2>2. QED
    BY <2>1, ActedOrders, PlayedOnOrders
<1>2. QED
  BY <1>1, ModesInvariant, PTL DEF ModesSpec, ActedIsOrdered, OrderedPlayed, OrderedOn

\* A tick of game mode sends the keeper out for a restart no more than it sends the taker of
\* a pass to the ball again, whatever orders the operator or a test gave in the tick before.
GameKeepsRoles ==
  [][Tick /\ iface.mode = "Game" =>
       /\ Latched /\ goalie \in Robots => cmd'[goalie] = cmd[goalie] \/ cmd'[goalie].state # "Free"
       /\ PassPending(prep) /\ Available(prep.actor) /\ Available(prep.receiver) =>
            cmd'[prep.actor] # Plays]_allVars

THEOREM RolesCorrect == ModesSpec => GameKeepsRoles
<1> DEFINE Roles ==
      /\ Latched /\ goalie \in Robots => cmd'[goalie] = cmd[goalie] \/ cmd'[goalie].state # "Free"
      /\ PassPending(prep) /\ Available(prep.actor) /\ Available(prep.receiver) =>
           cmd'[prep.actor] # Plays
<1>1. ModesInv /\ [ModesNext]_allVars => [Tick /\ iface.mode = "Game" => Roles]_allVars
  <2> SUFFICES ASSUME ModesInv, ModesNext, Tick, iface.mode = "Game", ~UNCHANGED allVars
               PROVE  Roles
    OBVIOUS
  <2>1. CASE IInv /\ ModeGame
    <3>1. ASSUME Latched, goalie \in Robots
          PROVE  cmd'[goalie] = cmd[goalie] \/ cmd'[goalie].state # "Free"
      BY <2>1, <3>1, RestartKeepsHome DEF KeeperHome
    <3>2. ASSUME PassTick PROVE cmd'[prep.actor] # Plays
      BY <2>1, <3>2, PassTickOrders
    <3>3. QED
      BY <3>1, <3>2 DEF PassTick
  <2>2. CASE IInv /\ GameNotRunning
    <3>1. cmd' = All("Stop")
      BY <2>2 DEF GameNotRunning
    <3>2. \A r \in Robots : cmd'[r].state = "Stop"
      BY <2>2, <3>1, CmdType, AllType DEF CmdStates
    <3>3. Plays.state # "Stop"
      BY DEF Plays, Order
    <3>4. PassTick => prep.actor \in Robots
      BY <2>2, PassTickFacts
    <3>5. QED
      BY <3>2, <3>3, <3>4 DEF PassTick
  <2>3. QED
    BY <2>1, <2>2, StepOfModes DEF Tick
<1>2. QED
  BY <1>1, ModesInvariant, PTL DEF ModesSpec, GameKeepsRoles
===============================================================================

# A TLA+ model of CrashPilot

CrashPilot is the control program of an SSL RoboCup team (Rust, `src/src/`).  It hears the
referee, the vision system, its own robots and an operator's web interface, and tells
every robot 250 times a second what to do.  This directory models the parts of it whose
correctness depends on the order in which things happen, checks them with TLC and proves
theorems about them with TLAPS.

    tlc -workers 4 -config MCRestart.cfg MCRestart.tla
    tlapm Restart_proofs.tla

## 1. The system

### Parts

| Part | Code | State | Operations |
|---|---|---|---|
| Control loop | `lib.rs` `recv`, `update`, `start_tx`; `main.rs` | `PacketBuffer`, `WorldState`, one record per robot | every 4 ms: take the inbox, update the world, run the mode, send |
| Inbox | `communication.rs` `Events` | one slot per kind of packet, behind a lock | listeners overwrite, the loop takes |
| Referee intake | `lib.rs` `interpret`, `ssl_communication.rs`, `udp_listener.rs` | stored packet, time of its arrival | accept, refuse, expire |
| Restart logic | `types.rs` `update_states`, `mode_game.rs` | `RefMachine`, phase, `PrepTask` and its copies | latch, release, clear a restart; latch taker and receiver; order |
| AI handler | `ai_handler.rs`, `best_angle_to_goal.rs` | orders only | orders in open play |
| Interface output | `communication.rs` `WebsocketOut`, `interface.rs` | newest snapshot, its number | publish, wait, send |
| Game controller client | `ssl_gc_handler.rs`, head of `mode_game` | request channel, TCP connection, keeper requested last | spawn, send, reply, reconnect |
| Robot link | `robot_sender.rs`, `robot_receiver.rs` | heartbeats, feedback slot | receive, send to robots that are alive |
| World model | `world_model.rs` | filters, histories, clocks of sources | ingest, advance, snapshot |
| Loki publisher | `loki.rs` | bounded channel, batch, request | log or drop, batch, push |
| Modes | `game_logic.rs`, `mode_manual.rs`, `mode_test.rs`, `interface.rs` | the operator's packet, his mode and orders | receive, take, give the orders of the mode |
| Replay tool | `tools/vision-filter-replay` | position in a log, world model, watch channel | play, step, seek; send to clients |
| The rest | metrics, configuration, web server, helpers | | I/O and arithmetic |

Everything runs on one tokio runtime.  The loop owns the world; listeners and connections
share with it `Events`, `WebsocketOut`, the heartbeats and the channel of the game
controller's actor, and nothing else.  The listeners write `Events`, the loop takes them;
the loop publishes to `WebsocketOut`, the tasks of the connections wait on it; `mode_game`
spawns a task for every keeper request, which ends in the actor's channel.

### What is hard

* **The referee's feed.**  Packets are lost, late, repeated and reordered.  The loop accepts
  what is up to two seconds older than what it has (`lib.rs:602`) and expires what it has
  after two seconds (`lib.rs:618`).  Correct: a silent referee halts the robots, a
  superseded command dies out, the feed recovers after the referee's clock was set back.
* **Restarts.**  A restart lives over many ticks and several referee commands, is kept twice,
  and recomputes its robots in every tick while keeper, team, vision and ball change.
  Correct: no restart outlives its command; the robots hold still when they must; a pass
  has two ends, is not played twice and is not called off by the ball it moves itself.
* **Latest-value publishing.**  Lock, notification and await are three steps.  Correct: no
  wakeup is lost, no connection goes backwards, each gets to the newest snapshot.
* **Requests over a connection that breaks.**  Every request is a task of its own, the actor
  drops what it was serving.  Correct: no flood, no request twice, none stranded; the
  keeper asked for last is the one that stands, as far as nothing was lost or overtaken.
* **Vision sources with clocks of their own.**  Every frame arrives twice in the inbox and
  perhaps again later, in any order.  Correct: it is evidence once, the snapshot's time and
  number go forward together, and a late measurement does not bring back what had expired.
* **Robots that go silent.**  Heartbeats are stored while the loop compares them with a clock
  it read before.  Correct: a silent robot is cut off and comes back when it is heard, and
  nobody who was heard is passed over.
* **Modes.**  The operator may change the mode in any tick, with a restart latched and orders
  of another mode in force.  Correct: an order that must keep all robots still does so in
  the tick it applies to; the operator's last orders come into force.
* **A log that must not slow the loop.**  Messages are dropped, batched and pushed once, and the
  channel may close at any point.  Correct: in order, never twice, and none held back.
* **Seeking.**  The replay goes to and fro in a log while clients come, go and are slow.
  Correct: what is shown at a position is what playing straight to it shows, and a client
  that stays gets to see it.

`PROJECT.json` lists all hazards with their lines and the properties that cover them, or
why none does yet.

## 2. The modules

| Module | Models | Checked by | Proved in |
|---|---|---|---|
| `Restart` | `update_states`, `mode_game`, `RefMachine` | `MCRestart.cfg`, `MCRestartGoalie.cfg` | `Restart_proofs` |
| `RestartLifecycle` | the course of a restart as the referee sees it (abstract) | as a property of `Restart` | `Restart_proofs` |
| `Modes` | the operator's packets, `game_logic`, `mode_manual`, `mode_test`; extends `Restart` | `MCModes.cfg` | `Restart_proofs` |
| `RefereeFeed` | network, UDP task, `interpret`, expiry | `MCRefereeFeed.cfg` | `RefereeFeed_proofs` |
| `LatestSnapshot` | `WebsocketOut`, connections | `MCLatestSnapshot.cfg` | `LatestSnapshot_proofs` |
| `LatestValue` | what `WebsocketOut` promises (abstract) | as a property of `LatestSnapshot` | `LatestSnapshot_proofs` |
| `KeeperRequest` | selection, request tasks, actor, game controller | `MCKeeperRequest.cfg`, `MCKeeperRequestChange.cfg` | `KeeperRequest_proofs` |
| `RobotLink` | robots' datagrams, `robot_receiver.rs`, `robot_sender.rs` | `MCRobotLink.cfg`, `MCRobotLinkSlot.cfg` | `RobotLink_proofs` |
| `VisionIntake` | frames of all sources, intake of `world_model.rs`, expiry, snapshot | `MCVisionIntake.cfg` | `VisionIntake_proofs` |
| `LokiBatch` | the log channel and its task, `loki.rs` | `MCLokiBatch.cfg` | `LokiBatch_proofs` |
| `ReplaySeek` | `ReplayEngine`, the terminal's controls, the clients' tasks | `MCReplaySeek.cfg` | `ReplaySeek_proofs` |

A definition whose comment begins with *Mutation* is a plausible bug: the definition below
it with one guard dropped, one reset forgotten or one order swapped.  `PROJECT.json` pairs
each property with one that breaks it.  They take no part in the specifications.

### Restart

One tick is two steps.  Below `pc = "update"`, `update_states` reads team, keeper and
command: `StartRestart` latches a task for a new Prepare command or free kick, `BeginPlay`
makes a prepared one Ready, `Interrupt` clears it, `KeepCommand` is a tick without a new
command.  The last three apply the ball-moved rule (`ClearFinished`).  Below `pc = "logic"`,
`mode_game` has one action per branch: a task Preparing or Ready, offensive or defensive,
a penalty, kickoff or free kick, before and after its pass; or open play by phase.
`GameNotRunning` is a tick in which the operator has not started the game.

`prep` is `prep_task`, `mirror` are `prep_phase`, `acting_robot` and `has_acted`, `cmd` is
what a robot is sent, reduced to its state and to whether its task kicks, awaits a pass or
does neither.  Geometry is an input of every tick: which robots vision sees, which are in
our half, which is closest, whether the ball has moved, whether a robot has arrived or holds
the ball.  So the properties hold for every geometry.  Yellow and blue, and the commands'
own distinctions, are kept; direct and indirect free kicks are not told apart by the code
and are one kind here.

The model is of the build with feature `ssl_game_controller`: the keeper comes with the
referee's packet, and is always some id.  Robots that `config.toml` does not list get no
order and are not in `Robots`; the keeper may be one of them.

### RestartLifecycle

What an observer of the referee may expect of a restart: it is opened by a command of its own,
prepared or ready at once, passed on or played, and over; the pass keeps it alive although
it moves the ball.  It knows neither robots nor flags.  `Restart` implements it with
`command <- ref.kind`, `restart <- prep.phase` and `stage <- Stage`, which is computed from
the task's status and its two flags.

### Modes

The two halves of a tick are those of `Restart`; beside them are the operator and the modes.
`Receive` is a WebSocket task putting a packet into the inbox, where it replaces one not yet
taken.  `UpdateTick` is `interpret` with the first half of the tick: the orders a packet holds
are kept in `manual`, its control in `iface`, whatever mode is on.  The second half is one
action per mode, and in test mode one per test: `Manual`, `Game` (`ModeGame` or
`GameNotRunning` of `Restart`), `TestNone`, `TestMove`, `TestKicker`, `TestGoal`.  Only `Game`
touches the restart; the referee is read in every mode, so a latched restart goes on to be
opened, released and called off while nobody plays it.  Manual mode compares the referee's
command by its number, so the deprecated goal commands, which are read as Halt, do not count
as Halt there (`goal`).  `StartGame` and `StopGame` are the calls of a program that embeds
the loop.  What a test does with the ball is reduced as in `Restart`.

Some things a reader of the documentation may not expect: test mode pays no attention to the
referee; `TestNone` halts all robots and not only the selected ones of `src/README.md:418`
(`mode_test.rs:33-38`); with no robot named, `GoalShoot`, `Goalie` and `GoalieAndShoot` do
nothing (`mode_test.rs:96-148`), while `src/README.md:425` has all configured robots
selected, as the other tests do; and orders that only an overwritten packet held are lost.

### RefereeFeed

Time is relative.  A packet carries how far its timestamp lies behind the present
(`behind`), which grows while it travels; the stored packet keeps what it had when it was
accepted, and `elapsed` is how long ago that was, so that the comparison of `lib.rs:930-951`
becomes `TooOld`.  `flight[a]` is the packet sent `a` units ago, `Deliver` may take any of
them, again and in any order, `TimePasses(FALSE)` loses one.  `Tick` is `recv` and
`interpret` with the machine's step.  `ClockJump` sets the game controller's clock.

### LatestSnapshot and LatestValue

Each `await`, lock and notification is a step.  `Write` is the part under the write lock,
`NotifyWaiters` the notification after it.  A waiter makes its future, looks (`Take` or
`LookInVain`) and only then awaits.  `woken` is what a `Notified` future knows: with
`notify_waiters`, one that exists is reached before it is first polled, too.  `LatestValue`
says the same in three actions; the mapping is `latest <- seq`, `seen <- got`.

### KeeperRequest

`GameTick` is the head of `mode_game`: it compares selection, referee and the request made
last.  A request is a number, `tasks` are the spawned tasks, `queue` the actor's channel,
`serving` what the actor has written to the connection, `arrived` whether the game
controller got it.  `Fail` breaks the connection before or after that.  The game controller
(`Receive`, `OtherKeeper`) is outside the repository: it grants or refuses, and the
referee's crew may set the keeper as well.  A tick may see any keeper it has `held`, as packets
may be missed and older ones accepted after newer ones.

### RobotLink

Time is relative again: `age[r]` is the time since `heartbeats[r]`, `behind` since the loop
read its clock (`now_ms`), and a unit of time is a tick.  `TimePasses` also ages the
datagrams and drops those older than `MaxDelay`; `Receive` leaves a datagram in `net`, so
that it may come again, in any order.  `Receive` stores the heartbeat and then waits for the
lock of the inbox; `Store` puts the feedback into the one slot.  `Tick` is `recv` with the
head of `send_to_all_robots`; then each robot of the loop is one step, `Send`, `SendFails`
(the socket does not take it) or `PassOver` (no heartbeat in time), in any order, as the
order of a `HashMap` is, and receiver and time may go on between them.  `Finish` ends the tick.

### VisionIntake

`raw` and `tracked` are the vectors of the inbox; `Take` puts the newest frame of each behind
them once more, as `interpret` does with the slots of the same name.  Then each frame is one
step: `Skip` if it was seen, `Refuse` if its time is negative, else `Ingest`, which fixes the
source's offset if this is its first frame, moves the world's clock and, if the frame shows
the object, remembers the measurement.  `Snapshot` ends the tick.  A ball's jump may be
taken for a bounce, which forgets what was measured before; geometry decides that, so it is
a choice here, within the longest time `ball_bounce_transition` allows; its shortest, 2 ms, and
the speed it asks for are part of the choice.  One object stands for all,
as their tracks do not depend on each other; `estimate` is the time of the newest
measurement behind the estimate.  The history of packets per source is only shown to the
interface and is left out.  The model is of `world_model.enabled`, the default.

### LokiBatch

`Publish` is `try_send` from the control loop, which drops what finds the channel full.  The
task takes one message (`Recv`), then what is there up to a batch (`Drain`, `Drained`), and
pushes when the batch is full, on the interval (`Timeout`) or at the end (`Closed`).  A push
ends in one of four ways, `PushEnds(taken, error)`: Loki may have taken a batch although the
answer was lost; one it takes only after the program saw the error counts as taken then.  Only marked messages are told apart; the others are without number, so
that the channel may be full at any time.

### ReplaySeek

The world model is what it was fed with, so a fresh model and the packets in order stand for
every filter.  `ApplyNext`, `RebuildTo`, `MoveTo` and `SeekTarget` are the engine's functions;
the actions below `Control` are the keys of the terminal.  `SeekTarget` has both outcomes
of the conversion through floating-point seconds (`main.rs:254`).  A client's task is
`Connect`, `ReadInitial`, then `Changed`, `Take` and `Send` in turn; the watch channel keeps
the newest value and, for each receiver, whether it was seen (`behind`).  Seeking to the end
leaves `playing` as it was, so that the next press of space there starts over and pauses
(`main.rs:718-724`).

## 3. What is checked

All runs finish in less than three minutes.

| Run | Distinct states | Shows |
|---|---|---|
| `Restart` | 79,559 | `ImplementsLifecycle`; `MirrorAgrees`, `TaskMatchesReferee`, `HoldsStill`, `PassHasTwoEnds`; of steps: `KeeperStaysHome`, `ActedIsOrdered`, `PassStaysAlive`, `TakerPlaysOnce` |
| `RefereeFeed` | 328,707 | `SilenceHalts`, `SupersededDiesOut`, `NoLateRelapse`; `Recovers` |
| `LatestSnapshot` | 212,969 | `NoLostWakeup`; `NewestArrives`; `ImplementsLatestValue` |
| `KeeperRequest` | 153,592 | `NoFlood`, `AtMostOnce`, `LastRequestStands`; `Answered`, `SelectionArrives` |
| `RobotLink` | 440,072 | `HeardIsServed`; of steps: `SilentIsCutOff`; `ComesBack` |
| `VisionIntake` | 2,824,548 | `OncePerFrame`, `RestsOnMeasurement`; of steps: `NumberFollowsClock`, `NoGhost` |
| `Modes` | 94,409 | of steps: `Stilled`; `OperatorHeard` |
| `ReplaySeek` | 92,964 | `ShowsPrefix`; `ClientShows` |
| `LokiBatch` | 8,127 | `InOrderOnce`; `Flushed` |

The runs also check their modules' type invariants, but for those of `Restart` (which the run
of `Modes` checks as part of its own), `LatestSnapshot` and `KeeperRequest`: they, and
`SentIsCurrent` and `SendsNewer` of `LatestSnapshot`, are proved.  Three more runs
show disagreements of the code with its documentation:

* `RestartGoalie`.  `src/README.md:399` says that "kickoff, penalty, and free-kick phases
  keep the goalie in goalie state".  An offensive restart that is Ready does not
  (`mode_game.rs:131-132`): at our free kick a keeper that was halted or stopped stays so.
* `RobotLinkSlot`.  `src/README.md:309-314` says that feedback is stored and its fields
  "become available to game logic".  One slot is there for all robots
  (`communication.rs:205`), and a robot whose feedback another's replaces in every tick is
  never read, though it is heard.
* `KeeperRequestChange`.  `src/README.md:408-410` says that "a changed goalkeeper selection
  causes CrashPilot to send a `desired_keeper` request".  The keeper requested last is never
  forgotten (`mode_game.rs:40-42`): a request lost with its connection is not made again,
  even if the selection is withdrawn and made anew.

A fourth is contradicted by runs that pass.  `src/README.md:570-574` says that `update_states()`
"currently forces `self.phase = GamePhase::Running` at the end", so that "the live game-mode
behavior always executes the running branch".  The code has no such override
(`types.rs:270-289`): `mode_game` halts and stops the robots, which is what `HoldsStill` and
`Stilled` state, and the proofs show it for all robots.  The note is out of date, as is the one
before it (`src/README.md:568-569`) on an interval of 8 ms: it is 4 ms (`lib.rs:308`).

Two more show without a run of their own.  `communication.rs:125` promises "a payload newer
than `last_seq`", but `publish_encoded` (148-154) raises the number and leaves the typed
payload, so a typed waiter gets it again; the program waits for the encoded one only.
`src/README.md:328-329` says that "a robot is considered reachable only if its latest
heartbeat is less than 100 ms old", but heartbeats begin as 0 and are compared with the
time since the start (`robot_sender.rs:60`), so that in the first 100 ms every robot is.

Two surprises contradict no document.  A seek forward at the end of a replay may go back: the end is converted to
nanoseconds by way of seconds (`main.rs:253-254`), which may come out one short, and the
last events are then later than what is sought (`SeeksTheRightWay` in `ReplaySeek_proofs`).
And late measurements keep an estimate: each sets `last_measurement`, by which the estimate
expires, though it is too old for the fit (`world_model.rs:455`, 564-574), so the estimate
stays as it was for as long as they come.  `RestsOnMeasurement` is about the time before any.

### Bounds

* `Restart`: three robots and an id that is not configured.  A restart involves a taker, a
  receiver and the keeper, so three robots allow all to differ and any two to coincide; the
  fourth id is a keeper that is none of ours.  There is no bound on the number of ticks.
  The robots are symmetric; that is sound because the run has no liveness property.
* `RefereeFeed`: `MaxAge` 2 and `MaxDelay` 3, so that a packet may be too old when it
  arrives; clocks 0 and 4 behind, so that a jump exceeds `MaxAge`; three commands, so that a
  packet may be superseded twice; one jump.  A unit of time is one second.
* `LatestSnapshot`: two publishers, as `WebsocketOut` allows (`publish_sync` is there for
  simulators), two connections and a typed waiter; two snapshots, so that one may be sent,
  skipped or awaited while the other is written.  Publishing is bounded, so the system may
  stop and deadlock is not checked.
* `KeeperRequest`: three keepers, three selections (away, back, away again), a channel of
  two, so that it fills; one keeper set by others.
* `RobotLink`: two robots, so that one may be heard, sent to or silent while the other is
  not; `MaxDelay` and `MaxPause` 1, so that a datagram may be late and the clock behind, and
  `Alive` 3, so that a robot heard while the loop sends still counts in the next tick.  The run
  of the slot needs neither delay nor pause and has `Alive` 1.  Time is not bounded: ages
  stop counting where they make no difference (`Old`, `Silent`).
* `VisionIntake`: a camera and a tracker, whose clock is 9 ahead where 5 is tolerated; the fit
  window, the time a bounce takes, the invalid timeout and the history are 1, 1, 2 and 3 as
  they are ordered in `config.toml`; a frame may be 3 late, which is later than the timeout;
  four units of time and five arrivals, of which `NoGhost` needs three to go wrong.  The
  model ends with its time, so deadlock is not checked.
* `Modes`: two robots, the lower bound for a pass and for the tests that take two; nine packets,
  every mode and test among them, with robots named twice, not configured or not at all; one
  colour and keeper, and a kickoff, Halt, Stop and Running, as the rest is in `Restart`.
* `ReplaySeek`: a log of six messages with the referee first, two at one time, geometry between
  vision, a gap, one that does not decode and times out of order; a log of two; seeks shorter
  and longer than the logs; two clients.
* `LokiBatch`: a channel of four and batches of three, so that a batch leaves messages behind and
  the channel overflows during a push; three marked messages.  The task ends when the channel
  closes, so deadlock is not checked.

### Fairness

Safety is checked without.  Liveness assumes no more than this:

* `RefereeFeed`: time passes; the loop ticks in every unit, which is what a 4 ms interval does;
  again and again a packet is sent, and one is delivered without delay (strong fairness: the
  network does not lose everything forever).
* `LatestSnapshot`: tokio runs tasks that can run, so a publisher that wrote notifies and a
  waiter that can go on does.  Nobody has to publish or connect.
* `KeeperRequest`: game mode keeps running and a tick sees a fresh referee packet again and
  again; a task that waits for room in the channel gets in (tokio's semaphore is fair, so
  strong fairness); the actor goes on; and the game controller answers or hangs up.  The last
  is an assumption on the game controller: the code has no timeout (`ssl_gc_handler.rs:198`).

* `RobotLink`: time passes; the loop ticks in every unit and comes to every robot; the receiver
  gets the inbox; and the socket does not fail a robot forever (strong fairness for `Send`).
  The network owes nothing: `ComesBack` is about robots that are heard again and again.
* `Modes`: the loop ticks, both halves.  Nobody has to send, and the referee may say anything.
* `ReplaySeek`: tokio runs the clients' tasks; nothing is assumed of the user or of the log's
  clock.  `ClientShows` is about clients that stay and a replay that comes to rest.
* `LokiBatch`: tokio runs the task and every request ends.  The last is an assumption on Loki: the
  request has no timeout (`loki.rs:130`).  The loop may publish so often that no interval
  passes without a message.

## 4. What is proved

TLAPS proves the following for all values of the constants, from the modules'
assumptions only: `RobotsAssumption` (the configured robots are ids, and none is an id),
`FeedAssumption`, `SnapshotAssumption`, `KeeperAssumption`, `LinkAssumption`, `VisionAssumption`,
`SizesAssumption` (bounds, windows, sizes and clocks are numbers), `PacketsAssumption`,
`RobotListAssumption` and `RefereeAssumption` of `Modes` (packets are well-formed, the loop
visits every robot once, and the referee's packets are some of those of `Restart`),
`FilesAssumption` and `DeltasAssumption` (a file is a sequence of messages
with a usable one of vision, as others are refused; a seek is a number).

* **Restart.**  `IInv` is `TickInv`, all that holds whatever orders the robots had before, and
  `HoldsStill`.  `TickInv` is `TypeOK`, the other three invariants and what they need: the referee's
  state and the phase agree (`PhaseFollowsReferee`), and what is latched is configured
  (`RobotsLatched`).  `TaskMatchesReferee` alone is not inductive because a step of
  `mode_game` is guarded by the phase and not by the command; `HoldsStill` is not, because a
  tick keeps orders of earlier ticks while a task is Ready.  From `IInv` follow the
  four action properties, one lemma per action, and `Refinement`: every tick is a step of
  `RestartLifecycle` or leaves command, restart and stage as they are.
* **Modes.**  `HoldsStill` does not survive manual mode and the tests, `TickInv` does
  (`ModesInv`), because only game mode touches the restart.  That is enough: `HoldsStill` is
  about the end of a tick, so in the middle of one `TickInv` is all of `IInv`, and the lemmas
  of `Restart` hold for every tick of the game, whatever mode the one before was in.
  `Stilled` follows: in Halt and Stop no restart is left to execute.  So does what is said of
  a restart in game mode, now for any course of modes: `ModesKeepRestart` (the three
  invariants), `ModesRefinement` (the lifecycle), `PassStaysAlive`, `ActedIsOrdered`, and
  `GameKeepsRoles`, which is `KeeperStaysHome` and `TakerPlaysOnce` for the ticks of game mode:
  the operator may order the keeper out and the taker to the ball himself.
* **RefereeFeed.**  `IInv` ties the ages together: what is in flight is exactly as far behind
  as it has travelled and its clock is off, what was delivered and stored is no younger than
  that, and a command that is not the current one was sent before `settled`.  Expiry then
  bounds how long it can be followed.  `NoLateRelapse` follows from the same ages and the
  guard `TooOld`.
* **LatestSnapshot.**  `NoLostWakeup` and `SentIsCurrent` with `TypeOK` are inductive as
  they stand; `SendsNewer` follows, and so does the safety half of `NewestArrives`: once every
  publisher has notified, a connection left waiting has sent the newest (`SleepersAreUpToDate`).
  `Refinement` proves that every step is one of `LatestValue` or changes nothing.
* **KeeperRequest.**  `AtMostOnce` needs that a request is in one place: a task, the channel,
  the actor or received (`OnePlace`).  `NoFlood` needs that a selection not requested yet has
  been counted (`UnaskedCounts`).  `LastRequestStands` needs `InOrder`: while nothing is
  upset, requests move through tasks, channel, actor and game controller in their order.
* **RobotLink.**  `SilentIsCutOff` needs that a heartbeat is founded on what the robot sent, no
  further back than the delay, or is the one all begin with (`BeatIsFounded`), and for that
  the age of what is in the network (`NetIsOld`).  `HeardIsServed` needs that a robot counted
  as heard at the loop's clock still does when the loop comes to it, because heartbeats
  only get newer and the difference does not wrap (`StaysReachable`).
* **VisionIntake.**  `OncePerFrame` needs that what was measured was seen (`MeasuredSeen`),
  `NumberFollowsClock` that no snapshot is ahead of the clock (`OutBehindClock`), `NoGhost`
  that an estimate which was not published is not kept (`Dropped`).  `RestsOnMeasurement` is
  the long one: a kept estimate is as new as the measurement by which it expires, unless that
  one came in this very tick (`Covered`, `LastMeasured`); no relation between the window of
  the fit and the timeout is needed.
* **LokiBatch.**  `InOrderOnce` needs that of the places a message passes, from the channel over
  the batch and the request to Loki, each holds its messages in order and what is nearer to
  Loki is earlier (`InOrder`), that they hold only what was published (`Published`),
  and that batch and request are not both in use (`OneAtATime`).  From the same
  invariant: what Loki has is nowhere else (`StoredIsDone`); what the channel took stays until
  Loki has it or a push that fails ends (`KeptUntilPushed`); and when the task ends nothing is left
  (`LastComesLast`).  The last two are the safety half of `Flushed`.
* **ReplaySeek.**  `ShowsPrefix` is that the engine is `Replayed(cursor)`.  One more event takes
  `Replayed(n)` to `Replayed(n + 1)`, and every seek feeds events from a position reached before
  or from the start, so the rest is an induction over how many.  Of the clients: one that waits with
  no change unseen has sent what the engine is at now (`CaughtUp`), and none shows anything but what
  some position gives (`ShowsPositions`): the safety half of `ClientShows`.  Of loading: a file
  has exactly one log (`LoadedOnce`), as the sort by time is stable.  Of seeking: it lands behind
  just the events up to the time sought (`SeekLands`) and goes the way its key says
  (`SeeksTheRightWay`), except that one forward at the very end may go back and one back at
  the very start may go on over the events of the first one's time.

These two take induction.  The induction theorems of the library have an operator for the
hypothesis, which the provers cannot instantiate; `NatSets` states it with a set, from the
theorem that a set of numbers has a least one.  The modules with proofs have no recursive
operators, for which there is no SMT backend: what Loki keeps of a batch (`MarkedOf`), applying events one
by one (`ApplyTo`) and the vision packets up to a position (`VisionUpTo`) are recursive functions
on numbers, about which the proofs show by induction that they exist and what they give.

Where a theorem states what no run checks, the statement is defined in the proof module,
before the theorem, or beside the module's other properties.

Only model-checked: the liveness properties `Recovers`, `NewestArrives`, `Answered`,
`SelectionArrives`, `ComesBack`, `OperatorHeard`, `ClientShows` and `Flushed`.  They rest on
fairness and on when actions are enabled, of which the prover knows nothing.  Every
other property that a passing run checks is proved.

## 5. What is not modelled, and why

* Floating-point geometry: positions, angles, filters, best shots.  It is an input wherever
  decisions depend on it.
* In `Modes` targets, speeds and the settings of the operator that only reach geometry; in
  `ReplaySeek` the playback speed, the delay between events, the drawing of the terminal and
  the interface process it starts; in `LokiBatch` the wording of a log line and the grouping by
  robot, which keeps each robot's order.
* In `RefereeFeed` sockets and decoding; a packet that does not decode is a lost one.
* In `LatestSnapshot` what a snapshot contains.  Sequence numbers do not wrap: at 250 a
  second 64 bits last for two billion years.
* In `RobotLink` what feedback and commands contain.  Each configured robot is taken to have
  a heartbeat: there are sixteen, and `config.toml` must not list higher ids.
* In `KeeperRequest` registration tokens, which the code stores and does not check, and the
  three other requests of the actor, which nothing calls in a match.
* Metrics, configuration, web server, socket options: I/O.

## 6. Plan

In order of importance:

1. `RestartEnds`: with fairness for the ball and the referee, that every restart ends; today a
   kickoff pass nobody receives lasts until the next command.
2. `Feed` with `Restart`: `RefereeFeed` drives `Restart`, so that lost and reordered packets
   become sequences of commands; team and side updates.
3. What feedback of a robot that went silent still counts for: `RobotLink` with the readiness
   that `Restart` takes as an input.
4. `VisionIntake` with a vision that restarts and one that pauses for longer than its bounds.

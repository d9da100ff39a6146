------------------------------ MODULE RobotLink ------------------------------
(***************************************************************************)
(* The robots' feedback and the commands to robots that are alive.         *)
(*                                                                         *)
(* A robot's datagram is delayed, lost, repeated or overtaken.  The        *)
(* receiver task notes when it came and then waits for the inbox, where    *)
(* one slot holds the feedback of all robots.  Every tick takes the slot   *)
(* and sends a command to each robot that was heard less than Alive ago,   *)
(* by a clock it reads once, while the receiver goes on.                   *)
(*                                                                         *)
(* Time is relative: heartbeats are kept as the time since.                *)
(***************************************************************************)
EXTENDS Naturals

CONSTANTS
  Robots,    \* config.robots
  None,      \* Option::None
  Alive,     \* 100 ms
  MaxDelay,  \* bound: the network drops a datagram after this time
  MaxPause   \* bound: how long the sending of a tick may take

ASSUME LinkAssumption ==
  /\ None \notin Robots
  /\ {Alive, MaxDelay, MaxPause} \subseteq Nat
  /\ Alive > 0

\* Beyond these, times make no difference.
Old    == Alive + MaxPause
Silent == Old + MaxDelay

VARIABLES
  uptime,    \* since process_start
  net,       \* datagrams in the network: robot and age
  age,       \* since heartbeats[robot], which begin at process_start
  hand,      \* the robot whose feedback the receiver has read
  slot,      \* Events.rf
  pc,        \* "idle" between ticks, "send" in send_to_all_robots
  behind,    \* since now_ms was read
  left,      \* robots the loop has not come to
  sent,      \* robots that got this tick's command
  failed,    \* robots the socket did not take the command for
  ticked,    \* a tick ended in this unit of time
  silent,    \* history: since the robot sent a datagram
  reach,     \* history: robots heard less than Alive ago when now_ms was read
  unread,    \* history: robots whose feedback came and was not read by a tick since
  heard      \* history: robots heard at all

vars == <<uptime, net, age, hand, slot, pc, behind, left, sent, failed, ticked,
          silent, reach, unread, heard>>

receiver == <<age, hand, slot>>
sender   == <<pc, behind, left, sent, failed, ticked>>
history  == <<silent, reach, unread, heard>>

Init ==
  /\ uptime = 0
  /\ net = {}
  /\ age = [r \in Robots |-> 0]
  /\ hand = None
  /\ slot = None
  /\ pc = "idle"
  /\ behind = 0
  /\ left = {}
  /\ sent = {}
  /\ failed = {}
  /\ ticked = FALSE
  /\ silent = [r \in Robots |-> Silent]
  /\ reach = {}
  /\ unread = {}
  /\ heard = {}

-----------------------------------------------------------------------------
(* Time, robots and the network *)

Least(a, b) == IF a < b THEN a ELSE b

\* The loop ticks in every unit of time, unless the last tick is still sending.
TimePasses ==
  /\ \/ pc = "idle" /\ ticked
     \/ pc = "send" /\ behind < MaxPause
  /\ uptime' = Least(uptime + 1, Old)
  /\ age' = [r \in Robots |-> Least(age[r] + 1, Old)]
  /\ net' = {[robot |-> d.robot, age |-> d.age + 1] : d \in {e \in net : e.age < MaxDelay}}
  /\ silent' = [r \in Robots |-> Least(silent[r] + 1, Silent)]
  /\ behind' = IF pc = "send" THEN behind + 1 ELSE 0
  /\ ticked' = FALSE
  /\ UNCHANGED <<hand, slot, pc, left, sent, failed, reach, unread, heard>>

RobotSends(r) ==
  /\ net' = net \cup {[robot |-> r, age |-> 0]}
  /\ silent' = [silent EXCEPT ![r] = 0]
  /\ UNCHANGED <<uptime, receiver, sender, reach, unread, heard>>

-----------------------------------------------------------------------------
(* robot_receiver *)

\* Mutation: only the first datagram of a robot counts.
ReceiveOnce(r) ==
  /\ hand = None
  /\ \E d \in net : d.robot = r
  /\ age' = IF r \in heard THEN age ELSE [age EXCEPT ![r] = 0]
  /\ hand' = r
  /\ heard' = heard \cup {r}
  /\ UNCHANGED <<uptime, net, slot, sender, silent, reach, unread>>

\* A datagram of a configured robot: its heartbeat is stored before the inbox is asked for.
Receive(r) ==
  /\ hand = None
  /\ \E d \in net : d.robot = r
  /\ age' = [age EXCEPT ![r] = 0]
  /\ hand' = r
  /\ heard' = heard \cup {r}
  /\ UNCHANGED <<uptime, net, slot, sender, silent, reach, unread>>

\* The inbox is free: the feedback goes into the slot, whatever it holds.
Store ==
  /\ hand # None
  /\ slot' = hand
  /\ hand' = None
  /\ unread' = unread \cup {hand}
  /\ UNCHANGED <<uptime, net, age, sender, silent, reach, heard>>

-----------------------------------------------------------------------------
(* A tick *)

\* recv, interpret, update; then send_to_all_robots reads the clock.
Tick ==
  /\ pc = "idle"
  /\ ~ticked
  /\ slot' = None
  /\ unread' = unread \ {slot}
  /\ pc' = "send"
  /\ behind' = 0
  /\ left' = Robots
  /\ sent' = {}
  /\ failed' = {}
  /\ reach' = {r \in Robots : age[r] < Alive}
  /\ UNCHANGED <<uptime, net, age, hand, ticked, silent, heard>>

\* Mutation: a heartbeat exactly Alive old counts.
ReachableStill(r) == age[r] <= Alive + behind

\* Mutation: the difference of a heartbeat newer than now_ms wraps.
ReachableWrapping(r) == age[r] >= behind /\ age[r] - behind < Alive

\* now_ms.saturating_sub(heartbeat) < Alive.
Reachable(r) ==
  LET since == IF age[r] >= behind THEN age[r] - behind ELSE 0
  IN  since < Alive

Send(r) ==
  /\ r \in left
  /\ Reachable(r)
  /\ left' = left \ {r}
  /\ sent' = sent \cup {r}
  /\ UNCHANGED <<uptime, net, receiver, pc, behind, failed, ticked, history>>

\* The socket does not take it.
SendFails(r) ==
  /\ r \in left
  /\ Reachable(r)
  /\ left' = left \ {r}
  /\ failed' = failed \cup {r}
  /\ UNCHANGED <<uptime, net, receiver, pc, behind, sent, ticked, history>>

PassOver(r) ==
  /\ r \in left
  /\ ~Reachable(r)
  /\ left' = left \ {r}
  /\ UNCHANGED <<uptime, net, receiver, pc, behind, sent, failed, ticked, history>>

\* Mutation: the loop ends at the first failure.
FinishAtFailure ==
  /\ pc = "send"
  /\ left = {} \/ failed # {}
  /\ pc' = "idle"
  /\ behind' = 0
  /\ ticked' = TRUE
  /\ UNCHANGED <<uptime, net, receiver, left, sent, failed, history>>

Finish ==
  /\ pc = "send"
  /\ left = {}
  /\ pc' = "idle"
  /\ behind' = 0
  /\ ticked' = TRUE
  /\ UNCHANGED <<uptime, net, receiver, left, sent, failed, history>>

Next ==
  \/ TimePasses
  \/ Store
  \/ Tick
  \/ Finish
  \/ \E r \in Robots : RobotSends(r) \/ Receive(r) \/ Send(r) \/ SendFails(r) \/ PassOver(r)

Spec == Init /\ [][Next]_vars

\* Time passes and the tasks go on; the socket does not fail a robot forever.
Fairness ==
  /\ WF_vars(TimePasses)
  /\ WF_vars(Store)
  /\ WF_vars(Tick)
  /\ WF_vars(Finish)
  /\ \A r \in Robots : SF_vars(Send(r)) /\ WF_vars(Send(r) \/ SendFails(r) \/ PassOver(r))

FairSpec == Spec /\ Fairness

-----------------------------------------------------------------------------
(* Properties *)

Datagrams == [robot : Robots, age : Nat]

\* Types; between ticks no robot is left over.
TypeOK ==
  /\ uptime \in 0..Old
  /\ net \subseteq Datagrams
  /\ age \in [Robots -> 0..Old]
  /\ {hand, slot} \subseteq Robots \cup {None}
  /\ pc \in {"idle", "send"}
  /\ pc = "idle" => left = {} /\ behind = 0
  /\ behind \in 0..MaxPause
  /\ UNION {left, sent, failed, reach, unread, heard} \subseteq Robots
  /\ silent \in [Robots -> 0..Silent]
  /\ ticked \in BOOLEAN

\* A robot that went silent gets no commands once its last datagram is out of the network and
\* Alive has passed, however its datagrams are delayed and repeated.  In the first moments
\* of the program every robot counts as heard.
SilentIsCutOff ==
  [][\A r \in Robots : r \in sent' \ sent =>
       silent[r] < Alive + MaxDelay + MaxPause \/ uptime < Alive + MaxPause]_vars

\* A robot heard less than Alive before the tick's clock gets its command or a failure of its
\* own, although the receiver stores newer heartbeats while the loop compares them with
\* the clock, and whatever happens to the robots before it.
HeardIsServed == reach \subseteq left \cup sent \cup failed

\* A robot that is heard again and again gets commands again and again, after any silence.
ComesBack ==
  \A r \in Robots : []<><<Receive(r)>>_vars => []<>(r \in sent)

\* README.md:311: feedback that is received is stored and becomes available to game logic.  At
\* least a robot whose feedback comes again and again would be read again and again.
FeedbackIsRead ==
  \A r \in Robots : []<><<Receive(r)>>_vars => []<>(r \notin unread)
=============================================================================

--------------------------- MODULE RobotLink_proofs ---------------------------
(***************************************************************************)
(* Proofs about RobotLink, for any robots, times and bounds.               *)
(*                                                                         *)
(* SilentIsCutOff needs that a heartbeat is no newer than the last         *)
(* datagram of its robot and the delay, or is none yet (BeatIsFounded),    *)
(* and so that what is in the network is as old as it has travelled        *)
(* (NetIsOld).  HeardIsServed needs that a robot which counted as heard    *)
(* still does when the loop comes to it (StaysReachable).                  *)
(***************************************************************************)
EXTENDS RobotLink, TLAPS

\* A datagram is no newer than the last one its robot sent.
NetIsOld == \A d \in net : d.age <= MaxDelay /\ silent[d.robot] <= d.age

\* A heartbeat comes from a datagram of the robot, or is the one all begin with.
BeatIsFounded == \A r \in Robots : silent[r] <= age[r] + MaxDelay \/ uptime <= age[r]

\* A robot heard less than Alive before the clock was read is reachable by that clock.
StaysReachable == pc = "send" => \A r \in reach \cap left : age[r] < Alive + behind

IInv ==
  /\ TypeOK
  /\ NetIsOld
  /\ BeatIsFounded
  /\ StaysReachable
  /\ HeardIsServed

\* The bounds are numbers.
LEMMA Bounds ==
  /\ Alive \in Nat /\ Alive > 0
  /\ MaxDelay \in Nat
  /\ MaxPause \in Nat
  /\ Old = Alive + MaxPause
  /\ Silent = Alive + MaxPause + MaxDelay
BY LinkAssumption DEF Old, Silent

LEMMA InitEstablishes == Init => IInv
<1> SUFFICES ASSUME Init PROVE IInv
  OBVIOUS
<1>1. age \in [Robots -> 0..Old] /\ silent \in [Robots -> 0..Silent]
  BY Bounds DEF Init
<1>2. uptime \in 0..Old /\ behind \in 0..MaxPause
  BY Bounds DEF Init
<1>3. TypeOK
  BY <1>1, <1>2 DEF Init, TypeOK
<1>4. BeatIsFounded
  <2>1. SUFFICES ASSUME NEW r \in Robots PROVE uptime <= age[r]
    BY DEF BeatIsFounded
  <2>2. uptime = 0
    BY DEF Init
  <2>3. age[r] = 0
    BY DEF Init
  <2>4. QED
    BY <2>2, <2>3
<1>5. QED
  BY <1>3, <1>4 DEF Init, IInv, NetIsOld, StaysReachable, HeardIsServed

LEMMA TimeKeeps ==
  ASSUME IInv, TimePasses
  PROVE  IInv'
<1>1. /\ TypeOK /\ NetIsOld /\ BeatIsFounded /\ StaysReachable /\ HeardIsServed
      /\ UNCHANGED <<hand, slot, pc, left, sent, failed, reach, unread, heard>>
      /\ ticked' = FALSE
  BY DEF IInv, TimePasses
<1>2. uptime \in Nat /\ uptime' \in 0..Old /\ uptime' <= uptime + 1
  BY <1>1, Bounds DEF TimePasses, TypeOK, Least
<1>3. \A r \in Robots :
        /\ age[r] \in 0..Old /\ age'[r] \in 0..Old
        /\ age'[r] <= age[r] + 1 /\ age'[r] \in {age[r] + 1, Old}
  BY <1>1, Bounds DEF TimePasses, TypeOK, Least
<1>4. \A r \in Robots :
        /\ silent[r] \in 0..Silent /\ silent'[r] \in 0..Silent
        /\ silent'[r] <= silent[r] + 1
  BY <1>1, Bounds DEF TimePasses, TypeOK, Least
<1>5. \A d \in net : d.robot \in Robots /\ d.age \in Nat
  BY <1>1 DEF TypeOK, Datagrams
<1>6. age' \in [Robots -> 0..Old] /\ silent' \in [Robots -> 0..Silent]
  <2>1. age' = [r \in Robots |-> Least(age[r] + 1, Old)]
        /\ silent' = [r \in Robots |-> Least(silent[r] + 1, Silent)]
    BY DEF TimePasses
  <2>2. QED
    BY <1>3, <1>4, <2>1
<1>7. behind' \in 0..MaxPause /\ (pc = "idle" => behind' = 0) /\ (pc = "send" => behind' = behind + 1)
  BY <1>1, Bounds DEF TimePasses, TypeOK
<1>8. net' \subseteq Datagrams /\ NetIsOld'
  <2>1. SUFFICES ASSUME NEW d \in net'
                 PROVE  d \in Datagrams /\ d.age <= MaxDelay /\ silent'[d.robot] <= d.age
    BY DEF NetIsOld
  <2>2. PICK e \in net : e.age < MaxDelay /\ d = [robot |-> e.robot, age |-> e.age + 1]
    BY DEF TimePasses
  <2>3. silent[e.robot] <= e.age
    BY <1>1 DEF NetIsOld
  <2>4. silent'[d.robot] <= d.age
    BY <1>4, <1>5, <2>2, <2>3
  <2>5. d \in Datagrams /\ d.age <= MaxDelay
    BY <1>5, <2>2, Bounds DEF Datagrams
  <2>6. QED
    BY <2>4, <2>5
<1>9. TypeOK'
  BY <1>1, <1>2, <1>6, <1>7, <1>8 DEF TypeOK
<1>10. BeatIsFounded'
  <2>1. SUFFICES ASSUME NEW r \in Robots
                 PROVE  silent'[r] <= age'[r] + MaxDelay \/ uptime' <= age'[r]
    BY DEF BeatIsFounded
  <2>2. CASE age'[r] = Old
    BY <1>4, <2>2, Bounds
  <2>3. CASE age'[r] = age[r] + 1
    <3>1. silent[r] <= age[r] + MaxDelay \/ uptime <= age[r]
      BY <1>1 DEF BeatIsFounded
    <3>2. QED
      BY <1>2, <1>3, <1>4, <2>3, <3>1, Bounds
  <2>4. QED
    BY <1>3, <2>2, <2>3
<1>11. StaysReachable'
  <2>1. SUFFICES ASSUME pc = "send", NEW r \in reach \cap left
                 PROVE  age'[r] < Alive + behind'
    BY <1>1 DEF StaysReachable
  <2>2. r \in Robots /\ age[r] < Alive + behind /\ behind \in Nat
    BY <1>1, <2>1 DEF TypeOK, StaysReachable
  <2>3. age'[r] <= age[r] + 1 /\ age[r] \in Nat /\ age'[r] \in Nat
    BY <1>3, <2>2
  <2>4. QED
    BY <1>7, <2>1, <2>2, <2>3, Bounds
<1>12. QED
  BY <1>1, <1>8, <1>9, <1>10, <1>11 DEF IInv, HeardIsServed

LEMMA ReceiveKeeps ==
  ASSUME IInv, NEW r \in Robots, Receive(r)
  PROVE  IInv'
<1>1. /\ TypeOK /\ NetIsOld /\ BeatIsFounded /\ StaysReachable /\ HeardIsServed
      /\ age' = [age EXCEPT ![r] = 0] /\ hand' = r /\ heard' = heard \cup {r}
      /\ UNCHANGED <<uptime, net, slot, pc, behind, left, sent, failed, ticked,
                     silent, reach, unread>>
  BY DEF IInv, Receive, sender
<1>2. age' \in [Robots -> 0..Old] /\ age'[r] = 0 /\ \A s \in Robots \ {r} : age'[s] = age[s]
  BY <1>1, Bounds DEF TypeOK
<1>3. TypeOK'
  BY <1>1, <1>2 DEF TypeOK
<1>4. BeatIsFounded'
  <2>1. PICK d \in net : d.robot = r
    BY DEF Receive
  <2>2. silent[r] <= MaxDelay
    <3>1. d.age <= MaxDelay /\ silent[r] <= d.age
      BY <1>1, <2>1 DEF NetIsOld
    <3>2. d.age \in Nat /\ silent[r] \in Nat
      BY <1>1, <2>1, Bounds DEF TypeOK, Datagrams
    <3>3. QED
      BY <3>1, <3>2, Bounds
  <2>3. ASSUME NEW s \in Robots
        PROVE  silent[s] <= age'[s] + MaxDelay \/ uptime <= age'[s]
    <3>1. CASE s = r
      BY <1>2, <2>2, <3>1, Bounds
    <3>2. CASE s # r
      BY <1>1, <1>2, <3>2 DEF BeatIsFounded
    <3>3. QED
      BY <3>1, <3>2
  <2>4. QED
    BY <1>1, <2>3 DEF BeatIsFounded
<1>5. StaysReachable'
  <2>1. SUFFICES ASSUME pc = "send", NEW s \in reach \cap left
                 PROVE  age'[s] < Alive + behind
    BY <1>1 DEF StaysReachable
  <2>2. s \in Robots /\ age[s] < Alive + behind /\ behind \in Nat
    BY <1>1, <2>1 DEF TypeOK, StaysReachable
  <2>3. CASE s = r
    BY <1>2, <2>2, <2>3, Bounds
  <2>4. CASE s # r
    BY <1>2, <2>2, <2>4
  <2>5. QED
    BY <2>3, <2>4
<1>6. QED
  BY <1>1, <1>3, <1>4, <1>5 DEF IInv, NetIsOld, HeardIsServed

\* A robot the loop comes to: it is reachable if it counted as heard.
LEMMA HeardIsReachable ==
  ASSUME IInv, pc = "send", NEW r \in reach \cap left
  PROVE  Reachable(r)
<1>1. r \in Robots /\ age[r] < Alive + behind /\ behind \in Nat
  BY DEF IInv, TypeOK, StaysReachable
<1>2. age[r] \in Nat
  BY <1>1, Bounds DEF IInv, TypeOK
<1>3. QED
  BY <1>1, <1>2, Bounds DEF Reachable

\* The steps of the sender leave robots, network and receiver alone.
LEMMA SenderKeeps ==
  ASSUME IInv, \E r \in Robots : Send(r) \/ SendFails(r) \/ PassOver(r)
  PROVE  IInv'
<1>1. PICK r \in Robots : Send(r) \/ SendFails(r) \/ PassOver(r)
  OBVIOUS
<1>2. /\ TypeOK /\ NetIsOld /\ BeatIsFounded /\ StaysReachable /\ HeardIsServed
      /\ r \in left /\ left' = left \ {r}
      /\ UNCHANGED <<uptime, net, age, hand, slot, pc, behind, ticked, silent, reach, unread, heard>>
  BY <1>1 DEF IInv, Send, SendFails, PassOver, receiver, history
<1>3. pc = "send"
  BY <1>2 DEF TypeOK
<1>4. HeardIsServed'
  <2>1. CASE Send(r)
    BY <1>2, <2>1 DEF Send, HeardIsServed
  <2>2. CASE SendFails(r)
    BY <1>2, <2>2 DEF SendFails, HeardIsServed
  <2>3. CASE PassOver(r)
    <3>1. r \notin reach
      BY <1>2, <1>3, <2>3, HeardIsReachable DEF PassOver
    <3>2. QED
      BY <1>2, <2>3, <3>1 DEF PassOver, HeardIsServed
  <2>4. QED
    BY <1>1, <2>1, <2>2, <2>3
<1>5. sent' \subseteq Robots /\ failed' \subseteq Robots
  BY <1>1, <1>2 DEF Send, SendFails, PassOver, TypeOK
<1>6. TypeOK'
  BY <1>2, <1>3, <1>5 DEF TypeOK
<1>7. QED
  BY <1>2, <1>4, <1>6 DEF IInv, NetIsOld, BeatIsFounded, StaysReachable

LEMMA TickKeeps ==
  ASSUME IInv, Tick
  PROVE  IInv'
<1>1. /\ TypeOK /\ NetIsOld /\ BeatIsFounded
      /\ slot' = None /\ unread' = unread \ {slot} /\ pc' = "send" /\ behind' = 0
      /\ left' = Robots /\ sent' = {} /\ failed' = {}
      /\ reach' = {r \in Robots : age[r] < Alive}
      /\ UNCHANGED <<uptime, net, age, hand, ticked, silent, heard>>
  BY DEF IInv, Tick
<1>2. behind' \in 0..MaxPause /\ reach' \subseteq Robots
  BY <1>1, Bounds
<1>3. TypeOK'
  BY <1>1, <1>2 DEF TypeOK
<1>4. StaysReachable'
  BY <1>1, Bounds DEF StaysReachable
<1>5. HeardIsServed'
  BY <1>1 DEF HeardIsServed
<1>6. QED
  BY <1>1, <1>3, <1>4, <1>5 DEF IInv, NetIsOld, BeatIsFounded

LEMMA RobotSendsKeeps ==
  ASSUME IInv, NEW r \in Robots, RobotSends(r)
  PROVE  IInv'
<1>1. /\ TypeOK /\ NetIsOld /\ BeatIsFounded /\ StaysReachable /\ HeardIsServed
      /\ net' = net \cup {[robot |-> r, age |-> 0]}
      /\ silent' = [silent EXCEPT ![r] = 0]
      /\ UNCHANGED <<uptime, age, hand, slot, pc, behind, left, sent, failed, ticked,
                     reach, unread, heard>>
  BY DEF IInv, RobotSends, receiver, sender
<1>2. /\ silent' \in [Robots -> 0..Silent]
      /\ \A s \in Robots : silent'[s] \in Nat /\ silent[s] \in Nat /\ silent'[s] <= silent[s]
      /\ silent'[r] = 0
  BY <1>1, Bounds DEF TypeOK
<1>3. net' \subseteq Datagrams
  BY <1>1 DEF TypeOK, Datagrams
<1>4. TypeOK'
  BY <1>1, <1>2, <1>3 DEF TypeOK
<1>5. NetIsOld'
  <2>1. ASSUME NEW d \in net
        PROVE  d.age <= MaxDelay /\ silent'[d.robot] <= d.age
    <3>1. d.robot \in Robots /\ d.age \in Nat /\ d.age <= MaxDelay /\ silent[d.robot] <= d.age
      BY <1>1 DEF TypeOK, Datagrams, NetIsOld
    <3>2. QED
      BY <1>2, <3>1
  <2>2. ASSUME NEW d \in net', d \notin net
        PROVE  d.age <= MaxDelay /\ silent'[d.robot] <= d.age
    BY <1>1, <1>2, <2>2, Bounds
  <2>3. QED
    BY <2>1, <2>2 DEF NetIsOld
<1>6. BeatIsFounded'
  <2>1. SUFFICES ASSUME NEW s \in Robots
                 PROVE  silent'[s] <= age[s] + MaxDelay \/ uptime <= age[s]
    BY <1>1 DEF BeatIsFounded
  <2>2. silent[s] <= age[s] + MaxDelay \/ uptime <= age[s]
    BY <1>1 DEF BeatIsFounded
  <2>3. age[s] \in Nat
    BY <1>1, Bounds DEF TypeOK
  <2>4. QED
    BY <1>2, <2>2, <2>3, Bounds
<1>7. QED
  BY <1>1, <1>4, <1>5, <1>6 DEF IInv, StaysReachable, HeardIsServed

LEMMA OthersKeep ==
  ASSUME IInv, Store \/ Finish \/ UNCHANGED vars
  PROVE  IInv'
<1>1. CASE Store
  <2>1. UNCHANGED <<uptime, net, age, pc, behind, left, sent, failed, ticked, silent, reach, heard>>
    BY <1>1 DEF Store, sender
  <2>2. TypeOK'
    BY <1>1, <2>1 DEF Store, IInv, TypeOK
  <2>3. QED
    BY <2>1, <2>2 DEF IInv, NetIsOld, BeatIsFounded, StaysReachable, HeardIsServed
<1>2. CASE Finish
  <2>1. /\ left = {} /\ pc' = "idle" /\ behind' = 0 /\ ticked' = TRUE
        /\ UNCHANGED <<uptime, net, age, hand, slot, left, sent, failed, silent, reach, unread, heard>>
    BY <1>2 DEF Finish, receiver, history
  <2>2. behind' \in 0..MaxPause
    BY <2>1, Bounds
  <2>3. TypeOK'
    BY <2>1, <2>2 DEF IInv, TypeOK
  <2>4. QED
    BY <2>1, <2>3 DEF IInv, NetIsOld, BeatIsFounded, StaysReachable, HeardIsServed
<1>3. CASE UNCHANGED vars
  BY <1>3 DEF vars, IInv, TypeOK, NetIsOld, BeatIsFounded, StaysReachable, HeardIsServed
<1>4. QED
  BY <1>1, <1>2, <1>3

-----------------------------------------------------------------------------
(* Theorems *)

\* The inductive invariant holds in every reachable state.
THEOREM Invariance == Spec => []IInv
<1>1. IInv /\ [Next]_vars => IInv'
  BY TimeKeeps, ReceiveKeeps, SenderKeeps, TickKeeps, RobotSendsKeeps, OthersKeep DEF Next
<1>2. QED
  BY <1>1, InitEstablishes, PTL DEF Spec

\* Everything is of its type, and between ticks no robot is left over.
THEOREM TypeCorrect == Spec => []TypeOK
<1>1. IInv => TypeOK
  BY DEF IInv
<1>2. QED
  BY <1>1, Invariance, PTL

\* The loop passes over no robot that was heard in time, whatever the receiver stores meanwhile.
THEOREM ServedCorrect == Spec => []HeardIsServed
<1>1. IInv => HeardIsServed
  BY DEF IInv
<1>2. QED
  BY <1>1, Invariance, PTL

\* A silent robot gets no more commands after Alive, the delay and the pause.
THEOREM CutOffCorrect == Spec => SilentIsCutOff
<1>1. ASSUME IInv, [Next]_vars, NEW r \in Robots, r \in sent' \ sent
      PROVE  silent[r] < Alive + MaxDelay + MaxPause \/ uptime < Alive + MaxPause
  <2>1. Send(r)
    BY <1>1 DEF Next, vars, TimePasses, Store, Tick, Finish, RobotSends, Receive, Send, SendFails,
                PassOver, sender
  <2>2. age[r] \in Nat /\ behind \in Nat /\ behind <= MaxPause /\ silent[r] \in Nat /\ uptime \in Nat
    BY <1>1, Bounds DEF IInv, TypeOK
  <2>3. age[r] < Alive + behind
    BY <2>1, <2>2, Bounds DEF Send, Reachable
  <2>4. silent[r] <= age[r] + MaxDelay \/ uptime <= age[r]
    BY <1>1 DEF IInv, BeatIsFounded
  <2>5. QED
    BY <2>2, <2>3, <2>4, Bounds
<1>2. IInv /\ [Next]_vars => [\A r \in Robots : r \in sent' \ sent =>
        silent[r] < Alive + MaxDelay + MaxPause \/ uptime < Alive + MaxPause]_vars
  BY <1>1
<1>3. QED
  BY <1>2, Invariance, PTL DEF Spec, SilentIsCutOff
=============================================================================

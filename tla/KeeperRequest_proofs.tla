------------------------- MODULE KeeperRequest_proofs -------------------------
(***************************************************************************)
(* Proofs about KeeperRequest, for any keepers, channel and bounds.        *)
(*                                                                         *)
(* AtMostOnce is not inductive: it needs that a request is in one place    *)
(* only (waiting in a task, in the channel, with the actor, received), so  *)
(* that none can come by twice.  NoFlood needs that a selection which      *)
(* differs from the one requested last has not been counted yet.           *)
(* LastRequestStands needs that, while nothing is upset, the requests are  *)
(* received, sent, in the channel and in tasks in the order they were made *)
(* in (InOrder), which is an invariant relative to the others.             *)
(***************************************************************************)
EXTENDS KeeperRequest, TLAPS

-----------------------------------------------------------------------------
(* The inductive invariant *)

\* TypeOK, with what it says of the elements of sequences spelled out.
TypeInv ==
  /\ {chosen, goalie, lastRequested} \subseteq Keepers \cup {NoKeeper}
  /\ held \subseteq Keepers
  /\ keeper \in held
  /\ selections \in 0..MaxSelections
  /\ others \in 0..MaxOthers
  /\ asked \in Seq(Keepers)
  /\ tasks \subseteq 1..Len(asked)
  /\ queue \in Seq(Nat) /\ \A i \in 1..Len(queue) : queue[i] \in 1..Len(asked)
  /\ Len(queue) <= Capacity
  /\ serving \in 0..Len(asked)
  /\ received \in Seq(Nat) /\ \A i \in 1..Len(received) : received[i] \in 1..Len(asked)
  /\ {connected, arrived, unasked, upset} \subseteq BOOLEAN

\* A selection still to be requested is one more than the requests made.
UnaskedCounts == chosen \notin {NoKeeper, lastRequested} => Len(asked) < selections

\* No request is in two places, or twice in one.
OnePlace ==
  /\ \A i, j \in 1..Len(queue) : queue[i] = queue[j] => i = j
  /\ \A i \in 1..Len(queue) :
       /\ queue[i] \notin tasks
       /\ queue[i] # serving
       /\ \A j \in 1..Len(received) : queue[i] # received[j]
  /\ serving \notin tasks
  /\ \A j \in 1..Len(received) : received[j] \notin tasks
  /\ ~arrived => \A j \in 1..Len(received) : received[j] # serving
  /\ \A i, j \in 1..Len(received) : received[i] = received[j] => i = j

CountInv == NoFlood /\ UnaskedCounts

IInv == TypeInv /\ CountInv /\ OnePlace

LEMMA TypeInvTypeOK == TypeInv => TypeOK
<1>1. ASSUME NEW n \in Nat, NEW s \in Seq(Nat), \A i \in 1..Len(s) : s[i] \in 1..n
      PROVE  s \in Seq(1..n)
  BY <1>1
<1>2. QED
  BY <1>1 DEF TypeInv, TypeOK

LEMMA InitIInv == Init => IInv
<1> SUFFICES ASSUME Init PROVE IInv
  OBVIOUS
<1>1. asked = <<>> /\ queue = <<>> /\ received = <<>>
  BY DEF Init
<1>2. Len(asked) = 0 /\ Len(queue) = 0 /\ Len(received) = 0
  BY <1>1
<1>3. asked \in Seq(Keepers) /\ queue \in Seq(Nat) /\ received \in Seq(Nat)
  BY <1>1
<1>4. TypeInv
  <2>1. \A i \in 1..Len(queue) : FALSE
    BY <1>2
  <2>2. \A i \in 1..Len(received) : FALSE
    BY <1>2
  <2>3. /\ selections \in 0..MaxSelections /\ others \in 0..MaxOthers
        /\ tasks \subseteq 1..Len(asked) /\ Len(queue) <= Capacity /\ serving \in 0..Len(asked)
    BY <1>2, KeeperAssumption DEF Init
  <2>4. {connected, arrived, unasked, upset} \subseteq BOOLEAN
    BY DEF Init
  <2>5. /\ {chosen, goalie, lastRequested} \subseteq Keepers \cup {NoKeeper}
        /\ held \subseteq Keepers
        /\ keeper \in held
    BY DEF Init
  <2>6. QED
    BY <1>3, <2>1, <2>2, <2>3, <2>4, <2>5 DEF TypeInv
<1>5. CountInv /\ OnePlace
  BY <1>2 DEF Init, CountInv, NoFlood, UnaskedCounts, OnePlace
<1>6. QED
  BY <1>4, <1>5 DEF IInv

-----------------------------------------------------------------------------
(* One lemma per action *)

LEMMA SelectKeeps ==
  ASSUME IInv, NEW k \in Keepers, Select(k)
  PROVE  IInv'
<1>1. TypeInv'
  BY KeeperAssumption DEF IInv, TypeInv, Select, channel, link, outside
<1>2. CountInv'
  BY DEF IInv, TypeInv, CountInv, NoFlood, UnaskedCounts, Select
<1>3. OnePlace'
  BY DEF IInv, OnePlace, Select, channel, link
<1>4. QED
  BY <1>1, <1>2, <1>3 DEF IInv

LEMMA OtherKeeperKeeps ==
  ASSUME IInv, NEW k \in Keepers, OtherKeeper(k)
  PROVE  IInv'
<1>1. TypeInv'
  BY KeeperAssumption DEF IInv, TypeInv, OtherKeeper, world, channel, link
<1>2. CountInv'
  BY DEF IInv, CountInv, NoFlood, UnaskedCounts, OtherKeeper, world
<1>3. OnePlace'
  BY DEF IInv, OnePlace, OtherKeeper, channel, link
<1>4. QED
  BY <1>1, <1>2, <1>3 DEF IInv

LEMMA NamedType == ASSUME IInv, NEW g \in Named PROVE g \in Keepers
BY KeeperAssumption DEF IInv, TypeInv, Named

LEMMA GameTickKeeps ==
  ASSUME IInv, NEW g \in Named, GameTick(g)
  PROVE  IInv'
<1>1. g \in Keepers
  BY NamedType
<1>2. CASE UNCHANGED <<lastRequested, asked, tasks, unasked>>
  <2>1. TypeInv'
    BY <1>1, <1>2 DEF IInv, TypeInv, GameTick, link, outside
  <2>2. CountInv'
    BY <1>2 DEF IInv, CountInv, NoFlood, UnaskedCounts, GameTick
  <2>3. OnePlace'
    BY <1>2 DEF IInv, OnePlace, GameTick, link
  <2>4. QED
    BY <2>1, <2>2, <2>3 DEF IInv
<1>3. CASE /\ chosen \notin {NoKeeper, lastRequested}
           /\ lastRequested' = chosen
           /\ asked' = Append(asked, chosen)
           /\ tasks' = tasks \cup {Len(asked')}
           /\ unasked' = FALSE
  <2>1. asked' \in Seq(Keepers) /\ Len(asked') = Len(asked) + 1 /\ Len(asked) \in Nat
    BY <1>3 DEF IInv, TypeInv
  <2>2. TypeInv'
    <3>1. 1..Len(asked) \subseteq 1..Len(asked') /\ Len(asked') \in 1..Len(asked')
      BY <2>1
    <3>2. tasks \subseteq 1..Len(asked) /\ serving \in 0..Len(asked)
      BY DEF IInv, TypeInv
    <3>3. tasks' \subseteq 1..Len(asked')
      <4>1. tasks' = tasks \cup {Len(asked')}
        BY <1>3
      <4>2. QED
        BY <3>1, <3>2, <4>1
    <3>4. serving \in 0..Len(asked')
      BY <2>1, <3>2
    <3>5. QED
      BY <1>1, <1>3, <2>1, <3>1, <3>3, <3>4 DEF IInv, TypeInv, GameTick, link, outside
  <2>3. CountInv'
    BY <1>3, <2>1 DEF IInv, TypeInv, CountInv, NoFlood, UnaskedCounts, GameTick
  <2>4. OnePlace'
    <3>1. UNCHANGED <<queue, serving, arrived, received>>
      BY DEF GameTick, link
    <3>2. tasks' = tasks \cup {Len(asked) + 1}
      BY <1>3, <2>1
    <3>3. \A i \in 1..Len(queue) : queue[i] # Len(asked) + 1
      BY <2>1 DEF IInv, TypeInv
    <3>4. \A j \in 1..Len(received) : received[j] # Len(asked) + 1
      BY <2>1 DEF IInv, TypeInv
    <3>5. serving # Len(asked) + 1
      BY <2>1 DEF IInv, TypeInv
    <3>6. QED
      BY <3>1, <3>2, <3>3, <3>4, <3>5 DEF IInv, OnePlace
  <2>5. QED
    BY <2>2, <2>3, <2>4 DEF IInv
<1>4. QED
  BY <1>2, <1>3 DEF GameTick, RequestIfChanged

LEMMA IdleTickKeeps ==
  ASSUME IInv, NEW g \in Named, IdleTick(g)
  PROVE  IInv'
<1>1. TypeInv'
  BY NamedType DEF IInv, TypeInv, IdleTick, channel, link, outside
<1>2. CountInv'
  BY DEF IInv, CountInv, NoFlood, UnaskedCounts, IdleTick
<1>3. OnePlace'
  BY DEF IInv, OnePlace, IdleTick, channel, link
<1>4. QED
  BY <1>1, <1>2, <1>3 DEF IInv


\* What a step may do to the sequences.
LEMMA AppendFacts ==
  ASSUME NEW S, NEW s \in Seq(S), NEW e \in S
  PROVE  /\ Append(s, e) \in Seq(S)
         /\ Len(Append(s, e)) = Len(s) + 1
         /\ \A i \in 1..Len(s) : Append(s, e)[i] = s[i]
         /\ Append(s, e)[Len(s) + 1] = e
         /\ Len(s) \in Nat
OBVIOUS

LEMMA TailFacts ==
  ASSUME NEW S, NEW s \in Seq(S), s # <<>>
  PROVE  /\ Tail(s) \in Seq(S)
         /\ Len(Tail(s)) = Len(s) - 1
         /\ \A i \in 1..(Len(s) - 1) : Tail(s)[i] = s[i + 1]
         /\ Head(s) = s[1] /\ 1 \in 1..Len(s)
         /\ Len(s) \in Nat
OBVIOUS

LEMMA EnqueueKeeps ==
  ASSUME IInv, NEW n \in tasks, Enqueue(n)
  PROVE  IInv'
<1> DEFINE m == Len(queue)
<1>1. n \in Nat /\ n \in 1..Len(asked) /\ Len(asked) \in Nat /\ Capacity \in Nat
  BY KeeperAssumption DEF IInv, TypeInv
<1>2. /\ queue' \in Seq(Nat) /\ Len(queue') = m + 1 /\ m \in Nat
      /\ \A i \in 1..m : queue'[i] = queue[i]
      /\ queue'[m + 1] = n
  BY <1>1, AppendFacts DEF Enqueue, IInv, TypeInv
<1>3. \A i \in 1..Len(queue') : i \in 1..m \/ i = m + 1
  BY <1>2
<1>4. TypeInv'
  <2>1. upset' \in BOOLEAN
    BY DEF Enqueue, IInv, TypeInv
  <2>2. \A i \in 1..Len(queue') : queue'[i] \in 1..Len(asked)
    BY <1>1, <1>2, <1>3 DEF IInv, TypeInv
  <2>3. tasks' \subseteq 1..Len(asked)
    BY DEF IInv, TypeInv, Enqueue
  <2>4. Len(queue') <= Capacity
    <3>1. m < Capacity
      BY DEF Enqueue
    <3>2. QED
      BY <1>1, <1>2, <3>1
  <2>5. QED
    BY <1>2, <2>1, <2>2, <2>3, <2>4 DEF IInv, TypeInv, Enqueue, world, link, outside
<1>5. CountInv'
  BY DEF IInv, CountInv, NoFlood, UnaskedCounts, Enqueue, world
<1>6. OnePlace'
  <2>1. \A i \in 1..m : queue[i] # n
    BY DEF IInv, OnePlace
  <2>2. \A i, j \in 1..Len(queue') : queue'[i] = queue'[j] => i = j
    BY <1>2, <1>3, <2>1 DEF IInv, OnePlace
  <2>3. \A i \in 1..Len(queue') :
          /\ queue'[i] \notin tasks'
          /\ queue'[i] # serving
          /\ \A j \in 1..Len(received) : queue'[i] # received[j]
    BY <1>2, <1>3, <2>1 DEF IInv, OnePlace, Enqueue
  <2>4. QED
    BY <2>2, <2>3 DEF IInv, OnePlace, Enqueue, link
<1>7. QED
  BY <1>4, <1>5, <1>6 DEF IInv

LEMMA ConnectKeeps == IInv /\ Connect => IInv'
<1> SUFFICES ASSUME IInv, Connect PROVE IInv'
  OBVIOUS
<1>1. TypeInv'
  BY DEF IInv, TypeInv, Connect, world, channel, link, outside
<1>2. CountInv'
  BY DEF IInv, CountInv, NoFlood, UnaskedCounts, Connect, world
<1>3. OnePlace'
  BY DEF IInv, OnePlace, Connect, channel, link
<1>4. QED
  BY <1>1, <1>2, <1>3 DEF IInv

LEMMA SendKeeps == IInv /\ Send => IInv'
<1> SUFFICES ASSUME IInv, Send PROVE IInv'
  OBVIOUS
<1> DEFINE m == Len(queue)
<1>1. /\ queue' \in Seq(Nat) /\ Len(queue') = m - 1 /\ m \in Nat
      /\ \A i \in 1..(m - 1) : queue'[i] = queue[i + 1]
      /\ serving' = queue[1] /\ 1 \in 1..m
  BY TailFacts DEF Send, IInv, TypeInv
<1>2. \A i \in 1..Len(queue') : i + 1 \in 1..m /\ i + 1 # 1 /\ queue'[i] = queue[i + 1]
  BY <1>1
<1>3. TypeInv'
  <2>1. serving' \in 0..Len(asked) /\ Len(queue') <= Capacity
    BY <1>1, KeeperAssumption DEF IInv, TypeInv
  <2>2. \A i \in 1..Len(queue') : queue'[i] \in 1..Len(asked)
    BY <1>2 DEF IInv, TypeInv
  <2>3. arrived' \in BOOLEAN
    BY DEF Send
  <2>4. QED
    BY <1>1, <2>1, <2>2, <2>3 DEF IInv, TypeInv, Send, world, outside
<1>4. CountInv'
  BY DEF IInv, CountInv, NoFlood, UnaskedCounts, Send, world
<1>5. OnePlace'
  <2>1. \A i, j \in 1..Len(queue') : queue'[i] = queue'[j] => i = j
    <3>1. ASSUME NEW i \in 1..Len(queue'), NEW j \in 1..Len(queue'), queue'[i] = queue'[j]
          PROVE  i = j
      <4>1. i + 1 = j + 1
        BY <1>2, <3>1 DEF IInv, OnePlace
      <4>2. QED
        BY <4>1
    <3>2. QED
      BY <3>1
  <2>2. \A i \in 1..Len(queue') :
          /\ queue'[i] \notin tasks
          /\ queue'[i] # serving'
          /\ \A j \in 1..Len(received) : queue'[i] # received[j]
    BY <1>1, <1>2 DEF IInv, OnePlace
  <2>3. /\ serving' \notin tasks
        /\ \A j \in 1..Len(received) : received[j] # serving'
    BY <1>1 DEF IInv, OnePlace
  <2>4. QED
    BY <2>1, <2>2, <2>3 DEF IInv, OnePlace, Send
<1>6. QED
  BY <1>3, <1>4, <1>5 DEF IInv

LEMMA ReplyKeeps == IInv /\ Reply => IInv'
<1> SUFFICES ASSUME IInv, Reply PROVE IInv'
  OBVIOUS
<1>1. serving' = 0 /\ Len(asked) \in Nat
  BY DEF Reply, IInv, TypeInv
<1>2. TypeInv'
  BY <1>1 DEF IInv, TypeInv, Reply, world, channel, outside
<1>3. CountInv'
  BY DEF IInv, CountInv, NoFlood, UnaskedCounts, Reply, world
<1>4. /\ \A i \in 1..Len(queue) : queue[i] # serving'
      /\ serving' \notin tasks
  BY <1>1 DEF IInv, TypeInv
<1>5. OnePlace'
  BY <1>4 DEF IInv, OnePlace, Reply, channel
<1>6. QED
  BY <1>2, <1>3, <1>5 DEF IInv

LEMMA FailKeeps == IInv /\ Fail => IInv'
<1> SUFFICES ASSUME IInv, Fail PROVE IInv'
  OBVIOUS
<1>1. serving' = 0 /\ Len(asked) \in Nat
  BY DEF Fail, IInv, TypeInv
<1>2. upset' \in BOOLEAN /\ connected' \in BOOLEAN
  BY DEF Fail
<1>3. TypeInv'
  BY <1>1, <1>2 DEF IInv, TypeInv, Fail, world, channel, outside
<1>4. CountInv'
  BY DEF IInv, CountInv, NoFlood, UnaskedCounts, Fail, world
<1>5. /\ \A i \in 1..Len(queue) : queue[i] # serving'
      /\ serving' \notin tasks
      /\ \A j \in 1..Len(received) : received[j] # serving'
  BY <1>1 DEF IInv, TypeInv
<1>6. OnePlace'
  BY <1>5 DEF IInv, OnePlace, Fail, channel
<1>7. QED
  BY <1>3, <1>4, <1>6 DEF IInv

LEMMA ReceiveKeeps ==
  ASSUME IInv, NEW granted \in BOOLEAN, Receive(granted)
  PROVE  IInv'
<1> DEFINE m == Len(received)
<1>1. /\ serving \in 1..Len(asked) /\ serving \in Nat /\ ~arrived /\ arrived' = TRUE
      /\ asked[serving] \in Keepers
  BY DEF Receive, IInv, TypeInv
<1>2. /\ received' \in Seq(Nat) /\ Len(received') = m + 1 /\ m \in Nat
      /\ \A i \in 1..m : received'[i] = received[i]
      /\ received'[m + 1] = serving
  BY <1>1, AppendFacts DEF Receive, IInv, TypeInv
<1>3. \A i \in 1..Len(received') : i \in 1..m \/ i = m + 1
  BY <1>2
<1>4. TypeInv'
  <2>1. keeper' \in Keepers /\ held' = held \cup {keeper'}
    BY <1>1 DEF Receive, IInv, TypeInv
  <2>2. upset' \in BOOLEAN /\ arrived' \in BOOLEAN
    BY DEF Receive
  <2>3. \A i \in 1..Len(received') : received'[i] \in 1..Len(asked)
    BY <1>1, <1>2, <1>3 DEF IInv, TypeInv
  <2>4. QED
    BY <1>2, <2>1, <2>2, <2>3 DEF IInv, TypeInv, Receive, world, channel
<1>5. CountInv'
  BY DEF IInv, CountInv, NoFlood, UnaskedCounts, Receive, world
<1>6. OnePlace'
  <2>1. \A j \in 1..m : received[j] # serving
    BY <1>1 DEF IInv, OnePlace
  <2>2. \A i, j \in 1..Len(received') : received'[i] = received'[j] => i = j
    <3>1. \A i, j \in 1..m : received'[i] = received'[j] => i = j
      BY <1>2 DEF IInv, OnePlace
    <3>2. \A i \in 1..m : received'[i] # received'[m + 1]
      BY <1>2, <2>1
    <3>3. QED
      BY <1>3, <3>1, <3>2
  <2>3. \A j \in 1..Len(received') :
          /\ received'[j] \notin tasks
          /\ \A i \in 1..Len(queue) : queue[i] # received'[j]
    <3>1. ASSUME NEW j \in 1..m
          PROVE  /\ received'[j] \notin tasks
                 /\ \A i \in 1..Len(queue) : queue[i] # received'[j]
      BY <1>2 DEF IInv, OnePlace
    <3>2. /\ received'[m + 1] \notin tasks
          /\ \A i \in 1..Len(queue) : queue[i] # received'[m + 1]
      BY <1>2 DEF IInv, OnePlace
    <3>3. QED
      BY <1>3, <3>1, <3>2
  <2>4. QED
    BY <1>1, <2>2, <2>3 DEF IInv, OnePlace, Receive, channel
<1>7. QED
  BY <1>4, <1>5, <1>6 DEF IInv

-----------------------------------------------------------------------------
(* Theorems *)

LEMMA NextKeeps == IInv /\ [Next]_vars => IInv'
<1>1. IInv /\ UNCHANGED vars => IInv'
  <2> SUFFICES ASSUME IInv, UNCHANGED vars PROVE IInv'
    OBVIOUS
  <2>1. TypeInv'
    BY DEF IInv, TypeInv, vars
  <2>2. CountInv'
    BY DEF IInv, CountInv, NoFlood, UnaskedCounts, vars
  <2>3. OnePlace'
    BY DEF IInv, OnePlace, vars
  <2>4. QED
    BY <2>1, <2>2, <2>3 DEF IInv
<1>2. QED
  BY <1>1, SelectKeeps, OtherKeeperKeeps, GameTickKeeps, IdleTickKeeps, EnqueueKeeps,
     ConnectKeeps, SendKeeps, ReceiveKeeps, ReplyKeeps, FailKeeps
     DEF Next

\* IInv holds in every state of every behaviour.
THEOREM Invariance == Spec => []IInv
BY InitIInv, NextKeeps, PTL DEF Spec

\* Every variable keeps its type, and the channel its capacity.
THEOREM TypeCorrect == Spec => []TypeOK
BY Invariance, TypeInvTypeOK, PTL DEF IInv

\* However often mode_game sees that the referee does not name the selection yet, and
\* whatever the referee names meanwhile, it asks at most once per selection.
THEOREM NoFloodCorrect == Spec => []NoFlood
BY Invariance, PTL DEF IInv, CountInv

\* No request reaches the game controller twice, for any channel and any failures.
THEOREM AtMostOnceCorrect == Spec => []AtMostOnce
<1>1. IInv => AtMostOnce
  <2> SUFFICES ASSUME IInv PROVE AtMostOnce
    OBVIOUS
  <2>1. DOMAIN received = 1..Len(received)
    BY DEF IInv, TypeInv
  <2>2. QED
    BY <2>1 DEF IInv, OnePlace, AtMostOnce
<1>2. QED
  BY <1>1, Invariance, PTL

-----------------------------------------------------------------------------
(* The request made last stands *)

\* How many requests the actor has written to a connection, if none was lost.
Passed == IF serving # 0 /\ ~arrived THEN Len(received) + 1 ELSE Len(received)

\* As long as nothing is lost, refused or overtaken and nobody else sets the keeper, the
\* requests are received, sent, in the channel and in tasks in the order in which they
\* were made, and the keeper is the one of the request received last.
InOrder ==
  /\ \A i \in 1..Len(received) : received[i] = i
  /\ serving # 0 => serving = Passed
  /\ \A i \in 1..Len(queue) : queue[i] = Passed + i
  /\ tasks = (Passed + Len(queue) + 1)..Len(asked)
  /\ Passed + Len(queue) <= Len(asked)
  /\ Len(received) > 0 => keeper = asked[Len(received)]

OrderInv == ~upset => InOrder

\* The lengths, as numbers.
LEMMA Lengths ==
  ASSUME IInv
  PROVE  /\ Len(asked) \in Nat /\ Len(queue) \in Nat /\ Len(received) \in Nat
         /\ serving \in Nat /\ Passed \in Nat /\ Passed \in {Len(received), Len(received) + 1}
         /\ upset \in BOOLEAN /\ arrived \in BOOLEAN
BY DEF IInv, TypeInv, Passed

LEMMA InitOrder == Init => OrderInv
<1> SUFFICES ASSUME Init PROVE InOrder
  BY DEF OrderInv
<1>1. Len(asked) = 0 /\ Len(queue) = 0 /\ Len(received) = 0 /\ tasks = {} /\ serving = 0
  BY DEF Init
<1>2. Passed = 0
  BY <1>1 DEF Passed
<1>3. (Passed + Len(queue) + 1)..Len(asked) = {}
  BY <1>1, <1>2
<1>4. QED
  BY <1>1, <1>2, <1>3 DEF InOrder

\* Steps that touch neither the requests nor the keeper.
LEMMA SameOrder ==
  ASSUME OrderInv, upset' = upset,
         UNCHANGED <<asked, tasks, queue, serving, arrived, received, keeper>>
  PROVE  OrderInv'
BY DEF OrderInv, InOrder, Passed

LEMMA GameTickOrder ==
  ASSUME IInv, OrderInv, NEW g \in Named, GameTick(g)
  PROVE  OrderInv'
<1>1. CASE UNCHANGED <<asked, tasks>>
  BY <1>1, SameOrder DEF GameTick, link, outside
<1>2. CASE asked' = Append(asked, chosen) /\ tasks' = tasks \cup {Len(asked')}
           /\ chosen \notin {NoKeeper, lastRequested}
  <2> SUFFICES ASSUME InOrder, ~upset PROVE InOrder'
    BY DEF OrderInv, GameTick
  <2> DEFINE n == Len(asked)
             lo == Passed + Len(queue) + 1
  <2>1. /\ Len(asked') = n + 1 /\ n \in Nat
        /\ \A i \in 1..n : asked'[i] = asked[i]
    BY <1>2, AppendFacts DEF IInv, TypeInv
  <2>2. UNCHANGED <<queue, serving, arrived, received, keeper>> /\ Passed' = Passed
    BY DEF GameTick, link, outside, Passed
  <2>3. lo \in Nat /\ lo <= n + 1
    BY <2>1, Lengths DEF InOrder
  <2>4. tasks' = lo..(n + 1)
    <3>1. tasks' = (lo..n) \cup {n + 1}
      BY <1>2, <2>1 DEF InOrder
    <3>2. QED
      BY <2>1, <2>3, <3>1
  <2>5. Len(received) > 0 => asked'[Len(received)] = asked[Len(received)]
    <3>1. Len(received) <= n
      BY Lengths DEF InOrder
    <3>2. Len(received) > 0 => Len(received) \in 1..n
      BY <3>1, Lengths
    <3>3. QED
      BY <2>1, <3>2
  <2>6. QED
    BY <2>1, <2>2, <2>3, <2>4, <2>5, Lengths DEF InOrder
<1>3. QED
  BY <1>1, <1>2 DEF GameTick, RequestIfChanged

LEMMA EnqueueOrder ==
  ASSUME IInv, OrderInv, NEW n \in tasks, Enqueue(n)
  PROVE  OrderInv'
<1> SUFFICES ASSUME ~upset' PROVE InOrder'
  BY DEF OrderInv
<1> DEFINE m == Len(queue)
           lo == Passed + m + 1
<1>1. InOrder /\ \A k \in tasks : ~(k < n)
  BY Lengths DEF OrderInv, Enqueue
<1>2. n \in Nat /\ n \in lo..Len(asked) /\ lo \in Nat
  BY <1>1, Lengths DEF InOrder
<1>3. n = lo
  <2>1. lo \in tasks
    BY <1>1, <1>2, Lengths DEF InOrder
  <2>2. QED
    BY <1>1, <1>2, <2>1
<1>4. /\ Len(queue') = m + 1 /\ m \in Nat
      /\ \A i \in 1..m : queue'[i] = queue[i]
      /\ queue'[m + 1] = n
  BY <1>2, AppendFacts DEF Enqueue, IInv, TypeInv
<1>5. UNCHANGED <<asked, serving, arrived, received, keeper>> /\ Passed' = Passed
  BY DEF Enqueue, world, link, outside, Passed
<1>6. \A i \in 1..Len(queue') : queue'[i] = Passed + i
  <2>1. \A i \in 1..Len(queue') : i \in 1..m \/ i = m + 1
    BY <1>4
  <2>2. QED
    BY <1>1, <1>3, <1>4, <2>1, Lengths DEF InOrder
<1>7. tasks' = (Passed + Len(queue') + 1)..Len(asked)
  <2>1. tasks' = (lo..Len(asked)) \ {lo}
    BY <1>1, <1>3 DEF Enqueue, InOrder
  <2>2. Passed + Len(queue') + 1 = lo + 1
    BY <1>4, Lengths
  <2>3. (lo..Len(asked)) \ {lo} = (lo + 1)..Len(asked)
    BY <1>2, Lengths
  <2>4. QED
    BY <2>1, <2>2, <2>3
<1>8. Passed + Len(queue') <= Len(asked)
  BY <1>2, <1>3, <1>4, Lengths
<1>9. QED
  BY <1>1, <1>5, <1>6, <1>7, <1>8 DEF InOrder

LEMMA SendOrder ==
  ASSUME IInv, OrderInv, Send
  PROVE  OrderInv'
<1> SUFFICES ASSUME InOrder PROVE InOrder'
  BY DEF OrderInv, Send
<1> DEFINE m == Len(queue)
<1>1. /\ Len(queue') = m - 1 /\ m \in Nat
      /\ \A i \in 1..(m - 1) : queue'[i] = queue[i + 1]
      /\ serving' = queue[1] /\ 1 \in 1..m
  BY TailFacts DEF Send, IInv, TypeInv
<1>2. Passed = Len(received) /\ Passed \in Nat
  BY Lengths DEF Send, Passed
<1>3. serving' = Passed + 1
  BY <1>1 DEF InOrder
<1>4. Passed' = Passed + 1
  BY <1>2, <1>3 DEF Send, Passed
<1>5. \A i \in 1..Len(queue') : queue'[i] = Passed' + i
  <2>1. ASSUME NEW i \in 1..Len(queue') PROVE queue'[i] = Passed' + i
    <3>1. i + 1 \in 1..m /\ queue'[i] = queue[i + 1] /\ i \in Nat
      BY <1>1
    <3>2. queue[i + 1] = Passed + (i + 1)
      BY <3>1 DEF InOrder
    <3>3. QED
      BY <1>2, <1>4, <3>1, <3>2
  <2>2. QED
    BY <2>1
<1>6. Passed' + Len(queue') = Passed + m
  BY <1>1, <1>2, <1>4
<1>7. UNCHANGED <<asked, tasks, received, keeper>>
  BY DEF Send, world, outside
<1>8. QED
  BY <1>3, <1>4, <1>5, <1>6, <1>7 DEF InOrder

\* The actor is done with a request that has arrived.
LEMMA DoneOrder ==
  ASSUME IInv, OrderInv, Reply \/ Fail
  PROVE  OrderInv'
<1> SUFFICES ASSUME ~upset' PROVE InOrder'
  BY DEF OrderInv
<1>1. InOrder /\ arrived /\ serving' = 0
  BY Lengths DEF OrderInv, Reply, Fail
<1>2. UNCHANGED <<asked, tasks, queue, arrived, received, keeper>>
  BY DEF Reply, Fail, world, channel, outside
<1>3. Passed' = Passed
  BY <1>1, <1>2 DEF Passed
<1>4. QED
  BY <1>1, <1>2, <1>3 DEF InOrder

LEMMA ReceiveOrder ==
  ASSUME IInv, OrderInv, NEW granted \in BOOLEAN, Receive(granted)
  PROVE  OrderInv'
<1> SUFFICES ASSUME ~upset' PROVE InOrder'
  BY DEF OrderInv
<1> DEFINE m == Len(received)
<1>1. InOrder /\ granted /\ serving # 0 /\ ~arrived /\ serving \in Nat
  BY Lengths DEF OrderInv, Receive
<1>2. serving = m + 1 /\ Passed = m + 1
  BY <1>1 DEF InOrder, Passed
<1>3. /\ Len(received') = m + 1 /\ m \in Nat
      /\ \A i \in 1..m : received'[i] = received[i]
      /\ received'[m + 1] = serving
  BY <1>1, AppendFacts DEF Receive, IInv, TypeInv
<1>4. UNCHANGED <<asked, tasks, queue, serving>> /\ arrived' = TRUE
  BY DEF Receive, world, channel
<1>5. Passed' = Passed
  BY <1>2, <1>3, <1>4 DEF Passed
<1>6. \A i \in 1..Len(received') : received'[i] = i
  <2>1. \A i \in 1..Len(received') : i \in 1..m \/ i = m + 1
    BY <1>3
  <2>2. QED
    BY <1>1, <1>2, <1>3, <2>1 DEF InOrder
<1>7. keeper' = asked[Len(received')]
  BY <1>1, <1>2, <1>3 DEF Receive
<1>8. QED
  BY <1>1, <1>4, <1>5, <1>6, <1>7 DEF InOrder

LEMMA NextOrder == IInv /\ OrderInv /\ [Next]_vars => OrderInv'
<1> SUFFICES ASSUME IInv, OrderInv, [Next]_vars PROVE OrderInv'
  OBVIOUS
<1>1. CASE UNCHANGED vars
  BY <1>1, SameOrder DEF vars
<1>2. ASSUME NEW k \in Keepers, Select(k) \/ OtherKeeper(k)
      PROVE  OrderInv'
  BY <1>2, SameOrder DEF Select, OtherKeeper, OrderInv, channel, link, outside
<1>3. ASSUME NEW g \in Named, IdleTick(g)
      PROVE  OrderInv'
  BY <1>3, SameOrder DEF IdleTick, channel, link, outside
<1>4. CASE Connect
  BY <1>4, SameOrder DEF Connect, world, channel, link, outside
<1>5. QED
  BY <1>1, <1>2, <1>3, <1>4, GameTickOrder, EnqueueOrder, SendOrder, DoneOrder, ReceiveOrder
     DEF Next

\* The game controller ends up with the keeper it was asked for last, for any number of
\* requests and any channel, unless one is lost, refused or overtaken.
THEOREM LastRequestCorrect == Spec => []LastRequestStands
<1>1. IInv /\ OrderInv => LastRequestStands
  <2> SUFFICES ASSUME IInv, OrderInv, ~upset, Outstanding = {}, asked # <<>>
               PROVE  keeper = asked[Len(asked)]
    BY DEF LastRequestStands
  <2>1. tasks = {} /\ Range(queue) = {} /\ serving = 0
    BY Lengths DEF Outstanding
  <2>2. Len(queue) = 0
    <3>1. DOMAIN queue = 1..Len(queue)
      BY DEF IInv, TypeInv
    <3>2. DOMAIN queue = {}
      BY <2>1 DEF Range
    <3>3. 1 \notin 1..Len(queue)
      BY <3>1, <3>2
    <3>4. QED
      BY <3>3, Lengths
  <2>3. Passed = Len(received)
    BY <2>1 DEF Passed
  <2>4. Len(received) = Len(asked)
    BY <2>1, <2>2, <2>3, Lengths DEF OrderInv, InOrder
  <2>5. Len(asked) > 0
    BY DEF IInv, TypeInv
  <2>6. QED
    BY <2>4, <2>5 DEF OrderInv, InOrder
<1>2. QED
  BY <1>1, InitIInv, NextKeeps, InitOrder, NextOrder, PTL DEF Spec
==============================================================================

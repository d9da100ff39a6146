-------------------------- MODULE RefereeFeed_proofs --------------------------
(***************************************************************************)
(* Proofs about RefereeFeed, for any delays, ages, clocks and bounds.      *)
(*                                                                         *)
(* The safety properties rest on how the ages of the three places a packet *)
(* may be in relate: what the network holds is as old as its place says,   *)
(* what lies in the slot arrived in this unit of time, and what is stored  *)
(* was accepted no later than the last packet arrived.                     *)
(***************************************************************************)
EXTENDS RefereeFeed, TLAPS

-----------------------------------------------------------------------------
(* The inductive invariant *)

\* RefMachine applied the packet that is stored, or none is and it was told to halt.
Follows == machine = stored.n

\* A packet the network has held for a units was sent then, with the command of then and
\* by the clock of then.
FlightAges ==
  \A a \in 0..MaxDelay :
    flight[a] # Nothing =>
      /\ a < settled => flight[a].n = gc
      /\ jumps = 0 => flight[a].behind = skew + a

\* A packet in the slot arrived in this unit of time, after a delay the network allows.
SlotAges ==
  slot # Nothing =>
    /\ silence = 0
    /\ slot.n # gc => settled <= MaxDelay
    /\ jumps = 0 => slot.behind >= skew
    /\ jumps = 0 /\ slot.n # gc => slot.behind >= settled + skew

\* A stored packet was accepted when one arrived, and is not kept for longer than MaxAge.
StoredAges ==
  stored # Nothing =>
    /\ silence <= elapsed
    /\ stored.n # gc => settled <= MaxDelay + elapsed
    /\ ticked => elapsed <= MaxAge

Ages == FlightAges /\ SlotAges /\ StoredAges

IInv == TypeOK /\ Follows /\ Ages

-----------------------------------------------------------------------------
(* Lemmas about the operators *)

LEMMA Bounds ==
  /\ MaxAge \in Nat /\ MaxDelay \in Nat /\ MaxCommands \in Nat /\ MaxJumps \in Nat
  /\ MaxCommands > 0
  /\ HistoryBound \in Nat
BY FeedAssumption DEF HistoryBound

LEMMA PacketType ==
  /\ Nothing \in Packets
  /\ Nothing.n = 0 /\ Nothing.behind = 0
  /\ \A n \in Command, b \in Nat : Packet(n, b) \in Packets /\ Packet(n, b) # Nothing
  /\ \A p \in Packets : p # Nothing => p.n \in Command /\ p.behind \in Nat
  /\ \A p \in Packets : p.n = 0 => p = Nothing
BY Bounds DEF Nothing, Packet, Packets, Command

LEMMA OlderFacts ==
  ASSUME NEW p \in Packets
  PROVE  /\ Older(p) \in Packets
         /\ Older(p) = Nothing <=> p = Nothing
         /\ p # Nothing => Older(p).n = p.n /\ Older(p).behind = p.behind + 1
<1>1. CASE p = Nothing
  BY <1>1 DEF Older, Packets
<1>2. CASE p # Nothing
  <2>1. p.n \in Command /\ p.behind \in Nat /\ p = [n |-> p.n, behind |-> p.behind]
    BY <1>2 DEF Packets
  <2>2. Older(p) = [n |-> p.n, behind |-> p.behind + 1]
    BY <1>2, <2>1 DEF Older
  <2>3. Older(p).n = p.n /\ Older(p).behind = p.behind + 1
    BY <2>2
  <2>4. Older(p) \in Packets
    BY <2>1, <2>2 DEF Packets
  <2>5. Older(p) # Nothing
    BY <2>1, <2>3, PacketType DEF Command
  <2>6. QED
    BY <1>2, <2>3, <2>4, <2>5
<1>3. QED
  BY <1>1, <1>2

LEMMA LeastFacts ==
  ASSUME NEW a \in Nat, NEW b \in Nat
  PROVE  /\ Least(a, b) \in Nat
         /\ Least(a, b) <= a /\ Least(a, b) <= b
BY DEF Least

LEMMA Numbers ==
  ASSUME TypeOK
  PROVE  /\ gc \in Nat /\ skew \in Nat /\ elapsed \in Nat /\ silence \in Nat /\ settled \in Nat
         /\ jumps \in Nat
BY Bounds, FeedAssumption DEF TypeOK, Command

LEMMA InitIInv == Init => IInv
<1> SUFFICES ASSUME Init PROVE IInv
  OBVIOUS
<1>1. TypeOK
  <2>1. flight \in [0..MaxDelay -> Packets] /\ slot \in Packets /\ stored \in Packets
    BY PacketType DEF Init
  <2>2. gc \in Command /\ jumps \in 0..MaxJumps /\ elapsed \in 0..(MaxAge + 1)
    BY Bounds DEF Init, Command
  <2>3. silence \in 0..HistoryBound /\ settled \in 0..HistoryBound
    BY Bounds DEF Init
  <2>4. QED
    BY <2>1, <2>2, <2>3 DEF Init, TypeOK
<1>2. \A a \in 0..MaxDelay : flight[a] = Nothing
  BY DEF Init
<1>3. QED
  BY <1>1, <1>2, PacketType DEF Init, IInv, Follows, Ages, FlightAges, SlotAges, StoredAges, Halt

-----------------------------------------------------------------------------
(* One lemma per action *)

LEMMA NewCommandKeeps == IInv /\ NewCommand => IInv'
<1> SUFFICES ASSUME IInv, NewCommand PROVE IInv'
  OBVIOUS
<1>1. TypeOK'
  <2>1. gc' \in Command /\ settled' \in 0..HistoryBound
    BY Bounds DEF IInv, TypeOK, Command, NewCommand
  <2>2. QED
    BY <2>1 DEF IInv, TypeOK, NewCommand
<1>2. FlightAges'
  BY DEF IInv, Ages, FlightAges, NewCommand
<1>3. SlotAges'
  BY Bounds, Numbers DEF IInv, Ages, SlotAges, NewCommand
<1>4. StoredAges'
  BY Bounds, Numbers DEF IInv, Ages, StoredAges, NewCommand
<1>5. QED
  BY <1>1, <1>2, <1>3, <1>4 DEF IInv, Ages, Follows, NewCommand

LEMMA ClockJumpKeeps == IInv /\ ClockJump => IInv'
<1> SUFFICES ASSUME IInv, ClockJump PROVE IInv'
  OBVIOUS
<1>1. jumps' \in 0..MaxJumps /\ jumps' # 0 /\ skew' \in Skews
  BY Bounds DEF IInv, TypeOK, ClockJump
<1>2. TypeOK'
  BY <1>1 DEF IInv, TypeOK, ClockJump
<1>3. FlightAges' /\ SlotAges' /\ StoredAges'
  BY <1>1 DEF IInv, Ages, FlightAges, SlotAges, StoredAges, ClockJump
<1>4. QED
  BY <1>2, <1>3 DEF IInv, Ages, Follows, ClockJump

LEMMA TimePassesKeeps ==
  ASSUME IInv, NEW sent \in BOOLEAN, TimePasses(sent)
  PROVE  IInv'
<1> DEFINE fresh == IF sent THEN Packet(gc, skew) ELSE Nothing
<1>1. fresh \in Packets /\ (fresh # Nothing => fresh.n = gc /\ fresh.behind = skew)
  BY Numbers, PacketType DEF IInv, TypeOK, Packet
<1>2. \A a \in 0..MaxDelay : a # 0 => a - 1 \in 0..MaxDelay
  BY Bounds
<1>3. /\ flight'[0] = fresh
      /\ \A a \in 0..MaxDelay : a # 0 => flight'[a] = Older(flight[a - 1])
  BY Bounds DEF TimePasses
<1>4. /\ settled' \in Nat /\ settled' <= HistoryBound /\ settled' <= settled + 1
      /\ silence' \in Nat /\ silence' <= HistoryBound /\ silence' <= silence + 1
  <2>1. /\ settled \in Nat /\ settled + 1 \in Nat /\ settled' = Least(settled + 1, HistoryBound)
        /\ silence \in Nat /\ silence + 1 \in Nat /\ silence' = Least(silence + 1, HistoryBound)
    BY Numbers DEF IInv, TimePasses
  <2>2. QED
    BY <2>1, Bounds, LeastFacts
<1>5. stored # Nothing => elapsed' = elapsed + 1 /\ elapsed <= MaxAge
  BY DEF IInv, Ages, StoredAges, TimePasses
<1>6. TypeOK'
  <2>1. flight' \in [0..MaxDelay -> Packets]
    <3>1. ASSUME NEW a \in 0..MaxDelay PROVE
             (IF a > 0 THEN Older(flight[a - 1]) ELSE fresh) \in Packets
      BY <1>1, <1>2, OlderFacts DEF IInv, TypeOK
    <3>2. flight' = [a \in 0..MaxDelay |-> IF a > 0 THEN Older(flight[a - 1]) ELSE fresh]
      BY DEF TimePasses
    <3>3. QED
      BY <3>1, <3>2
  <2>2. elapsed' \in 0..(MaxAge + 1) /\ (stored = Nothing => elapsed' = 0)
    BY <1>5, Bounds, Numbers DEF IInv, TypeOK, TimePasses
  <2>3. settled' \in 0..HistoryBound /\ silence' \in 0..HistoryBound
    BY <1>4, Bounds
  <2>4. QED
    BY <2>1, <2>2, <2>3 DEF IInv, TypeOK, TimePasses
<1>7. FlightAges'
  <2> SUFFICES ASSUME NEW a \in 0..MaxDelay, flight'[a] # Nothing
               PROVE  /\ a < settled' => flight'[a].n = gc
                      /\ jumps = 0 => flight'[a].behind = skew + a
    BY DEF FlightAges, TimePasses
  <2>1. CASE a = 0
    BY <1>1, <1>3, <2>1, Numbers DEF IInv
  <2>2. CASE a # 0
    <3>1. a - 1 \in 0..MaxDelay /\ flight[a - 1] \in Packets /\ flight'[a] = Older(flight[a - 1])
      BY <1>2, <1>3, <2>2 DEF IInv, TypeOK
    <3>2. /\ flight[a - 1] # Nothing /\ flight'[a].n = flight[a - 1].n
          /\ flight'[a].behind = flight[a - 1].behind + 1
      BY <3>1, OlderFacts
    <3>3. a < settled' => a - 1 < settled
      BY <1>4, Numbers DEF IInv
    <3>4. /\ a - 1 < settled => flight[a - 1].n = gc
          /\ jumps = 0 => flight[a - 1].behind = skew + (a - 1)
      BY <3>1, <3>2 DEF IInv, Ages, FlightAges
    <3>5. QED
      BY <3>2, <3>3, <3>4, Numbers DEF IInv
  <2>3. QED
    BY <2>1, <2>2
<1>8. SlotAges'
  BY DEF SlotAges, TimePasses
<1>9. StoredAges'
  BY <1>4, <1>5, Bounds, Numbers DEF IInv, Ages, StoredAges, TimePasses
<1>10. QED
  BY <1>6, <1>7, <1>8, <1>9 DEF IInv, Ages, Follows, TimePasses

LEMMA DeliverKeeps ==
  ASSUME IInv, NEW a \in 0..MaxDelay, Deliver(a)
  PROVE  IInv'
<1>1. slot' = flight[a] /\ flight[a] # Nothing /\ flight[a] \in Packets
  BY DEF IInv, TypeOK, Deliver
<1>2. TypeOK'
  BY <1>1, Bounds DEF IInv, TypeOK, Deliver
<1>3. SlotAges'
  <2>1. /\ a < settled => flight[a].n = gc
        /\ jumps = 0 => flight[a].behind = skew + a
    BY <1>1 DEF IInv, Ages, FlightAges
  <2>2. QED
    BY <1>1, <2>1, Bounds, Numbers DEF IInv, SlotAges, Deliver
<1>4. FlightAges'
  BY DEF IInv, Ages, FlightAges, Deliver
<1>5. StoredAges'
  BY Numbers DEF IInv, Ages, StoredAges, Deliver
<1>6. QED
  BY <1>2, <1>3, <1>4, <1>5 DEF IInv, Ages, Follows, Deliver

\* A tick stores the packet it accepts, keeps the stored one, or forgets it.
LEMMA TickCases ==
  ASSUME IInv, Tick
  PROVE  \/ stored' = Nothing /\ elapsed' = 0 /\ machine' = Halt
         \/ /\ slot # Nothing /\ ~TooOld(slot)
            /\ stored' = slot /\ elapsed' = 0 /\ machine' = slot.n
         \/ /\ stored # Nothing /\ elapsed <= MaxAge
            /\ stored' = stored /\ elapsed' = elapsed /\ machine' = stored.n
BY Bounds, Numbers DEF IInv, Tick, Forget, Accepted, ReceivedAt, Expired

LEMMA TickKeeps == IInv /\ Tick => IInv'
<1> SUFFICES ASSUME IInv, Tick PROVE IInv'
  OBVIOUS
<1>1. /\ slot' = Nothing /\ ticked' = TRUE
      /\ UNCHANGED <<gc, skew, jumps, flight, silence, settled>>
  BY DEF Tick
<1>2. /\ slot \in Packets /\ stored \in Packets
      /\ 0 \in 0..(MaxAge + 1) /\ elapsed \in 0..(MaxAge + 1)
  BY Bounds DEF IInv, TypeOK
<1>3. FlightAges' /\ SlotAges'
  BY <1>1 DEF IInv, Ages, FlightAges, SlotAges
<1>4. CASE stored' = Nothing /\ elapsed' = 0 /\ machine' = Halt
  BY <1>1, <1>2, <1>3, <1>4, PacketType
     DEF IInv, TypeOK, Follows, Ages, StoredAges, Halt
<1>5. CASE slot # Nothing /\ stored' = slot /\ elapsed' = 0 /\ machine' = slot.n
  BY <1>1, <1>2, <1>3, <1>5, PacketType, Bounds, Numbers
     DEF IInv, TypeOK, Follows, Ages, SlotAges, StoredAges
<1>6. CASE /\ stored # Nothing /\ elapsed <= MaxAge
           /\ stored' = stored /\ elapsed' = elapsed /\ machine' = stored.n
  BY <1>1, <1>2, <1>3, <1>6, PacketType DEF IInv, TypeOK, Follows, Ages, StoredAges
<1>7. QED
  BY <1>4, <1>5, <1>6, TickCases

LEMMA NextKeeps == IInv /\ [Next]_vars => IInv'
<1>1. IInv /\ UNCHANGED vars => IInv'
  BY DEF vars, IInv, TypeOK, Follows, Ages, FlightAges, SlotAges, StoredAges
<1>2. QED
  BY <1>1, NewCommandKeeps, ClockJumpKeeps, TimePassesKeeps, DeliverKeeps, TickKeeps DEF Next

-----------------------------------------------------------------------------
(* Theorems *)

\* IInv holds in every state of every behaviour.
THEOREM Invariance == Spec => []IInv
BY InitIInv, NextKeeps, PTL DEF Spec

\* Every variable keeps its type; nothing is kept of a packet that was forgotten.
THEOREM TypeCorrect == Spec => []TypeOK
BY Invariance, PTL DEF IInv

\* Robots halt when the referee has been silent for longer than MaxAge, whatever arrived
\* before.
THEOREM SilenceCorrect == Spec => []SilenceHalts
<1>1. IInv => SilenceHalts
  BY Bounds, Numbers, PacketType
     DEF IInv, Follows, Ages, StoredAges, SilenceHalts, Halt
<1>2. QED
  BY <1>1, Invariance, PTL

\* A command the game controller gave up is gone after the longest delay and MaxAge.
THEOREM SupersededCorrect == Spec => []SupersededDiesOut
<1>1. IInv => SupersededDiesOut
  BY Bounds, Numbers, PacketType
     DEF IInv, Follows, Ages, StoredAges, SupersededDiesOut, Halt
<1>2. QED
  BY <1>1, Invariance, PTL

\* Robots that follow the current command fall back only on a packet delayed by no more
\* than MaxAge and the delay of the packet they follow.
THEOREM RelapseCorrect == Spec => NoLateRelapse
<1>1. IInv /\ [Next]_vars =>
        [jumps = 0 /\ machine = gc /\ machine' \notin {gc, Halt} =>
           settled + skew <= stored.behind + MaxAge]_vars
  <2> SUFFICES ASSUME IInv, Next, jumps = 0, machine = gc, machine' \notin {gc, Halt}
               PROVE  settled + skew <= stored.behind + MaxAge
    OBVIOUS
  <2>1. Tick
    BY DEF Next, NewCommand, ClockJump, TimePasses, Deliver
  <2>2. stored # Nothing /\ stored.n = gc /\ stored \in Packets /\ stored.behind \in Nat
    <3>1. stored \in Packets /\ stored.n = gc /\ gc \in Command
      BY DEF IInv, Follows, TypeOK
    <3>2. gc # 0
      BY <3>1 DEF Command
    <3>3. QED
      BY <3>1, <3>2, PacketType
  <2>3. slot # Nothing /\ ~TooOld(slot) /\ slot.n # gc /\ slot.behind \in Nat
    BY <2>1, <2>2, TickCases, PacketType DEF IInv, TypeOK
  <2>4. slot.behind >= settled + skew
    BY <2>3 DEF IInv, Ages, SlotAges
  <2>5. slot.behind <= stored.behind + MaxAge
    BY <2>2, <2>3, Bounds DEF TooOld
  <2>6. QED
    BY <2>2, <2>3, <2>4, <2>5, Bounds, Numbers DEF IInv
<1>2. QED
  BY <1>1, Invariance, PTL DEF Spec, NoLateRelapse
==============================================================================

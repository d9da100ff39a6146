----------------------------- MODULE RefereeFeed -----------------------------
(***************************************************************************)
(* From the game controller's multicast packets to RefMachine.             *)
(*                                                                         *)
(* The game controller repeats its current command in every packet.  The   *)
(* network loses, delays, duplicates and reorders packets.  The UDP task   *)
(* keeps the newest arrival in Events.gc; each tick takes it, refuses it   *)
(* if its timestamp is too old against the stored packet's timestamp       *)
(* extrapolated to now, and forgets the stored packet when that one has    *)
(* become too old itself (interpret in lib.rs).  RefMachine then follows   *)
(* the stored packet; a forgotten one reads as Halt.                       *)
(*                                                                         *)
(* Time is relative: a packet carries how far its timestamp lies behind    *)
(* the present, which grows while it travels.  A game controller whose     *)
(* clock is off by some skew sends packets that start out that far behind. *)
(***************************************************************************)
EXTENDS Naturals

CONSTANTS
  MaxAge,       \* MAX_REFEREE_PACKET_AGE_MICROS, in units of time
  MaxDelay,     \* bound: the network drops a packet after this time
  MaxCommands,  \* bound: how many commands the game controller gives
  Skews,        \* how far the clock of a game controller may lie behind
  MaxJumps      \* bound: how often that clock jumps

ASSUME FeedAssumption ==
  /\ {MaxAge, MaxDelay, MaxCommands, MaxJumps} \subseteq Nat
  /\ MaxCommands > 0
  /\ Skews \subseteq Nat /\ 0 \in Skews

VARIABLES
  gc,       \* number of the game controller's current command
  skew,     \* how far its clock lies behind ours
  jumps,    \* how often its clock has jumped
  flight,   \* flight[a]: the packet sent a units ago, while the network holds it
  slot,     \* Events.gc
  stored,   \* PacketBuffer.referee, as it was when it was accepted
  elapsed,  \* referee_packet_received_at.elapsed()
  machine,  \* the command RefMachine applied last
  ticked,   \* the control loop has run in this unit of time
  silence,  \* history: units since a packet last arrived
  settled   \* history: units since the game controller last changed its command

vars == <<gc, skew, jumps, flight, slot, stored, elapsed, machine, ticked, silence, settled>>

-----------------------------------------------------------------------------
(* The command's number n stands for its command, counter and timestamp; 0 is     *)
(* Referee::default: Halt, with no timestamp.                                     *)

Command == 1..MaxCommands
Halt    == 0

Packet(n, behind) == [n |-> n, behind |-> behind]
Nothing == Packet(0, 0)

Older(p) == IF p = Nothing THEN Nothing ELSE [p EXCEPT !.behind = @ + 1]

Least(a, b) == IF a < b THEN a ELSE b
HistoryBound == MaxDelay + MaxAge + 2

Init ==
  /\ gc = 1
  /\ skew \in Skews
  /\ jumps = 0
  /\ flight = [a \in 0..MaxDelay |-> Nothing]
  /\ slot = Nothing
  /\ stored = Nothing
  /\ elapsed = 0
  /\ machine = Halt
  /\ ticked = FALSE
  /\ silence = 0
  /\ settled = 0

-----------------------------------------------------------------------------
(* The game controller, the network and time *)

NewCommand ==
  /\ gc < MaxCommands
  /\ gc' = gc + 1
  /\ settled' = 0
  /\ UNCHANGED <<skew, jumps, flight, slot, stored, elapsed, machine, ticked, silence>>

\* Another game controller takes over, or its clock is set.
ClockJump ==
  /\ jumps < MaxJumps
  /\ jumps' = jumps + 1
  /\ skew' \in Skews \ {skew}
  /\ UNCHANGED <<gc, flight, slot, stored, elapsed, machine, ticked, silence, settled>>

\* A unit passes; the loop, which runs every 4 ms, has run and read its inbox.  The game
\* controller sends a packet, or the network loses it.
TimePasses(sent) ==
  /\ ticked
  /\ slot = Nothing
  /\ ticked' = FALSE
  /\ flight' = [a \in 0..MaxDelay |->
                  IF a > 0 THEN Older(flight[a - 1])
                  ELSE IF sent THEN Packet(gc, skew) ELSE Nothing]
  /\ elapsed' = IF stored = Nothing THEN 0 ELSE elapsed + 1
  /\ silence' = Least(silence + 1, HistoryBound)
  /\ settled' = Least(settled + 1, HistoryBound)
  /\ UNCHANGED <<gc, skew, jumps, slot, stored, machine>>

\* The UDP task overwrites what the loop has not read yet.  The packet may come again.
Deliver(a) ==
  /\ flight[a] # Nothing
  /\ slot' = flight[a]
  /\ silence' = 0
  /\ UNCHANGED <<gc, skew, jumps, flight, stored, elapsed, machine, ticked, settled>>

-----------------------------------------------------------------------------
(* interpret, then RefMachine::apply *)

\* Mutation: the stored timestamp is not moved on to now.
TooOldThen(p) == stored # Nothing /\ p.behind > stored.behind + elapsed + MaxAge

\* is_referee_packet_older_than_reference: the reference has moved on with our clock, so
\* what counts is how much further the packet lies behind than the reference did.
TooOld(p) == stored # Nothing /\ p.behind > stored.behind + MaxAge

Accepted == slot # Nothing /\ ~TooOld(slot)

\* Mutation: the packet is refused, yet the time of the last packet is taken anew.
ReceivedAtEvenIfRefused == IF slot # Nothing THEN 0 ELSE elapsed

ReceivedAt == IF Accepted THEN 0 ELSE elapsed
Expired(age) == age > MaxAge

\* Mutation: forgetting the packet does not forget when it came.
ForgetPacketOnly ==
  /\ stored' = Nothing
  /\ elapsed' = ReceivedAt
  /\ machine' = Halt

\* Mutation: the tick ends without telling RefMachine.
ForgetQuietly ==
  /\ stored' = Nothing
  /\ elapsed' = 0
  /\ UNCHANGED machine

Forget ==
  /\ stored' = Nothing
  /\ elapsed' = 0
  /\ machine' = Halt

\* A second tick in one unit, with nothing received, changes nothing and is left out.
Tick ==
  /\ ~ticked \/ slot # Nothing
  /\ LET packet == IF Accepted THEN slot ELSE stored
     IN \/ /\ packet = Nothing \/ Expired(ReceivedAt)
           /\ Forget
        \/ /\ packet # Nothing /\ ~Expired(ReceivedAt)
           /\ stored' = packet
           /\ elapsed' = ReceivedAt
           /\ machine' = packet.n
  /\ slot' = Nothing
  /\ ticked' = TRUE
  /\ UNCHANGED <<gc, skew, jumps, flight, silence, settled>>

Next ==
  \/ NewCommand
  \/ ClockJump
  \/ \E sent \in BOOLEAN : TimePasses(sent)
  \/ \E a \in 0..MaxDelay : Deliver(a)
  \/ Tick

Spec == Init /\ [][Next]_vars

\* Time passes, the loop runs, and again and again a packet is sent and arrives at once.
Fairness ==
  /\ WF_vars(\E sent \in BOOLEAN : TimePasses(sent))
  /\ SF_vars(TimePasses(TRUE))
  /\ SF_vars(Deliver(0))
  /\ WF_vars(Tick)

FairSpec == Spec /\ Fairness

-----------------------------------------------------------------------------
(* Properties *)

Packets == [n : Command, behind : Nat] \cup {Nothing}

\* Types; nothing is kept of a packet that was forgotten.
TypeOK ==
  /\ gc \in Command
  /\ skew \in Skews
  /\ jumps \in 0..MaxJumps
  /\ flight \in [0..MaxDelay -> Packets]
  /\ slot \in Packets
  /\ stored \in Packets
  /\ elapsed \in 0..(MaxAge + 1)
  /\ stored = Nothing => elapsed = 0
  /\ machine \in Command \cup {Halt}
  /\ ticked \in BOOLEAN
  /\ silence \in 0..HistoryBound
  /\ settled \in 0..HistoryBound

\* A referee that has not been heard for more than two seconds halts the robots.
SilenceHalts == ticked /\ silence > MaxAge => machine = Halt

\* A superseded command dies out: once the game controller has kept its command for as
\* long as a packet may travel and a stored one may last, the robots follow that command
\* or halt, whatever was lost, repeated, reordered or refused meanwhile.
SupersededDiesOut ==
  ticked /\ settled > MaxDelay + MaxAge => machine \in {gc, Halt}

\* No late relapse: robots that follow the current command are not sent back to an older
\* one by a packet that was under way for longer than the two seconds plus the delay of
\* the packet they follow.  (As long as the game controller's clock does not jump.)
NoLateRelapse ==
  [][jumps = 0 /\ machine = gc /\ machine' \notin {gc, Halt} =>
       settled + skew <= stored.behind + MaxAge]_vars

\* The robots get to follow the game controller's command again and again, after lost
\* packets and after its clock was set back so far that its packets are refused at first.
Recovers == []<>(machine = gc)
=============================================================================

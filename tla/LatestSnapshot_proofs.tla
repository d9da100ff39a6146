------------------------ MODULE LatestSnapshot_proofs ------------------------
(***************************************************************************)
(* Proofs about LatestSnapshot, for any number of publishers, connections  *)
(* and snapshots: no wakeup is lost, and the connections implement         *)
(* LatestValue.                                                            *)
(***************************************************************************)
EXTENDS LatestSnapshot, TLAPS

IInv == TypeOK /\ NoLostWakeup /\ SentIsCurrent

LEMMA InitIInv == Init => IInv
BY SnapshotAssumption DEF Init, IInv, TypeOK, NoLostWakeup, SentIsCurrent, Waiters

-----------------------------------------------------------------------------
(* Publishers *)

LEMMA WriteKeeps ==
  ASSUME IInv, NEW p \in Publishers, Publish(p) \/ PublishEncoded(p)
  PROVE  IInv'
<1>1. /\ Write(p) /\ seq' = seq + 1 /\ encoded' = seq' /\ p \in notifying'
      /\ payload' \in {payload, seq'}
      /\ UNCHANGED <<pc, woken, last, got>>
  BY DEF Publish, PublishEncoded, Write
<1>2. seq \in 0..MaxPublished /\ seq < MaxPublished
  BY <1>1 DEF Write, IInv, TypeOK
<1>3. TypeOK'
  BY <1>1, <1>2, SnapshotAssumption DEF IInv, TypeOK, Write
<1>4. NoLostWakeup'
  BY <1>1 DEF NoLostWakeup
<1>5. SentIsCurrent'
  BY <1>1 DEF IInv, SentIsCurrent
<1>6. QED
  BY <1>3, <1>4, <1>5 DEF IInv

LEMMA NotifyKeeps ==
  ASSUME IInv, NEW p \in Publishers, NotifyWaiters(p)
  PROVE  IInv'
<1>1. TypeOK'
  BY DEF IInv, TypeOK, NotifyWaiters, HasFuture
<1>2. NoLostWakeup'
  BY DEF IInv, TypeOK, NoLostWakeup, NotifyWaiters, HasFuture
<1>3. SentIsCurrent'
  BY DEF IInv, SentIsCurrent, NotifyWaiters
<1>4. QED
  BY <1>1, <1>2, <1>3 DEF IInv

-----------------------------------------------------------------------------
(* Waiters *)

LEMMA ConnectKeeps ==
  ASSUME IInv, NEW c \in Waiters, Connect(c)
  PROVE  IInv'
<1>1. TypeOK'
  BY SnapshotAssumption DEF IInv, TypeOK, Connect
<1>2. NoLostWakeup'
  BY DEF IInv, TypeOK, NoLostWakeup, Connect, Newer, Available
<1>3. SentIsCurrent'
  BY DEF IInv, TypeOK, SentIsCurrent, Connect, Waiters
<1>4. QED
  BY <1>1, <1>2, <1>3 DEF IInv

LEMMA MakeFutureKeeps ==
  ASSUME IInv, NEW c \in Waiters, MakeFuture(c)
  PROVE  IInv'
<1>1. TypeOK'
  BY DEF IInv, TypeOK, MakeFuture
<1>2. NoLostWakeup'
  BY DEF IInv, TypeOK, NoLostWakeup, MakeFuture, Newer, Available
<1>3. SentIsCurrent'
  BY DEF IInv, SentIsCurrent, MakeFuture
<1>4. QED
  BY <1>1, <1>2, <1>3 DEF IInv

LEMMA TakeKeeps ==
  ASSUME IInv, NEW c \in Waiters, Take(c)
  PROVE  IInv'
<1>1. TypeOK'
  BY SnapshotAssumption DEF IInv, TypeOK, Take, Available
<1>2. NoLostWakeup'
  BY DEF IInv, TypeOK, NoLostWakeup, Take, Newer, Available
<1>3. SentIsCurrent'
  BY SnapshotAssumption DEF IInv, TypeOK, SentIsCurrent, Take, Available, Waiters
<1>4. QED
  BY <1>1, <1>2, <1>3 DEF IInv

LEMMA LookInVainKeeps ==
  ASSUME IInv, NEW c \in Waiters, LookInVain(c)
  PROVE  IInv'
<1>1. TypeOK'
  BY DEF IInv, TypeOK, LookInVain
<1>2. NoLostWakeup'
  BY DEF IInv, TypeOK, NoLostWakeup, LookInVain, Newer, Available
<1>3. SentIsCurrent'
  BY DEF IInv, SentIsCurrent, LookInVain
<1>4. QED
  BY <1>1, <1>2, <1>3 DEF IInv

LEMMA AwaitKeeps ==
  ASSUME IInv, NEW c \in Waiters, Await(c)
  PROVE  IInv'
<1>1. TypeOK'
  BY DEF IInv, TypeOK, Await
<1>2. NoLostWakeup'
  BY DEF IInv, TypeOK, NoLostWakeup, Await, Newer, Available
<1>3. SentIsCurrent'
  BY DEF IInv, SentIsCurrent, Await
<1>4. QED
  BY <1>1, <1>2, <1>3 DEF IInv

LEMMA ResumeKeeps ==
  ASSUME IInv, NEW c \in Waiters, Wake(c) \/ Sent(c) \/ SendFails(c)
  PROVE  IInv'
<1>1. PICK s \in {"make", "off"} :
        /\ pc' = [pc EXCEPT ![c] = s]
        /\ UNCHANGED <<seq, payload, encoded, notifying, woken, last, got>>
  BY DEF Wake, Sent, SendFails
<1>2. TypeOK'
  BY <1>1 DEF IInv, TypeOK
<1>3. NoLostWakeup'
  BY <1>1 DEF IInv, TypeOK, NoLostWakeup, Newer, Available
<1>4. SentIsCurrent'
  BY <1>1 DEF IInv, SentIsCurrent
<1>5. QED
  BY <1>2, <1>3, <1>4 DEF IInv

-----------------------------------------------------------------------------
(* Theorems *)

LEMMA StepKeeps == IInv /\ [Next]_vars => IInv'
<1>1. IInv /\ UNCHANGED vars => IInv'
  BY DEF vars, IInv, TypeOK, NoLostWakeup, SentIsCurrent, Newer, Available
<1>2. QED
  BY <1>1, WriteKeeps, NotifyKeeps, ConnectKeeps, MakeFutureKeeps, TakeKeeps,
     LookInVainKeeps, AwaitKeeps, ResumeKeeps DEF Next, Wait

THEOREM Invariance == Spec => []IInv
BY InitIInv, StepKeeps, PTL DEF Spec

\* Types.
THEOREM TypeCorrect == Spec => []TypeOK
BY Invariance, PTL DEF IInv

\* No waiter sleeps on a newer snapshot once its publisher has notified.
THEOREM WakeupCorrect == Spec => []NoLostWakeup
BY Invariance, PTL DEF IInv

\* What a connection got last is the snapshot of its last sequence number.
THEOREM SentCorrect == Spec => []SentIsCurrent
BY Invariance, PTL DEF IInv

\* A connection sleeps only on the newest snapshot: once every publisher has notified, what
\* a task that is left waiting has sent is the last one published, however many publishers
\* wrote and notified while it looked (wait_latest_encoded_after).
SleepersAreUpToDate ==
  notifying = {} =>
    \A c \in Encoded : pc[c] = "await" /\ ~woken[c] => got[c] = seq

THEOREM SleepersCorrect == Spec => []SleepersAreUpToDate
<1>1. IInv => SleepersAreUpToDate
  <2> SUFFICES ASSUME IInv, notifying = {}, NEW c \in Encoded, pc[c] = "await", ~woken[c]
               PROVE  got[c] = seq
    BY DEF SleepersAreUpToDate
  <2>1. c \in Waiters /\ c \notin Typed
    BY SnapshotAssumption DEF Waiters
  <2>2. ~Newer(c)
    BY <2>1 DEF IInv, NoLostWakeup
  <2>3. seq = last[c] \/ encoded = 0
    BY <2>1, <2>2 DEF Newer, Available
  <2>4. encoded = seq /\ last[c] \in 0..seq /\ seq \in Nat /\ got[c] = last[c]
    BY <2>1 DEF IInv, TypeOK, SentIsCurrent
  <2>5. QED
    BY <2>3, <2>4
<1>2. QED
  BY <1>1, Invariance, PTL

\* A connection never sends the same snapshot twice.
THEOREM NewerCorrect == Spec => SendsNewer
<1>1. IInv => \A c \in Encoded : Take(c) => got'[c] > got[c]
  BY SnapshotAssumption DEF IInv, TypeOK, SentIsCurrent, Take, Newer, Available, Waiters
<1>2. QED
  BY <1>1, Invariance, PTL DEF SendsNewer

\* A step of a waiter delivers the newest snapshot, forgets, or changes nothing.
LEMMA WaiterRefines ==
  ASSUME IInv, NEW c \in Waiters, Connect(c) \/ Wait(c) \/ SendFails(c)
  PROVE  Latest!Next \/ UNCHANGED <<seq, Seen>>
<1>1. CASE Connect(c)
  <2>1. UNCHANGED seq /\ got' = [got EXCEPT ![c] = 0]
    BY <1>1 DEF Connect
  <2>2. CASE c \in Encoded
    <3>1. Seen' = [Seen EXCEPT ![c] = 0]
      BY <2>1, <2>2 DEF IInv, TypeOK, Waiters, Seen
    <3>2. QED
      BY <2>1, <2>2, <3>1 DEF Latest!Next, Latest!Renew, Seen
  <2>3. CASE c \notin Encoded
    BY <2>1, <2>3 DEF IInv, TypeOK, Waiters, Seen
  <2>4. QED
    BY <2>2, <2>3
<1>2. CASE Take(c)
  <2>1. UNCHANGED seq /\ got' = [got EXCEPT ![c] = Available(c)] /\ seq # last[c]
    BY <1>2 DEF Take, Newer
  <2>2. CASE c \in Encoded
    <3>1. Available(c) = seq /\ got[c] < seq
      BY <2>1, <2>2, SnapshotAssumption DEF IInv, TypeOK, SentIsCurrent, Available, Waiters
    <3>2. Seen' = [Seen EXCEPT ![c] = seq]
      BY <2>1, <2>2, <3>1 DEF IInv, TypeOK, Waiters, Seen
    <3>3. QED
      BY <2>1, <2>2, <3>1, <3>2 DEF Latest!Next, Latest!Deliver, Seen
  <2>3. CASE c \notin Encoded
    BY <2>1, <2>3 DEF IInv, TypeOK, Waiters, Seen
  <2>4. QED
    BY <2>2, <2>3
<1>3. CASE MakeFuture(c) \/ LookInVain(c) \/ Await(c) \/ Wake(c) \/ Sent(c) \/ SendFails(c)
  BY <1>3 DEF MakeFuture, LookInVain, Await, Wake, Sent, SendFails, Seen
<1>4. QED
  BY <1>1, <1>2, <1>3 DEF Wait

\* The connections implement LatestValue.
THEOREM Refinement == Spec => ImplementsLatestValue
<1>1. Init => Latest!Init
  BY DEF Init, Latest!Init, Waiters, Seen
<1>2. IInv /\ [Next]_vars => [Latest!Next]_<<seq, Seen>>
  <2>1. ASSUME NEW p \in Publishers, Publish(p) \/ PublishEncoded(p)
        PROVE  Latest!Publish
    BY <2>1 DEF Publish, PublishEncoded, Write, Latest!Publish, Seen
  <2>2. ASSUME NEW p \in Publishers, NotifyWaiters(p)
        PROVE  UNCHANGED <<seq, Seen>>
    BY <2>2 DEF NotifyWaiters, Seen
  <2>3. UNCHANGED vars => UNCHANGED <<seq, Seen>>
    BY DEF vars, Seen
  <2>4. QED
    BY <2>1, <2>2, <2>3, WaiterRefines DEF Next, Latest!Next
<1>3. QED
  BY <1>1, <1>2, Invariance, PTL DEF Spec, Latest!Spec, ImplementsLatestValue
==============================================================================

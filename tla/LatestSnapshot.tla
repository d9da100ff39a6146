---------------------------- MODULE LatestSnapshot ----------------------------
(***************************************************************************)
(* WebsocketOut (communication.rs): the newest snapshot for the interface, *)
(* behind a read-write lock and a tokio Notify.                            *)
(*                                                                         *)
(* Publishers write under the lock and notify after they have released it. *)
(* A waiter makes its Notified future first, then compares sequence        *)
(* numbers under the lock, and only then awaits the future.  Each          *)
(* WebSocket connection has a task that waits for the encoded snapshot     *)
(* and sends it (interface.rs); typed waiters read the unencoded one.      *)
(***************************************************************************)
EXTENDS Naturals

CONSTANTS
  Publishers,     \* tasks that publish: the control loop, a simulator's loop
  Encoded,        \* WebSocket connections: wait_latest_encoded_after
  Typed,          \* callers of wait_latest_after
  MaxPublished    \* bound: how many snapshots are published

ASSUME SnapshotAssumption == MaxPublished \in Nat /\ Encoded \cap Typed = {}

Waiters == Encoded \cup Typed

VARIABLES
  seq,        \* WsLatestState.seq
  payload,    \* WsLatestState.payload: the number of the snapshot, 0 if None
  encoded,    \* WsLatestState.encoded_payload, likewise
  notifying,  \* publishers that have written and not notified yet
  pc,         \* where each waiter is
  woken,      \* whether its Notified future has been notified since it was made
  last,       \* the sequence number it got last: last_seq
  got         \* the snapshot it got last

vars == <<seq, payload, encoded, notifying, pc, woken, last, got>>

Init ==
  /\ seq = 0
  /\ payload = 0
  /\ encoded = 0
  /\ notifying = {}
  /\ pc = [c \in Waiters |-> "off"]
  /\ woken = [c \in Waiters |-> FALSE]
  /\ last = [c \in Waiters |-> 0]
  /\ got = [c \in Waiters |-> 0]

-----------------------------------------------------------------------------
(* Publishers *)

Write(p) ==
  /\ p \notin notifying
  /\ seq < MaxPublished
  /\ seq' = seq + 1
  /\ encoded' = seq'
  /\ notifying' = notifying \cup {p}
  /\ UNCHANGED <<pc, woken, last, got>>

\* publish and publish_sync
Publish(p) == Write(p) /\ payload' = seq'

\* publish_encoded
PublishEncoded(p) == Write(p) /\ UNCHANGED payload

\* The Notified future of waiter c exists.
HasFuture(c) == pc[c] \in {"check", "checked", "await"}

\* Mutation: notify_one instead of notify_waiters.
NotifyOne(p) ==
  /\ p \in notifying
  /\ notifying' = notifying \ {p}
  /\ \/ \A c \in Waiters : ~HasFuture(c)
        /\ UNCHANGED woken
     \/ \E c \in Waiters : HasFuture(c)
          /\ woken' = [woken EXCEPT ![c] = TRUE]
  /\ UNCHANGED <<seq, payload, encoded, pc, last, got>>

\* notify_waiters reaches every future that exists, awaited or not yet.
NotifyWaiters(p) ==
  /\ p \in notifying
  /\ notifying' = notifying \ {p}
  /\ woken' = [c \in Waiters |-> woken[c] \/ HasFuture(c)]
  /\ UNCHANGED <<seq, payload, encoded, pc, last, got>>

-----------------------------------------------------------------------------
(* Waiters *)

\* A connection is accepted; its task starts from last_seq = 0.
Connect(c) ==
  /\ pc[c] = "off"
  /\ pc' = [pc EXCEPT ![c] = "make"]
  /\ last' = [last EXCEPT ![c] = 0]
  /\ got' = [got EXCEPT ![c] = 0]
  /\ UNCHANGED <<seq, payload, encoded, notifying, woken>>

\* notified()
MakeFuture(c) ==
  /\ pc[c] = "make"
  /\ pc' = [pc EXCEPT ![c] = "check"]
  /\ woken' = [woken EXCEPT ![c] = FALSE]
  /\ UNCHANGED <<seq, payload, encoded, notifying, last, got>>

Available(c) == IF c \in Typed THEN payload ELSE encoded
Newer(c)     == seq # last[c] /\ Available(c) # 0

\* Mutation: the snapshots are queued, and a waiter gets the oldest one it has not got.
TakeOldest(c) ==
  /\ pc[c] = "check"
  /\ Newer(c)
  /\ pc' = [pc EXCEPT ![c] = "send"]
  /\ last' = [last EXCEPT ![c] = @ + 1]
  /\ got' = [got EXCEPT ![c] = @ + 1]
  /\ UNCHANGED <<seq, payload, encoded, notifying, woken>>

\* Under the read lock: a newer snapshot is returned.
Take(c) ==
  /\ pc[c] = "check"
  /\ Newer(c)
  /\ pc' = [pc EXCEPT ![c] = "send"]
  /\ last' = [last EXCEPT ![c] = seq]
  /\ got' = [got EXCEPT ![c] = Available(c)]
  /\ UNCHANGED <<seq, payload, encoded, notifying, woken>>

\* Under the read lock: there is none.
LookInVain(c) ==
  /\ pc[c] = "check"
  /\ ~Newer(c)
  /\ pc' = [pc EXCEPT ![c] = "checked"]
  /\ UNCHANGED <<seq, payload, encoded, notifying, woken, last, got>>

\* Mutation: the future that is awaited is made after the check.
AwaitNewFuture(c) ==
  /\ pc[c] = "checked"
  /\ pc' = [pc EXCEPT ![c] = "await"]
  /\ woken' = [woken EXCEPT ![c] = FALSE]
  /\ UNCHANGED <<seq, payload, encoded, notifying, last, got>>

\* The lock is released; the future is awaited.
Await(c) ==
  /\ pc[c] = "checked"
  /\ pc' = [pc EXCEPT ![c] = "await"]
  /\ UNCHANGED <<seq, payload, encoded, notifying, woken, last, got>>

Wake(c) ==
  /\ pc[c] = "await"
  /\ woken[c]
  /\ pc' = [pc EXCEPT ![c] = "make"]
  /\ UNCHANGED <<seq, payload, encoded, notifying, woken, last, got>>

\* The snapshot has gone out; the caller waits for the next one.
Sent(c) ==
  /\ pc[c] = "send"
  /\ pc' = [pc EXCEPT ![c] = "make"]
  /\ UNCHANGED <<seq, payload, encoded, notifying, woken, last, got>>

\* The connection is lost and its task ends.
SendFails(c) ==
  /\ pc[c] = "send"
  /\ pc' = [pc EXCEPT ![c] = "off"]
  /\ UNCHANGED <<seq, payload, encoded, notifying, woken, last, got>>

Wait(c) == MakeFuture(c) \/ Take(c) \/ LookInVain(c) \/ Await(c) \/ Wake(c) \/ Sent(c)

Next ==
  \/ \E p \in Publishers : Publish(p) \/ PublishEncoded(p) \/ NotifyWaiters(p)
  \/ \E c \in Waiters : Connect(c) \/ Wait(c) \/ SendFails(c)

Spec == Init /\ [][Next]_vars

\* Tasks run: a publisher that wrote notifies, a waiter that can go on does.
Fairness ==
  /\ \A p \in Publishers : WF_vars(NotifyWaiters(p))
  /\ \A c \in Waiters : WF_vars(Wait(c))

FairSpec == Spec /\ Fairness

-----------------------------------------------------------------------------
(* Properties *)

TypeOK ==
  /\ seq \in 0..MaxPublished
  /\ payload \in 0..seq
  /\ encoded = seq
  /\ notifying \subseteq Publishers
  /\ pc \in [Waiters -> {"off", "make", "check", "checked", "await", "send"}]
  /\ woken \in [Waiters -> BOOLEAN]
  /\ last \in [Waiters -> 0..seq]
  /\ got \in [Waiters -> 0..seq]

\* "race-free (won't miss notifications)" (communication.rs): a waiter sleeps on a
\* newer snapshot only while the publisher's notification is still to come.
NoLostWakeup ==
  \A c \in Waiters :
    pc[c] \in {"checked", "await"} /\ ~woken[c] /\ Newer(c) => notifying # {}

\* What a connection sends belongs to the sequence number it will wait beyond.
SentIsCurrent == \A c \in Encoded : got[c] = last[c]

\* A connection that lasts gets to send the newest snapshot.
NewestArrives ==
  \A c \in Encoded : \A n \in 1..MaxPublished :
    (seq >= n /\ pc[c] # "off") ~> (last[c] >= n \/ pc[c] = "off")

\* A connection never sends a snapshot twice, nor an older one after a newer one.  A typed
\* waiter may get one twice: publish_encoded leaves the payload as it was.
SendsNewer == [][\A c \in Encoded : Take(c) => got'[c] > got[c]]_vars

Seen   == [c \in Encoded |-> got[c]]
Latest == INSTANCE LatestValue WITH Listeners <- Encoded, latest <- seq, seen <- Seen

\* The connections see one value that only moves on: each gets the newest snapshot there
\* is at the moment it looks, whatever the publishers and the other connections do.
ImplementsLatestValue == Latest!Spec
==============================================================================

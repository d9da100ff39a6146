------------------------------ MODULE LokiBatch ------------------------------
(***************************************************************************)
(* The Loki publisher (communication/loki.rs).                             *)
(*                                                                         *)
(* The control loop hands a copy of every message it sent to a robot to a  *)
(* bounded channel and never waits: what finds it full is dropped.  One    *)
(* task takes the messages out, collects them into batches and pushes each *)
(* batch to Loki over HTTP when it is full, when no message came for a     *)
(* while, and once more when the channel is closed.                        *)
(*                                                                         *)
(* Messages are told apart only as far as the properties need it: those of *)
(* Marks, published once each and in order, and all the others, of which   *)
(* there is no end.  The marked ones are for one robot: a push groups its  *)
(* messages by robot and keeps each group's order.                         *)
(***************************************************************************)
EXTENDS Naturals, SequencesExt

CONSTANTS
  Capacity,    \* of the channel (2048)
  MaxBatch,    \* MAX_BATCH_SIZE (128)
  LastMark     \* the marked messages are 1..LastMark

ASSUME SizesAssumption ==
  Capacity \in Nat \ {0} /\ MaxBatch \in Nat \ {0} /\ LastMark \in Nat

Marks    == 1..LastMark
Unmarked == 0

VARIABLES
  queue,     \* the channel
  open,      \* whether a sender of the channel is left
  pending,   \* of run_loki_publisher
  request,   \* the batch of the HTTP request that is under way
  pc,        \* "recv", "drain", "push", "last push" or "end": where the task is
  marked,    \* how many marked messages have been published
  stored     \* the marked messages Loki has, in the order it got them

vars == <<queue, open, pending, request, pc, marked, stored>>

Init ==
  /\ queue = << >>
  /\ open = TRUE
  /\ pending = << >>
  /\ request = << >>
  /\ pc = "recv"
  /\ marked = 0
  /\ stored = << >>

-----------------------------------------------------------------------------
(* The control loop *)

\* publish_robot_message: try_send, and the result is ignored.
Publish(m) ==
  /\ open
  /\ IF m = Unmarked THEN UNCHANGED marked
                     ELSE m = marked + 1 /\ m \in Marks /\ marked' = m
  /\ queue' = IF Len(queue) < Capacity THEN Append(queue, m) ELSE queue
  /\ UNCHANGED <<open, pending, request, pc, stored>>

\* The control loop and its publisher are dropped.
Close ==
  /\ open
  /\ open' = FALSE
  /\ UNCHANGED <<queue, pending, request, pc, marked, stored>>

-----------------------------------------------------------------------------
(* The task *)

TakeOne ==
  /\ queue # << >>
  /\ pending' = Append(pending, Head(queue))
  /\ queue' = Tail(queue)
  /\ UNCHANGED <<open, request, marked, stored>>

\* flush_pending: the batch leaves pending before the request is sent.
Flush(next) ==
  /\ request' = pending
  /\ pending' = << >>
  /\ pc' = next
  /\ UNCHANGED <<queue, open, marked, stored>>

Recv ==
  /\ pc = "recv"
  /\ TakeOne
  /\ pc' = "drain"

\* drain_pending, while there is room and the channel is not empty.
Drain ==
  /\ pc = "drain"
  /\ Len(pending) < MaxBatch
  /\ TakeOne
  /\ UNCHANGED pc

\* Mutation: a batch that is one message over is flushed.
DrainedLate ==
  /\ pc = "drain"
  /\ Len(pending) >= MaxBatch \/ queue = << >>
  /\ IF Len(pending) > MaxBatch
       THEN Flush("push")
       ELSE pc' = "recv" /\ UNCHANGED <<queue, open, pending, request, marked, stored>>

Drained ==
  /\ pc = "drain"
  /\ Len(pending) >= MaxBatch \/ queue = << >>
  /\ IF Len(pending) >= MaxBatch
       THEN Flush("push")
       ELSE pc' = "recv" /\ UNCHANGED <<queue, open, pending, request, marked, stored>>

\* No message for FLUSH_INTERVAL; every message starts the interval anew.
Timeout ==
  /\ pc = "recv"
  /\ queue = << >>
  /\ open
  /\ pending # << >>
  /\ Flush("push")

\* Mutation: what is pending when the channel closes is not pushed.
ClosedAtOnce ==
  /\ pc = "recv"
  /\ queue = << >>
  /\ ~open
  /\ pc' = "end"
  /\ UNCHANGED <<queue, open, pending, request, marked, stored>>

\* The channel is closed and empty.
Closed ==
  /\ pc = "recv"
  /\ queue = << >>
  /\ ~open
  /\ IF pending # << >>
       THEN Flush("last push")
       ELSE pc' = "end" /\ UNCHANGED <<queue, open, pending, request, marked, stored>>

AfterPush == IF pc = "last push" THEN "end" ELSE "recv"

\* Of a batch only the marked messages are told apart in Loki.
MarkedOf(batch) ==
  LET upTo[k \in 0..Len(batch)] ==
        IF k = 0 THEN << >>
        ELSE IF batch[k] \in Marks THEN Append(upTo[k - 1], batch[k])
        ELSE upTo[k - 1]
  IN  upTo[Len(batch)]

\* Mutation: after an error the batch is pending again.
PushRetried(taken, error) ==
  /\ pc \in {"push", "last push"}
  /\ stored' = IF taken THEN stored \o MarkedOf(request) ELSE stored
  /\ pending' = IF error THEN request ELSE pending
  /\ request' = << >>
  /\ pc' = AfterPush
  /\ UNCHANGED <<queue, open, marked>>

\* The request ends.  Loki has taken the batch or not, whether or not there was an error;
\* the status of a response is not read, and nothing is tried again.
PushEnds(taken, error) ==
  /\ pc \in {"push", "last push"}
  /\ stored' = IF taken THEN stored \o MarkedOf(request) ELSE stored
  /\ request' = << >>
  /\ pc' = AfterPush
  /\ UNCHANGED <<queue, open, pending, marked>>

Task ==
  \/ Recv
  \/ Drain
  \/ Drained
  \/ Timeout
  \/ Closed
  \/ \E taken, error \in BOOLEAN : PushEnds(taken, error)

Next ==
  \/ \E m \in Marks \cup {Unmarked} : Publish(m)
  \/ Close
  \/ Task

\* The runtime runs the task and every request ends.  Nothing is assumed of the control
\* loop: it may publish so often that no interval ever passes without a message.
Spec == Init /\ [][Next]_vars /\ WF_vars(Task)

-----------------------------------------------------------------------------
(* Properties *)

\* Types; the channel holds no more than it has room for, and no request more than a batch.
TypeOK ==
  /\ queue \in Seq(0..LastMark) /\ Len(queue) <= Capacity
  /\ pending \in Seq(0..LastMark) /\ Len(pending) <= MaxBatch
  /\ request \in Seq(0..LastMark) /\ Len(request) <= MaxBatch
  /\ open \in BOOLEAN
  /\ pc \in {"recv", "drain", "push", "last push", "end"}
  /\ marked \in 0..LastMark
  /\ stored \in Seq(Marks)

\* Loki gets the messages of a robot in the order they were sent and none of them twice,
\* whichever are dropped at the full channel, lost with a push or pushed in the end.
InOrderOnce == \A i, j \in DOMAIN stored : i < j => stored[i] < stored[j]

Held(m) == \E s \in {queue, pending, request} : Contains(s, m)

\* A message in the channel does not stay with the publisher: it is pushed, successfully or
\* not, even if messages keep coming so fast that the interval never passes, and even if the
\* channel is closed before its batch is full.
Flushed == \A m \in Marks : Held(m) ~> ~Held(m)
==============================================================================

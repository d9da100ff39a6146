----------------------------- MODULE LatestValue -----------------------------
(***************************************************************************)
(* What the interface is promised about the state it is sent: a listener   *)
(* never gets a snapshot twice or out of order, may miss some, and gets to *)
(* the newest one.                                                         *)
(***************************************************************************)
EXTENDS Naturals

CONSTANTS Listeners, MaxPublished

VARIABLES
  latest,   \* number of the newest snapshot; 0 before the first
  seen      \* number of the snapshot each listener got last; 0 before its first

Init == latest = 0 /\ seen = [c \in Listeners |-> 0]

Publish ==
  /\ latest < MaxPublished
  /\ latest' = latest + 1
  /\ UNCHANGED seen

\* The listener skips to the newest snapshot.
Deliver(c) ==
  /\ seen[c] < latest
  /\ seen' = [seen EXCEPT ![c] = latest]
  /\ UNCHANGED latest

\* A listener that connects anew knows nothing.
Renew(c) ==
  /\ seen' = [seen EXCEPT ![c] = 0]
  /\ UNCHANGED latest

Next == Publish \/ \E c \in Listeners : Deliver(c) \/ Renew(c)

Spec == Init /\ [][Next]_<<latest, seen>>
==============================================================================

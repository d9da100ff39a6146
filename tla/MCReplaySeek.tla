---------------------------- MODULE MCReplaySeek ----------------------------
(* Model checking of ReplaySeek: two short logs and two clients. *)
EXTENDS ReplaySeek

CONSTANTS c1, c2

Message(time, kind, geometry, usable) ==
  [time |-> time, kind |-> kind, geometry |-> geometry, usable |-> usable]

\* Referee first; two events at one time; geometry between vision; a gap of two seconds;
\* an undecodable packet; messages out of order.
MCFiles ==
  {<<Message(0, "Referee", FALSE, TRUE), Message(0, "Raw", FALSE, TRUE),
     Message(1, "Raw", TRUE, FALSE), Message(3, "Raw", TRUE, TRUE),
     Message(1, "Tracked", FALSE, TRUE), Message(3, "Referee", FALSE, TRUE)>>,
   <<Message(2, "Tracked", FALSE, TRUE), Message(4, "Raw", TRUE, TRUE)>>}

MCDeltas == {-1, 1, -10, 10}
=============================================================================

---------------------------- MODULE MCRefereeFeed ----------------------------
(* Model checking of RefereeFeed: a clock 4 units behind is beyond MaxAge, and a *)
(* packet may travel longer than MaxAge.                                         *)
EXTENDS RefereeFeed

MCSkews == {0, 4}
=============================================================================

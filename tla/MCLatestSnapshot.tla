-------------------------- MODULE MCLatestSnapshot --------------------------
(* Model checking of LatestSnapshot. *)
EXTENDS LatestSnapshot

CONSTANTS loop, sim, ui1, ui2, reader

MCPublishers == {loop, sim}
MCEncoded    == {ui1, ui2}
MCTyped      == {reader}
=============================================================================

--------------------------- MODULE MCVisionIntake ---------------------------
(* Model checking of VisionIntake. *)
EXTENDS VisionIntake

CONSTANTS cam, tracker

MCCameras  == {cam}
MCTrackers == {tracker}
MCSkew     == (cam :> 0) @@ (tracker :> 9)
=============================================================================

--------------------------- MODULE MCKeeperRequest ---------------------------
(* Model checking of KeeperRequest: three keepers, of whom one is id 0. *)
EXTENDS KeeperRequest

CONSTANTS k0, k1, k2

MCKeepers == {k0, k1, k2}
==============================================================================

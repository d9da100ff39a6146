----------------------------- MODULE MCLokiBatch -----------------------------
(* Model checking of LokiBatch: a small channel and batches of three messages. *)
EXTENDS LokiBatch
=============================================================================

------------------------- MODULE MCSimulatedBackend -------------------------
(* Instances of SimulatedBackend for TLC.                                  *)
EXTENDS SimulatedBackend
=============================================================================

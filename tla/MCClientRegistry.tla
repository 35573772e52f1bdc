-------------------------- MODULE MCClientRegistry --------------------------
(* Instance of ClientRegistry for TLC.                                     *)
EXTENDS ClientRegistry
CONSTANTS t1, t2, x1, x2
=============================================================================

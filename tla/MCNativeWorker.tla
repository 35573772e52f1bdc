--------------------------- MODULE MCNativeWorker ---------------------------
(* Instance of NativeWorker for TLC.                                       *)
EXTENDS NativeWorker
CONSTANTS c1, c2, c3
=============================================================================

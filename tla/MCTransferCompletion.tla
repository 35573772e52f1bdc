----------------------- MODULE MCTransferCompletion -----------------------
(* Instances of TransferCompletion for TLC.                                *)
EXTENDS TransferCompletion
CONSTANTS mine, other, p1, p2

\* Either paths are never reused, or replies come behind the events.
Sheltered == [reuse : BOOLEAN, overtakes : BOOLEAN] \ {[reuse |-> TRUE, overtakes |-> TRUE]}

\* The native worker: the reply overtakes, and the service reuses a path.
Native == {[reuse |-> TRUE, overtakes |-> TRUE]}
=============================================================================

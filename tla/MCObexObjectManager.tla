------------------------ MODULE MCObexObjectManager ------------------------
(* Instances of ObexObjectManager for TLC.                                 *)
EXTENDS ObexObjectManager, TLC
CONSTANTS p1, transfer, message, foreign, k1, k2, v1, v2

\* The two property values are interchangeable.
ValueSymmetry == Permutations(Values)
=============================================================================

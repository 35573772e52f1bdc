--------------------------- MODULE MCPhoneStudio ---------------------------
(* Instances of PhoneStudio for TLC.                                       *)
EXTENDS PhoneStudio
=============================================================================

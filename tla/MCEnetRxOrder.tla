--------------------------- MODULE MCEnetRxOrder ----------------------------
(* An instance of the numbered receive path for TLC.                       *)
EXTENDS EnetRxOrder

DamagedFrames == {"Err"}
CallbackInstalled == {TRUE}
=============================================================================

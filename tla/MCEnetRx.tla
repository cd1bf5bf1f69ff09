------------------------------ MODULE MCEnetRx ------------------------------
(* Instances of the receive path for TLC.                                  *)
EXTENDS EnetRx

DamagedFrames == {"Err"}
NoCallback == {}
=============================================================================

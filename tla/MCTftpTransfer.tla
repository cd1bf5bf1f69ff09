--------------------------- MODULE MCTftpTransfer ---------------------------
(* Instances of a TFTP transfer for TLC.                                   *)
EXTENDS TftpTransfer

OneClient == {"c1"}
TwoClients == {"c1", "c2"}
Blocks == 0..3
=============================================================================

----------------------------- MODULE MCEtherRaw -----------------------------
(* An instance of the raw Ethernet sketch for TLC.                         *)
EXTENDS EtherRaw

AllSketches == {"udp_echo", "udp_tcp", "udp_ntp"}
AllFrames == {"udp", "ping", "arp request", "tcp"}
=============================================================================

------------------------------- MODULE TxQueue ------------------------------
(***************************************************************************)
(* What the transmit path promises about frames: a first-in first-out      *)
(* queue of at most Size frames.  Frames are numbered in the order of the  *)
(* calls of netif->linkoutput; wire is the frame sent last, -1 at first.   *)
(***************************************************************************)
EXTENDS Integers

CONSTANTS
  Size,      \* buffers of the transmitter
  MaxFrames  \* bound on the frames sent

VARIABLES queued, sent, wire

queueVars == <<queued, sent, wire>>

Init ==
  /\ queued = 0
  /\ sent = 0
  /\ wire = -1

Enqueue ==
  /\ queued < MaxFrames
  /\ queued - sent < Size
  /\ queued' = queued + 1
  /\ UNCHANGED <<sent, wire>>

Send ==
  /\ sent < queued
  /\ wire' = sent
  /\ sent' = sent + 1
  /\ UNCHANGED queued

Next == Enqueue \/ Send

Spec == Init /\ [][Next]_queueVars
=============================================================================

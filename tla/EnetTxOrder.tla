----------------------------- MODULE EnetTxOrder ----------------------------
(***************************************************************************)
(* The transmit path of EnetTx with the contents of the buffers: frames    *)
(* are numbered in the order of the calls of t41_low_level_output.  The    *)
(* control of EnetTx does not depend on them.                              *)
(***************************************************************************)
EXTENDS EnetTx

CONSTANT MaxTxFrames   \* bound on the frames the stack sends

ASSUME MaxTxFramesIsNat == MaxTxFrames \in Nat

VARIABLES
  txbufs,  \* the frame in each descriptor's buffer
  queued,  \* frames handed to the DMA
  sent,    \* frames the DMA has sent
  wire     \* the frame sent last

contents == <<txbufs, queued, sent, wire>>
txOrderVars == <<txVars, contents>>

TxOrderInit ==
  /\ TxInit
  /\ txbufs = [i \in TxSlots |-> i - TX_SIZE]
  /\ queued = 0
  /\ sent = 0
  /\ wire = -1

\* pbuf_copy_partial into the descriptor's buffer.
CopyNumbered ==
  /\ CopyFrame
  /\ txbufs' = [txbufs EXCEPT ![p_txbd] = queued]
  /\ UNCHANGED <<queued, sent, wire>>

QueueNumbered ==
  /\ SetReady
  /\ queued' = queued + 1
  /\ UNCHANGED <<txbufs, sent, wire>>

SendNumbered ==
  /\ DmaSend
  /\ wire' = txbufs[tdsr]
  /\ sent' = sent + 1
  /\ UNCHANGED <<txbufs, queued>>

OtherTxStep ==
  /\ \/ DmaIdle
     \/ queued < MaxTxFrames /\ Output
     \/ Kick
  /\ UNCHANGED contents

TxOrderNext == CopyNumbered \/ QueueNumbered \/ SendNumbered \/ OtherTxStep

TxOrderSpec == TxOrderInit /\ [][TxOrderNext]_txOrderVars

TxOrderFairSpec == TxOrderSpec /\ TxFairness

-----------------------------------------------------------------------------

Fifo == INSTANCE TxQueue WITH Size <- TX_SIZE, MaxFrames <- MaxTxFrames

\* The ring is a first-in first-out queue of TX_SIZE frames: what goes out on
\* the wire is what the stack sent, each frame once and in order, and no
\* buffer is overwritten before its frame has left.
IsFifo == Fifo!Spec
=============================================================================

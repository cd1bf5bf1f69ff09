------------------------------- MODULE EnetTx -------------------------------
(***************************************************************************)
(* The transmit path of the Teensy 4.1 Ethernet driver, lwip_t41.c.        *)
(*                                                                         *)
(* t41_low_level_output runs in the main loop, one call at a time, against *)
(* the ENET DMA.  It spins until the next descriptor is free, copies the   *)
(* frame, sets Ready and then kicks the DMA through TDAR.  No transmit     *)
(* interrupt is enabled: the DMA's only answer is a cleared Ready flag.    *)
(*                                                                         *)
(* A definition Name_Fault is Name with a plausible fault in it; it takes  *)
(* no part in the specification and only serves to show that the           *)
(* properties notice the fault.                                            *)
(***************************************************************************)
EXTENDS Integers, FiniteSets

CONSTANT TX_SIZE     \* descriptors in the transmit ring (5 in the code)

ASSUME TxSizeIsPositive == TX_SIZE \in Nat \ {0}

VARIABLES
  tx_ring,  \* status flags of each descriptor: "Ready", "Wrap"
  tdsr,     \* the descriptor the DMA transmits next
  tdar,     \* ENET_TDAR: the DMA is polling the ring
  p_txbd,   \* the descriptor the driver writes next
  txpc      \* place of the main loop in t41_low_level_output

txVars == <<tx_ring, tdsr, tdar, p_txbd, txpc>>

TxSlots == 0..(TX_SIZE - 1)

Ready(i) == "Ready" \in tx_ring[i]

NextTxBd(i) == IF "Wrap" \in tx_ring[i] THEN 0 ELSE i + 1

\* t41_low_level_init: no descriptor ready, the last one marked Wrap.
InitTxRing == [i \in TxSlots |-> IF i = TX_SIZE - 1 THEN {"Wrap"} ELSE {}]

TxInit ==
  /\ tx_ring = InitTxRing
  /\ tdsr = 0
  /\ tdar = TRUE
  /\ p_txbd = 0
  /\ txpc = "idle"

-----------------------------------------------------------------------------
(* The ENET DMA (external)                                                 *)

\* The DMA sends the frame of its next descriptor and gives that back.
DmaSend ==
  /\ tdar
  /\ Ready(tdsr)
  /\ tx_ring' = [tx_ring EXCEPT ![tdsr] = @ \ {"Ready"}]
  /\ tdsr' = NextTxBd(tdsr)
  /\ UNCHANGED <<tdar, p_txbd, txpc>>

\* The DMA finds its next descriptor not ready: it clears TDAR and stops.
DmaIdle ==
  /\ tdar
  /\ ~Ready(tdsr)
  /\ tdar' = FALSE
  /\ UNCHANGED <<tx_ring, tdsr, p_txbd, txpc>>

-----------------------------------------------------------------------------
(* t41_low_level_output                                                    *)

\* The stack calls netif->linkoutput.
Output ==
  /\ txpc = "idle"
  /\ txpc' = "wait"
  /\ UNCHANGED <<tx_ring, tdsr, tdar, p_txbd>>

CopyFrame_NoWait ==
  /\ txpc = "wait"
  /\ txpc' = "ready"
  /\ UNCHANGED <<tx_ring, tdsr, tdar, p_txbd>>
\* The busy wait is over; the frame is copied to the descriptor's buffer.
CopyFrame ==
  /\ txpc = "wait"
  /\ ~Ready(p_txbd)
  /\ txpc' = "ready"
  /\ UNCHANGED <<tx_ring, tdsr, tdar, p_txbd>>

\* The status write that hands the descriptor to the DMA.
SetReady ==
  /\ txpc = "ready"
  /\ tx_ring' = [tx_ring EXCEPT ![p_txbd] = (@ \cap {"Wrap"}) \cup {"Ready"}]
  /\ txpc' = "kick"
  /\ UNCHANGED <<tdsr, tdar, p_txbd>>

Kick_NoTdar ==
  /\ txpc = "kick"
  /\ p_txbd' = NextTxBd(p_txbd)
  /\ txpc' = "idle"
  /\ UNCHANGED <<tx_ring, tdsr, tdar>>
Kick_NoAdvance ==
  /\ txpc = "kick"
  /\ tdar' = TRUE
  /\ txpc' = "idle"
  /\ UNCHANGED <<tx_ring, tdsr, p_txbd>>
\* ENET_TDAR is set, p_txbd moves on, the call returns.
Kick ==
  /\ txpc = "kick"
  /\ tdar' = TRUE
  /\ p_txbd' = NextTxBd(p_txbd)
  /\ txpc' = "idle"
  /\ UNCHANGED <<tx_ring, tdsr>>

-----------------------------------------------------------------------------

TxNext == DmaSend \/ DmaIdle \/ Output \/ CopyFrame \/ SetReady \/ Kick

TxSpec == TxInit /\ [][TxNext]_txVars

\* The DMA sends what it finds ready, and the main loop runs on once a call
\* has begun.  Nothing obliges the stack to send.
TxFairness ==
  /\ WF_txVars(DmaSend)
  /\ WF_txVars(CopyFrame)
  /\ WF_txVars(SetReady)
  /\ WF_txVars(Kick)

TxFairSpec == TxSpec /\ TxFairness

-----------------------------------------------------------------------------
(* Properties                                                              *)

\* The type invariant.  Both pointers stay inside the ring only because
\* t41_low_level_output keeps the Wrap flag when it rewrites the status.
TxTypeOK ==
  /\ tx_ring \in [TxSlots -> SUBSET {"Ready", "Wrap"}]
  /\ tdsr \in TxSlots
  /\ tdar \in BOOLEAN
  /\ p_txbd \in TxSlots
  /\ txpc \in {"idle", "wait", "ready", "kick"}

\* If a frame is ready and the DMA is not polling, the driver is between the
\* status write and the write to TDAR: the DMA's clearing of TDAR never leaves
\* a ready frame behind.
NoLostKick == Ready(tdsr) /\ ~tdar => txpc = "kick"

\* Every frame handed to the DMA leaves the ring.
EveryFrameIsSent == \A i \in TxSlots : Ready(i) ~> ~Ready(i)
=============================================================================

----------------------------- MODULE EnetRxOrder ----------------------------
(***************************************************************************)
(* The receive path of EnetRx with frames numbered in the order in which   *)
(* the DMA stores them.  The numbers are history: no step depends on them. *)
(*                                                                         *)
(* rxbd_next looks at one descriptor after the other while the DMA goes on *)
(* filling them.  A frame stored behind the scan pointer is overtaken by   *)
(* the one the scan finds, and stays behind p_rxbd, which has moved on.    *)
(* The module states how far that can go, as a refinement of RxQueue.      *)
(***************************************************************************)
EXTENDS EnetRx

CONSTANT MaxFrames   \* bound on the frames the DMA stores

ASSUME MaxFramesIsNat == MaxFrames \in Nat

VARIABLES
  filled,  \* frames stored so far, the number of the next one
  last,    \* the frame last stored in each descriptor's buffer
  taken    \* frames read by t41_low_level_input

history == <<filled, last, taken>>
orderVars == <<vars, history>>

\* Before the first frame the buffers are numbered backwards from -1, so that
\* last grows by one from each descriptor to the next one the DMA has used.
OrderInit ==
  /\ Init
  /\ filled = 0
  /\ last = [i \in Slots |-> i - RX_SIZE]
  /\ taken = {}

StoreFrame(err) ==
  /\ filled < MaxFrames
  /\ DmaFill(err)
  /\ last' = [last EXCEPT ![rdsr] = filled]
  /\ filled' = filled + 1
  /\ UNCHANGED taken

ReadFrame ==
  /\ LowLevelInput
  /\ taken' = taken \cup {last[p_bd]}
  /\ UNCHANGED <<filled, last>>

\* The steps that neither store nor read a frame.
OtherStep ==
  /\ \/ DmaStall
     \/ enet_isr
     \/ ProcInputPolled
     \/ ProcInputReady
     \/ ProcInputClear
     \/ ScanEmpty
     \/ ScanFound
     \/ Rearm
     \/ EnetInputOk
     \/ EnetInputErr
     \/ StackFree
     \/ \E cb \in Callbacks : enet_set_receive_callback(cb)
  /\ UNCHANGED history

OrderNext ==
  \/ \E err \in SUBSET RxErrors : StoreFrame(err)
  \/ ReadFrame
  \/ OtherStep

OrderSpec == OrderInit /\ [][OrderNext]_orderVars

OrderFairSpec == OrderSpec /\ Fairness

-----------------------------------------------------------------------------

\* The frames in the ring: those in descriptors the driver owns.
Waiting == {last[i] : i \in {j \in Slots : ~Empty(j)}}

Queue == INSTANCE RxQueue
           WITH Size <- RX_SIZE, next <- filled, waiting <- Waiting

\* The ring with its flags and pointers is such a queue: every stored frame is
\* read exactly once, none is invented, and rxbd_next lets fewer than RX_SIZE
\* later frames overtake one that waits.
IsQueue == Queue!Spec

\* Every frame the DMA ever stored has been read or is still in the ring, and
\* not both: neither the overtaking scan nor the reuse of a descriptor loses a
\* frame.
NoFrameLost ==
  /\ taken \cup Waiting = 0..(filled - 1)
  /\ taken \cap Waiting = {}
=============================================================================

------------------------------ MODULE EnetProofs ----------------------------
(***************************************************************************)
(* Theorems about the Ethernet driver, for rings and pools of every size:  *)
(* the receive ring loses no frame and implements the queue of RxQueue,    *)
(* the transmit ring implements the first-in first-out queue of TxQueue.   *)
(***************************************************************************)
EXTENDS EnetRxOrder, EnetTxOrder, TLAPS

(* The receive ring and its pbufs.                                         *)

\* The Wrap flag marks the last descriptor and no other.
WrapOnLast == \A i \in Slots : "Wrap" \in rx_ring[i] <=> i = RX_SIZE - 1

\* The main loop holds a pbuf from its allocation to enet_input.
PbufInHand ==
  /\ p = "frame" => pc \in {"rearm", "deliver"}
  /\ pc = "deliver" => p = "frame"

\* The inductive invariant of the ring and the pbufs.
RingInv ==
  /\ TypeOK
  /\ WrapOnLast
  /\ PbufInHand
  /\ PbufsConserved
  /\ DriverOwnsInput
  /\ NoLostRearm

\* The descriptors from p_rxbd up to n, around the ring ...
Before(i, n) ==
  IF p_rxbd <= n THEN p_rxbd <= i /\ i < n ELSE p_rxbd <= i \/ i < n

\* ... and those rxbd_next has stepped over in the scan that is running.
Passed(i) == Before(i, p_bd)

\* A frame the running scan has missed has an event pending.
MissedIsPending ==
  pc = "scan" => \A i \in Slots : Passed(i) /\ ~Empty(i) => ScanPending

\* What FullRingIsServed needs besides RingInv.
ServedInv ==
  /\ MissedIsPending
  /\ pc = "rearm" => ScanPending \/ \E i \in Slots : Empty(i)
  /\ FullRingIsServed

\* What NothingStranded needs besides RingInv.
CleanInv ==
  /\ \A i \in Slots : "Err" \notin rx_ring[i]
  /\ MissedIsPending
  /\ pc = "rearm" => p = "frame"
  /\ NothingStranded

-----------------------------------------------------------------------------

\* The pointer arithmetic of the ring stays inside it.
LEMMA NextBdInRing ==
  ASSUME TypeOK, WrapOnLast, NEW i \in Slots
  PROVE  /\ NextBd(i) \in Slots
         /\ NextBd(i) = IF i = RX_SIZE - 1 THEN 0 ELSE i + 1
  BY RxConstants DEF NextBd, WrapOnLast, Slots

\* t41_low_level_init establishes the ring invariant.
LEMMA InitRingInv == Init => RingInv
<1> SUFFICES ASSUME Init PROVE RingInv
  OBVIOUS
<1> USE RxConstants DEF Init, InitRing, Slots
<1>1. TypeOK
  <2>1. rx_ring \in [Slots -> SUBSET Flags]
    BY DEF Flags
  <2>2. rdar \in BOOLEAN /\ rxf \in BOOLEAN /\ rx_ready \in BOOLEAN /\ rx_callback \in BOOLEAN
    BY Zenon
  <2>3. rdsr \in Slots /\ p_rxbd \in Slots /\ p_bd \in Slots
    OBVIOUS
  <2>4. pool \in 0..PBUF_POOL_SIZE /\ stack \in 0..MaxHeld
    OBVIOUS
  <2> QED
    BY <2>1, <2>2, <2>3, <2>4, Zenon DEF TypeOK
<1>2. WrapOnLast
  BY DEF WrapOnLast
<1>3. PbufInHand /\ PbufsConserved
  <2>1. PbufInHand
    BY Zenon DEF PbufInHand
  <2>2. pool + stack + 0 = PBUF_POOL_SIZE /\ p # "frame"
    OBVIOUS
  <2> QED
    BY <2>1, <2>2, Zenon DEF PbufsConserved
<1>4. DriverOwnsInput /\ NoLostRearm
  BY ZenonT(60) DEF DriverOwnsInput, NoLostRearm
<1> QED
  BY <1>1, <1>2, <1>3, <1>4, Zenon DEF RingInv

\* Every step of the DMA, the interrupt handler and the main loop keeps it.
LEMMA RingInvStep == RingInv /\ [Next]_vars => RingInv'
<1> SUFFICES ASSUME RingInv, [Next]_vars PROVE RingInv'
  OBVIOUS
<1> USE RxConstants DEF RingInv, ringVars, eventVars, scanVars, pbufVars
<1>1. ASSUME NEW err \in SUBSET RxErrors, DmaFill(err) PROVE RingInv'
  <2> USE <1>1 DEF DmaFill
  <2>1. rx_ring' \in [Slots -> SUBSET Flags] /\ rdsr' \in Slots
    BY NextBdInRing, Zenon DEF TypeOK, Flags
  <2>2. TypeOK'
    BY <2>1 DEF TypeOK
  <2>3. WrapOnLast'
    BY DEF TypeOK, WrapOnLast
  <2>4. (DriverOwnsInput /\ NoLostRearm)'
    BY DEF DriverOwnsInput, NoLostRearm, Empty, TypeOK
  <2> QED
    BY <2>2, <2>3, <2>4 DEF PbufInHand, PbufsConserved
<1>2. CASE LowLevelInput
  <2> USE <1>2 DEF LowLevelInput, AllocAndCopy
  <2>1. rx_ring' \in [Slots -> SUBSET Flags]
    BY DEF TypeOK, Flags
  <2>2. p' \in {"NULL", "frame"} /\ pool' \in 0..PBUF_POOL_SIZE
    BY DEF TypeOK
  <2>3. TypeOK'
    BY <2>1, <2>2 DEF TypeOK
  <2>4. WrapOnLast'
    BY DEF TypeOK, WrapOnLast
  <2>5. (PbufInHand /\ PbufsConserved)'
    BY DEF PbufInHand, PbufsConserved, TypeOK
  <2> QED
    BY <2>3, <2>4, <2>5 DEF DriverOwnsInput, NoLostRearm
<1> USE DEF TypeOK, WrapOnLast, PbufInHand, PbufsConserved, DriverOwnsInput,
           NoLostRearm, Empty
<1>3. CASE DmaStall
  BY <1>3, Zenon DEF DmaStall
<1>4. CASE enet_isr
  BY <1>4, Zenon DEF enet_isr
<1>5. CASE ProcInputPolled
  BY <1>5 DEF ProcInputPolled, StartScan
<1>6. CASE ProcInputReady
  BY <1>6 DEF ProcInputReady
<1>7. CASE ProcInputClear
  BY <1>7, Zenon DEF ProcInputClear, StartScan
<1>8. CASE ScanEmpty
  BY <1>8, NextBdInRing DEF ScanEmpty
<1>9. CASE ScanFound
  BY <1>9, NextBdInRing DEF ScanFound
<1>10. CASE Rearm
  BY <1>10 DEF Rearm
<1>11. CASE EnetInputOk
  BY <1>11 DEF EnetInputOk, StartScan
<1>12. CASE EnetInputErr
  BY <1>12 DEF EnetInputErr, StartScan
<1>13. CASE StackFree
  BY <1>13 DEF StackFree
<1>14. ASSUME NEW cb \in Callbacks, enet_set_receive_callback(cb) PROVE RingInv'
  BY <1>14 DEF enet_set_receive_callback
<1>15. CASE UNCHANGED vars
  BY <1>15 DEF vars
<1> QED
  BY <1>1, <1>2, <1>3, <1>4, <1>5, <1>6, <1>7, <1>8,
     <1>9, <1>10, <1>11, <1>12, <1>13, <1>14, <1>15, Zenon
     DEF Next, ProcInput

\* The inductive invariant of the receive ring: types, the Wrap flag on the
\* last descriptor only, the pbuf in the driver's hands, and the handover of
\* descriptors between rxbd_next, t41_low_level_input and the DMA.
THEOREM RingInvariant == Spec => []RingInv
  BY InitRingInv, RingInvStep, PTL DEF Spec

\* Types are respected: in particular p_rxbd, p_bd and the DMA's pointer never
\* leave the ring, because t41_low_level_input keeps the Wrap flag.
THEOREM TypeCorrect == Spec => []TypeOK
<1>1. RingInv => TypeOK
  BY DEF RingInv
<1> QED
  BY <1>1, RingInvariant, PTL

\* No pbuf is leaked or freed twice by t41_low_level_input and enet_input.
THEOREM PbufsAreConserved == Spec => []PbufsConserved
<1>1. RingInv => PbufsConserved
  BY DEF RingInv
<1> QED
  BY <1>1, RingInvariant, PTL

\* The DMA is never left stopped in front of a descriptor it owns, except
\* between the two writes at the end of t41_low_level_input.
THEOREM RearmIsNeverLost == Spec => []NoLostRearm
<1>1. RingInv => NoLostRearm
  BY DEF RingInv
<1> QED
  BY <1>1, RingInvariant, PTL

-----------------------------------------------------------------------------

\* The scan of rxbd_next: stepping over descriptor p_bd adds it to the passed
\* ones, and a full circle has passed all the others.
LEMMA ScanStep ==
  ASSUME TypeOK, WrapOnLast, NEW i \in Slots,
         NextBd(p_bd) = p_rxbd \/ Before(i, NextBd(p_bd))
  PROVE  Passed(i) \/ i = p_bd
<1>1. p_bd \in Slots /\ p_rxbd \in Slots
  BY DEF TypeOK
<1>2. NextBd(p_bd) = IF p_bd = RX_SIZE - 1 THEN 0 ELSE p_bd + 1
  BY <1>1, NextBdInRing
<1>3. CASE NextBd(p_bd) = p_rxbd
  BY <1>1, <1>2, <1>3, RxConstants DEF Slots, Passed, Before
<1>4. CASE Before(i, NextBd(p_bd))
  BY <1>1, <1>2, <1>4, RxConstants DEF Slots, Passed, Before
<1> QED
  BY <1>3, <1>4

\* A descriptor the scan of rxbd_next has passed and the DMA has filled since
\* has raised an event that is still pending.
LEMMA MissedIsPendingStep ==
  ASSUME RingInv, MissedIsPending, FALSE \notin Callbacks, [Next]_vars
  PROVE  MissedIsPending'
<1> USE RxConstants DEF RingInv, ringVars, eventVars, scanVars, pbufVars,
        MissedIsPending, ScanPending
<1>1. ASSUME NEW err \in SUBSET RxErrors, DmaFill(err) PROVE MissedIsPending'
  BY <1>1 DEF DmaFill
<1>2. CASE ScanEmpty
  <2> SUFFICES ASSUME pc' = "scan", NEW i \in Slots, Passed(i)', ~Empty(i)'
               PROVE  ScanPending'
    OBVIOUS
  <2>1. Passed(i) \/ i = p_bd
    BY <1>2, ScanStep DEF ScanEmpty, Passed, Before
  <2> QED
    BY <1>2, <2>1 DEF ScanEmpty, Empty
<1>3. CASE enet_isr
  BY <1>3 DEF enet_isr, Passed, Before, Empty
<1>4. CASE ProcInputPolled \/ ProcInputClear \/ EnetInputOk \/ EnetInputErr
  BY <1>4 DEF ProcInputPolled, ProcInputClear, EnetInputOk, EnetInputErr,
              StartScan, Passed, Before, TypeOK, Slots
<1>5. CASE ProcInputReady \/ ScanFound \/ LowLevelInput \/ Rearm
  BY <1>5 DEF ProcInputReady, ScanFound, LowLevelInput, Rearm
<1>6. CASE DmaStall \/ StackFree \/ UNCHANGED vars
  BY <1>6 DEF DmaStall, StackFree, vars, Passed, Before, Empty
<1>7. ASSUME NEW cb \in Callbacks, enet_set_receive_callback(cb)
      PROVE  MissedIsPending'
  BY <1>7 DEF enet_set_receive_callback
<1> QED
  BY <1>1, <1>2, <1>3, <1>4, <1>5, <1>6, <1>7 DEF Next, ProcInput

\* The invariant behind FullRingServed is kept by every step.
LEMMA ServedInvStep ==
  ASSUME RingInv, ServedInv, FALSE \notin Callbacks, [Next]_vars
  PROVE  ServedInv'
<1> USE RxConstants DEF RingInv, ringVars, eventVars, scanVars, pbufVars
<1> DEFINE RearmInv == pc = "rearm" => ScanPending \/ \E i \in Slots : Empty(i)
<1>1. MissedIsPending'
  BY MissedIsPendingStep DEF ServedInv
<1> SUFFICES RearmInv' /\ FullRingIsServed'
  BY <1>1 DEF ServedInv
<1> USE DEF ServedInv, FullRingIsServed, ScanPending
<1>2. ASSUME NEW err \in SUBSET RxErrors, DmaFill(err)
      PROVE  RearmInv' /\ FullRingIsServed'
  BY <1>2 DEF DmaFill
<1>3. CASE ScanEmpty
  <2>1. p_bd \in Slots /\ Empty(p_bd) /\ rx_ring' = rx_ring
    BY <1>3 DEF ScanEmpty, TypeOK
  <2>2. \E i \in Slots : Empty(i)'
    BY <2>1 DEF Empty
  <2> QED
    BY <2>2
<1>4. CASE LowLevelInput
  <2>1. p_bd \in Slots /\ "Empty" \in rx_ring'[p_bd]
    BY <1>4 DEF LowLevelInput, TypeOK
  <2>2. \E i \in Slots : Empty(i)'
    BY <2>1 DEF Empty
  <2> QED
    BY <2>2
<1>5. CASE enet_isr
  BY <1>5 DEF enet_isr, Empty
<1>6. CASE Rearm
  BY <1>6 DEF Rearm, Empty
<1>7. CASE ProcInputPolled \/ ProcInputReady \/ ProcInputClear \/ ScanFound
           \/ EnetInputOk \/ EnetInputErr
  BY <1>7, SMTT(30) DEF ProcInputPolled, ProcInputReady, ProcInputClear, ScanFound,
              EnetInputOk, EnetInputErr, StartScan
<1>8. CASE DmaStall \/ StackFree \/ UNCHANGED vars
  BY <1>8, SMTT(30) DEF DmaStall, StackFree, vars, Empty
<1>9. ASSUME NEW cb \in Callbacks, enet_set_receive_callback(cb)
      PROVE  RearmInv' /\ FullRingIsServed'
  BY <1>9, Zenon DEF enet_set_receive_callback
<1> QED
  BY <1>2, <1>3, <1>4, <1>5, <1>6, <1>7, <1>8, <1>9 DEF Next, ProcInput

\* A ring with no descriptor left for the DMA is always noticed, whatever
\* frames arrive damaged and whatever the pool does, as long as no receive
\* callback is removed.
THEOREM FullRingServed == ASSUME FALSE \notin Callbacks
                          PROVE  Spec => []FullRingIsServed
<1>1. Init => ServedInv
  BY RxConstants DEF Init, InitRing, ServedInv, MissedIsPending,
                     FullRingIsServed, Empty, Slots
<1>2. RingInv /\ ServedInv /\ [Next]_vars => ServedInv'
  BY ServedInvStep
<1>3. ServedInv => FullRingIsServed
  BY DEF ServedInv
<1> QED
  BY <1>1, <1>2, <1>3, RingInvariant, PTL DEF Spec

-----------------------------------------------------------------------------

\* The invariant behind NothingIsStranded is kept by every step.
LEMMA CleanInvStep ==
  ASSUME RingInv, CleanInv, FALSE \notin Callbacks, [Next]_vars,
         RxErrors = {}, MaxHeld < PBUF_POOL_SIZE
  PROVE  CleanInv'
<1> USE RxConstants DEF RingInv, ringVars, eventVars, scanVars, pbufVars
<1> DEFINE NoErr == \A i \in Slots : "Err" \notin rx_ring[i]
           GotPbuf == pc = "rearm" => p = "frame"
<1>1. MissedIsPending'
  BY MissedIsPendingStep DEF CleanInv
<1> SUFFICES NoErr' /\ GotPbuf' /\ NothingStranded'
  BY <1>1 DEF CleanInv
<1> USE DEF CleanInv, NothingStranded, ScanPending
<1>2. ASSUME NEW err \in SUBSET RxErrors, DmaFill(err)
      PROVE  NoErr' /\ GotPbuf' /\ NothingStranded'
  BY <1>2 DEF DmaFill, TypeOK
<1>3. CASE ScanEmpty
  <2>1. NoErr' /\ GotPbuf'
    BY <1>3 DEF ScanEmpty
  <2>2. ASSUME NEW i \in Slots, pc' = "idle", ~ScanPending' PROVE Empty(i)'
    <3>1. Passed(i) \/ i = p_bd
      BY <1>3, <2>2, ScanStep DEF ScanEmpty, TypeOK
    <3> QED
      BY <1>3, <2>2, <3>1 DEF ScanEmpty, Empty, MissedIsPending
  <2> QED
    BY <2>1, <2>2
<1>4. CASE LowLevelInput
  <2>1. p' = "frame"
    BY <1>4 DEF LowLevelInput, AllocAndCopy, PbufInHand, PbufsConserved, TypeOK
  <2> QED
    BY <1>4, <2>1 DEF LowLevelInput, TypeOK
<1>5. CASE enet_isr
  BY <1>5 DEF enet_isr, Empty
<1>6. CASE Rearm
  BY <1>6 DEF Rearm
<1>7. CASE ProcInputPolled \/ ProcInputReady \/ ProcInputClear \/ ScanFound
           \/ EnetInputOk \/ EnetInputErr
  BY <1>7 DEF ProcInputPolled, ProcInputReady, ProcInputClear, ScanFound,
              EnetInputOk, EnetInputErr, StartScan
<1>8. CASE DmaStall \/ StackFree \/ UNCHANGED vars
  BY <1>8, SMTT(30) DEF DmaStall, StackFree, vars, Empty
<1>9. ASSUME NEW cb \in Callbacks, enet_set_receive_callback(cb)
      PROVE  NoErr' /\ GotPbuf' /\ NothingStranded'
  BY <1>9, Zenon DEF enet_set_receive_callback
<1> QED
  BY <1>2, <1>3, <1>4, <1>5, <1>6, <1>7, <1>8, <1>9 DEF Next, ProcInput

\* If every frame is intact and gets a pbuf, the flag handshake between the
\* interrupt handler and enet_proc_input never leaves a frame in the ring with
\* nothing to make the driver look.
THEOREM NothingIsStranded ==
  ASSUME RxErrors = {}, MaxHeld < PBUF_POOL_SIZE, FALSE \notin Callbacks
  PROVE  Spec => []NothingStranded
<1>1. Init => CleanInv
  BY RxConstants DEF Init, InitRing, CleanInv, MissedIsPending,
                     NothingStranded, Empty, Slots
<1>2. RingInv /\ CleanInv /\ [Next]_vars => CleanInv'
  BY CleanInvStep
<1>3. CleanInv => NothingStranded
  BY DEF CleanInv
<1> QED
  BY <1>1, <1>2, <1>3, RingInvariant, PTL DEF Spec

-----------------------------------------------------------------------------
(* The order of the frames received.                                       *)

\* The DMA goes around the ring: the buffers behind its pointer hold the
\* latest frames, those from its pointer on the frames of the round before.
LastInRounds ==
  \A i \in Slots :
    last[i] = IF i < rdsr THEN filled - rdsr + i ELSE filled - rdsr + i - RX_SIZE

\* A descriptor belongs to the DMA when its frame has been read.
EmptyIffRead ==
  \A i \in Slots : Empty(i) <=> last[i] < 0 \/ last[i] \in taken

OrderInv ==
  /\ filled \in Nat
  /\ last \in [Slots -> Int]
  /\ LastInRounds
  /\ EmptyIffRead
  /\ \A f \in taken : f \in 0..(filled - 1)
  /\ \A f \in 0..(filled - 1) : f < filled - RX_SIZE => f \in taken

-----------------------------------------------------------------------------

\* Numbering the frames adds no behaviour: each step is a step of EnetRx.
LEMMA OrderStepIsStep == OrderNext => Next
  BY DEF OrderNext, StoreFrame, ReadFrame, OtherStep, Next, ProcInput

\* Every step but storing and reading a frame leaves the ring's flags and the
\* DMA's pointer alone.
LEMMA OtherStepKeepsRing == OtherStep => UNCHANGED <<rx_ring, rdsr>>
  BY Zenon DEF OtherStep, DmaStall, enet_isr, ProcInputPolled, ProcInputReady,
         ProcInputClear, ScanEmpty, ScanFound, Rearm, EnetInputOk, EnetInputErr,
         StackFree, enet_set_receive_callback, ringVars

\* The ring as t41_low_level_init leaves it satisfies the invariant.
LEMMA OrderInvInit == OrderInit => OrderInv
  BY RxConstants DEF OrderInit, Init, InitRing, OrderInv, LastInRounds,
                     EmptyIffRead, Empty, Slots

\* What storing a frame does to the ring.
LEMMA StoreEffect ==
  ASSUME RingInv, OrderInv, NEW err \in SUBSET RxErrors, StoreFrame(err)
  PROVE  /\ rdsr \in Slots
         /\ rdsr' = IF rdsr = RX_SIZE - 1 THEN 0 ELSE rdsr + 1
         /\ last' = [last EXCEPT ![rdsr] = filled]
         /\ Empty(rdsr)
         /\ \A i \in Slots : Empty(i)' <=> i # rdsr /\ Empty(i)
<1> USE RxConstants DEF RingInv, StoreFrame, DmaFill
<1>1. rdsr \in Slots /\ last' = [last EXCEPT ![rdsr] = filled] /\ Empty(rdsr)
  BY DEF TypeOK
<1>2. rdsr' = IF rdsr = RX_SIZE - 1 THEN 0 ELSE rdsr + 1
  BY <1>1, NextBdInRing
<1>3. "Empty" \notin err
  OBVIOUS
<1>4. \A i \in Slots : Empty(i)' <=> i # rdsr /\ Empty(i)
  BY <1>3 DEF TypeOK, Empty
<1> QED
  BY <1>1, <1>2, <1>4

\* What reading a frame does to the ring.
LEMMA ReadEffect ==
  ASSUME RingInv, OrderInv, ReadFrame
  PROVE  /\ p_bd \in Slots
         /\ UNCHANGED <<rdsr, filled, last>>
         /\ taken' = taken \cup {last[p_bd]}
         /\ ~Empty(p_bd)
         /\ \A i \in Slots : Empty(i)' <=> i = p_bd \/ Empty(i)
<1> USE RxConstants DEF RingInv, ReadFrame, LowLevelInput
<1>1. p_bd \in Slots /\ ~Empty(p_bd)
  BY DEF TypeOK, DriverOwnsInput
<1>2. \A i \in Slots : Empty(i)' <=> i = p_bd \/ Empty(i)
  BY DEF TypeOK, Empty
<1> QED
  BY <1>1, <1>2

\* No two descriptors hold the same frame.
LEMMA LastInjective ==
  ASSUME RingInv, OrderInv, NEW i \in Slots, NEW j \in Slots, last[i] = last[j]
  PROVE  i = j
<1>1. rdsr \in Slots /\ filled \in Nat
  BY DEF RingInv, TypeOK, OrderInv
<1>2. \A k \in Slots :
        last[k] = IF k < rdsr THEN filled - rdsr + k ELSE filled - rdsr + k - RX_SIZE
  BY DEF OrderInv, LastInRounds
<1> QED
  BY <1>1, <1>2, RxConstants DEF Slots

\* The last RX_SIZE frames are the ones the buffers hold.
LEMMA LastRange ==
  ASSUME RingInv, OrderInv
  PROVE  /\ \A i \in Slots : last[i] \in Int /\ last[i] < filled /\ last[i] >= filled - RX_SIZE
         /\ \A i \in Slots : i # rdsr => last[i] > filled - RX_SIZE
         /\ last[rdsr] = filled - RX_SIZE
<1>1. rdsr \in Slots /\ filled \in Nat
  BY DEF RingInv, TypeOK, OrderInv
<1>2. \A k \in Slots :
        last[k] = IF k < rdsr THEN filled - rdsr + k ELSE filled - rdsr + k - RX_SIZE
  BY DEF OrderInv, LastInRounds
<1>3. ASSUME NEW i \in Slots
      PROVE  /\ last[i] \in Int /\ last[i] < filled /\ last[i] >= filled - RX_SIZE
             /\ i # rdsr => last[i] > filled - RX_SIZE
  BY <1>1, <1>2, RxConstants DEF Slots
<1>4. last[rdsr] = filled - RX_SIZE
  BY <1>1, <1>2, RxConstants DEF Slots
<1> QED
  BY <1>3, <1>4

\* Storing and reading a frame keep the numbers in rounds around the ring.
LEMMA OrderInvStep ==
  RingInv /\ OrderInv /\ [OrderNext]_orderVars => OrderInv'
<1> SUFFICES ASSUME RingInv, OrderInv, [OrderNext]_orderVars PROVE OrderInv'
  OBVIOUS
<1> USE RxConstants
<1>1. ASSUME NEW err \in SUBSET RxErrors, StoreFrame(err) PROVE OrderInv'
  <2>1. filled \in Nat /\ filled' = filled + 1 /\ taken' = taken
    BY <1>1 DEF StoreFrame, OrderInv
  <2>2. LastInRounds'
    <3> SUFFICES ASSUME NEW i \in Slots
                 PROVE  last'[i] = IF i < rdsr' THEN filled' - rdsr' + i
                                   ELSE filled' - rdsr' + i - RX_SIZE
      BY DEF LastInRounds
    <3>1. /\ rdsr \in Slots
          /\ rdsr' = IF rdsr = RX_SIZE - 1 THEN 0 ELSE rdsr + 1
          /\ last'[i] = IF i = rdsr THEN filled ELSE last[i]
      BY <1>1, StoreEffect DEF OrderInv
    <3>2. last[i] = IF i < rdsr THEN filled - rdsr + i
                    ELSE filled - rdsr + i - RX_SIZE
      BY DEF OrderInv, LastInRounds
    <3> QED
      BY <2>1, <3>1, <3>2 DEF Slots
  <2>3. EmptyIffRead'
    BY <1>1, <2>1, StoreEffect, LastRange DEF OrderInv, EmptyIffRead
  <2>4. \A f \in 0..(filled' - 1) : f < filled' - RX_SIZE => f \in taken'
    BY <1>1, <2>1, StoreEffect, LastRange DEF OrderInv, EmptyIffRead
  <2>5. last' \in [Slots -> Int]
    BY <1>1, <2>1, StoreEffect DEF OrderInv
  <2> QED
    BY <2>1, <2>2, <2>3, <2>4, <2>5 DEF OrderInv
<1>2. CASE ReadFrame
  <2>1. EmptyIffRead'
    BY <1>2, ReadEffect, LastInjective DEF OrderInv, EmptyIffRead
  <2>2. last[p_bd] \in 0..(filled - 1)
    BY <1>2, ReadEffect, LastRange DEF OrderInv, EmptyIffRead
  <2> QED
    BY <1>2, <2>1, <2>2, ReadEffect DEF OrderInv, LastInRounds
<1>3. CASE OtherStep \/ UNCHANGED orderVars
  BY <1>3, OtherStepKeepsRing
     DEF OtherStep, orderVars, vars, ringVars, history, OrderInv, LastInRounds,
         EmptyIffRead, Empty
<1> QED
  BY <1>1, <1>2, <1>3 DEF OrderNext

\* The combined invariant of the flags, the pointers and the frame numbers.
LEMMA OrderInvariant == OrderSpec => [](RingInv /\ OrderInv)
<1>1. OrderInit => RingInv /\ OrderInv
  BY InitRingInv, OrderInvInit DEF OrderInit
<1>2. RingInv /\ OrderInv /\ [OrderNext]_orderVars => (RingInv /\ OrderInv)'
  BY RingInvStep, OrderInvStep, OrderStepIsStep DEF orderVars
<1> QED
  BY <1>1, <1>2, PTL DEF OrderSpec

-----------------------------------------------------------------------------

\* Every frame the DMA stored has been read or is in the ring, and not both.
THEOREM FramesAreNotLost == OrderSpec => []NoFrameLost
<1>1. ASSUME RingInv, OrderInv PROVE NoFrameLost
  <2> USE RxConstants
  <2>1. ASSUME NEW f \in 0..(filled - 1), f \notin taken PROVE f \in Waiting
    <3> DEFINE k == f - filled + rdsr
               i == IF k >= 0 THEN k ELSE k + RX_SIZE
    <3>1. filled \in Nat /\ f >= filled - RX_SIZE /\ rdsr \in Slots
      BY <1>1, <2>1 DEF OrderInv, RingInv, TypeOK
    <3>2. i \in Slots /\ last[i] = f
      BY <1>1, <3>1 DEF OrderInv, LastInRounds, Slots
    <3>3. ~Empty(i)
      BY <1>1, <2>1, <3>1, <3>2 DEF OrderInv, EmptyIffRead
    <3> QED
      BY <3>2, <3>3 DEF Waiting
  <2>2. ASSUME NEW f \in Waiting PROVE f \in 0..(filled - 1) /\ f \notin taken
    BY <1>1, <2>2, LastRange DEF Waiting, OrderInv, EmptyIffRead
  <2>3. \A f \in taken : f \in 0..(filled - 1)
    BY <1>1 DEF OrderInv
  <2> QED
    BY <2>1, <2>2, <2>3 DEF NoFrameLost
<1> QED
  BY <1>1, OrderInvariant, PTL

\* The ring, with its flags, its two pointers and the scan that races the DMA,
\* implements the queue: each frame is read once, and none is overtaken by
\* RX_SIZE or more later ones.
THEOREM RingIsQueue == OrderSpec => IsQueue
<1>1. OrderInit => Queue!Init
  BY DEF OrderInit, Init, InitRing, Queue!Init, Waiting, Empty
<1>2. ASSUME RingInv, OrderInv, [OrderNext]_orderVars
      PROVE  [Queue!Next]_(Queue!queueVars)
  <2> USE RxConstants, <1>2
  <2>1. ASSUME NEW err \in SUBSET RxErrors, StoreFrame(err) PROVE Queue!Accept
    <3>1. filled < MaxFrames /\ filled' = filled + 1 /\ taken' = taken
      BY <2>1 DEF StoreFrame
    <3>2. \A w \in Waiting : filled < w + RX_SIZE
      BY <2>1, StoreEffect, LastRange DEF Waiting, OrderInv
    <3>3. Waiting' = Waiting \cup {filled}
      BY <2>1, StoreEffect DEF Waiting, OrderInv
    <3> QED
      BY <3>1, <3>2, <3>3 DEF Queue!Accept
  <2>2. CASE ReadFrame
    <3> DEFINE f == last[p_bd]
    <3>1. f \in Waiting /\ f \notin taken
      BY <2>2, ReadEffect DEF Waiting, OrderInv, EmptyIffRead
    <3>2. \A w \in Waiting : f < w + RX_SIZE
      BY <2>2, ReadEffect, LastRange DEF Waiting, OrderInv
    <3>3. Waiting' = Waiting \ {f}
      BY <2>2, ReadEffect, LastInjective DEF Waiting
    <3>4. taken' = taken \cup {f} /\ UNCHANGED filled
      BY <2>2, ReadEffect
    <3> QED
      BY <3>1, <3>2, <3>3, <3>4 DEF Queue!Take, Queue!Next
  <2>3. CASE OtherStep \/ UNCHANGED orderVars
    BY <2>3, OtherStepKeepsRing
       DEF OtherStep, orderVars, vars, ringVars, history, Queue!queueVars,
           Waiting, Empty
  <2> QED
    BY <2>1, <2>2, <2>3 DEF OrderNext, Queue!Next
<1> QED
  BY <1>1, <1>2, OrderInvariant, PTL DEF OrderSpec, IsQueue, Queue!Spec

-----------------------------------------------------------------------------
(* The transmit ring.                                                      *)

TxWrapOnLast == \A i \in TxSlots : "Wrap" \in tx_ring[i] <=> i = TX_SIZE - 1

\* The inductive invariant of the control.
TxInv == TxTypeOK /\ TxWrapOnLast /\ NoLostKick

\* Where the driver writes the next frame; in "kick" the frame is written and
\* p_txbd has still to move.
WritePos ==
  IF txpc = "kick" THEN (IF p_txbd = TX_SIZE - 1 THEN 0 ELSE p_txbd + 1)
                   ELSE p_txbd

\* The DMA is as many descriptors behind the driver as frames are queued.
TdsrBehind ==
  LET back == WritePos - (queued - sent)
  IN  tdsr = IF back >= 0 THEN back ELSE back + TX_SIZE

\* The buffers behind the driver's position hold the latest frames, those from
\* it on the frames of the round before.
BufsInRounds ==
  \A i \in TxSlots :
    txbufs[i] = IF i = p_txbd /\ txpc = "ready" THEN queued
                ELSE IF i < WritePos THEN queued - WritePos + i
                ELSE queued - WritePos + i - TX_SIZE

\* A descriptor is ready while its frame is queued and not sent.
ReadyIffQueued ==
  \A i \in TxSlots : Ready(i) <=> sent <= txbufs[i] /\ txbufs[i] < queued

FifoInv ==
  /\ queued \in Nat
  /\ sent \in Nat
  /\ txbufs \in [TxSlots -> Int]
  /\ sent <= queued
  /\ queued - sent <= TX_SIZE
  /\ txpc = "ready" => queued - sent < TX_SIZE
  /\ txpc \in {"wait", "ready"} => queued < MaxTxFrames
  /\ TdsrBehind
  /\ BufsInRounds
  /\ ReadyIffQueued

-----------------------------------------------------------------------------

\* The pointer arithmetic of the ring stays inside it.
LEMMA NextTxBdInRing ==
  ASSUME TxTypeOK, TxWrapOnLast, NEW i \in TxSlots
  PROVE  /\ NextTxBd(i) \in TxSlots
         /\ NextTxBd(i) = IF i = TX_SIZE - 1 THEN 0 ELSE i + 1
  BY TxSizeIsPositive DEF NextTxBd, TxWrapOnLast, TxSlots

\* t41_low_level_init establishes the transmit ring's invariant.
LEMMA TxInvInit == TxInit => TxInv
<1> SUFFICES ASSUME TxInit PROVE TxInv
  OBVIOUS
<1> USE TxSizeIsPositive DEF TxInit, InitTxRing, TxSlots
<1>1. tx_ring \in [TxSlots -> SUBSET {"Ready", "Wrap"}]
  OBVIOUS
<1>2. TxTypeOK
  BY <1>1 DEF TxTypeOK
<1>3. TxWrapOnLast /\ NoLostKick
  BY DEF TxWrapOnLast, NoLostKick
<1> QED
  BY <1>2, <1>3 DEF TxInv

\* Every step of the DMA and of t41_low_level_output keeps it.
LEMMA TxInvStep == TxInv /\ [TxNext]_txVars => TxInv'
<1> SUFFICES ASSUME TxInv, [TxNext]_txVars PROVE TxInv'
  OBVIOUS
<1> USE TxSizeIsPositive DEF TxInv, TxTypeOK, TxWrapOnLast, NoLostKick, Ready
<1>1. CASE DmaSend
  BY <1>1, NextTxBdInRing DEF DmaSend
<1>2. CASE DmaIdle
  BY <1>2, Zenon DEF DmaIdle
<1>3. CASE Output
  BY <1>3 DEF Output
<1>4. CASE CopyFrame
  BY <1>4 DEF CopyFrame
<1>5. CASE SetReady
  BY <1>5 DEF SetReady
<1>6. CASE Kick
  BY <1>6, NextTxBdInRing DEF Kick
<1>7. CASE UNCHANGED txVars
  BY <1>7 DEF txVars
<1> QED
  BY <1>1, <1>2, <1>3, <1>4, <1>5, <1>6, <1>7 DEF TxNext

\* The pointers of the transmit ring never leave it.
THEOREM TxTypeCorrect == TxSpec => []TxTypeOK
<1>1. TxInv => TxTypeOK
  BY DEF TxInv
<1> QED
  BY <1>1, TxInvInit, TxInvStep, PTL DEF TxSpec

\* The DMA never stops in front of a ready frame, except between the status
\* write and the TDAR write of t41_low_level_output.
THEOREM KickIsNeverLost == TxSpec => []NoLostKick
<1>1. TxInv => NoLostKick
  BY DEF TxInv
<1> QED
  BY <1>1, TxInvInit, TxInvStep, PTL DEF TxSpec

-----------------------------------------------------------------------------

\* The empty ring is an empty queue.
LEMMA FifoInvInit == TxOrderInit => FifoInv
  BY TxSizeIsPositive, MaxTxFramesIsNat
     DEF TxOrderInit, TxInit, InitTxRing, FifoInv, TdsrBehind, BufsInRounds,
         ReadyIffQueued, WritePos, Ready, TxSlots

\* What the DMA sends is the oldest frame that is queued.
LEMMA SendsOldest ==
  ASSUME TxInv, FifoInv, Ready(tdsr)
  PROVE  txbufs[tdsr] = sent /\ sent < queued
<1>1. tdsr \in TxSlots /\ p_txbd \in TxSlots
  BY DEF TxInv, TxTypeOK
<1>2. sent <= txbufs[tdsr] /\ txbufs[tdsr] < queued
  BY <1>1 DEF FifoInv, ReadyIffQueued
<1> QED
  BY <1>1, <1>2, TxSizeIsPositive
     DEF FifoInv, TdsrBehind, BufsInRounds, WritePos, TxSlots

\* No two buffers hold the same frame.
LEMMA BufsInjective ==
  ASSUME TxInv, FifoInv, NEW i \in TxSlots, NEW j \in TxSlots,
         txbufs[i] = txbufs[j]
  PROVE  i = j
<1>1. p_txbd \in TxSlots /\ queued \in Nat
  BY DEF TxInv, TxTypeOK, FifoInv
<1>2. ASSUME NEW k \in TxSlots
      PROVE  txbufs[k] = IF k = p_txbd /\ txpc = "ready" THEN queued
                         ELSE IF k < WritePos THEN queued - WritePos + k
                         ELSE queued - WritePos + k - TX_SIZE
  BY DEF FifoInv, BufsInRounds
<1>3. CASE txpc = "ready"
  BY <1>1, <1>2, <1>3, TxSizeIsPositive DEF WritePos, TxSlots
<1>4. CASE txpc # "ready"
  BY <1>1, <1>2, <1>4, TxSizeIsPositive DEF WritePos, TxSlots
<1> QED
  BY <1>3, <1>4

\* Copying, queueing and sending keep the frames in order around the ring.
LEMMA FifoInvStep ==
  TxInv /\ FifoInv /\ [TxOrderNext]_txOrderVars => FifoInv'
<1> SUFFICES ASSUME TxInv, FifoInv, [TxOrderNext]_txOrderVars PROVE FifoInv'
  OBVIOUS
<1> USE TxSizeIsPositive, MaxTxFramesIsNat
<1>0. tdsr \in TxSlots /\ p_txbd \in TxSlots /\ TxTypeOK /\ TxWrapOnLast
  BY DEF TxInv, TxTypeOK
<1>1. CASE SendNumbered
  <2>1. /\ sent' = sent + 1 /\ UNCHANGED <<txbufs, queued, p_txbd, txpc>>
        /\ tdsr' = IF tdsr = TX_SIZE - 1 THEN 0 ELSE tdsr + 1
        /\ \A i \in TxSlots : Ready(i)' <=> i # tdsr /\ Ready(i)
    BY <1>0, <1>1, NextTxBdInRing DEF SendNumbered, DmaSend, Ready, TxTypeOK
  <2>2. txbufs[tdsr] = sent /\ sent < queued
    BY <1>1, SendsOldest DEF SendNumbered, DmaSend
  <2>3. TdsrBehind'
    BY <1>0, <2>1, <2>2 DEF FifoInv, TdsrBehind, WritePos, TxSlots
  <2>4. ReadyIffQueued'
    BY <1>0, <2>1, <2>2, BufsInjective DEF FifoInv, ReadyIffQueued
  <2> QED
    BY <2>1, <2>2, <2>3, <2>4 DEF FifoInv, BufsInRounds, WritePos
<1>2. CASE CopyNumbered
  <2>1. /\ txpc = "wait" /\ txpc' = "ready" /\ ~Ready(p_txbd)
        /\ UNCHANGED <<tx_ring, tdsr, p_txbd, queued, sent>>
        /\ txbufs' = [txbufs EXCEPT ![p_txbd] = queued]
    BY <1>2 DEF CopyNumbered, CopyFrame
  <2>2. txbufs[p_txbd] = queued - TX_SIZE
    BY <1>0, <2>1 DEF FifoInv, BufsInRounds, WritePos, TxSlots
  <2>3. queued - sent < TX_SIZE
    BY <1>0, <2>1, <2>2 DEF FifoInv, ReadyIffQueued
  <2>4. TdsrBehind' /\ BufsInRounds'
    BY <1>0, <2>1 DEF FifoInv, TdsrBehind, BufsInRounds, WritePos
  <2>5. ReadyIffQueued'
    BY <1>0, <2>1 DEF FifoInv, ReadyIffQueued, Ready
  <2> QED
    BY <1>0, <2>1, <2>3, <2>4, <2>5 DEF FifoInv
<1>3. CASE QueueNumbered
  <2>1. /\ txpc = "ready" /\ txpc' = "kick"
        /\ queued' = queued + 1 /\ UNCHANGED <<txbufs, sent, tdsr, p_txbd>>
        /\ \A i \in TxSlots : Ready(i)' <=> i = p_txbd \/ Ready(i)
    BY <1>0, <1>3 DEF QueueNumbered, SetReady, Ready, TxTypeOK
  <2>2. TdsrBehind'
    BY <1>0, <2>1 DEF FifoInv, TdsrBehind, WritePos, TxSlots
  <2>3. BufsInRounds'
    <3> SUFFICES ASSUME NEW i \in TxSlots
                 PROVE  txbufs'[i] = IF i = p_txbd' /\ txpc' = "ready" THEN queued'
                                     ELSE IF i < WritePos' THEN queued' - WritePos' + i
                                     ELSE queued' - WritePos' + i - TX_SIZE
      BY DEF BufsInRounds
    <3>1. txbufs[i] = IF i = p_txbd THEN queued
                      ELSE IF i < p_txbd THEN queued - p_txbd + i
                      ELSE queued - p_txbd + i - TX_SIZE
      BY <2>1 DEF FifoInv, BufsInRounds, WritePos
    <3>2. WritePos' = IF p_txbd = TX_SIZE - 1 THEN 0 ELSE p_txbd + 1
      BY <2>1 DEF WritePos
    <3> QED
      BY <1>0, <2>1, <3>1, <3>2 DEF FifoInv, TxSlots
  <2>4. txbufs[p_txbd] = queued
    BY <1>0, <2>1 DEF FifoInv, BufsInRounds
  <2>5. ReadyIffQueued'
    BY <1>0, <2>1, <2>4, BufsInjective DEF FifoInv, ReadyIffQueued
  <2> QED
    BY <2>1, <2>2, <2>3, <2>5 DEF FifoInv
<1>4. CASE OtherTxStep
  <2>1. CASE DmaIdle
    BY <1>4, <2>1 DEF OtherTxStep, DmaIdle, contents, FifoInv, TdsrBehind,
                      BufsInRounds, ReadyIffQueued, WritePos, Ready
  <2>2. CASE queued < MaxTxFrames /\ Output
    BY <1>4, <2>2 DEF OtherTxStep, Output, contents, FifoInv, TdsrBehind,
                      BufsInRounds, ReadyIffQueued, WritePos, Ready
  <2>3. CASE Kick
    <3>1. WritePos' = WritePos
      BY <1>0, <2>3, NextTxBdInRing, SMTT(30) DEF Kick, WritePos
    <3> QED
      BY <1>4, <2>3, <3>1 DEF OtherTxStep, Kick, contents, FifoInv, TdsrBehind,
                              BufsInRounds, ReadyIffQueued, Ready
  <2> QED
    BY <1>4, <2>1, <2>2, <2>3, SMTT(30) DEF OtherTxStep
<1>5. CASE UNCHANGED txOrderVars
  BY <1>5 DEF txOrderVars, txVars, contents, FifoInv, TdsrBehind, BufsInRounds,
              ReadyIffQueued, WritePos, Ready
<1> QED
  BY <1>1, <1>2, <1>3, <1>4, <1>5 DEF TxOrderNext

\* The combined invariant of the flags, the pointers and the buffers.
LEMMA FifoInvariant == TxOrderSpec => [](TxInv /\ FifoInv)
<1>1. TxOrderInit => TxInv /\ FifoInv
  BY TxInvInit, FifoInvInit DEF TxOrderInit
<1>2. TxOrderNext => TxNext
  BY DEF TxOrderNext, CopyNumbered, QueueNumbered, SendNumbered, OtherTxStep,
         TxNext
<1>3. TxInv /\ FifoInv /\ [TxOrderNext]_txOrderVars => (TxInv /\ FifoInv)'
  BY <1>2, TxInvStep, FifoInvStep DEF txOrderVars
<1> QED
  BY <1>1, <1>3, PTL DEF TxOrderSpec

\* What goes out on the wire is what the stack handed to t41_low_level_output,
\* each frame once, in order, and at most TX_SIZE of them wait.
THEOREM RingIsFifo == TxOrderSpec => IsFifo
<1>1. TxOrderInit => Fifo!Init
  BY DEF TxOrderInit, Fifo!Init
<1>2. ASSUME TxInv, FifoInv, [TxOrderNext]_txOrderVars
      PROVE  [Fifo!Next]_(Fifo!queueVars)
  <2> USE <1>2
  <2>1. CASE SendNumbered
    <3>1. txbufs[tdsr] = sent /\ sent < queued
      BY <2>1, SendsOldest DEF SendNumbered, DmaSend
    <3> QED
      BY <2>1, <3>1 DEF SendNumbered, Fifo!Next, Fifo!Send
  <2>2. CASE QueueNumbered
    BY <2>2 DEF QueueNumbered, SetReady, FifoInv, Fifo!Next, Fifo!Enqueue
  <2>3. CASE CopyNumbered \/ OtherTxStep \/ UNCHANGED txOrderVars
    BY <2>3 DEF CopyNumbered, OtherTxStep, txOrderVars, contents, Fifo!queueVars
  <2> QED
    BY <2>1, <2>2, <2>3 DEF TxOrderNext
<1> QED
  BY <1>1, <1>2, FifoInvariant, PTL DEF TxOrderSpec, IsFifo, Fifo!Spec
=============================================================================

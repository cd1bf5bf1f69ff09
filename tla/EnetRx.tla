------------------------------- MODULE EnetRx -------------------------------
(***************************************************************************)
(* The receive path of the Teensy 4.1 Ethernet driver, lwip_t41.c.         *)
(*                                                                         *)
(* Three parties share the receive ring: the ENET DMA, which fills the     *)
(* descriptors it owns; the interrupt handler enet_isr, which turns the    *)
(* RXF event into the flag rx_ready; and the main loop, which calls        *)
(* enet_proc_input.  The main loop's accesses to what the others write     *)
(* (rx_ready, a descriptor's status, RDAR) are separate steps; pc is the   *)
(* place of the main loop inside enet_proc_input.                          *)
(*                                                                         *)
(* A descriptor's status word is the set of its flags that matter here:    *)
(* "Empty" (owned by the DMA), "Wrap" (last of the ring) and "Err", which  *)
(* stands for the four bits of err_mask.                                   *)
(*                                                                         *)
(* A definition Name_Fault is Name with a plausible fault in it; it takes  *)
(* no part in the specification and only serves to show that the           *)
(* properties notice the fault.                                            *)
(***************************************************************************)
EXTENDS Integers, FiniteSets

CONSTANTS
  RX_SIZE,         \* descriptors in the receive ring (5 in the code)
  PBUF_POOL_SIZE,  \* pbufs in lwIP's PBUF_POOL
  MaxHeld,         \* pbufs the stack may keep after netif->input returned
  RxErrors,        \* {} or {"Err"}: whether damaged frames arrive
  Callbacks        \* values passed to enet_set_receive_callback

ASSUME RxConstants ==
  /\ RX_SIZE \in Nat \ {0}
  /\ PBUF_POOL_SIZE \in Nat
  /\ MaxHeld \in 0..PBUF_POOL_SIZE
  /\ RxErrors \subseteq {"Err"}
  /\ Callbacks \subseteq BOOLEAN

VARIABLES
  rx_ring,     \* status flags of each descriptor
  rdsr,        \* the descriptor the DMA uses next
  rdar,        \* ENET_RDAR: the DMA is polling the ring
  rxf,         \* ENET_EIR.RXF: a receive event is pending
  rx_ready,    \* set by the interrupt handler, cleared by the main loop
  rx_callback, \* a receive callback is installed
  pc,          \* place of the main loop in enet_proc_input
  p_rxbd,      \* where the driver starts to look for the next frame
  p_bd,        \* the scan pointer of rxbd_next
  p,           \* the pbuf returned by t41_low_level_input, or "NULL"
  pool,        \* free pbufs
  stack        \* pbufs owned by the stack

ringVars == <<rx_ring, rdsr, rdar>>
eventVars == <<rxf, rx_ready, rx_callback>>
scanVars == <<p_rxbd, p_bd>>
pbufVars == <<p, pool, stack>>
vars == <<ringVars, eventVars, pc, scanVars, pbufVars>>

Slots == 0..(RX_SIZE - 1)
Flags == {"Empty", "Wrap", "Err"}

Empty(i) == "Empty" \in rx_ring[i]

\* The descriptor after i: back to the first one at the Wrap flag.
NextBd(i) == IF "Wrap" \in rx_ring[i] THEN 0 ELSE i + 1

\* t41_low_level_init: every descriptor empty, the last one marked Wrap.
InitRing ==
  [i \in Slots |-> IF i = RX_SIZE - 1 THEN {"Empty", "Wrap"} ELSE {"Empty"}]

Init ==
  /\ rx_ring = InitRing
  /\ rdsr = 0
  /\ rdar = TRUE
  /\ rxf = FALSE
  /\ rx_ready = FALSE
  /\ rx_callback = FALSE
  /\ pc = "idle"
  /\ p_rxbd = 0
  /\ p_bd = 0
  /\ p = "NULL"
  /\ pool = PBUF_POOL_SIZE
  /\ stack = 0

-----------------------------------------------------------------------------
(* The ENET DMA (external)                                                 *)

\* A frame arrives and the DMA owns its next descriptor: it stores the frame,
\* hands the descriptor over, moves on and raises RXF.
DmaFill(err) ==
  /\ rdar
  /\ Empty(rdsr)
  /\ rx_ring' = [rx_ring EXCEPT ![rdsr] = (@ \cap {"Wrap"}) \cup err]
  /\ rdsr' = NextBd(rdsr)
  /\ rxf' = TRUE
  /\ UNCHANGED <<rdar, rx_ready, rx_callback, pc, scanVars, pbufVars>>

\* The DMA polls a descriptor it does not own: it clears RDAR and stops.
DmaStall ==
  /\ rdar
  /\ ~Empty(rdsr)
  /\ rdar' = FALSE
  /\ UNCHANGED <<rx_ring, rdsr, eventVars, pc, scanVars, pbufVars>>

-----------------------------------------------------------------------------
(* The interrupt handler                                                   *)

\* One iteration of enet_isr.  It preempts the main loop at any step.  The
\* callback is the application's and changes no driver state.
enet_isr ==
  /\ rxf
  /\ rxf' = FALSE
  /\ rx_ready' = IF rx_callback THEN rx_ready ELSE TRUE
  /\ UNCHANGED <<ringVars, rx_callback, pc, scanVars, pbufVars>>

-----------------------------------------------------------------------------
(* The main loop: enet_proc_input, line by line                            *)

\* rxbd_next starts to look at p_rxbd.
StartScan ==
  /\ pc' = "scan"
  /\ p_bd' = p_rxbd
  /\ UNCHANGED p_rxbd

\* enet_proc_input with a callback installed goes straight to the loop ...
ProcInputPolled ==
  /\ pc = "idle"
  /\ rx_callback
  /\ StartScan
  /\ UNCHANGED <<ringVars, eventVars, pbufVars>>

\* ... and without one returns at once unless rx_ready is set.
ProcInputReady ==
  /\ pc = "idle"
  /\ ~rx_callback
  /\ rx_ready
  /\ pc' = "clear"
  /\ UNCHANGED <<ringVars, eventVars, scanVars, pbufVars>>

ProcInputClear ==
  /\ pc = "clear"
  /\ rx_ready' = FALSE
  /\ StartScan
  /\ UNCHANGED <<ringVars, rxf, rx_callback, pbufVars>>

ScanEmpty_StopAtWrap ==
  /\ pc = "scan"
  /\ Empty(p_bd)
  /\ IF NextBd(p_bd) = 0
     THEN pc' = "idle" /\ UNCHANGED p_bd
     ELSE p_bd' = NextBd(p_bd) /\ UNCHANGED pc
  /\ UNCHANGED <<ringVars, eventVars, p_rxbd, pbufVars>>
\* rxbd_next finds an empty descriptor and steps over it.  After a full
\* circle it returns NULL, which ends the loop of enet_proc_input.
ScanEmpty ==
  /\ pc = "scan"
  /\ Empty(p_bd)
  /\ IF NextBd(p_bd) = p_rxbd
     THEN pc' = "idle" /\ UNCHANGED p_bd
     ELSE p_bd' = NextBd(p_bd) /\ UNCHANGED pc
  /\ UNCHANGED <<ringVars, eventVars, p_rxbd, pbufVars>>

\* rxbd_next finds a full descriptor and returns it; p_rxbd moves on by one,
\* wherever the descriptor was found.
ScanFound ==
  /\ pc = "scan"
  /\ ~Empty(p_bd)
  /\ p_rxbd' = NextBd(p_rxbd)
  /\ pc' = "input"
  /\ UNCHANGED <<ringVars, eventVars, p_bd, pbufVars>>

\* pbuf_alloc(PBUF_RAW, length, PBUF_POOL) of t41_low_level_input: not called
\* for a damaged frame, NULL when the pool is exhausted.
AllocAndCopy ==
  IF "Err" \notin rx_ring[p_bd] /\ pool > 0
  THEN p' = "frame" /\ pool' = pool - 1
  ELSE p' = "NULL" /\ pool' = pool

LowLevelInput_KeepOnDrop ==
  /\ pc = "input"
  /\ AllocAndCopy
  /\ IF p' = "NULL"
     THEN pc' = "idle" /\ UNCHANGED rx_ring
     ELSE /\ rx_ring' = [rx_ring EXCEPT ![p_bd] = (@ \cap {"Wrap"}) \cup {"Empty"}]
          /\ pc' = "rearm"
  /\ UNCHANGED <<rdsr, rdar, eventVars, scanVars, stack>>
LowLevelInput_FreeHead ==
  /\ pc = "input"
  /\ AllocAndCopy
  /\ rx_ring' = [rx_ring EXCEPT ![p_rxbd] = (@ \cap {"Wrap"}) \cup {"Empty"}]
  /\ pc' = "rearm"
  /\ UNCHANGED <<rdsr, rdar, eventVars, scanVars, stack>>
LowLevelInput_NoFree ==
  /\ pc = "input"
  /\ AllocAndCopy
  /\ pc' = "rearm"
  /\ UNCHANGED <<ringVars, eventVars, scanVars, stack>>
\* t41_low_level_input up to the write that gives the descriptor back.
LowLevelInput ==
  /\ pc = "input"
  /\ AllocAndCopy
  /\ rx_ring' = [rx_ring EXCEPT ![p_bd] = (@ \cap {"Wrap"}) \cup {"Empty"}]
  /\ pc' = "rearm"
  /\ UNCHANGED <<rdsr, rdar, eventVars, scanVars, stack>>

Rearm_NoRdar ==
  /\ pc = "rearm"
  /\ pc' = IF p = "NULL" THEN "idle" ELSE "deliver"
  /\ UNCHANGED <<ringVars, eventVars, scanVars, pbufVars>>
\* The last line of t41_low_level_input: ENET_RDAR is set, whether or not the
\* frame got a pbuf.  NULL ends the loop of enet_proc_input.
Rearm ==
  /\ pc = "rearm"
  /\ rdar' = TRUE
  /\ pc' = IF p = "NULL" THEN "idle" ELSE "deliver"
  /\ UNCHANGED <<rx_ring, rdsr, eventVars, scanVars, pbufVars>>

\* enet_input, netif->input returns ERR_OK: the stack owns the pbuf, and keeps
\* or frees it and others it owned.  The loop then asks for the next frame.
EnetInputOk ==
  /\ pc = "deliver"
  /\ p' = "NULL"
  /\ \E kept \in 0..MaxHeld :
       /\ kept <= stack + 1
       /\ stack' = kept
       /\ pool' = pool + (stack + 1 - kept)
  /\ StartScan
  /\ UNCHANGED <<ringVars, eventVars>>

EnetInputErr_Leak ==
  /\ pc = "deliver"
  /\ p' = "NULL"
  /\ StartScan
  /\ UNCHANGED <<ringVars, eventVars, pool, stack>>
\* enet_input, netif->input returns an error: the driver frees the pbuf.
EnetInputErr ==
  /\ pc = "deliver"
  /\ p' = "NULL"
  /\ pool' = pool + 1
  /\ StartScan
  /\ UNCHANGED <<ringVars, eventVars, stack>>

\* Elsewhere in the main loop (timers, application) the stack frees pbufs.
StackFree ==
  /\ pc = "idle"
  /\ stack > 0
  /\ stack' = stack - 1
  /\ pool' = pool + 1
  /\ UNCHANGED <<ringVars, eventVars, pc, scanVars, p>>

enet_set_receive_callback(cb) ==
  /\ pc = "idle"
  /\ rx_callback' = cb
  /\ UNCHANGED <<ringVars, rxf, rx_ready, pc, scanVars, pbufVars>>

-----------------------------------------------------------------------------

ProcInput ==
  \/ ProcInputPolled
  \/ ProcInputReady
  \/ ProcInputClear
  \/ ScanEmpty
  \/ ScanFound
  \/ LowLevelInput
  \/ Rearm
  \/ EnetInputOk
  \/ EnetInputErr

Next ==
  \/ \E err \in SUBSET RxErrors : DmaFill(err)
  \/ DmaStall
  \/ enet_isr
  \/ ProcInput
  \/ StackFree
  \/ \E cb \in Callbacks : enet_set_receive_callback(cb)

Spec == Init /\ [][Next]_vars

\* The interrupt is enabled and enet_proc_input is called again and again by
\* the sketches' loop().  Nothing is assumed of the frames' arrival.
Fairness == WF_vars(ProcInput) /\ WF_vars(enet_isr) /\ WF_vars(DmaStall)

FairSpec == Spec /\ Fairness

-----------------------------------------------------------------------------
(* Properties                                                              *)

\* The type invariant.  The three pointers stay inside the ring only because
\* t41_low_level_input keeps the Wrap flag when it gives a descriptor back.
TypeOK ==
  /\ rx_ring \in [Slots -> SUBSET Flags]
  /\ rdsr \in Slots
  /\ rdar \in BOOLEAN
  /\ rxf \in BOOLEAN
  /\ rx_ready \in BOOLEAN
  /\ rx_callback \in BOOLEAN
  /\ pc \in {"idle", "clear", "scan", "input", "rearm", "deliver"}
  /\ p_rxbd \in Slots
  /\ p_bd \in Slots
  /\ p \in {"NULL", "frame"}
  /\ pool \in 0..PBUF_POOL_SIZE
  /\ stack \in 0..MaxHeld

\* Every pbuf of the pool is free, in the driver's hands or owned by the
\* stack: no path through t41_low_level_input and enet_input leaks one or
\* frees one twice.
PbufsConserved ==
  pool + stack + (IF p = "frame" THEN 1 ELSE 0) = PBUF_POOL_SIZE

\* The frame t41_low_level_input reads was completed by the DMA: between the
\* test in rxbd_next and the copy nobody takes the descriptor back.
DriverOwnsInput == pc = "input" => ~Empty(p_bd)

\* If the DMA stopped (RDAR clear) although its next descriptor is free again,
\* the driver is between giving the descriptor back and setting RDAR: no
\* restart of the reception is lost.
NoLostRearm == ~rdar /\ Empty(rdsr) => pc = "rearm"

\* Something will make the main loop look at the ring again.
ScanPending == rxf \/ rx_ready \/ rx_callback

\* A full ring never goes unnoticed: when no descriptor is left for the DMA,
\* an interrupt is pending, rx_ready is set, or enet_proc_input is running.
\* This holds although a NULL from enet_rx_next (damaged frame, no pbuf) ends
\* the loop of enet_proc_input with frames still in the ring.
FullRingIsServed ==
  (\A i \in Slots : ~Empty(i)) => ScanPending \/ pc # "idle"

\* When the driver has nothing left to react to, no frame is in the ring.
\* This needs every frame to get a pbuf: no damaged frames, no exhausted pool.
NothingStranded ==
  pc = "idle" /\ ~ScanPending => \A i \in Slots : Empty(i)

\* A frame is dropped: it is damaged, or there is no pbuf for it.
Dropped == pc = "rearm" /\ p = "NULL"

\* Every frame in the ring is read in the end, unless one is dropped: the NULL
\* that enet_rx_next returns for it ends the loop of enet_proc_input, and the
\* frames behind it wait for an event that may not come.
EveryFrameIsRead == []~Dropped => \A i \in Slots : ~Empty(i) ~> Empty(i)

\* Reception that stopped on a full ring restarts once the driver has freed
\* space: the DMA polls again and finds a descriptor it owns.
ReceptionRestarts == ~rdar ~> (rdar /\ Empty(rdsr))
=============================================================================

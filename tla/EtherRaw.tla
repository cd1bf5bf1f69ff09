------------------------------ MODULE EtherRaw ------------------------------
(***************************************************************************)
(* The raw Ethernet sketch, etherraw.ino: a receive ring that is polled,   *)
(* a transmit ring with a busy wait, one buffer for the last UDP packet,   *)
(* and UDP clients that poll until their answer is there.                  *)
(*                                                                         *)
(* setup() runs one of the clients: udp_echo and udp_ntp have one packet   *)
(* outstanding, udp_tcp has WPKTS.  loop() then takes the frames.  A frame *)
(* of the model is its kind and, for the answer to a packet of the client, *)
(* the packet's number.  The transmit ring is the queue that EnetTx shows  *)
(* such a ring to be.  The server answers each packet once; other hosts    *)
(* send any frame at any time.  A sketch that waits for a lost answer      *)
(* waits for ever, so the network loses nothing.                           *)
(***************************************************************************)
EXTENDS Integers, Sequences, FiniteSets

CONSTANTS
  RXSIZE,       \* receive descriptors
  TXSIZE,       \* transmit descriptors
  WPKTS,        \* window of udp_tcp
  Reps,         \* packets the client sends
  Sketches,     \* the clients setup() may run
  Strays,       \* kinds of frames other hosts send
  MaxStrays     \* bound: frames of other hosts

VARIABLES
  rx_ring,      \* each descriptor: "empty" or the frame in it
  rxnum,        \* the descriptor the sketch looks at next
  rxdma,        \* the one the DMA fills next
  RDAR,         \* the receive DMA is active
  tx,           \* frames in the transmit ring, the oldest first
  UDP_buff,     \* the frame in UDP_buff; UDP_lth is not 0 unless it is "none"
  sketch, pc,   \* the client that runs, and where it is
  sent, acks,   \* packets sent and answers taken
  answers,      \* numbers of the packets the server is going to answer
  stored, taken,\* frames stored by the DMA and taken by the sketch so far
  strays        \* frames of other hosts so far

vars == <<rx_ring, rxnum, rxdma, RDAR, tx, UDP_buff, sketch, pc, sent, acks, answers,
          stored, taken, strays>>
rings == <<rx_ring, rxnum, rxdma, RDAR, stored, taken>>

Slots == 0..(RXSIZE - 1)
Answer(n) == <<"udp", n>>
Window == IF sketch = "udp_tcp" THEN WPKTS ELSE 1

ASSUME EtherRawAssumption ==
  /\ {RXSIZE, TXSIZE, WPKTS, Reps, MaxStrays} \subseteq Nat
  /\ RXSIZE > 0 /\ TXSIZE > 0 /\ WPKTS > 0 /\ Reps >= WPKTS

\* e_init, and the ARP request of setup().
EtherRawInit ==
  /\ rx_ring = [i \in Slots |-> <<"empty">>] /\ rxnum = 0 /\ rxdma = 0 /\ RDAR = TRUE
  /\ tx = <<<<"arp">>>>
  /\ UDP_buff = <<"none">> /\ sketch \in Sketches /\ pc = "send"
  /\ sent = 0 /\ acks = 0 /\ answers = {}
  /\ stored = <<>> /\ taken = <<>> /\ strays = 0
-----------------------------------------------------------------------------
(* The controller and the network.                                         *)

\* The DMA stores a frame in the next descriptor, if it is free.
Store(frame) ==
  /\ RDAR /\ rx_ring[rxdma] = <<"empty">>
  /\ rx_ring' = [rx_ring EXCEPT ![rxdma] = frame]
  /\ rxdma' = (rxdma + 1) % RXSIZE
  /\ stored' = Append(stored, frame)
  /\ UNCHANGED <<rxnum, RDAR, taken>>

ServerAnswers ==
  \E n \in answers :
    /\ Store(Answer(n))
    /\ answers' = answers \ {n}
    /\ UNCHANGED <<tx, UDP_buff, sketch, pc, sent, acks, strays>>

OtherHosts ==
  /\ strays < MaxStrays
  /\ \E kind \in Strays : Store(<<kind, 0>>)
  /\ strays' = strays + 1
  /\ UNCHANGED <<tx, UDP_buff, sketch, pc, sent, acks, answers>>

\* The DMA meets a full descriptor and stops.  Nothing in the sketch sets RDAR again.
DmaStops ==
  /\ RDAR /\ rx_ring[rxdma] # <<"empty">>
  /\ RDAR' = FALSE
  /\ UNCHANGED <<rx_ring, rxnum, rxdma, tx, UDP_buff, sketch, pc, sent, acks, answers,
                 stored, taken, strays>>

\* The transmit DMA sends a frame; a packet of the client reaches the server.
DmaSends ==
  /\ tx # <<>>
  /\ tx' = Tail(tx)
  /\ answers' = IF Head(tx)[1] = "pkt" THEN answers \cup {Head(tx)[2]} ELSE answers
  /\ UNCHANGED <<rings, UDP_buff, sketch, pc, sent, acks, strays>>
-----------------------------------------------------------------------------
(* The sketch.                                                             *)

\* outgoing: the busy wait for a free descriptor is the guard.
outgoing(frame) ==
  /\ Len(tx) < TXSIZE
  /\ tx' = Append(tx, frame)

\* arp_parse and ping_reply: requests for this address are answered.
Reply(frame) ==
  \/ frame[1] = "ping" /\ outgoing(<<"pong">>)
  \/ frame[1] = "arp request" /\ outgoing(<<"arp">>)
  \/ frame[1] \notin {"ping", "arp request"} /\ UNCHANGED tx

\* handle_frame: a UDP packet goes to UDP_buff.
handle_frame(frame) ==
  /\ Reply(frame)
  /\ UDP_buff' = IF frame[1] = "udp" THEN frame ELSE UDP_buff

\* incoming, of loop(): a UDP packet is counted.
incoming(frame) == Reply(frame) /\ UNCHANGED UDP_buff

NextRx_SkipLast == IF rxnum < RXSIZE - 2 THEN rxnum + 1 ELSE 0

\* The descriptor is given back; the last one has the wrap flag.
NextRx == IF rxnum < RXSIZE - 1 THEN rxnum + 1 ELSE 0

FreeDescriptor ==
  /\ rx_ring' = [rx_ring EXCEPT ![rxnum] = <<"empty">>]
  /\ taken' = Append(taken, rx_ring[rxnum])
  /\ rxnum' = NextRx
  /\ UNCHANGED <<rxdma, RDAR, stored>>

\* check_rx, while a client waits for its answer or for time to pass.
check_rx_Polling ==
  /\ pc \in {"wait", "delay"}
  /\ rx_ring[rxnum] # <<"empty">>
  /\ handle_frame(rx_ring[rxnum])
  /\ FreeDescriptor
  /\ UNCHANGED <<sketch, pc, sent, acks, answers, strays>>

check_rx ==
  /\ pc = "delay" \/ (pc = "wait" /\ UDP_buff = <<"none">>)
  /\ rx_ring[rxnum] # <<"empty">>
  /\ handle_frame(rx_ring[rxnum])
  /\ FreeDescriptor
  /\ UNCHANGED <<sketch, pc, sent, acks, answers, strays>>

\* sendto; udp_tcp starts with as many packets as the window holds.
sendto_Blast ==
  /\ pc = "send"
  /\ outgoing(<<"pkt", sent + 1>>)
  /\ sent' = sent + 1
  /\ pc' = IF sent + 1 < Reps THEN "send" ELSE "wait"
  /\ UNCHANGED <<rings, UDP_buff, sketch, acks, answers, strays>>

sendto ==
  /\ pc = "send"
  /\ outgoing(<<"pkt", sent + 1>>)
  /\ sent' = sent + 1
  /\ pc' = IF sent + 1 < Window THEN "send" ELSE "wait"
  /\ UNCHANGED <<rings, UDP_buff, sketch, acks, answers, strays>>

\* What a client does with `n' answers: the next packet, the rest of the window,
\* or the end of setup().
Continue_OneMore(n) == IF sent < Reps THEN "send" ELSE IF n <= Reps THEN "wait" ELSE "loop"

Continue(n) == IF sent < Reps THEN "send" ELSE IF n < Reps THEN "wait" ELSE "loop"

\* recvfrom empties UDP_buff; udp_ntp then polls for a while.
recvfrom ==
  /\ pc = "wait" /\ UDP_buff # <<"none">>
  /\ UDP_buff' = <<"none">> /\ acks' = acks + 1
  /\ pc' = IF sketch = "udp_ntp" THEN "delay" ELSE Continue(acks + 1)
  /\ UNCHANGED <<rings, tx, sketch, sent, answers, strays>>

DelayOver ==
  /\ pc = "delay"
  /\ pc' = Continue(acks)
  /\ UNCHANGED <<rings, tx, UDP_buff, sketch, sent, acks, answers, strays>>

loop ==
  /\ pc = "loop"
  /\ rx_ring[rxnum] # <<"empty">>
  /\ incoming(rx_ring[rxnum])
  /\ FreeDescriptor
  /\ UNCHANGED <<sketch, pc, sent, acks, answers, strays>>

EtherRawNext ==
  \/ ServerAnswers \/ OtherHosts \/ DmaStops \/ DmaSends
  \/ check_rx \/ sendto \/ recvfrom \/ DelayOver \/ loop

\* The main program runs, the transmit DMA sends, and an answer on its way is stored.
EtherRawFairness ==
  /\ WF_vars(check_rx) /\ WF_vars(sendto) /\ WF_vars(recvfrom)
  /\ WF_vars(DelayOver) /\ WF_vars(loop)
  /\ WF_vars(DmaSends) /\ WF_vars(ServerAnswers)

EtherRawSpec == EtherRawInit /\ [][EtherRawNext]_vars /\ EtherRawFairness
-----------------------------------------------------------------------------
(* Properties.                                                             *)

\* The ring is a queue although only its descriptors' flags are shared: check_rx
\* and loop, which have one rxnum between them, take the frames in the order in
\* which the DMA stored them, each one once, and the others are in the ring.
FramesInOrder ==
  LET n == Len(stored) - Len(taken)
  IN /\ n \in 0..RXSIZE
     /\ taken \o [j \in 1..n |-> rx_ring[(rxnum + j - 1) % RXSIZE]] = stored
     /\ \A j \in n..(RXSIZE - 1) : rx_ring[(rxnum + j) % RXSIZE] = <<"empty">>

\* A client that polls only until UDP_lth is set never has a packet overwritten in
\* UDP_buff; udp_ntp, which polls while it passes the time, may.
UdpNotOverwritten ==
  [][sketch # "udp_ntp" /\ UDP_buff # <<"none">> => UDP_buff' \in {UDP_buff, <<"none">>}]_vars

\* The answers to a client's own packets never fill the ring: the receiver only
\* stops when other hosts have sent what the window leaves of it.
OnlyOthersStopReceiver ==
  ~RDAR => strays >= RXSIZE - Window

\* setup() ends, unless the receiver has stopped at a full ring: with every packet
\* answered, no client waits for an answer that cannot come.
SetupEndsOrReceiverStops ==
  <>(pc = "loop" \/ ~RDAR)
=============================================================================

--------------------------- MODULE EtherRawProofs ---------------------------
(***************************************************************************)
(* Theorems about the raw Ethernet sketch, for rings of any size, any      *)
(* window, any number of packets and any frames of other hosts.            *)
(***************************************************************************)
EXTENDS EtherRaw, FiniteSetTheorems, SequenceTheorems, TLAPS

\* The frames that come in and those that go out.
Frames == {<<"udp", n>> : n \in Nat} \cup {<<kind, 0>> : kind \in Strays}
Packet(n) == <<"pkt", n>>
OutFrames == {<<"arp">>, <<"pong">>} \cup {Packet(n) : n \in Nat}

\* The descriptor j places behind b.
Place(b, j) == (b + j) % RXSIZE

\* The frames that are stored and not taken.
Waiting == Len(stored) - Len(taken)

\* The inductive invariant of the receive ring: FramesInOrder, descriptor by
\* descriptor, and where the DMA is.
RingInv ==
  /\ rxnum \in Slots /\ rxdma \in Slots
  /\ rx_ring \in [Slots -> Frames \cup {<<"empty">>}]
  /\ stored \in Seq(Frames) /\ taken \in Seq(Frames)
  /\ Waiting \in 0..RXSIZE
  /\ rxdma = Place(rxnum, Waiting)
  /\ \A k \in 1..Len(taken) : taken[k] = stored[k]
  /\ \A j \in 0..(Waiting - 1) : rx_ring[Place(rxnum, j)] = stored[Len(taken) + j + 1]
  /\ \A j \in Waiting..(RXSIZE - 1) : rx_ring[Place(rxnum, j)] = <<"empty">>
-----------------------------------------------------------------------------
LEMMA ConstantsAreNat ==
  /\ RXSIZE \in Nat \ {0} /\ TXSIZE \in Nat \ {0} /\ WPKTS \in Nat \ {0} /\ Reps \in Nat
  BY EtherRawAssumption

\* The arithmetic of the ring, without the modulus.
LEMMA Places ==
  ASSUME NEW b \in Slots, NEW j \in 0..RXSIZE
  PROVE  /\ Place(b, j) = IF b + j < RXSIZE THEN b + j ELSE b + j - RXSIZE
         /\ Place(b, j) \in Slots
  <1>1. CASE b + j < RXSIZE
    BY <1>1, ConstantsAreNat DEF Place, Slots
  <1>2. CASE b + j >= RXSIZE
    BY <1>2, ConstantsAreNat DEF Place, Slots
  <1> QED BY <1>1, <1>2, ConstantsAreNat DEF Slots

LEMMA PlacesDiffer ==
  ASSUME NEW b \in Slots, NEW j \in 0..(RXSIZE - 1), NEW k \in 0..(RXSIZE - 1), j < k
  PROVE  Place(b, j) # Place(b, k)
  <1>1. /\ b \in Nat /\ j \in Nat /\ k \in Nat /\ b < RXSIZE /\ k < RXSIZE
        /\ j \in 0..RXSIZE /\ k \in 0..RXSIZE
    BY ConstantsAreNat DEF Slots
  <1>2. /\ Place(b, j) = IF b + j < RXSIZE THEN b + j ELSE b + j - RXSIZE
        /\ Place(b, k) = IF b + k < RXSIZE THEN b + k ELSE b + k - RXSIZE
    BY <1>1, Places
  <1>3. CASE b + k < RXSIZE
    BY <1>1, <1>2, <1>3, ConstantsAreNat
  <1>4. CASE b + k >= RXSIZE
    BY <1>1, <1>2, <1>4, ConstantsAreNat
  <1> QED BY <1>1, <1>3, <1>4, ConstantsAreNat

\* Every descriptor is some places behind any other.
LEMMA PlacesCover ==
  ASSUME NEW b \in Slots, NEW i \in Slots
  PROVE  \E j \in 0..(RXSIZE - 1) : i = Place(b, j)
  <1>1. CASE b <= i
    <2>1. i - b \in 0..(RXSIZE - 1) /\ i - b \in 0..RXSIZE
      BY <1>1, ConstantsAreNat DEF Slots
    <2>2. Place(b, i - b) = i
      BY <2>1, Places, ConstantsAreNat DEF Slots
    <2> QED BY <2>1, <2>2
  <1>2. CASE b > i
    <2>1. i - b + RXSIZE \in 0..(RXSIZE - 1) /\ i - b + RXSIZE \in 0..RXSIZE
      BY <1>2, ConstantsAreNat DEF Slots
    <2>2. Place(b, i - b + RXSIZE) = i
      BY <2>1, Places, ConstantsAreNat DEF Slots
    <2> QED BY <2>1, <2>2
  <1> QED BY <1>1, <1>2, ConstantsAreNat DEF Slots

LEMMA NextPlace ==
  ASSUME NEW b \in Slots
  PROVE  /\ (b + 1) % RXSIZE = Place(b, 1) /\ Place(b, 0) = b /\ Place(b, RXSIZE) = b
         /\ Place(b, 1) = IF b < RXSIZE - 1 THEN b + 1 ELSE 0
         /\ \A j \in 0..(RXSIZE - 1) : Place(Place(b, 1), j) = Place(b, j + 1)
         /\ \A j \in 0..(RXSIZE - 1) : Place(Place(b, j), 1) = Place(b, j + 1)
  <1>1. 0 \in 0..RXSIZE /\ 1 \in 0..RXSIZE /\ RXSIZE \in 0..RXSIZE
    BY ConstantsAreNat
  <1>2. /\ (b + 1) % RXSIZE = Place(b, 1) /\ Place(b, 0) = b /\ Place(b, RXSIZE) = b
        /\ Place(b, 1) = IF b < RXSIZE - 1 THEN b + 1 ELSE 0
    <2>1. (b + 1) % RXSIZE = Place(b, 1)
      BY DEF Place
    <2>2. Place(b, 1) = IF b + 1 < RXSIZE THEN b + 1 ELSE b + 1 - RXSIZE
      BY <1>1, Places
    <2>3. /\ Place(b, 0) = IF b + 0 < RXSIZE THEN b + 0 ELSE b + 0 - RXSIZE
          /\ Place(b, RXSIZE) = IF b + RXSIZE < RXSIZE THEN b + RXSIZE
                                ELSE b + RXSIZE - RXSIZE
      BY <1>1, Places
    <2> QED BY <2>1, <2>2, <2>3, ConstantsAreNat DEF Slots
  <1>3. Place(b, 1) \in Slots
    BY <1>1, Places
  <1>4. ASSUME NEW j \in 0..(RXSIZE - 1)
        PROVE  Place(Place(b, 1), j) = Place(b, j + 1) /\ Place(Place(b, j), 1) = Place(b, j + 1)
    <2>1. j \in 0..RXSIZE /\ j + 1 \in 0..RXSIZE
      BY ConstantsAreNat
    <2>2. Place(b, j) \in Slots
      BY <2>1, Places
    <2>3. /\ Place(b, j) = IF b + j < RXSIZE THEN b + j ELSE b + j - RXSIZE
          /\ Place(b, j + 1) = IF b + (j + 1) < RXSIZE THEN b + (j + 1) ELSE b + (j + 1) - RXSIZE
      BY <2>1, Places
    <2>4. Place(Place(b, j), 1) = IF Place(b, j) + 1 < RXSIZE THEN Place(b, j) + 1
                                  ELSE Place(b, j) + 1 - RXSIZE
      BY <1>1, <2>2, Places
    <2>5. Place(Place(b, 1), j) = IF Place(b, 1) + j < RXSIZE THEN Place(b, 1) + j
                                  ELSE Place(b, 1) + j - RXSIZE
      BY <1>3, <2>1, Places
    <2>6. Place(Place(b, j), 1) = Place(b, j + 1)
      BY <2>3, <2>4, ConstantsAreNat DEF Slots
    <2>7. Place(Place(b, 1), j) = Place(b, j + 1)
      BY <1>2, <2>3, <2>5, ConstantsAreNat DEF Slots
    <2> QED BY <2>6, <2>7
  <1> QED BY <1>2, <1>4

\* No frame is taken for an empty descriptor.
LEMMA FrameIsNotEmpty ==
  ASSUME NEW f \in Frames
  PROVE  f # <<"empty">>
  <1>1. CASE f \in {<<"udp", n>> : n \in Nat}
    BY <1>1
  <1>2. CASE f \in {<<kind, 0>> : kind \in Strays}
    BY <1>2
  <1> QED BY <1>1, <1>2 DEF Frames
-----------------------------------------------------------------------------
\* The DMA stores a frame behind those that wait.
LEMMA StoreKeepsRing ==
  ASSUME RingInv, NEW frame \in Frames, Store(frame)
  PROVE  /\ RingInv'
         /\ stored' = Append(stored, frame) /\ taken' = taken
         /\ Waiting < RXSIZE
  <1> USE DEF RingInv
  <1>1. /\ RXSIZE \in Nat \ {0} /\ Len(stored) \in Nat /\ Len(taken) \in Nat
        /\ Waiting \in 0..RXSIZE /\ Len(stored) = Len(taken) + Waiting
    BY ConstantsAreNat DEF Waiting
  <1>2. /\ rx_ring[rxdma] = <<"empty">>
        /\ rx_ring' = [rx_ring EXCEPT ![rxdma] = frame]
        /\ rxdma' = (rxdma + 1) % RXSIZE
        /\ stored' = Append(stored, frame)
        /\ rxnum' = rxnum /\ taken' = taken
    BY DEF Store
  <1>3. Waiting < RXSIZE
    <2>1. SUFFICES ASSUME Waiting = RXSIZE PROVE FALSE
      BY <1>1
    <2>2. rxdma = Place(rxnum, 0)
      BY <2>1, NextPlace
    <2>3. rx_ring[rxdma] = stored[Len(taken) + 1]
      BY <1>1, <2>1, <2>2
    <2>4. stored[Len(taken) + 1] \in Frames
      BY <1>1, <2>1
    <2> QED BY <1>2, <2>3, <2>4, FrameIsNotEmpty
  <1>4. /\ stored' \in Seq(Frames) /\ Len(stored') = Len(stored) + 1
        /\ \A k \in 1..Len(stored) : stored'[k] = stored[k]
        /\ stored'[Len(stored) + 1] = frame
    BY <1>2
  <1>5. Waiting' = Waiting + 1 /\ Waiting' \in 0..RXSIZE
    BY <1>1, <1>2, <1>3, <1>4 DEF Waiting
  <1>6. rxdma' = Place(rxnum, Waiting + 1) /\ rxdma' \in Slots
    <2>1. Waiting \in 0..(RXSIZE - 1) /\ Waiting + 1 \in 0..RXSIZE
      BY <1>1, <1>3
    <2>2. rxdma' = Place(rxdma, 1)
      BY <1>2, NextPlace
    <2> QED BY <2>1, <2>2, NextPlace, Places
  <1>7. rx_ring' \in [Slots -> Frames \cup {<<"empty">>}]
    BY <1>2
  <1>8. \A k \in 1..Len(taken) : taken[k] = stored'[k]
    BY <1>1, <1>4
  <1>9. ASSUME NEW j \in 0..Waiting
        PROVE  rx_ring'[Place(rxnum, j)] = stored'[Len(taken) + j + 1]
    <2>1. CASE j = Waiting
      <3>1. Place(rxnum, j) = rxdma /\ Len(taken) + j + 1 = Len(stored) + 1
        BY <1>1, <2>1
      <3> QED BY <1>2, <1>4, <3>1
    <2>2. CASE j < Waiting
      <3>1. j \in 0..(Waiting - 1) /\ j \in 0..(RXSIZE - 1) /\ Waiting \in 0..(RXSIZE - 1)
        BY <1>1, <1>3, <2>2
      <3>2. Place(rxnum, j) # rxdma
        BY <2>2, <3>1, PlacesDiffer
      <3>3. rx_ring'[Place(rxnum, j)] = stored[Len(taken) + j + 1]
        BY <1>2, <3>1, <3>2
      <3>4. Len(taken) + j + 1 \in 1..Len(stored)
        BY <1>1, <3>1
      <3> QED BY <1>4, <3>3, <3>4
    <2> QED BY <1>1, <2>1, <2>2
  <1>10. ASSUME NEW j \in (Waiting + 1)..(RXSIZE - 1)
         PROVE  rx_ring'[Place(rxnum, j)] = <<"empty">>
    <2>1. /\ j \in Waiting..(RXSIZE - 1) /\ j \in 0..(RXSIZE - 1)
          /\ Waiting \in 0..(RXSIZE - 1) /\ Waiting < j
      BY <1>1, <1>3
    <2>2. Place(rxnum, j) # rxdma
      BY <2>1, PlacesDiffer
    <2> QED BY <1>2, <2>1, <2>2
  <1>11. \A j \in 0..(Waiting' - 1) :
           rx_ring'[Place(rxnum', j)] = stored'[Len(taken') + j + 1]
    <2>1. 0..(Waiting' - 1) = 0..Waiting
      BY <1>1, <1>5
    <2> QED BY <1>2, <1>9, <2>1
  <1>12. \A j \in Waiting'..(RXSIZE - 1) : rx_ring'[Place(rxnum', j)] = <<"empty">>
    BY <1>2, <1>5, <1>10
  <1>13. rxdma' = Place(rxnum', Waiting')
    BY <1>2, <1>5, <1>6
  <1> HIDE DEF RingInv
  <1>14. rxnum' \in Slots /\ taken' \in Seq(Frames) /\ \A k \in 1..Len(taken') : taken'[k] = stored'[k]
    BY <1>2, <1>8 DEF RingInv
  <1>15. RingInv'
    BY <1>4, <1>5, <1>6, <1>7, <1>11, <1>12, <1>13, <1>14, Zenon DEF RingInv, Place
  <1> QED BY <1>2, <1>3, <1>15

\* check_rx and loop take the frame that waits longest.
LEMMA TakeKeepsRing ==
  ASSUME RingInv, rx_ring[rxnum] # <<"empty">>, FreeDescriptor
  PROVE  /\ RingInv'
         /\ stored' = stored /\ Len(taken') = Len(taken) + 1
         /\ rx_ring[rxnum] \in Frames
  <1> USE DEF RingInv
  <1>1. /\ RXSIZE \in Nat \ {0} /\ Len(stored) \in Nat /\ Len(taken) \in Nat
        /\ Waiting \in 0..RXSIZE /\ Len(stored) = Len(taken) + Waiting
    BY ConstantsAreNat DEF Waiting
  <1>2. /\ rx_ring' = [rx_ring EXCEPT ![rxnum] = <<"empty">>]
        /\ taken' = Append(taken, rx_ring[rxnum])
        /\ rxnum' = IF rxnum < RXSIZE - 1 THEN rxnum + 1 ELSE 0
        /\ rxdma' = rxdma /\ stored' = stored
    BY DEF FreeDescriptor, NextRx
  <1>3. Place(rxnum, 0) = rxnum /\ rxnum' = Place(rxnum, 1) /\ rxnum' \in Slots
    <2>1. 1 \in 0..RXSIZE
      BY <1>1
    <2> QED BY <1>2, <2>1, NextPlace, Places
  <1>4. Waiting > 0
    <2>1. SUFFICES ASSUME Waiting = 0 PROVE FALSE
      BY <1>1
    <2>2. 0 \in Waiting..(RXSIZE - 1)
      BY <1>1, <2>1
    <2> QED BY <1>3, <2>2
  <1>5. rx_ring[rxnum] = stored[Len(taken) + 1] /\ rx_ring[rxnum] \in Frames
    <2>1. rx_ring[Place(rxnum, 0)] = stored[Len(taken) + 0 + 1]
      BY <1>1, <1>4
    <2>2. Len(taken) + 0 + 1 = Len(taken) + 1 /\ Len(taken) + 1 \in 1..Len(stored)
      BY <1>1, <1>4
    <2>3. stored[Len(taken) + 1] \in Frames
      BY <2>2
    <2> QED BY <1>3, <2>1, <2>2, <2>3
  <1>6. /\ taken' \in Seq(Frames) /\ Len(taken') = Len(taken) + 1
        /\ \A k \in 1..Len(taken) : taken'[k] = taken[k]
        /\ taken'[Len(taken) + 1] = stored[Len(taken) + 1]
    BY <1>2, <1>5
  <1>7. Waiting' = Waiting - 1 /\ Waiting' \in 0..RXSIZE
    BY <1>1, <1>2, <1>4, <1>6 DEF Waiting
  <1>8. \A k \in 1..Len(taken') : taken'[k] = stored'[k]
    BY <1>1, <1>2, <1>6
  <1>9. ASSUME NEW j \in 0..(RXSIZE - 1)
        PROVE  rx_ring'[Place(rxnum', j)] =
                 IF j = RXSIZE - 1 THEN <<"empty">> ELSE rx_ring[Place(rxnum, j + 1)]
    <2>1. Place(rxnum', j) = Place(rxnum, j + 1) /\ Place(rxnum, j + 1) \in Slots
      <3>1. j + 1 \in 0..RXSIZE
        BY <1>1
      <3> QED BY <1>3, <3>1, NextPlace, Places
    <2>2. CASE j = RXSIZE - 1
      <3>1. Place(rxnum, j + 1) = rxnum
        BY <1>1, <2>2, NextPlace
      <3> QED BY <1>2, <2>1, <2>2, <3>1
    <2>3. CASE j # RXSIZE - 1
      <3>1. j + 1 \in 0..(RXSIZE - 1) /\ 0 \in 0..(RXSIZE - 1) /\ 0 < j + 1
        BY <1>1, <2>3
      <3>2. Place(rxnum, j + 1) # rxnum
        BY <1>3, <3>1, PlacesDiffer
      <3> QED BY <1>2, <2>1, <2>3, <3>2
    <2> QED BY <2>2, <2>3
  <1>10. ASSUME NEW j \in 0..(Waiting' - 1)
         PROVE  rx_ring'[Place(rxnum', j)] = stored'[Len(taken') + j + 1]
    <2>1. /\ j \in 0..(RXSIZE - 1) /\ j # RXSIZE - 1 /\ j + 1 \in 0..(Waiting - 1)
          /\ Len(taken) + (j + 1) + 1 = Len(taken') + j + 1
      BY <1>1, <1>6, <1>7
    <2>2. rx_ring[Place(rxnum, j + 1)] = stored[Len(taken) + (j + 1) + 1]
      BY <2>1
    <2> QED BY <1>2, <1>9, <2>1, <2>2
  <1>11. ASSUME NEW j \in Waiting'..(RXSIZE - 1)
         PROVE  rx_ring'[Place(rxnum', j)] = <<"empty">>
    <2>1. j \in 0..(RXSIZE - 1)
      BY <1>1, <1>7
    <2>2. CASE j = RXSIZE - 1
      BY <1>9, <2>1, <2>2
    <2>3. CASE j # RXSIZE - 1
      <3>1. j + 1 \in Waiting..(RXSIZE - 1)
        BY <1>1, <1>7, <2>3
      <3> QED BY <1>9, <2>1, <2>3, <3>1
    <2> QED BY <2>2, <2>3
  <1>12. rxdma' = Place(rxnum', Waiting')
    <2>1. Waiting' \in 0..(RXSIZE - 1) /\ Waiting' + 1 = Waiting
      BY <1>1, <1>4, <1>7
    <2>2. Place(Place(rxnum, 1), Waiting') = Place(rxnum, Waiting' + 1)
      BY <2>1, NextPlace
    <2> QED BY <1>2, <1>3, <2>1, <2>2
  <1>13. rx_ring' \in [Slots -> Frames \cup {<<"empty">>}] /\ rxdma' \in Slots /\ stored' \in Seq(Frames)
    BY <1>2
  <1> HIDE DEF RingInv
  <1>14. RingInv'
    BY <1>3, <1>6, <1>7, <1>8, <1>10, <1>11, <1>12, <1>13, Zenon DEF RingInv, Place
  <1> QED BY <1>2, <1>5, <1>6, <1>14

\* The ring's invariant is FramesInOrder.
LEMMA RingInOrder ==
  ASSUME RingInv
  PROVE  FramesInOrder
  <1> DEFINE n == Len(stored) - Len(taken)
             rest == [j \in 1..n |-> rx_ring[(rxnum + j - 1) % RXSIZE]]
  <1> USE DEF RingInv
  <1>1. /\ RXSIZE \in Nat \ {0} /\ Len(stored) \in Nat /\ Len(taken) \in Nat
        /\ n \in 0..RXSIZE /\ n = Waiting /\ rxnum \in Nat
    BY ConstantsAreNat DEF Waiting, Slots
  <1>2. ASSUME NEW j \in 1..n
        PROVE  rx_ring[(rxnum + j - 1) % RXSIZE] = stored[Len(taken) + j]
    <2>1. j - 1 \in 0..(Waiting - 1) /\ Len(taken) + (j - 1) + 1 = Len(taken) + j
          /\ rxnum + (j - 1) = rxnum + j - 1
      BY <1>1
    <2>2. rx_ring[Place(rxnum, j - 1)] = stored[Len(taken) + (j - 1) + 1]
      BY <2>1
    <2> QED BY <2>1, <2>2 DEF Place
  <1>3. rest = [j \in 1..n |-> stored[Len(taken) + j]]
    BY <1>2, Zenon
  <1> HIDE DEF rest, n
  <1>4. rest \in Seq(Frames) /\ Len(rest) = n
    BY <1>1, <1>3 DEF n
  <1>5. ASSUME NEW k \in 1..Len(stored)
        PROVE  (taken \o rest)[k] = stored[k]
    <2>1. CASE k <= Len(taken)
      BY <1>1, <1>4, <2>1 DEF n
    <2>2. CASE k > Len(taken)
      <3>1. k - Len(taken) \in 1..n /\ Len(taken) + (k - Len(taken)) = k
        BY <1>1, <2>2 DEF n
      <3>2. rest[k - Len(taken)] = stored[k]
        BY <1>3, <3>1
      <3> QED BY <1>1, <1>4, <2>2, <3>1, <3>2 DEF n
    <2>3. k <= Len(taken) \/ k > Len(taken)
      BY <1>1
    <2> QED BY <2>1, <2>2, <2>3, Zenon
  <1>6. taken \o rest = stored
    <2>1. taken \o rest \in Seq(Frames) /\ Len(taken \o rest) = Len(stored)
      BY <1>1, <1>4 DEF n
    <2> QED BY <1>5, <2>1, SeqEqual
  <1>7. \A j \in n..(RXSIZE - 1) : rx_ring[(rxnum + j) % RXSIZE] = <<"empty">>
    BY <1>1 DEF Place
  <1> HIDE DEF RingInv
  <1> QED BY <1>1, <1>6, <1>7, Zenon DEF FramesInOrder, n, rest
-----------------------------------------------------------------------------
\* The numbers of the packets in the transmit ring, and of the answers stored.
Packets(t) == {n \in Nat : \E i \in 1..Len(t) : t[i] = Packet(n)}
Numbers(s) == {n \in Nat \ {0} : \E i \in 1..Len(s) : s[i] = Answer(n)}

\* No packet is twice in the transmit ring.
SentOnce(t) ==
  \A i, j \in 1..Len(t) : \A n \in Nat : t[i] = Packet(n) /\ t[j] = Packet(n) => i = j

\* A packet is on its way out, or the server is going to answer it, or its answer
\* has been stored; whatever else was stored came from other hosts.
TrafficInv ==
  /\ sent \in Nat /\ strays \in Nat
  /\ tx \in Seq(OutFrames)
  /\ SentOnce(tx)
  /\ Packets(tx) \subseteq 1..sent /\ answers \subseteq 1..sent
  /\ Numbers(stored) \subseteq 1..sent
  /\ Packets(tx) \cap answers = {}
  /\ Numbers(stored) \cap (Packets(tx) \cup answers) = {}
  /\ Len(stored) = strays + Cardinality(Numbers(stored))

\* A client has at most its window outstanding: an answer it has counted was taken
\* from the ring and is not in UDP_buff any more.
ClientInv ==
  /\ acks \in Nat
  /\ pc \in {"send", "wait", "delay", "loop"}
  /\ pc = "delay" => sketch = "udp_ntp"
  /\ sent <= acks + Window
  /\ pc \in {"send", "delay"} => sent < acks + Window
  /\ acks <= Len(taken)
  /\ UDP_buff # <<"none">> => acks < Len(taken)

LEMMA OutFrameFields ==
  ASSUME NEW f \in OutFrames
  PROVE  /\ f[1] = "pkt" => f[2] \in Nat /\ f = Packet(f[2])
         /\ \A n \in Nat : f = Packet(n) => f[1] = "pkt" /\ f[2] = n
  <1>1. ASSUME NEW n \in Nat PROVE Packet(n)[1] = "pkt" /\ Packet(n)[2] = n
    BY DEF Packet
  <1>2. CASE f = <<"arp">> \/ f = <<"pong">>
    <2>1. f[1] # "pkt"
      BY <1>2
    <2> QED BY <1>1, <2>1
  <1>3. CASE f \in {Packet(n) : n \in Nat}
    BY <1>1, <1>3
  <1> QED BY <1>2, <1>3 DEF OutFrames

\* The numbers of packets are those of the sequence without its head, and the
\* head's.
LEMMA PacketsOfTail ==
  ASSUME NEW t \in Seq(OutFrames), t # <<>>, SentOnce(t)
  PROVE  /\ Tail(t) \in Seq(OutFrames)
         /\ Head(t)[1] = "pkt" => Head(t)[2] \in Packets(t) /\ Head(t)[2] \notin Packets(Tail(t))
         /\ Packets(Tail(t)) \subseteq Packets(t)
         /\ SentOnce(Tail(t))
  <1>1. /\ Head(t) \in OutFrames /\ Tail(t) \in Seq(OutFrames) /\ Head(t) = t[1]
        /\ Len(t) \in Nat \ {0} /\ Len(Tail(t)) = Len(t) - 1
        /\ \A i \in 1..Len(Tail(t)) : Tail(t)[i] = t[i + 1]
    BY HeadTailProperties
  <1>2. ASSUME NEW i \in 1..Len(Tail(t)) PROVE i + 1 \in 1..Len(t) /\ i + 1 # 1 /\ Tail(t)[i] = t[i + 1]
    BY <1>1
  <1>3. Packets(Tail(t)) \subseteq Packets(t)
    BY <1>2 DEF Packets
  <1>4. ASSUME Head(t)[1] = "pkt"
        PROVE  Head(t)[2] \in Packets(t) /\ Head(t)[2] \notin Packets(Tail(t))
    <2>1. Head(t)[2] \in Nat /\ t[1] = Packet(Head(t)[2]) /\ 1 \in 1..Len(t)
      BY <1>1, <1>4, OutFrameFields
    <2> QED BY <1>2, <2>1 DEF Packets, SentOnce
  <1>5. ASSUME NEW i \in 1..Len(Tail(t)), NEW j \in 1..Len(Tail(t)), NEW n \in Nat,
               Tail(t)[i] = Packet(n), Tail(t)[j] = Packet(n)
        PROVE  i = j
    <2>1. i + 1 = j + 1
      BY <1>2, <1>5 DEF SentOnce
    <2> QED BY <2>1, <1>1
  <1>6. SentOnce(Tail(t))
    BY <1>5 DEF SentOnce
  <1> QED BY <1>1, <1>3, <1>4, <1>6

\* outgoing adds its frame.
LEMMA PacketsOfAppend ==
  ASSUME NEW t \in Seq(OutFrames), NEW f \in OutFrames, NEW m \in Nat,
         Packets(t) \subseteq 1..m, f[1] = "pkt" => f[2] = m + 1, SentOnce(t)
  PROVE  /\ Append(t, f) \in Seq(OutFrames)
         /\ Packets(Append(t, f)) \subseteq Packets(t) \cup (IF f[1] = "pkt" THEN {m + 1} ELSE {})
         /\ SentOnce(Append(t, f))
  <1> DEFINE u == Append(t, f)
  <1>1. /\ u \in Seq(OutFrames) /\ Len(t) \in Nat /\ Len(u) = Len(t) + 1
        /\ \A i \in 1..Len(t) : u[i] = t[i]
        /\ u[Len(t) + 1] = f
    BY AppendProperties
  <1> HIDE DEF u
  <1>2. ASSUME NEW i \in 1..Len(u), NEW n \in Nat, u[i] = Packet(n)
        PROVE  \/ i \in 1..Len(t) /\ t[i] = Packet(n) /\ n \in Packets(t)
               \/ i = Len(t) + 1 /\ f[1] = "pkt" /\ n = m + 1
    <2>1. CASE i = Len(t) + 1
      <3>1. f = Packet(n)
        BY <1>1, <1>2, <2>1
      <3> QED BY <2>1, <3>1, OutFrameFields
    <2>2. CASE i \in 1..Len(t)
      BY <1>1, <1>2, <2>2 DEF Packets
    <2> QED BY <1>1, <2>1, <2>2
  <1>3. m + 1 \notin Packets(t)
    <2>1. m + 1 \notin 1..m
      OBVIOUS
    <2> QED BY <2>1
  <1>4. Packets(u) \subseteq Packets(t) \cup (IF f[1] = "pkt" THEN {m + 1} ELSE {})
    BY <1>2 DEF Packets
  <1>5. ASSUME NEW i \in 1..Len(u), NEW j \in 1..Len(u), NEW n \in Nat,
               u[i] = Packet(n), u[j] = Packet(n)
        PROVE  i = j
    <2>1. CASE n = m + 1
      BY <1>2, <1>3, <1>5, <2>1
    <2>2. CASE n # m + 1
      BY <1>2, <1>5, <2>2 DEF SentOnce
    <2> QED BY <2>1, <2>2
  <1>6. SentOnce(u)
    BY <1>5 DEF SentOnce
  <1> QED BY <1>1, <1>4, <1>6 DEF u

\* There are no more answers than packets.
LEMMA NumbersCount ==
  ASSUME NEW s, NEW m \in Nat, Numbers(s) \subseteq 1..m
  PROVE  /\ IsFiniteSet(Numbers(s)) /\ Cardinality(Numbers(s)) \in Nat
         /\ Cardinality(Numbers(s)) <= m
  <1>1. IsFiniteSet(1..m) /\ Cardinality(1..m) <= m
    <2>1. IsFiniteSet(1..m) /\ Cardinality(1..m) = IF 1 > m THEN 0 ELSE m - 1 + 1
      BY FS_Interval
    <2> QED BY <2>1
  <1>2. IsFiniteSet(Numbers(s)) /\ Cardinality(Numbers(s)) <= Cardinality(1..m)
    BY <1>1, FS_Subset
  <1>3. Cardinality(Numbers(s)) \in Nat /\ Cardinality(1..m) \in Nat
    BY <1>1, <1>2, FS_CardinalityType
  <1> QED BY <1>1, <1>2, <1>3

\* Storing a frame counts an answer or a frame of another host.
LEMMA NumbersOfAppend ==
  ASSUME NEW s \in Seq(Frames), NEW f \in Frames
  PROVE  /\ \A n \in Nat \ {0} : f = Answer(n) => Numbers(Append(s, f)) = Numbers(s) \cup {n}
         /\ (\A n \in Nat \ {0} : f # Answer(n)) => Numbers(Append(s, f)) = Numbers(s)
  <1> DEFINE u == Append(s, f)
  <1>1. /\ u \in Seq(Frames) /\ Len(s) \in Nat /\ Len(u) = Len(s) + 1
        /\ \A i \in 1..Len(s) : u[i] = s[i]
        /\ u[Len(s) + 1] = f
    BY AppendProperties
  <1> HIDE DEF u
  <1>2. ASSUME NEW n \in Nat \ {0}
        PROVE  n \in Numbers(u) <=> n \in Numbers(s) \/ f = Answer(n)
    <2>1. 1..Len(u) = (1..Len(s)) \cup {Len(s) + 1}
      BY <1>1
    <2> QED BY <1>1, <2>1 DEF Numbers
  <1>3. Numbers(u) \subseteq Nat \ {0} /\ Numbers(s) \subseteq Nat \ {0}
    BY DEF Numbers
  <1>4. ASSUME NEW n \in Nat \ {0}, NEW k \in Nat \ {0}, Answer(n) = Answer(k) PROVE n = k
    BY <1>4 DEF Answer
  <1>5. ASSUME NEW n \in Nat \ {0}, f = Answer(n) PROVE Numbers(u) = Numbers(s) \cup {n}
    BY <1>2, <1>3, <1>4, <1>5
  <1>6. ASSUME \A n \in Nat \ {0} : f # Answer(n) PROVE Numbers(u) = Numbers(s)
    BY <1>2, <1>3, <1>6
  <1> QED BY <1>5, <1>6 DEF u
-----------------------------------------------------------------------------
\* The inductive invariant of the sketch.
SketchInv == RingInv /\ TrafficInv /\ ClientInv /\ OnlyOthersStopReceiver

LEMMA SketchInit == EtherRawInit => SketchInv
  <1> SUFFICES ASSUME EtherRawInit PROVE SketchInv
    OBVIOUS
  <1>1. /\ rx_ring = [i \in Slots |-> <<"empty">>] /\ rxnum = 0 /\ rxdma = 0 /\ RDAR = TRUE
        /\ tx = <<<<"arp">>>> /\ UDP_buff = <<"none">> /\ pc = "send"
        /\ sent = 0 /\ acks = 0 /\ answers = {} /\ stored = <<>> /\ taken = <<>> /\ strays = 0
    BY DEF EtherRawInit
  <1>2. RXSIZE \in Nat \ {0} /\ 0 \in Slots /\ Waiting = 0
    BY <1>1, ConstantsAreNat DEF Waiting, Slots
  <1>3. RingInv
    <2>1. \A j \in 0..(RXSIZE - 1) : rx_ring[Place(rxnum, j)] = <<"empty">>
      <3> SUFFICES ASSUME NEW j \in 0..(RXSIZE - 1)
                   PROVE  rx_ring[Place(rxnum, j)] = <<"empty">>
        OBVIOUS
      <3>1. rxnum \in Slots /\ j \in 0..RXSIZE
        BY <1>1, <1>2
      <3>2. Place(rxnum, j) \in Slots
        BY <3>1, Places
      <3> QED BY <1>1, <3>2
    <2>2. Place(rxnum, Waiting) = rxdma
      BY <1>1, <1>2, NextPlace
    <2>3. rx_ring \in [Slots -> Frames \cup {<<"empty">>}]
      BY <1>1
    <2> QED BY <1>1, <1>2, <2>1, <2>2, <2>3 DEF RingInv
  <1>4. TrafficInv
    <2>1. tx \in Seq(OutFrames) /\ Len(tx) = 1 /\ tx[1] = <<"arp">>
      BY <1>1 DEF OutFrames
    <2>2. Packets(tx) = {} /\ SentOnce(tx)
      BY <2>1 DEF Packets, Packet, SentOnce
    <2>3. Numbers(stored) = {} /\ Len(stored) = 0
      BY <1>1 DEF Numbers
    <2>4. Cardinality(Numbers(stored)) = 0
      BY <2>3, FS_EmptySet
    <2> QED BY <1>1, <2>1, <2>2, <2>3, <2>4 DEF TrafficInv
  <1>5. ClientInv
    BY <1>1, ConstantsAreNat DEF ClientInv, Window
  <1> QED BY <1>1, <1>3, <1>4, <1>5 DEF SketchInv, OnlyOthersStopReceiver

\* An answer of the server or a frame of another host is stored.
LEMMA StoreSteps ==
  ASSUME SketchInv, ServerAnswers \/ OtherHosts
  PROVE  SketchInv'
  <1> USE DEF SketchInv
  <1>1. /\ sent \in Nat /\ strays \in Nat /\ answers \subseteq 1..sent
        /\ Numbers(stored) \subseteq 1..sent /\ stored \in Seq(Frames)
        /\ Len(stored) = strays + Cardinality(Numbers(stored))
    BY DEF TrafficInv, RingInv
  <1>2. CASE ServerAnswers
    <2>1. PICK n \in answers : Store(Answer(n)) /\ answers' = answers \ {n}
      BY <1>2 DEF ServerAnswers
    <2>2. UNCHANGED <<tx, UDP_buff, sketch, pc, sent, acks, strays>>
      BY <1>2 DEF ServerAnswers
    <2>3. n \in Nat \ {0} /\ n \in 1..sent /\ Answer(n) \in Frames /\ n \notin Numbers(stored)
      <3>1. n \in 1..sent /\ n \in Nat \ {0}
        BY <1>1
      <3>2. n \notin Numbers(stored)
        BY DEF TrafficInv
      <3> QED BY <3>1, <3>2 DEF Frames, Answer
    <2>4. RingInv' /\ stored' = Append(stored, Answer(n)) /\ taken' = taken
      BY <2>1, <2>3, StoreKeepsRing, SMTT(30)
    <2>5. Numbers(stored') = Numbers(stored) \cup {n} /\ IsFiniteSet(Numbers(stored))
          /\ Cardinality(Numbers(stored)) \in Nat
      BY <1>1, <2>3, <2>4, NumbersOfAppend, NumbersCount
    <2>6. Cardinality(Numbers(stored')) = Cardinality(Numbers(stored)) + 1
      BY <2>3, <2>5, FS_AddElement
    <2>7. Len(stored') = Len(stored) + 1
      BY <1>1, <2>3, <2>4, AppendProperties
    <2>8. TrafficInv'
      <3>1. Numbers(stored') \subseteq 1..sent'
        BY <1>1, <2>2, <2>3, <2>5
      <3>2. n \notin Packets(tx)
        BY DEF TrafficInv
      <3>3. /\ answers' \subseteq 1..sent' /\ Packets(tx') \cap answers' = {}
            /\ Numbers(stored') \cap (Packets(tx') \cup answers') = {}
        BY <1>1, <2>1, <2>2, <2>5, <3>2 DEF TrafficInv
      <3>4. Len(stored') = strays' + Cardinality(Numbers(stored'))
        BY <1>1, <2>2, <2>5, <2>6, <2>7
      <3> QED BY <2>2, <3>1, <3>3, <3>4 DEF TrafficInv
    <2>9. RDAR' = RDAR
      BY <2>1 DEF Store
    <2> QED BY <2>2, <2>4, <2>8, <2>9 DEF ClientInv, OnlyOthersStopReceiver, Window
  <1>3. CASE OtherHosts
    <2>1. PICK kind \in Strays : Store(<<kind, 0>>)
      BY <1>3 DEF OtherHosts
    <2>2. UNCHANGED <<tx, UDP_buff, sketch, pc, sent, acks, answers>> /\ strays' = strays + 1
      BY <1>3 DEF OtherHosts
    <2>3. <<kind, 0>> \in Frames /\ \A n \in Nat \ {0} : <<kind, 0>> # Answer(n)
      BY DEF Frames, Answer
    <2>4. RingInv' /\ stored' = Append(stored, <<kind, 0>>) /\ taken' = taken
      BY <2>1, <2>3, StoreKeepsRing
    <2>5. Numbers(stored') = Numbers(stored) /\ Cardinality(Numbers(stored)) \in Nat
      BY <1>1, <2>3, <2>4, NumbersOfAppend, NumbersCount
    <2>7. Len(stored') = Len(stored) + 1
      BY <1>1, <2>3, <2>4, AppendProperties
    <2>8. TrafficInv'
      BY <1>1, <2>2, <2>5, <2>7 DEF TrafficInv
    <2>9. RDAR' = RDAR
      BY <2>1 DEF Store
    <2>10. OnlyOthersStopReceiver'
      BY <1>1, <2>2, <2>9, ConstantsAreNat DEF OnlyOthersStopReceiver, Window
    <2> QED BY <2>2, <2>4, <2>8, <2>10 DEF ClientInv, Window
  <1> QED BY <1>2, <1>3

\* The ring's invariant is about the ring alone.
LEMMA RingUnchanged ==
  ASSUME RingInv, UNCHANGED <<rx_ring, rxnum, rxdma, stored, taken>>
  PROVE  RingInv'
  BY Zenon DEF RingInv, Waiting

\* The DMA stops at a full ring: what the window leaves of it came from others.
LEMMA StopStep ==
  ASSUME SketchInv, DmaStops
  PROVE  SketchInv'
  <1> USE DEF SketchInv
  <1>1. /\ rx_ring[rxdma] # <<"empty">>
        /\ UNCHANGED <<rx_ring, rxnum, rxdma, tx, UDP_buff, sketch, pc, sent, acks, answers,
                       stored, taken, strays>>
    BY DEF DmaStops
  <1>2. Waiting \in 0..RXSIZE /\ rxdma = Place(rxnum, Waiting) /\ RXSIZE \in Nat \ {0}
    BY ConstantsAreNat DEF RingInv
  <1>3. Waiting = RXSIZE
    <2>1. SUFFICES ASSUME Waiting # RXSIZE PROVE FALSE
      OBVIOUS
    <2>2. Waiting \in Waiting..(RXSIZE - 1)
      BY <1>2, <2>1
    <2> QED BY <1>1, <1>2, <2>2 DEF RingInv
  <1>4. /\ sent \in Nat /\ strays \in Nat /\ acks \in Nat /\ sent <= acks + Window
        /\ acks <= Len(taken) /\ Len(stored) = strays + Cardinality(Numbers(stored))
        /\ Window \in Nat /\ Len(taken) \in Nat /\ Len(stored) \in Nat
    BY ConstantsAreNat DEF TrafficInv, ClientInv, Window, RingInv
  <1>5. Cardinality(Numbers(stored)) \in Nat /\ Cardinality(Numbers(stored)) <= sent
    <2>1. Numbers(stored) \subseteq 1..sent
      BY DEF TrafficInv
    <2> QED BY <1>4, <2>1, NumbersCount
  <1>6. strays >= RXSIZE - Window
    BY <1>2, <1>3, <1>4, <1>5 DEF Waiting
  <1>7. OnlyOthersStopReceiver'
    BY <1>1, <1>6 DEF OnlyOthersStopReceiver, Window
  <1>8. RingInv' /\ TrafficInv' /\ ClientInv'
    BY <1>1, RingUnchanged DEF TrafficInv, ClientInv, Window
  <1> QED BY <1>7, <1>8

\* A packet leaves the transmit ring and reaches the server.
LEMMA SendStep ==
  ASSUME SketchInv, DmaSends
  PROVE  SketchInv'
  <1> USE DEF SketchInv
  <1>1. /\ tx # <<>> /\ tx' = Tail(tx)
        /\ answers' = IF Head(tx)[1] = "pkt" THEN answers \cup {Head(tx)[2]} ELSE answers
        /\ UNCHANGED <<rings, UDP_buff, sketch, pc, sent, acks, strays>>
    BY DEF DmaSends
  <1>2. UNCHANGED <<rx_ring, rxnum, rxdma, RDAR, stored, taken>>
    BY <1>1 DEF rings
  <1>3. /\ tx \in Seq(OutFrames)
        /\ SentOnce(tx)
    BY DEF TrafficInv
  <1>4. /\ tx' \in Seq(OutFrames)
        /\ Head(tx)[1] = "pkt" => Head(tx)[2] \in Packets(tx) /\ Head(tx)[2] \notin Packets(tx')
        /\ Packets(tx') \subseteq Packets(tx)
        /\ SentOnce(tx')
    BY <1>1, <1>3, PacketsOfTail
  <1>5. TrafficInv'
    <2>1. /\ answers' \subseteq answers \cup Packets(tx)
          /\ Packets(tx') \cap answers' = {}
      BY <1>1, <1>4 DEF TrafficInv
    <2>2. Numbers(stored') \cap (Packets(tx') \cup answers') = {}
      BY <1>2, <1>4, <2>1 DEF TrafficInv
    <2>3. Packets(tx') \subseteq 1..sent' /\ answers' \subseteq 1..sent'
      BY <1>1, <1>4, <2>1 DEF TrafficInv
    <2>4. sent' = sent /\ strays' = strays /\ stored' = stored
      BY <1>1, <1>2
    <2> QED BY <1>4, <2>1, <2>2, <2>3, <2>4, Zenon DEF TrafficInv
  <1>6. RingInv'
    BY <1>2, RingUnchanged
  <1> QED BY <1>1, <1>2, <1>5, <1>6 DEF ClientInv, OnlyOthersStopReceiver, Window

\* What outgoing does to the traffic; m is the packet's number.
LEMMA OutgoingKeepsTraffic ==
  ASSUME TrafficInv, stored' = stored, strays' = strays, answers' = answers,
         NEW f \in OutFrames, outgoing(f),
         f[1] = "pkt" => f[2] = sent + 1 /\ sent' = sent + 1,
         f[1] # "pkt" => sent' = sent
  PROVE  TrafficInv'
  <1>1. /\ tx \in Seq(OutFrames) /\ sent \in Nat /\ Packets(tx) \subseteq 1..sent
        /\ SentOnce(tx)
    BY DEF TrafficInv
  <1>2. tx' = Append(tx, f)
    BY DEF outgoing
  <1>3. /\ tx' \in Seq(OutFrames)
        /\ Packets(tx') \subseteq Packets(tx) \cup (IF f[1] = "pkt" THEN {sent + 1} ELSE {})
        /\ SentOnce(tx')
    BY <1>1, <1>2, PacketsOfAppend
  <1>4. /\ sent' \in Nat /\ 1..sent \subseteq 1..sent' /\ sent + 1 \notin 1..sent
        /\ f[1] = "pkt" => sent + 1 \in 1..sent'
    BY <1>1
  <1>5. /\ Packets(tx') \subseteq 1..sent' /\ answers' \subseteq 1..sent'
        /\ Numbers(stored') \subseteq 1..sent'
    BY <1>3, <1>4 DEF TrafficInv
  <1>6. Packets(tx') \cap answers' = {} /\ Numbers(stored') \cap (Packets(tx') \cup answers') = {}
    BY <1>3, <1>4 DEF TrafficInv
  <1>7. strays' \in Nat /\ Len(stored') = strays' + Cardinality(Numbers(stored'))
    BY DEF TrafficInv
  <1> QED BY <1>3, <1>4, <1>5, <1>6, <1>7, Zenon DEF TrafficInv

\* check_rx and loop take a frame and may send a reply.
LEMMA TakeSteps ==
  ASSUME SketchInv, check_rx \/ loop
  PROVE  SketchInv'
  <1> USE DEF SketchInv
  <1>1. /\ rx_ring[rxnum] # <<"empty">> /\ FreeDescriptor /\ Reply(rx_ring[rxnum])
        /\ UNCHANGED <<sketch, pc, sent, acks, answers, strays>>
    BY SMTT(30) DEF check_rx, loop, handle_frame, incoming
  <1>2. /\ RingInv' /\ stored' = stored /\ Len(taken') = Len(taken) + 1 /\ RDAR' = RDAR
        /\ Len(taken) \in Nat
    BY <1>1, TakeKeepsRing DEF FreeDescriptor, RingInv
  <1>3. TrafficInv'
    <2>1. CASE UNCHANGED tx
      BY <1>1, <1>2, <2>1 DEF TrafficInv
    <2>2. CASE outgoing(<<"pong">>) \/ outgoing(<<"arp">>)
      <3>1. PICK f \in {<<"pong">>, <<"arp">>} : outgoing(f)
        BY <2>2
      <3>2. f \in OutFrames /\ f[1] # "pkt"
        BY DEF OutFrames
      <3> QED BY <1>1, <1>2, <3>1, <3>2, OutgoingKeepsTraffic
    <2> QED BY <1>1, <2>1, <2>2 DEF Reply
  <1>4. ClientInv'
    BY <1>1, <1>2 DEF ClientInv, Window
  <1> QED BY <1>1, <1>2, <1>3, <1>4 DEF OnlyOthersStopReceiver, Window

\* The steps of the client between its polls.
LEMMA ClientSteps ==
  ASSUME SketchInv, sendto \/ recvfrom \/ DelayOver
  PROVE  SketchInv'
  <1> USE DEF SketchInv
  <1>1. /\ UNCHANGED <<rx_ring, rxnum, rxdma, RDAR, stored, taken, sketch, answers, strays>>
    BY DEF sendto, recvfrom, DelayOver, rings
  <1>2. RingInv' /\ OnlyOthersStopReceiver'
    BY <1>1, RingUnchanged DEF OnlyOthersStopReceiver, Window
  <1>3. /\ sent \in Nat /\ acks \in Nat /\ Len(taken) \in Nat /\ Window \in Nat \ {0}
        /\ Window' = Window
    BY <1>1, ConstantsAreNat DEF TrafficInv, ClientInv, RingInv, Window
  <1>4. CASE sendto
    <2>1. /\ pc = "send" /\ outgoing(<<"pkt", sent + 1>>) /\ sent' = sent + 1
          /\ pc' = IF sent + 1 < Window THEN "send" ELSE "wait"
          /\ UDP_buff' = UDP_buff /\ acks' = acks
      BY <1>4 DEF sendto
    <2>2. /\ <<"pkt", sent + 1>> \in OutFrames
          /\ <<"pkt", sent + 1>>[1] = "pkt" /\ <<"pkt", sent + 1>>[2] = sent + 1
      BY <1>3 DEF OutFrames, Packet
    <2>3. TrafficInv'
      BY <1>1, <2>1, <2>2, OutgoingKeepsTraffic
    <2>4. ClientInv'
      BY <1>1, <1>3, <2>1 DEF ClientInv
    <2> QED BY <1>2, <2>3, <2>4
  <1>5. CASE recvfrom
    <2>1. /\ pc = "wait" /\ UDP_buff # <<"none">> /\ UDP_buff' = <<"none">> /\ acks' = acks + 1
          /\ pc' = IF sketch = "udp_ntp" THEN "delay" ELSE Continue(acks + 1)
          /\ tx' = tx /\ sent' = sent
      BY <1>5 DEF recvfrom
    <2>2. TrafficInv'
      BY <1>1, <2>1 DEF TrafficInv
    <2>3. ClientInv'
      BY <1>1, <1>3, <2>1 DEF ClientInv, Continue
    <2> QED BY <1>2, <2>2, <2>3
  <1>6. CASE DelayOver
    <2>1. /\ pc = "delay" /\ pc' = Continue(acks)
          /\ tx' = tx /\ UDP_buff' = UDP_buff /\ sent' = sent /\ acks' = acks
      BY <1>6 DEF DelayOver
    <2>2. TrafficInv'
      BY <1>1, <2>1 DEF TrafficInv
    <2>3. ClientInv'
      BY <1>1, <1>3, <2>1 DEF ClientInv, Continue
    <2> QED BY <1>2, <2>2, <2>3
  <1> QED BY <1>4, <1>5, <1>6

LEMMA SketchStep == SketchInv /\ [EtherRawNext]_vars => SketchInv'
  <1> SUFFICES ASSUME SketchInv, [EtherRawNext]_vars PROVE SketchInv'
    OBVIOUS
  <1>1. CASE UNCHANGED vars
    <2>1. /\ UNCHANGED <<rx_ring, rxnum, rxdma, stored, taken>>
          /\ UNCHANGED <<RDAR, tx, UDP_buff, sketch, pc, sent, acks, answers, strays>>
      BY <1>1 DEF vars
    <2> QED BY <2>1, RingUnchanged
            DEF SketchInv, TrafficInv, ClientInv, OnlyOthersStopReceiver, Window
  <1> QED BY <1>1, StoreSteps, StopStep, SendStep, TakeSteps, ClientSteps DEF EtherRawNext

LEMMA SketchInvariant == EtherRawSpec => []SketchInv
  BY SketchInit, SketchStep, PTL DEF EtherRawSpec
-----------------------------------------------------------------------------
\* check_rx and loop take the frames in the order in which the DMA stored them,
\* each one once, although the two sides share only the descriptors' flags.
THEOREM ReceivedInOrder == EtherRawSpec => []FramesInOrder
  <1>1. SketchInv => FramesInOrder
    BY RingInOrder DEF SketchInv
  <1> QED BY <1>1, SketchInvariant, PTL

\* The answers to a client's own packets never stop the receiver.
THEOREM OwnAnswersFit == EtherRawSpec => []OnlyOthersStopReceiver
  <1>1. SketchInv => OnlyOthersStopReceiver
    BY DEF SketchInv
  <1> QED BY <1>1, SketchInvariant, PTL

\* udp_echo and udp_tcp never lose a packet that check_rx put in UDP_buff.
THEOREM NoPacketOverwritten == EtherRawSpec => UdpNotOverwritten
  <1>1. SketchInv /\ [EtherRawNext]_vars =>
          [sketch # "udp_ntp" /\ UDP_buff # <<"none">> => UDP_buff' \in {UDP_buff, <<"none">>}]_vars
    <2> SUFFICES ASSUME SketchInv, EtherRawNext, sketch # "udp_ntp", UDP_buff # <<"none">>
                 PROVE  UDP_buff' \in {UDP_buff, <<"none">>}
      OBVIOUS
    <2>1. pc # "delay"
      BY DEF SketchInv, ClientInv
    <2>2. ~check_rx
      BY <2>1 DEF check_rx
    <2> QED BY <2>2 DEF EtherRawNext, ServerAnswers, OtherHosts, DmaStops, DmaSends, sendto,
                        recvfrom, DelayOver, loop, incoming
  <1> QED BY <1>1, SketchInvariant, PTL DEF EtherRawSpec, UdpNotOverwritten
=============================================================================

----------------------------- MODULE TftpProofs -----------------------------
(***************************************************************************)
(* Theorems about the TFTP server, for any clients and packets, any time   *)
(* out and number of retries, and any size of the pool of timeouts; and    *)
(* about a transfer between it and a client, for files of any length that  *)
(* the block numbers can count, over a network that loses, duplicates and  *)
(* delays packets.                                                         *)
(***************************************************************************)
EXTENDS TftpTransfer, TLAPS

\* A call of tftp_tmr is still to come in this interval.
Pending == IF tm.due > 0 THEN 1 ELSE 0

\* The timer's count is never behind the time that has passed, and never
\* further beyond the time out than there were retransmissions.
TimerInv ==
  handle => /\ silence <= idle + Pending
            /\ idle <= TIMEOUT + retries

\* The inductive invariant.  The bound on silence needs the timer's count, the
\* count needs a pending timer, and that needs the pool's bound in the types.
TftpInv == TftpTypeOK /\ NothingLeftOver /\ TransferHasTimer /\ TimerInv

Timers == [due : Nat, armed : Nat]

\* sys_timeout leaves at least one timer pending and respects the pool.
LEMMA ArmedPending ==
  ASSUME NEW t \in Timers, t.due + t.armed <= TimerSlots
  PROVE  /\ Armed(t) \in Timers
         /\ Armed(t).due = t.due
         /\ Armed(t).due + Armed(t).armed \in 1..TimerSlots
BY TftpConstants DEF Armed, Timers

\* sys_untimeout adds no timer.
LEMMA DisarmedBound ==
  ASSUME NEW t \in Timers, t.due + t.armed <= TimerSlots
  PROVE  /\ Disarmed(t) \in Timers
         /\ Disarmed(t).due + Disarmed(t).armed <= TimerSlots
<1>1. CASE t.due > 0
  BY <1>1, TftpConstants DEF Disarmed, Timers
<1>2. CASE t.due = 0 /\ t.armed > 0
  BY <1>2, TftpConstants DEF Disarmed, Timers
<1>3. CASE t.due = 0 /\ t.armed = 0
  BY <1>3, TftpConstants DEF Disarmed, Timers
<1> QED
  BY <1>1, <1>2, <1>3 DEF Timers

\* What the server relies on in a packet.
LEMMA PacketFields ==
  ASSUME NEW pkt \in Packets
  PROVE  /\ pkt.from \in Clients
         /\ pkt.op \in {"DATA", "ACK"} => pkt.blk \in 0..(BlkMod - 1)
BY TftpConstants DEF Packets, Requests, DataPackets, AckPackets, OtherPackets

\* The next block number fits in a u16_t.
LEMMA NextBlock ==
  ASSUME NEW b \in 0..(BlkMod - 1)
  PROVE  (b + 1) % BlkMod \in 0..(BlkMod - 1)
BY TftpConstants

\* A DATA packet has the type of last_data.
LEMMA BlockType ==
  ASSUME NEW b \in Nat, NEW n \in Nat
  PROVE  /\ Block(b, n) \in [blk : Nat, at : Nat, short : BOOLEAN]
         /\ Block(b, n) # NULL
<1>1. (n >= FileBlocks) \in BOOLEAN
  BY TftpConstants, SMT
<1>2. Block(b, n) \in [blk : Nat, at : Nat, short : BOOLEAN]
  BY <1>1, Zenon DEF Block
<1> QED
  BY <1>2, TftpConstants

\* tftp_init establishes the invariant.
LEMMA TftpInitInv == TftpInit => TftpInv
<1> SUFFICES ASSUME TftpInit PROVE TftpInv
  OBVIOUS
<1>1. TftpTypeOK
  <2>1. handle \in BOOLEAN
    BY Zenon DEF TftpInit
  <2> QED
    BY <2>1, TftpConstants DEF TftpInit, TftpTypeOK
<1>2. NothingLeftOver /\ TransferHasTimer /\ TimerInv
  BY Zenon DEF TftpInit, NothingLeftOver, TransferHasTimer, TimerInv
<1> QED
  BY <1>1, <1>2 DEF TftpInv

\* A transfer that has ended leaves nothing to check but the types.
LEMMA ClosedInv ==
  ASSUME TftpTypeOK', CloseHandle
  PROVE  TftpInv'
<1>1. ~handle' /\ owner' = None /\ last_data' = NULL
  BY Zenon DEF CloseHandle
<1> QED
  BY <1>1, Zenon DEF TftpInv, NothingLeftOver, TransferHasTimer, TimerInv

\* recv preserves the invariant.
LEMMA RecvInv ==
  ASSUME TftpInv, NEW pkt \in Packets, recv(pkt)
  PROVE  TftpInv'
<1> USE DEF TftpInv
<1>p. packets' \in 0..MaxPackets
  BY TftpConstants DEF recv, TftpTypeOK
<1>f. /\ pkt.from \in Clients
      /\ pkt.op \in {"DATA", "ACK"} => pkt.blk \in 0..(BlkMod - 1)
  BY PacketFields
<1>t. tm \in Timers /\ tm.due + tm.armed <= TimerSlots
  BY DEF TftpTypeOK, Timers
<1>a. /\ Armed(tm) \in Timers
      /\ Armed(tm).due + Armed(tm).armed \in 1..TimerSlots
  BY <1>t, ArmedPending
<1>n. ASSUME Accepted(pkt)
      PROVE  idle' = 0 /\ retries' = 0 /\ silence' = 0 /\ retries' \in 0..MAX_RETRIES
  BY <1>n, TftpConstants DEF Accepted
<1>1. CASE RecvRefused(pkt)
  BY <1>1, <1>p DEF RecvRefused, fileVars, TftpTypeOK, NothingLeftOver,
     TransferHasTimer, TimerInv, Pending
<1>2. CASE RecvError(pkt)
  <2>1. /\ UNCHANGED <<handle, mode_write, owner, last_data, blknum, pos, tm>>
        /\ Accepted(pkt)
    BY <1>2, Zenon DEF RecvError, fileVars
  <2> QED
    BY <2>1, <1>n, <1>p, TftpConstants DEF TftpTypeOK, NothingLeftOver,
       TransferHasTimer, TimerInv, Pending
<1>3. CASE RecvMalformed(pkt) \/ RecvOpenFails(pkt)
  <2>1. /\ UNCHANGED <<handle, mode_write, owner, last_data, pos>>
        /\ blknum' \in {blknum, 1}
        /\ tm' = Armed(tm)
        /\ ~handle
        /\ Accepted(pkt)
    BY <1>3, Zenon DEF RecvMalformed, RecvOpenFails, NewRequest, fileVars
  <2> QED
    BY <2>1, <1>n, <1>p, <1>a, TftpConstants DEF TftpTypeOK, NothingLeftOver,
       TransferHasTimer, TimerInv, Timers
<1>4. CASE RecvWriteRequest(pkt)
  <2>1. /\ handle' = TRUE /\ mode_write' = 1 /\ owner' = pkt.from
        /\ blknum' = 1 /\ tm' = Armed(tm)
        /\ UNCHANGED <<last_data, pos>>
        /\ ~handle
        /\ Accepted(pkt)
    BY <1>4, Zenon DEF RecvWriteRequest, NewRequest
  <2>2. handle' \in BOOLEAN
    BY <2>1, Zenon
  <2>3. TftpTypeOK'
    BY <2>1, <2>2, <1>n, <1>p, <1>a, <1>f, TftpConstants DEF TftpTypeOK, Timers
  <2> QED
    BY <2>1, <2>3, <1>n, <1>a, TftpConstants DEF NothingLeftOver,
       TransferHasTimer, TimerInv, Timers, Pending
<1>5. CASE RecvReadRequest(pkt)
  <2>1. /\ mode_write' = 0 /\ blknum' = 1
        /\ ~handle
        /\ Accepted(pkt)
    BY <1>5, Zenon DEF RecvReadRequest, NewRequest
  <2>2. CASE /\ last_data' \in {NULL, Block(1, 0)}
             /\ tm' = Armed(tm)
             /\ pos' \in {0, 1}
             /\ owner' = pkt.from
             /\ handle' = TRUE
    <3>1. handle' \in BOOLEAN
      BY <2>2, Zenon
    <3>2. last_data' \in [blk : Nat, at : Nat, short : BOOLEAN] \cup {NULL}
      BY <2>2, BlockType
    <3>3. TftpTypeOK'
      BY <2>1, <2>2, <3>1, <3>2, <1>n, <1>p, <1>a, <1>f, TftpConstants
         DEF TftpTypeOK, Timers
    <3> QED
      BY <2>1, <2>2, <3>3, <1>n, <1>a, TftpConstants DEF NothingLeftOver,
         TransferHasTimer, TimerInv, Timers, Pending
  <2>3. CASE SendDataReadError(pkt.from, Armed(tm)) /\ pos' = 0
    <3>1. tm' \in Timers /\ tm'.due + tm'.armed <= TimerSlots
      BY <2>3, <1>a, DisarmedBound, TftpConstants DEF SendDataReadError
    <3>2. CloseHandle
      BY <2>3 DEF SendDataReadError
    <3>3. handle' \in BOOLEAN /\ owner' = None /\ last_data' = NULL
      BY <3>2, Zenon DEF CloseHandle
    <3>4. TftpTypeOK'
      BY <2>1, <2>3, <3>1, <3>3, <1>n, <1>p, TftpConstants DEF TftpTypeOK, Timers
    <3> QED
      BY <3>2, <3>4, ClosedInv
  <2> QED
    BY <1>5, <2>2, <2>3, Zenon DEF RecvReadRequest, SendDataNoMem, SendDataOk
<1>6. CASE RecvData(pkt) /\ ~pkt.short
  <2>1. /\ UNCHANGED <<handle, mode_write, owner, last_data, blknum, pos, tm>>
        /\ Accepted(pkt)
    BY <1>6, Zenon DEF RecvData
  <2> QED
    BY <2>1, <1>n, <1>p, TftpConstants DEF TftpTypeOK, NothingLeftOver,
       TransferHasTimer, TimerInv, Pending
<1>7. CASE \/ RecvData(pkt) /\ pkt.short
           \/ RecvDataFails(pkt)
           \/ RecvAckLast(pkt)
  <2>1. /\ UNCHANGED <<mode_write, blknum, pos>>
        /\ tm' \in {Disarmed(tm), Disarmed(Disarmed(tm))}
        /\ CloseHandle
        /\ Accepted(pkt)
    BY <1>7, Zenon DEF RecvData, RecvDataFails, RecvAckLast, AckFits
  <2>2. handle' \in BOOLEAN /\ owner' = None /\ last_data' = NULL
    BY <2>1, Zenon DEF CloseHandle
  <2>3. tm' \in Timers /\ tm'.due + tm'.armed <= TimerSlots
    BY <2>1, <1>t, DisarmedBound
  <2>4. TftpTypeOK'
    BY <2>1, <2>2, <2>3, <1>n, <1>p, TftpConstants DEF TftpTypeOK, Timers
  <2> QED
    BY <2>1, <2>4, ClosedInv
<1>8. CASE RecvAckNext(pkt)
  <2>1. /\ blknum' = (blknum + 1) % BlkMod
        /\ UNCHANGED mode_write
        /\ mode_write = 0
        /\ Accepted(pkt)
    BY <1>8, Zenon DEF RecvAckNext, AckFits
  <2>2. blknum' \in 0..(BlkMod - 1)
    BY <2>1, NextBlock DEF TftpTypeOK
  <2>3. CASE /\ last_data' \in {NULL, Block(blknum', pos)}
             /\ tm' = tm
             /\ pos' \in {pos, pos + 1}
             /\ UNCHANGED <<owner, handle>>
             /\ handle
    <3>1. last_data' \in [blk : Nat, at : Nat, short : BOOLEAN] \cup {NULL}
      <4>1. blknum' \in Nat /\ pos \in Nat
        BY <2>2, TftpConstants DEF TftpTypeOK
      <4> QED
        BY <4>1, <2>3, BlockType
    <3>2. TftpTypeOK'
      BY <2>1, <2>2, <2>3, <3>1, <1>n, <1>p DEF TftpTypeOK
    <3> QED
      BY <2>1, <2>3, <3>2, <1>n, TftpConstants DEF TftpTypeOK, NothingLeftOver,
         TransferHasTimer, TimerInv, Pending
  <2>4. CASE SendDataReadError(pkt.from, tm) /\ UNCHANGED pos
    <3>1. tm' \in Timers /\ tm'.due + tm'.armed <= TimerSlots
      BY <2>4, <1>t, DisarmedBound DEF SendDataReadError
    <3>2. CloseHandle
      BY <2>4 DEF SendDataReadError
    <3>3. handle' \in BOOLEAN /\ owner' = None /\ last_data' = NULL
      BY <3>2, Zenon DEF CloseHandle
    <3>4. TftpTypeOK'
      BY <2>1, <2>2, <2>4, <3>1, <3>3, <1>n, <1>p, TftpConstants
         DEF TftpTypeOK, Timers
    <3> QED
      BY <3>2, <3>4, ClosedInv
  <2> QED
    BY <1>8, <2>1, <2>3, <2>4, Zenon
       DEF RecvAckNext, AckFits, SendDataNoMem, SendDataOk
<1> QED
  BY <1>1, <1>2, <1>3, <1>4, <1>5, <1>6, <1>7, <1>8 DEF recv

\* The entry of a timer that fires is free again, so tftp_tmr can always set
\* its timer anew.
LEMMA Refired ==
  ASSUME TftpTypeOK, tm.due > 0
  PROVE  /\ Fired \in Timers
         /\ Fired.due = tm.due - 1
         /\ Fired.due + Fired.armed < TimerSlots
         /\ Armed(Fired) \in Timers
         /\ Armed(Fired).due = tm.due - 1
         /\ Armed(Fired).due + Armed(Fired).armed \in 1..TimerSlots
<1>1. /\ Fired \in Timers
      /\ Fired.due = tm.due - 1
      /\ Fired.due + Fired.armed < TimerSlots
  BY TftpConstants DEF TftpTypeOK, Fired, Timers
<1> HIDE DEF Fired
<1> QED
  BY <1>1, ArmedPending, TftpConstants DEF Timers

\* tftp_tmr preserves the invariant.
LEMMA TmrInv ==
  ASSUME TftpInv, tftp_tmr
  PROVE  TftpInv'
<1> USE DEF TftpInv
<1>d. tm.due > 0
  BY DEF tftp_tmr, TmrNoTransfer, TmrQuiet, TmrResend, TmrGiveUp, TmrTransfer
<1>f. /\ Fired \in Timers
      /\ Fired.due = tm.due - 1
      /\ Fired.due + Fired.armed < TimerSlots
      /\ Armed(Fired) \in Timers
      /\ Armed(Fired).due = tm.due - 1
      /\ Armed(Fired).due + Armed(Fired).armed \in 1..TimerSlots
  BY <1>d, Refired
<1>1. CASE TmrNoTransfer
  <2>1. /\ UNCHANGED <<handle, mode_write, owner, last_data, blknum, pos, retries,
                       silence, packets>>
        /\ ~handle
        /\ idle' = idle + 1
        /\ tm' = Fired
    BY <1>1, Zenon DEF TmrNoTransfer, fileVars
  <2> QED
    BY <2>1, <1>f, TftpConstants DEF TftpTypeOK, NothingLeftOver,
       TransferHasTimer, TimerInv, Timers
<1>2. CASE TmrQuiet \/ TmrResend
  <2>1. /\ UNCHANGED <<handle, mode_write, owner, last_data, blknum, pos,
                       silence, packets>>
        /\ handle
        /\ idle' = idle + 1
        /\ tm' = Armed(Fired)
    BY <1>2, Zenon DEF TmrQuiet, TmrResend, TmrTransfer
  <2>2. /\ retries' \in 0..MAX_RETRIES
        /\ idle + 1 <= TIMEOUT + retries'
    <3>1. CASE TmrQuiet
      BY <3>1, TftpConstants DEF TmrQuiet, TftpTypeOK
    <3>2. CASE TmrResend
      BY <3>2, <2>1, TftpConstants DEF TmrResend, TftpTypeOK, TimerInv
    <3> QED
      BY <1>2, <3>1, <3>2
  <2>3. TftpTypeOK'
    BY <2>1, <2>2, <1>f, TftpConstants DEF TftpTypeOK, Timers
  <2>4. silence <= idle' /\ idle' <= TIMEOUT + retries'
    BY <2>1, <2>2, <1>d DEF TftpTypeOK, TimerInv, Pending
  <2>5. NothingLeftOver'
    BY <2>1 DEF NothingLeftOver
  <2>6. TransferHasTimer'
    BY <2>1, <1>f, TftpConstants DEF TransferHasTimer
  <2>7. TimerInv'
    BY <2>1, <2>3, <2>4 DEF TftpTypeOK, TimerInv, Pending
  <2> QED
    BY <2>3, <2>5, <2>6, <2>7
<1>3. CASE TmrGiveUp
  <2>1. /\ UNCHANGED <<mode_write, blknum, pos, silence, packets, retries>>
        /\ idle' = idle + 1
        /\ tm' = Disarmed(Armed(Fired))
        /\ CloseHandle
    BY <1>3, Zenon DEF TmrGiveUp, TmrTransfer
  <2>2. handle' \in BOOLEAN /\ owner' = None /\ last_data' = NULL
    BY <2>1, Zenon DEF CloseHandle
  <2>3. tm' \in Timers /\ tm'.due + tm'.armed <= TimerSlots
    BY <2>1, <1>f, DisarmedBound, TftpConstants
  <2>4. TftpTypeOK'
    BY <2>1, <2>2, <2>3, TftpConstants DEF TftpTypeOK, Timers
  <2> QED
    BY <2>1, <2>4, ClosedInv
<1> QED
  BY <1>1, <1>2, <1>3 DEF tftp_tmr

\* The start of an interval preserves the invariant.
LEMMA IntervalInv ==
  ASSUME TftpInv, Interval
  PROVE  TftpInv'
<1> USE DEF TftpInv
<1>1. /\ UNCHANGED <<handle, mode_write, owner, last_data, blknum, pos, retries,
                     idle, packets>>
      /\ tm.due = 0
      /\ tm' = [due |-> tm.armed, armed |-> 0]
      /\ silence' \in {silence, silence + 1}
  BY Zenon DEF Interval, fileVars
<1>2. tm' \in Timers /\ tm'.due = tm.armed /\ tm'.armed = 0
  BY <1>1 DEF TftpTypeOK, Timers
<1>3. TftpTypeOK'
  BY <1>1, <1>2, TftpConstants DEF TftpTypeOK, Timers
<1>4. handle => tm'.due > 0
  BY <1>1, <1>2 DEF TransferHasTimer, TftpTypeOK
<1> QED
  BY <1>1, <1>2, <1>3, <1>4, TftpConstants DEF TftpTypeOK, NothingLeftOver,
     TransferHasTimer, TimerInv, Pending

\* The invariant holds in every reachable state.
LEMMA TftpInvariant == TftpSpec => []TftpInv
<1>1. ASSUME TftpInv, [TftpNext]_vars PROVE TftpInv'
  <2>1. CASE TftpNext
    BY <1>1, <2>1, RecvInv, TmrInv, IntervalInv DEF TftpNext
  <2>2. CASE UNCHANGED vars
    BY <1>1, <2>2 DEF vars, fileVars, TftpInv, TftpTypeOK, NothingLeftOver,
       TransferHasTimer, TimerInv, Pending
  <2> QED
    BY <1>1, <2>1, <2>2
<1> QED
  BY TftpInitInv, <1>1, PTL DEF TftpSpec

\* The server's variables keep their types, and its timers fit in the pool.
THEOREM TftpTypeCorrect == TftpSpec => []TftpTypeOK
BY TftpInvariant, PTL DEF TftpInv

\* Whichever of the ways out of recv and tftp_tmr ends a transfer, it leaves
\* no owner and no packet to retransmit behind.
THEOREM TransferLeavesNothing == TftpSpec => []NothingLeftOver
BY TftpInvariant, PTL DEF TftpInv

\* An open transfer has a pending timer, even when refused requests hold all
\* the entries of the pool.
THEOREM TransferIsTimed == TftpSpec => []TransferHasTimer
BY TftpInvariant, PTL DEF TftpInv

\* The server is blocked by a silent client for TIMEOUT + MAX_RETRIES + 1
\* intervals at most, for any pool and any stale timers.
THEOREM SilenceIsBounded == TftpSpec => []GivesUpInTime
<1>1. TftpInv => GivesUpInTime
  BY TftpConstants DEF TftpInv, TimerInv, Pending, TftpTypeOK, GivesUpInTime
<1> QED
  BY <1>1, TftpInvariant, PTL

\* The converse of TimerInv when the pool has one entry left: the timer's
\* count is not ahead of the time that has passed.
NotAhead == handle => idle + tm.due <= silence + 1

\* With the one entry of the pool, as in the build, no stale timer makes the
\* server count faster than time passes.
THEOREM TimerIsTrue ==
  ASSUME TimerSlots = 1
  PROVE  TftpSpec => []TimerKeepsTime
<1>1. TftpInit => NotAhead
  BY DEF TftpInit, NotAhead
<1>2. ASSUME TftpInv, TftpInv', NotAhead, [TftpNext]_vars PROVE NotAhead'
  <2> USE DEF TftpInv
  <2>t. tm'.due \in {0, 1}
    BY <1>2 DEF TftpTypeOK
  <2>1. ASSUME NEW pkt \in Packets, recv(pkt) PROVE NotAhead'
    <3>1. CASE RecvRefused(pkt)
      BY <1>2, <3>1 DEF RecvRefused, fileVars, NotAhead
    <3>2. CASE Accepted(pkt)
      BY <2>t, <3>2 DEF Accepted, NotAhead
    <3> QED
      BY <2>1, <3>1, <3>2 DEF recv, RecvError, RecvMalformed, RecvOpenFails,
         RecvWriteRequest, RecvReadRequest, NewRequest, RecvData, RecvDataFails,
         RecvAckNext, RecvAckLast, AckFits
  <2>2. CASE TmrNoTransfer \/ TmrGiveUp
    <3>1. ~handle'
      BY <2>2, Zenon DEF TmrNoTransfer, TmrGiveUp, CloseHandle, fileVars
    <3> QED
      BY <3>1 DEF NotAhead
  <2>3. CASE TmrQuiet \/ TmrResend
    <3>1. /\ tm' = Armed(Fired) /\ idle' = idle + 1 /\ silence' = silence
          /\ handle /\ tm.due > 0
      BY <2>3, Zenon DEF TmrQuiet, TmrResend, TmrTransfer
    <3>2. tm'.due = tm.due - 1
      BY <1>2, <3>1, Refired
    <3> QED
      BY <1>2, <3>1, <3>2 DEF NotAhead, TftpTypeOK
  <2>4. CASE Interval
    <3>1. /\ handle' = handle /\ idle' = idle /\ retries' = retries
          /\ tm.due = 0
          /\ silence' = IF handle /\ silence < SilenceCap THEN silence + 1 ELSE silence
      BY <2>4, Zenon DEF Interval, fileVars
    <3> QED
      BY <1>2, <2>t, <3>1, TftpConstants
         DEF NotAhead, TftpTypeOK, TimerInv, SilenceCap
  <2>5. CASE UNCHANGED vars
    BY <1>2, <2>5 DEF vars, fileVars, NotAhead
  <2> QED
    BY <1>2, <2>1, <2>2, <2>3, <2>4, <2>5 DEF TftpNext, tftp_tmr
<1>3. TftpInv /\ NotAhead => TimerKeepsTime
  BY DEF TftpInv, TftpTypeOK, NotAhead, TimerKeepsTime
<1> QED
  BY <1>1, <1>2, <1>3, TftpInvariant, PTL DEF TftpSpec

-----------------------------------------------------------------------------
(* A transfer.                                                             *)

\* The packet with block b of the file that is read.
DataOf(b) == DataTo(Client, Block(b, b - 1))

\* Every block has all the blocks before it in front of it.
NoGaps(w) ==
  \A i \in 1..Len(w) : \A b \in 1..(w[i] - 1) : \E j \in 1..(i - 1) : w[j] = b

\* What the client knows: it has read the blocks before next.
ClientInv ==
  /\ op \in {"RRQ", "WRQ"} /\ next \in Nat \ {0} /\ got \in Seq(Nat)
  /\ Len(got) = IF op = "RRQ" THEN next - 1 ELSE 0
  /\ \A i \in 1..Len(got) : got[i] = i - 1
  /\ op = "RRQ" => next <= FileBlocks + 2 /\ (cstate = "done" <=> next = FileBlocks + 2)

\* What a packet in the network can be: an acknowledgement of a block that was
\* read, a block that is not further than the one the client waits for, a
\* block whose predecessor was acknowledged.
Known(msg) ==
  \/ msg = ClientRequest \/ msg = Error(Client)
  \/ op = "RRQ" /\ \E b \in 1..(next - 1) : msg = ClientAck(b)
  \/ op = "RRQ" /\ \E b \in 1..next : b <= FileBlocks + 1 /\ msg = DataOf(b)
  \/ op = "WRQ" /\ \E b \in 1..(next - 1) :
                     msg = ClientData(b) /\ (b > 1 => Ack(Client, b - 1) \in net)
  \/ op = "WRQ" /\ \E b \in Nat : msg = Ack(Client, b)

\* The server's part in a read: last_data is block blknum, or send_data found
\* no memory for it and it was not read from the file.
Reading ==
  /\ mode_write = 0 /\ blknum \in 1..next /\ blknum <= FileBlocks + 1 /\ next <= pos + 1
  /\ \/ last_data = Block(blknum, blknum - 1) /\ pos = blknum
     \/ last_data = NULL /\ pos = blknum - 1
  /\ \A b \in Nat : DataOf(b) \in net => b <= pos

\* The server's part in a write: what is acknowledged is written.
Writing ==
  /\ mode_write = 1 /\ written \in Seq(Nat) /\ NoGaps(written)
  /\ \A b \in Nat \ {0} : Ack(Client, b) \in net => \E j \in 1..Len(written) : written[j] = b

\* The client owns the server only once its request, the only one, has arrived.
TransferInv ==
  /\ handle => owner # None
  /\ ClientInv
  /\ ClientRequest \in net => net = {ClientRequest} /\ next = 1 /\ owner # Client
  /\ \A msg \in net : Known(msg)
  /\ owner = Client => (op = "RRQ" => Reading) /\ (op = "WRQ" => Writing)

-----------------------------------------------------------------------------
(* Packets.                                                                *)

\* The fields by which packets differ.
LEMMA Fields ==
  /\ ClientRequest.op = op /\ ClientRequest.from = Client /\ ~ClientRequest.malformed
  /\ Error(Client).op = "ERROR" /\ Error(Client).to = Client
  /\ \A b : /\ ClientAck(b).op = "ACK" /\ ClientAck(b).from = Client /\ ClientAck(b).blk = b
            /\ ClientData(b).op = "DATA" /\ ClientData(b).from = Client
            /\ ClientData(b).blk = b
            /\ Ack(Client, b).op = "ACK" /\ Ack(Client, b).blk = b /\ Ack(Client, b).to = Client
            /\ DataOf(b).op = "DATA" /\ DataOf(b).data.blk = b /\ DataOf(b).data.at = b - 1
            /\ DataOf(b).data.short = (b - 1 >= FileBlocks) /\ DataOf(b).to = Client
BY DEF ClientRequest, Error, ClientAck, ClientData, Ack, DataOf, DataTo, Block

\* A packet that the server receives has a sender, one that it sends has not.
LEMMA ServerPackets ==
  ASSUME NEW pkt \in Packets
  PROVE  pkt # Error(Client) /\ \A b : pkt # Ack(Client, b) /\ pkt # DataOf(b)
<1>1. "from" \in DOMAIN pkt
  BY DEF Packets, Requests, DataPackets, AckPackets, OtherPackets
<1>2. DOMAIN Error(Client) = {"op", "to"}
  BY DEF Error
<1>3. ASSUME NEW b
      PROVE  DOMAIN Ack(Client, b) = {"op", "to", "blk"} /\ DOMAIN DataOf(b) = {"op", "to", "data"}
  BY DEF Ack, DataOf, DataTo
<1> QED
  BY <1>1, <1>2, <1>3

\* What the client's packets say when they arrive.
LEMMA Delivered ==
  ASSUME TransferInv, NEW pkt \in net \cap Packets
  PROVE  /\ pkt.from = Client
         /\ \/ pkt = ClientRequest
            \/ op = "RRQ" /\ pkt.op = "ACK" /\ pkt.blk \in 1..(next - 1)
            \/ /\ op = "WRQ" /\ pkt.op = "DATA" /\ pkt.blk \in 1..(next - 1)
               /\ pkt.blk > 1 => Ack(Client, pkt.blk - 1) \in net
<1>1. Known(pkt)
  BY DEF TransferInv
<1>2. pkt # Error(Client) /\ \A b : pkt # Ack(Client, b) /\ pkt # DataOf(b)
  BY ServerPackets
<1> QED
  BY <1>1, <1>2, Fields DEF Known

\* Packets to the client reach it, others do not.
LEMMA Reaches ==
  /\ ToClient({}) = {} /\ ToClient({Error(Client)}) = {Error(Client)}
  /\ \A b : ToClient({Ack(Client, b)}) = {Ack(Client, b)} /\ ToClient({DataOf(b)}) = {DataOf(b)}
  /\ \A c, d : c # Client => ToClient({DataTo(c, d)}) = {}
<1>1. \A c, d : DataTo(c, d).to = c
  BY DEF DataTo
<1> QED
  BY <1>1, Fields DEF ToClient

\* What is known of a packet stays true.
LEMMA KnownStays ==
  ASSUME NEW msg, Known(msg), next \in Nat, next' \in {next, next + 1}, op' = op,
         \A b : Ack(Client, b) \in net => Ack(Client, b) \in net'
  PROVE  Known(msg)'
<1>1. ClientRequest' = ClientRequest
  BY DEF ClientRequest
<1>2. \A b : (b \in 1..(next - 1) => b \in 1..(next' - 1)) /\ (b \in 1..next => b \in 1..next')
  OBVIOUS
<1> QED
  BY <1>1, <1>2, Zenon DEF Known

-----------------------------------------------------------------------------
(* What the server does with a packet.                                     *)

\* The transfer of the client is not disturbed by others, and none of them can
\* start one for it.
LEMMA RecvFromOther ==
  ASSUME handle => owner # None, NEW pkt \in Packets, recv(pkt), pkt.from # Client
  PROVE  /\ owner = Client => UNCHANGED fileVars
         /\ owner # Client => owner' # Client
         /\ handle' => owner' # None
<1>0. pkt.from \in Clients /\ Client \in Clients /\ pkt.from # None /\ Client # None
  BY PacketFields, TftpConstants, TransferConstants
<1>1. CASE RecvRefused(pkt)
  BY <1>1 DEF RecvRefused, fileVars
<1>2. CASE Accepted(pkt) /\ UNCHANGED <<handle, owner>>
  BY <1>0, <1>2 DEF Accepted
<1>3. CASE Accepted(pkt) /\ owner' = pkt.from
  BY <1>0, <1>3 DEF Accepted
<1>4. CASE Accepted(pkt) /\ owner' = None /\ handle' = FALSE
  BY <1>0, <1>4 DEF Accepted
<1>5. \/ RecvRefused(pkt)
      \/ /\ Accepted(pkt)
         /\ \/ UNCHANGED <<handle, owner>>
            \/ owner' = pkt.from
            \/ owner' = None /\ handle' = FALSE
  BY Zenon DEF recv, RecvError, RecvMalformed, RecvOpenFails, RecvWriteRequest, RecvReadRequest,
     NewRequest, RecvData, RecvDataFails, RecvAckNext, RecvAckLast, AckFits, SendDataNoMem,
     SendDataReadError, SendDataOk, CloseHandle, fileVars
<1> QED
  BY <1>1, <1>2, <1>3, <1>4, <1>5, Zenon

\* The transfer has ended.
Closed == owner' = None /\ handle' = FALSE

\* The client's request is refused or starts its transfer.
LEMMA RecvRequest ==
  ASSUME handle => owner # None, ClientRequest \in Packets, recv(ClientRequest),
         op \in {"RRQ", "WRQ"}, owner # Client
  PROVE  /\ handle' => owner' # None
         /\ \/ reply' = {Error(Client)} /\ owner' # Client
            \/ /\ op = "RRQ" /\ owner' = Client /\ mode_write' = 0 /\ blknum' = 1
               /\ \/ last_data' = NULL /\ pos' = 0 /\ reply' = {}
                  \/ last_data' = Block(1, 0) /\ pos' = 1 /\ reply' = {DataTo(Client, Block(1, 0))}
            \/ /\ op = "WRQ" /\ owner' = Client /\ mode_write' = 1 /\ written' = <<>>
               /\ reply' = {Ack(Client, 0)}
<1> DEFINE r == ClientRequest
<1>0. /\ r.from = Client /\ r.op = op /\ ~r.malformed
      /\ Client # None
  BY Fields, TftpConstants, TransferConstants
<1> HIDE DEF r
<1>1. recv(r)
  BY DEF r
<1>2. CASE RecvRefused(r) \/ RecvError(r) \/ RecvMalformed(r) \/ RecvOpenFails(r)
  BY <1>0, <1>2 DEF RecvRefused, RecvError, RecvMalformed, RecvOpenFails, NewRequest, fileVars
<1>3. CASE RecvWriteRequest(r)
  BY <1>0, <1>3 DEF RecvWriteRequest
<1>4. CASE RecvReadRequest(r)
  BY <1>0, <1>4 DEF RecvReadRequest, SendDataNoMem, SendDataReadError, SendDataOk, CloseHandle
<1>5. ~(RecvData(r) \/ RecvDataFails(r) \/ RecvAckNext(r) \/ RecvAckLast(r))
  BY <1>0 DEF RecvData, RecvDataFails, RecvAckNext, RecvAckLast, AckFits
<1> QED
  BY <1>1, <1>2, <1>3, <1>4, <1>5, Zenon DEF recv

\* Without a transfer of the client its other packets get an error.
LEMMA RecvElse ==
  ASSUME handle => owner # None, NEW pkt \in Packets, recv(pkt), pkt.from = Client,
         pkt.op \in {"ACK", "DATA"}, owner # Client
  PROVE  UNCHANGED fileVars /\ reply' = {Error(Client)}
<1>1. CASE RecvRefused(pkt) \/ RecvError(pkt)
  BY <1>1, Zenon DEF RecvRefused, RecvError
<1>2. Accepted(pkt) => ~handle
  BY DEF Accepted
<1>3. \/ RecvRefused(pkt) \/ RecvError(pkt)
      \/ pkt.op \in {"RRQ", "WRQ"}
      \/ Accepted(pkt) /\ handle
  BY Zenon DEF recv, RecvMalformed, RecvOpenFails, RecvWriteRequest, RecvReadRequest, NewRequest,
     RecvData, RecvDataFails, RecvAckNext, RecvAckLast, AckFits
<1> QED
  BY <1>1, <1>2, <1>3

\* An ACK in the client's transfer: it does not fit, the transfer ends, or the
\* next block is read and sent, unless there is no memory for it.
LEMMA RecvAck ==
  ASSUME NEW pkt \in Packets, recv(pkt), pkt.from = Client, pkt.op = "ACK", owner = Client
  PROVE  \/ UNCHANGED fileVars /\ reply' = {Error(Client)}
         \/ Closed /\ reply' \in {{}, {Error(Client)}}
         \/ /\ pkt.blk = blknum /\ (last_data # NULL => ~last_data.short)
            /\ blknum' = (blknum + 1) % BlkMod
            /\ UNCHANGED <<mode_write, owner, handle, written>>
            /\ \/ last_data' = NULL /\ pos' = pos /\ reply' = {}
               \/ /\ last_data' = Block(blknum', pos) /\ pos' = pos + 1
                  /\ reply' = {DataTo(Client, Block(blknum', pos))}
<1>1. CASE RecvRefused(pkt)
  BY <1>1 DEF RecvRefused
<1>2. CASE RecvError(pkt)
  BY <1>2 DEF RecvError
<1>3. CASE RecvAckNext(pkt)
  <2>1. /\ pkt.blk = blknum /\ (last_data # NULL => ~last_data.short)
        /\ blknum' = (blknum + 1) % BlkMod /\ UNCHANGED <<mode_write, written>>
    BY <1>3, Zenon DEF RecvAckNext, AckFits
  <2>2. \/ last_data' = NULL /\ reply' = {} /\ UNCHANGED <<pos, owner, handle>>
        \/ Closed /\ reply' = {Error(pkt.from)}
        \/ /\ last_data' = Block((blknum + 1) % BlkMod, pos)
           /\ reply' = {DataTo(pkt.from, Block((blknum + 1) % BlkMod, pos))}
           /\ pos' = pos + 1 /\ UNCHANGED <<owner, handle>>
    BY <1>3, Zenon DEF RecvAckNext, SendDataNoMem, SendDataReadError, SendDataOk, CloseHandle, Closed
  <2> QED
    BY <2>1, <2>2
<1>4. CASE RecvAckLast(pkt)
  BY <1>4, Zenon DEF RecvAckLast, CloseHandle, Closed
<1>5. RecvRefused(pkt) \/ RecvError(pkt) \/ RecvAckNext(pkt) \/ RecvAckLast(pkt)
  BY DEF recv, RecvMalformed, RecvOpenFails, RecvWriteRequest, RecvReadRequest, NewRequest,
     RecvData, RecvDataFails
<1> QED
  BY <1>1, <1>2, <1>3, <1>4, <1>5

\* A block in the client's transfer: it is refused, or written and then
\* acknowledged, whatever its number.
LEMMA RecvBlock ==
  ASSUME NEW pkt \in Packets, recv(pkt), pkt.from = Client, pkt.op = "DATA", owner = Client
  PROVE  /\ Closed \/ UNCHANGED <<owner, handle>>
         /\ mode_write' = mode_write
         /\ \/ written' = written /\ reply' = {Error(Client)}
            \/ written' = Append(written, pkt.blk) /\ reply' = {Ack(Client, pkt.blk)}
<1>1. CASE RecvRefused(pkt) \/ RecvError(pkt)
  BY <1>1 DEF RecvRefused, RecvError, fileVars
<1>2. CASE RecvData(pkt)
  BY <1>2, Zenon DEF RecvData, CloseHandle, Closed
<1>3. CASE RecvDataFails(pkt)
  BY <1>3, Zenon DEF RecvDataFails, CloseHandle, Closed
<1>4. RecvRefused(pkt) \/ RecvError(pkt) \/ RecvData(pkt) \/ RecvDataFails(pkt)
  BY DEF recv, RecvMalformed, RecvOpenFails, RecvWriteRequest, RecvReadRequest, NewRequest,
     RecvAckNext, RecvAckLast, AckFits
<1> QED
  BY <1>1, <1>2, <1>3, <1>4

\* The timer changes nothing, sends the last block again, or ends the transfer.
LEMMA TmrOutcome ==
  ASSUME tftp_tmr
  PROVE  \/ UNCHANGED fileVars /\ reply' = {}
         \/ UNCHANGED fileVars /\ handle /\ last_data # NULL /\ reply' = {DataTo(owner, last_data)}
         \/ Closed /\ reply' = {} /\ written' = written
BY Zenon DEF tftp_tmr, TmrNoTransfer, TmrQuiet, TmrResend, TmrGiveUp, TmrTransfer, CloseHandle,
   Closed, fileVars

-----------------------------------------------------------------------------
(* The steps of a transfer.                                                *)

\* The server's steps are those of TftpServer.
LEMMA TransferStepIsStep == [TransferNext]_allVars => [TftpNext]_vars
<1>1. TransferNext => TftpNext \/ UNCHANGED vars
  BY Zenon DEF TransferNext, ReadBlock, WriteBlock, ClientError, ClientRuns, Deliver, Stranger,
     Timer, Tick, TftpNext
<1>2. UNCHANGED allVars => UNCHANGED vars
  BY DEF allVars
<1> QED
  BY <1>1, <1>2

\* The client has sent its request.
LEMMA TransferInitInv == TransferInit => TransferInv
<1> SUFFICES ASSUME TransferInit PROVE TransferInv
  OBVIOUS
<1>1. /\ op \in {"RRQ", "WRQ"} /\ net = {ClientRequest} /\ next = 1 /\ got = <<>>
      /\ cstate = "run" /\ ~handle /\ owner = None
  BY Zenon DEF TransferInit, TftpInit
<1>2. owner # Client
  BY <1>1, TftpConstants, TransferConstants
<1>3. ClientInv
  BY <1>1, TftpConstants DEF ClientInv
<1>4. \A msg \in net : Known(msg)
  BY <1>1, Zenon DEF Known
<1> QED
  BY <1>1, <1>2, <1>3, <1>4 DEF TransferInv

\* A block appended behind its predecessor leaves no gap.
LEMMA AppendNoGaps ==
  ASSUME NEW w \in Seq(Nat), NoGaps(w), NEW c \in Nat \ {0},
         c > 1 => \E j \in 1..Len(w) : w[j] = c - 1
  PROVE  NoGaps(Append(w, c)) /\ Append(w, c) \in Seq(Nat)
<1> DEFINE v == Append(w, c)
<1>1. /\ v \in Seq(Nat) /\ Len(v) = Len(w) + 1 /\ v[Len(w) + 1] = c /\ Len(w) \in Nat
      /\ \A i \in 1..Len(w) : v[i] = w[i] /\ w[i] \in Nat
  OBVIOUS
<1> HIDE DEF v
<1>2. ASSUME NEW i \in 1..Len(v), NEW b \in 1..(v[i] - 1)
      PROVE  \E j \in 1..(i - 1) : v[j] = b
  <2>1. CASE i \in 1..Len(w)
    <3>1. PICK j \in 1..(i - 1) : w[j] = b
      BY <1>1, <2>1, Zenon DEF NoGaps
    <3>2. j \in 1..Len(w)
      BY <1>1, <2>1
    <3> QED
      BY <1>1, <3>1, <3>2
  <2>2. CASE i = Len(w) + 1
    <3>1. c > 1 /\ b \in 1..(c - 1) /\ i - 1 = Len(w)
      BY <1>1, <2>2
    <3>2. PICK k \in 1..Len(w) : w[k] = c - 1
      BY <3>1
    <3>3. CASE b = c - 1
      BY <1>1, <3>1, <3>2, <3>3
    <3>4. CASE b \in 1..(w[k] - 1)
      <4>1. PICK j \in 1..(k - 1) : w[j] = b
        BY <3>4, Zenon DEF NoGaps
      <4>2. j \in 1..Len(w)
        BY <1>1, <3>2
      <4> QED
        BY <1>1, <3>1, <4>1, <4>2
    <3> QED
      BY <3>1, <3>2, <3>3, <3>4
  <2> QED
    BY <1>1, <2>1, <2>2
<1> QED
  BY <1>1, <1>2, SMTT(30) DEF NoGaps, v

\* Nothing but an error was sent to the client.
NoNews ==
  \A b : /\ DataOf(b) \in net' => DataOf(b) \in net
         /\ Ack(Client, b) \in net' => Ack(Client, b) \in net

\* Then the server's part in the transfer is as it was.
LEMMA PartStays ==
  ASSUME Reading \/ Writing, NoNews, UNCHANGED fileVars, next' = next
  PROVE  (Reading => Reading') /\ (Writing => Writing')
<1>1. UNCHANGED <<mode_write, last_data, blknum, pos, written>>
  BY DEF fileVars
<1>2. Reading => Reading'
  BY <1>1, Zenon DEF Reading, NoNews
<1>3. Writing => Writing'
  BY <1>1 DEF Writing, NoNews
<1> QED
  BY <1>2, <1>3

\* The packets stay known when the server receives one and sends R.
LEMMA NetStays ==
  ASSUME TransferInv, UNCHANGED <<op, next>>, NEW R,
         \/ net' = (net \ {ClientRequest}) \cup R
         \/ net' = net \cup R,
         \A msg \in R : Known(msg) /\ msg # ClientRequest
  PROVE  /\ \A msg \in net' : Known(msg)'
         /\ ClientRequest' \in net' => ClientRequest \in net /\ net' = net \cup R
         /\ ClientRequest' = ClientRequest
<1>1. \A b : Ack(Client, b) # ClientRequest
  BY Fields DEF TransferInv, ClientInv
<1>2. \A b : Ack(Client, b) \in net => Ack(Client, b) \in net'
  BY <1>1
<1>3. ClientRequest' = ClientRequest
  BY DEF ClientRequest
<1>4. \A msg \in net' : Known(msg)
  BY DEF TransferInv
<1>5. next \in Nat
  BY DEF TransferInv, ClientInv
<1>6. \A msg \in net' : Known(msg)'
  BY <1>2, <1>4, <1>5, KnownStays
<1> QED
  BY <1>3, <1>6

\* A packet to which the server answers with an error.
LEMMA ErrorOnly ==
  ASSUME TransferInv, UNCHANGED <<op, next>>, NEW R, R \subseteq {Error(Client)},
         \/ net' = (net \ {ClientRequest}) \cup R
         \/ net' = net \cup R
  PROVE  /\ \A msg \in net' : Known(msg)'
         /\ ClientRequest' \in net' => ClientRequest \in net /\ net' = net \cup R
         /\ ClientRequest' = ClientRequest
         /\ NoNews
<1>1. Error(Client) # ClientRequest /\ \A b : Error(Client) # Ack(Client, b) /\ Error(Client) # DataOf(b)
  BY Fields DEF TransferInv, ClientInv
<1>2. Known(Error(Client))
  BY Zenon DEF Known
<1>3. \A msg \in R : Known(msg) /\ msg # ClientRequest
  BY <1>1, <1>2
<1>4. NoNews
  BY <1>1 DEF NoNews
<1> QED
  BY <1>3, <1>4, NetStays

\* Nothing reached the client.
LEMMA NothingSent ==
  ASSUME TransferInv, UNCHANGED <<op, next>>, net' = net
  PROVE  /\ \A msg \in net' : Known(msg)'
         /\ ClientRequest' = ClientRequest
         /\ NoNews
<1>1. PICK R : R = {}
  BY Zenon
<1>2. R \subseteq {Error(Client)} /\ net' = net \cup R
  BY <1>1
<1> QED
  BY <1>2, ErrorOnly, Zenon

\* The client's request arrives.
LEMMA RequestArrives ==
  ASSUME TransferInv, ClientRequest \in net \cap Packets, recv(ClientRequest),
         net' = (net \ {ClientRequest}) \cup ToClient(reply'), UNCHANGED clientVars
  PROVE  TransferInv'
<1>1. /\ net = {ClientRequest} /\ next = 1 /\ owner # Client /\ op \in {"RRQ", "WRQ"}
      /\ handle => owner # None
  BY DEF TransferInv, ClientInv
<1>2. UNCHANGED <<op, next, got, cstate>> /\ ClientInv'
  BY DEF TransferInv, ClientInv, clientVars
<1>3. /\ handle' => owner' # None
      /\ \/ reply' = {Error(Client)} /\ owner' # Client
         \/ /\ op = "RRQ" /\ owner' = Client /\ mode_write' = 0 /\ blknum' = 1
            /\ \/ last_data' = NULL /\ pos' = 0 /\ reply' = {}
               \/ last_data' = Block(1, 0) /\ pos' = 1 /\ reply' = {DataTo(Client, Block(1, 0))}
         \/ /\ op = "WRQ" /\ owner' = Client /\ mode_write' = 1 /\ written' = <<>>
            /\ reply' = {Ack(Client, 0)}
  BY <1>1, RecvRequest
<1>4. net' = ToClient(reply')
  BY <1>1
<1>5. CASE reply' = {Error(Client)} /\ owner' # Client
  <2>1. net' = {Error(Client)}
    BY <1>4, <1>5, Reaches
  <2>2. /\ \A msg \in net' : Known(msg)'
        /\ ClientRequest' \in net' => ClientRequest \in net /\ net' = net \cup {Error(Client)}
    BY <1>1, <1>2, <2>1, ErrorOnly
  <2>3. Error(Client) # ClientRequest
    BY <1>1, Fields
  <2>4. ClientRequest' \notin net'
    BY <1>1, <2>1, <2>2, <2>3
  <2> QED
    BY <1>2, <1>3, <1>5, <2>2, <2>4, Zenon DEF TransferInv
<1>6. CASE /\ op = "RRQ" /\ owner' = Client /\ mode_write' = 0 /\ blknum' = 1
           /\ \/ last_data' = NULL /\ pos' = 0 /\ reply' = {}
              \/ last_data' = Block(1, 0) /\ pos' = 1 /\ reply' = {DataTo(Client, Block(1, 0))}
  <2>1. DataOf(1) = DataTo(Client, Block(1, 0))
    BY DEF DataOf
  <2>2. net' \subseteq {DataOf(1)} /\ (net' # {} => pos' = 1)
    BY <1>4, <1>6, <2>1, Reaches, Zenon
  <2>3. DataOf(1) # ClientRequest /\ \A b \in Nat : DataOf(b) = DataOf(1) => b = 1
    BY <1>1, Fields
  <2>4. Known(DataOf(1))
    BY <1>1, <1>6, TftpConstants DEF Known
  <2>5. /\ net' = (net \ {ClientRequest}) \cup net'
        /\ \A msg \in net' : Known(msg) /\ msg # ClientRequest
    BY <1>1, <2>2, <2>3, <2>4
  <2>6. /\ \A msg \in net' : Known(msg)'
        /\ ClientRequest' \notin net'
    BY <1>2, <2>5, NetStays, Zenon
  <2>7. Reading'
    <3>1. \A b \in Nat : DataOf(b) \in net' => b <= pos'
      BY <2>2, <2>3
    <3>2. \/ last_data' = Block(blknum', blknum' - 1) /\ pos' = blknum'
          \/ last_data' = NULL /\ pos' = blknum' - 1
      BY <1>6
    <3>3. next' <= pos' + 1 /\ blknum' \in 1..next' /\ blknum' <= FileBlocks + 1
      BY <1>1, <1>2, <1>6, TftpConstants
    <3> QED
      BY <1>6, <3>1, <3>2, <3>3, Zenon DEF Reading
  <2> QED
    BY <1>2, <1>3, <1>6, <2>6, <2>7, Zenon DEF TransferInv
<1>7. CASE /\ op = "WRQ" /\ owner' = Client /\ mode_write' = 1 /\ written' = <<>>
           /\ reply' = {Ack(Client, 0)}
  <2>1. net' = {Ack(Client, 0)}
    BY <1>4, <1>7, Reaches
  <2>2. Ack(Client, 0) # ClientRequest /\ \A b \in Nat : Ack(Client, b) = Ack(Client, 0) => b = 0
    BY <1>1, Fields
  <2>3. Known(Ack(Client, 0))
    BY <1>7 DEF Known
  <2>5. /\ net' = (net \ {ClientRequest}) \cup net'
        /\ \A msg \in net' : Known(msg) /\ msg # ClientRequest
    BY <1>1, <2>1, <2>2, <2>3
  <2>6. /\ \A msg \in net' : Known(msg)'
        /\ ClientRequest' \notin net'
    BY <1>2, <2>5, NetStays, Zenon
  <2>7. Writing'
    <3>1. written' \in Seq(Nat) /\ NoGaps(written')
      BY <1>7 DEF NoGaps
    <3>2. \A b \in Nat \ {0} : Ack(Client, b) \notin net'
      BY <2>1, <2>2
    <3> QED
      BY <1>7, <3>1, <3>2, Zenon DEF Writing
  <2> QED
    BY <1>2, <1>3, <1>7, <2>6, <2>7, Zenon DEF TransferInv
<1> QED
  BY <1>3, <1>5, <1>6, <1>7

\* A late packet of the client arrives and its transfer is not going on.
LEMMA LateArrives ==
  ASSUME TransferInv, NEW pkt \in net \cap Packets, recv(pkt), pkt # ClientRequest,
         owner # Client, net' = (net \ {ClientRequest}) \cup ToClient(reply'),
         UNCHANGED clientVars
  PROVE  TransferInv' /\ UNCHANGED fileVars
<1>1. pkt.from = Client /\ pkt.op \in {"ACK", "DATA"} /\ (handle => owner # None)
  BY Delivered DEF TransferInv
<1>2. UNCHANGED fileVars /\ reply' = {Error(Client)}
  BY <1>1, RecvElse
<1>3. UNCHANGED <<op, next, got, cstate>> /\ ClientInv'
  BY DEF TransferInv, ClientInv, clientVars
<1>4. net' = (net \ {ClientRequest}) \cup {Error(Client)}
  BY <1>2, Reaches, Zenon
<1>5. net # {ClientRequest}
  OBVIOUS
<1>6. /\ \A msg \in net' : Known(msg)'
      /\ ClientRequest' \notin net'
  BY <1>3, <1>4, <1>5, ErrorOnly, Zenon DEF TransferInv
<1>7. UNCHANGED <<owner, handle>>
  BY <1>2 DEF fileVars
<1> QED
  BY <1>1, <1>2, <1>3, <1>6, <1>7, Zenon DEF TransferInv

\* An ACK arrives in the client's transfer: the next block is sent only for the
\* acknowledgement of the last one sent.
LEMMA AckArrives ==
  ASSUME TransferInv, NEW pkt \in net \cap Packets, recv(pkt), pkt # ClientRequest,
         owner = Client, op = "RRQ",
         net' = (net \ {ClientRequest}) \cup ToClient(reply'), UNCHANGED clientVars
  PROVE  TransferInv'
<1>1. /\ pkt.from = Client /\ pkt.op = "ACK" /\ pkt.blk \in 1..(next - 1)
      /\ (handle => owner # None) /\ Reading /\ ClientInv /\ ClientRequest \notin net
  BY Delivered DEF TransferInv
<1>2. UNCHANGED <<op, next, got, cstate>> /\ ClientInv'
  BY <1>1 DEF ClientInv, clientVars
<1>3. CASE UNCHANGED fileVars /\ reply' = {Error(Client)}
  <2>1. net' = (net \ {ClientRequest}) \cup {Error(Client)}
    BY <1>3, Reaches
  <2>2. /\ \A msg \in net' : Known(msg)'
        /\ ClientRequest' \notin net' /\ NoNews
    BY <1>1, <1>2, <2>1, ErrorOnly, Zenon
  <2>3. Reading'
    BY <1>1, <1>2, <1>3, <2>2, PartStays
  <2>4. UNCHANGED <<owner, handle>>
    BY <1>3 DEF fileVars
  <2> QED
    BY <1>1, <1>2, <2>2, <2>3, <2>4, Zenon DEF TransferInv
<1>4. CASE Closed /\ reply' \in {{}, {Error(Client)}}
  <2>1. ToClient(reply') \subseteq {Error(Client)}
    BY <1>4, Reaches, Zenon
  <2>2. /\ \A msg \in net' : Known(msg)'
        /\ ClientRequest' \notin net'
    BY <1>1, <1>2, <2>1, ErrorOnly
  <2>3. handle' = FALSE /\ owner' # Client
    BY <1>4, TftpConstants, TransferConstants DEF Closed
  <2> QED
    BY <1>2, <2>2, <2>3, Zenon DEF TransferInv
<1>5. CASE /\ pkt.blk = blknum /\ (last_data # NULL => ~last_data.short)
           /\ blknum' = (blknum + 1) % BlkMod
           /\ UNCHANGED <<mode_write, owner, handle, written>>
           /\ \/ last_data' = NULL /\ pos' = pos /\ reply' = {}
              \/ /\ last_data' = Block(blknum', pos) /\ pos' = pos + 1
                 /\ reply' = {DataTo(Client, Block(blknum', pos))}
  <2>1. /\ mode_write = 0 /\ blknum \in 1..next /\ blknum <= FileBlocks + 1 /\ next <= pos + 1
        /\ \/ last_data = Block(blknum, blknum - 1) /\ pos = blknum
           \/ last_data = NULL /\ pos = blknum - 1
        /\ \A b \in Nat : DataOf(b) \in net => b <= pos
    BY <1>1 DEF Reading
  <2>2. next \in Nat /\ BlkMod \in Nat /\ FileBlocks \in Nat /\ FileBlocks + 2 < BlkMod
    BY <1>1, TftpConstants, TransferConstants DEF ClientInv
  <2>3. last_data = Block(blknum, blknum - 1) /\ pos = blknum /\ next = blknum + 1
    BY <1>1, <1>5, <2>1, <2>2
  <2>4. last_data # NULL /\ last_data.short = (blknum - 1 >= FileBlocks)
    BY <2>1, <2>2, <2>3, BlockType DEF Block
  <2>5. blknum <= FileBlocks /\ blknum' = blknum + 1 /\ blknum' \in Nat
    <3>1. ~(blknum - 1 >= FileBlocks)
      BY <1>5, <2>4, Zenon
    <3>2. blknum' = (blknum + 1) % BlkMod /\ blknum \in Nat /\ blknum <= FileBlocks
      BY <1>5, <2>1, <2>2, <3>1, SMTT(30)
    <3> QED
      BY <2>2, <3>2
  <2>6. \/ last_data' = NULL /\ pos' = pos /\ net' = net
        \/ /\ last_data' = Block(blknum', blknum' - 1) /\ pos' = blknum'
           /\ net' = net \cup {DataOf(blknum')}
    <3>1. CASE last_data' = NULL /\ pos' = pos /\ reply' = {}
      BY <1>1, <3>1, Reaches
    <3>2. CASE /\ last_data' = Block(blknum', pos) /\ pos' = pos + 1
               /\ reply' = {DataTo(Client, Block(blknum', pos))}
      <4>1. pos = blknum' - 1
        BY <2>1, <2>3, <2>5
      <4>2. reply' = {DataOf(blknum')}
        BY <3>2, <4>1 DEF DataOf
      <4> QED
        BY <1>1, <2>1, <2>3, <2>5, <3>2, <4>1, <4>2, Reaches
    <3> QED
      BY <1>5, <3>1, <3>2, SMTT(30)
  <2>7. PICK R : R \in {{}, {DataOf(blknum')}} /\ net' = net \cup R /\ (R # {} => pos' = blknum')
    BY <2>6, Zenon
  <2>8. \A msg \in R : Known(msg) /\ msg # ClientRequest
    <3>1. blknum' \in 1..next /\ blknum' <= FileBlocks + 1
      BY <2>1, <2>2, <2>3, <2>5
    <3>2. Known(DataOf(blknum'))
      BY <3>1, Zenon DEF Known
    <3>3. DataOf(blknum') # ClientRequest
      BY Fields
    <3> QED
      BY <2>7, <3>2, <3>3
  <2>9. /\ \A msg \in net' : Known(msg)'
        /\ ClientRequest' \notin net'
    BY <1>1, <1>2, <2>7, <2>8, NetStays
  <2>10. \A b \in Nat : DataOf(b) \in net' => b <= pos'
    <3>1. \A b \in Nat : DataOf(b) = DataOf(blknum') => b = blknum'
      BY Fields
    <3>2. pos <= pos'
      BY <2>1, <2>3, <2>5, <2>6
    <3>3. pos \in Nat /\ pos' \in Nat
      BY <2>1, <2>3, <2>5, <2>6
    <3> QED
      BY <2>1, <2>5, <2>7, <3>1, <3>2, <3>3
  <2>11. Reading'
    <3>1. mode_write' = 0 /\ blknum' \in 1..next' /\ blknum' <= FileBlocks + 1
      BY <1>2, <1>5, <2>1, <2>2, <2>3, <2>5
    <3>2. next' <= pos' + 1
      BY <1>2, <2>1, <2>3, <2>5, <2>6
    <3>3. \/ last_data' = Block(blknum', blknum' - 1) /\ pos' = blknum'
          \/ last_data' = NULL /\ pos' = blknum' - 1
      BY <2>1, <2>3, <2>5, <2>6
    <3> QED
      BY <2>10, <3>1, <3>2, <3>3, Zenon DEF Reading
  <2> QED
    BY <1>1, <1>2, <1>5, <2>9, <2>11, Zenon DEF TransferInv
<1> QED
  BY <1>1, <1>3, <1>4, <1>5, RecvAck

\* A block arrives in the client's transfer: it is written only behind the
\* block before it.
LEMMA BlockArrives ==
  ASSUME TransferInv, NEW pkt \in net \cap Packets, recv(pkt), pkt # ClientRequest,
         owner = Client, op = "WRQ",
         net' = (net \ {ClientRequest}) \cup ToClient(reply'), UNCHANGED clientVars
  PROVE  TransferInv' /\ NoGaps(written')
<1>1. /\ pkt.from = Client /\ pkt.op = "DATA" /\ pkt.blk \in 1..(next - 1)
      /\ pkt.blk > 1 => Ack(Client, pkt.blk - 1) \in net
      /\ (handle => owner # None) /\ Writing /\ ClientInv /\ ClientRequest \notin net
  BY Delivered DEF TransferInv
<1>2. UNCHANGED <<op, next, got, cstate>> /\ ClientInv'
  BY <1>1 DEF ClientInv, clientVars
<1>3. /\ Closed \/ UNCHANGED <<owner, handle>>
      /\ mode_write' = mode_write
      /\ \/ written' = written /\ reply' = {Error(Client)}
         \/ written' = Append(written, pkt.blk) /\ reply' = {Ack(Client, pkt.blk)}
  BY <1>1, RecvBlock
<1>4. handle' => owner' # None
  BY <1>1, <1>3, Zenon DEF Closed
<1>5. /\ mode_write = 1 /\ written \in Seq(Nat) /\ NoGaps(written)
      /\ \A b \in Nat \ {0} : Ack(Client, b) \in net => \E j \in 1..Len(written) : written[j] = b
  BY <1>1 DEF Writing
<1>6. CASE written' = written /\ reply' = {Error(Client)}
  <2>1. net' = (net \ {ClientRequest}) \cup {Error(Client)}
    BY <1>6, Reaches, Zenon
  <2>2. /\ \A msg \in net' : Known(msg)'
        /\ ClientRequest' \notin net' /\ NoNews
    BY <1>1, <1>2, <2>1, ErrorOnly, Zenon
  <2>3. Writing'
    BY <1>3, <1>5, <1>6, <2>2, Zenon DEF Writing, NoNews
  <2> QED
    BY <1>2, <1>4, <1>5, <1>6, <2>2, <2>3, Zenon DEF TransferInv
<1>7. CASE written' = Append(written, pkt.blk) /\ reply' = {Ack(Client, pkt.blk)}
  <2>1. PICK c : c = pkt.blk
    OBVIOUS
  <2>2. next \in Nat
    BY <1>1 DEF ClientInv
  <2>3. c \in Nat \ {0} /\ (c > 1 => c - 1 \in Nat \ {0} /\ Ack(Client, c - 1) \in net)
    BY <1>1, <2>1, <2>2
  <2>4. c > 1 => \E j \in 1..Len(written) : written[j] = c - 1
    BY <1>5, <2>3, Zenon
  <2>5. written' = Append(written, c) /\ NoGaps(written') /\ written' \in Seq(Nat)
    BY <1>5, <1>7, <2>1, <2>3, <2>4, AppendNoGaps
  <2>6. net' = (net \ {ClientRequest}) \cup {Ack(Client, c)}
    BY <1>7, <2>1, Reaches, Zenon
  <2>7. Known(Ack(Client, c)) /\ Ack(Client, c) # ClientRequest
    <3>1. c \in Nat
      BY <2>3
    <3>2. Ack(Client, c) # ClientRequest
      BY Fields
    <3> QED
      BY <3>1, <3>2, Zenon DEF Known
  <2>8. /\ \A msg \in net' : Known(msg)'
        /\ ClientRequest' \notin net'
    <3>1. \A msg \in {Ack(Client, c)} : Known(msg) /\ msg # ClientRequest
      BY <2>7
    <3> QED
      BY <1>1, <1>2, <2>6, <3>1, NetStays, Zenon
  <2>9. ASSUME NEW b \in Nat \ {0}, Ack(Client, b) \in net'
        PROVE  \E j \in 1..Len(written') : written'[j] = b
    <3>1. CASE Ack(Client, b) \in net
      <4>1. PICK j \in 1..Len(written) : written[j] = b
        BY <1>5, <3>1, Zenon
      <4> QED
        BY <1>5, <2>3, <2>5, <4>1
    <3>2. CASE Ack(Client, b) = Ack(Client, c)
      <4>1. b = c
        BY <3>2, Fields
      <4>2. Len(written) \in Nat /\ Len(written') = Len(written) + 1 /\ written'[Len(written) + 1] = c
        BY <1>5, <2>3, <2>5
      <4> QED
        BY <4>1, <4>2
    <3> QED
      BY <2>6, <2>9, <3>1, <3>2
  <2>10. Writing'
    BY <1>3, <1>5, <2>5, <2>9, Zenon DEF Writing
  <2> QED
    BY <1>2, <1>4, <2>5, <2>8, <2>10, Zenon DEF TransferInv
<1> QED
  BY <1>3, <1>6, <1>7

\* A packet of the client arrives.
LEMMA DeliverInv == TransferInv /\ Deliver => TransferInv'
<1> SUFFICES ASSUME TransferInv, Deliver PROVE TransferInv'
  OBVIOUS
<1>1. PICK pkt \in net \cap Packets :
        recv(pkt) /\ net' = (net \ {ClientRequest}) \cup ToClient(reply')
  BY Zenon DEF Deliver
<1>2. UNCHANGED clientVars /\ op \in {"RRQ", "WRQ"}
  BY DEF Deliver, TransferInv, ClientInv
<1>3. CASE pkt = ClientRequest
  BY <1>1, <1>2, <1>3, RequestArrives, Zenon
<1>4. CASE pkt # ClientRequest /\ owner # Client
  BY <1>1, <1>2, <1>4, LateArrives, Zenon
<1>5. CASE pkt # ClientRequest /\ owner = Client /\ op = "RRQ"
  BY <1>1, <1>2, <1>5, AckArrives, Zenon
<1>6. CASE pkt # ClientRequest /\ owner = Client /\ op = "WRQ"
  BY <1>1, <1>2, <1>6, BlockArrives, Zenon
<1> QED
  BY <1>2, <1>3, <1>4, <1>5, <1>6

\* A packet of another client.
LEMMA StrangerInv == TransferInv /\ Stranger => TransferInv'
<1> SUFFICES ASSUME TransferInv, Stranger PROVE TransferInv'
  OBVIOUS
<1>1. PICK pkt \in Packets : pkt.from # Client /\ recv(pkt)
  BY Zenon DEF Stranger
<1>2. /\ owner = Client => UNCHANGED fileVars
      /\ owner # Client => owner' # Client
      /\ handle' => owner' # None
  BY <1>1, RecvFromOther, Zenon DEF TransferInv
<1>3. UNCHANGED <<net, op, next, got, cstate>> /\ ClientInv'
  BY DEF Stranger, TransferInv, ClientInv, clientVars
<1>5. /\ \A msg \in net' : Known(msg)'
      /\ ClientRequest' = ClientRequest /\ NoNews
  BY <1>3, NothingSent, Zenon
<1>6. CASE owner # Client
  BY <1>2, <1>3, <1>5, <1>6, Zenon DEF TransferInv
<1>7. CASE owner = Client
  <2>1. op \in {"RRQ", "WRQ"} /\ (op = "RRQ" => Reading) /\ (op = "WRQ" => Writing)
    BY <1>7 DEF TransferInv, ClientInv
  <2>2. (op = "RRQ" => Reading') /\ (op = "WRQ" => Writing')
    BY <1>2, <1>3, <1>5, <1>7, <2>1, PartStays, Zenon
  <2>3. ClientRequest \notin net
    BY <1>7 DEF TransferInv
  <2> QED
    BY <1>2, <1>3, <1>5, <2>2, <2>3, Zenon DEF TransferInv
<1> QED
  BY <1>6, <1>7

\* The timer: what it sends again was sent before.
LEMMA TimerInvariant == TransferInv /\ NothingLeftOver /\ Timer => TransferInv'
<1> SUFFICES ASSUME TransferInv, NothingLeftOver, Timer PROVE TransferInv'
  OBVIOUS
<1>1. /\ tftp_tmr /\ net' = net \cup ToClient(reply')
      /\ UNCHANGED <<op, next, got, cstate>> /\ ClientInv' /\ op \in {"RRQ", "WRQ"}
      /\ handle => owner # None
  BY DEF Timer, clientVars, TransferInv, ClientInv
<1>2. CASE Closed /\ reply' = {}
  <2>1. net' = net
    BY <1>1, <1>2, Reaches
  <2>2. /\ \A msg \in net' : Known(msg)'
        /\ ClientRequest' = ClientRequest
    BY <1>1, <2>1, NothingSent, Zenon
  <2>3. handle' = FALSE /\ owner' # Client
    BY <1>2, <2>1, TftpConstants, TransferConstants DEF Closed
  <2> QED
    BY <1>1, <2>1, <2>2, <2>3, Zenon DEF TransferInv
<1>3. CASE UNCHANGED fileVars /\ ToClient(reply') = {}
  <2>1. net' = net
    BY <1>1, <1>3
  <2>2. /\ \A msg \in net' : Known(msg)'
        /\ ClientRequest' = ClientRequest /\ NoNews
    BY <1>1, <2>1, NothingSent, Zenon
  <2>3. UNCHANGED <<handle, owner>>
    BY <1>3 DEF fileVars
  <2>4. owner = Client => (op = "RRQ" => Reading') /\ (op = "WRQ" => Writing')
    BY <1>1, <1>3, <2>2, PartStays, Zenon DEF TransferInv
  <2> QED
    BY <1>1, <2>1, <2>2, <2>3, <2>4, Zenon DEF TransferInv
<1>4. CASE /\ UNCHANGED fileVars /\ handle /\ last_data # NULL
           /\ reply' = {DataTo(owner, last_data)} /\ owner = Client
  <2>1. op = "RRQ"
    BY <1>1, <1>4 DEF TransferInv, Writing, NothingLeftOver
  <2>2. Reading /\ ClientInv /\ ClientRequest \notin net
    BY <1>4, <2>1 DEF TransferInv
  <2>3. /\ blknum \in 1..next /\ blknum <= FileBlocks + 1 /\ last_data = Block(blknum, blknum - 1)
        /\ pos = blknum
    BY <1>4, <2>2 DEF Reading
  <2>4. net' = net \cup {DataOf(blknum)}
    BY <1>1, <1>4, <2>3, Reaches, Zenon DEF DataOf
  <2>5. \A msg \in {DataOf(blknum)} : Known(msg) /\ msg # ClientRequest
    <3>1. Known(DataOf(blknum))
      BY <2>1, <2>3, Zenon DEF Known
    <3>2. DataOf(blknum) # ClientRequest
      BY <2>1, Fields, SMTT(30)
    <3> QED
      BY <3>1, <3>2
  <2>6. /\ \A msg \in net' : Known(msg)'
        /\ ClientRequest' \notin net'
    BY <1>1, <2>2, <2>4, <2>5, NetStays, Zenon
  <2>7. next \in Nat
    BY <2>2 DEF ClientInv
  <2>8. \A b \in Nat : DataOf(b) \in net' => b <= pos
    <3>1. \A b \in Nat : DataOf(b) = DataOf(blknum) => b = blknum
      BY Fields, SMTT(30)
    <3> QED
      BY <2>2, <2>3, <2>4, <2>7, <3>1 DEF Reading
  <2>9. UNCHANGED <<handle, owner, mode_write, last_data, blknum, pos>>
    BY <1>4 DEF fileVars
  <2>10. Reading'
    BY <1>1, <2>2, <2>8, <2>9, Zenon DEF Reading
  <2> QED
    BY <1>1, <2>1, <2>6, <2>9, <2>10, Zenon DEF TransferInv
<1>5. \/ UNCHANGED fileVars /\ reply' = {}
      \/ UNCHANGED fileVars /\ handle /\ last_data # NULL /\ reply' = {DataTo(owner, last_data)}
      \/ Closed /\ reply' = {}
  BY <1>1, TmrOutcome, Zenon
<1> QED
  BY <1>2, <1>3, <1>4, <1>5, Reaches, Zenon

\* The client's and the clock's steps leave the server's part alone.
LEMMA ServerStays ==
  ASSUME TransferInv, UNCHANGED fileVars, UNCHANGED <<op, next>>, net' = net, ClientInv'
  PROVE  TransferInv'
<1>2. /\ \A msg \in net' : Known(msg)'
      /\ ClientRequest' = ClientRequest /\ NoNews
  BY NothingSent, Zenon
<1>3. owner = Client => (op = "RRQ" => Reading') /\ (op = "WRQ" => Writing')
  BY <1>2, PartStays, Zenon DEF TransferInv, ClientInv
<1>4. UNCHANGED <<handle, owner>>
  BY DEF fileVars
<1> QED
  BY <1>2, <1>3, <1>4, Zenon DEF TransferInv

\* The client gets the block it waits for.
LEMMA ReadBlockInv == TransferInv /\ ReadBlock => TransferInv'
<1> SUFFICES ASSUME TransferInv, ReadBlock PROVE TransferInv'
  OBVIOUS
<1>1. PICK msg \in net : /\ msg.op = "DATA" /\ msg.data.blk = next
                         /\ got' = Append(got, msg.data.at)
                         /\ cstate' = IF msg.data.short THEN "done" ELSE "run"
  BY Zenon DEF ReadBlock
<1>2. /\ op = "RRQ" /\ op' = op /\ next' = next + 1 /\ net' = net \cup {ClientAck(next)}
      /\ UNCHANGED <<handle, owner, mode_write, last_data, blknum, pos>> /\ cstate = "run"
  BY DEF ReadBlock, ClientRuns, vars, fileVars
<1>3. next \in Nat \ {0} /\ FileBlocks \in Nat
  BY TftpConstants DEF TransferInv, ClientInv
<1>4. PICK b \in 1..next : b <= FileBlocks + 1 /\ msg = DataOf(b)
  <2>1. Known(msg)
    BY SMTT(30) DEF TransferInv
  <2>2. msg # ClientRequest /\ msg # Error(Client) /\ \A b : msg # ClientAck(b)
    BY <1>1, <1>2, Fields
  <2> QED
    BY <1>2, <2>1, <2>2, Zenon DEF Known
<1>5. b = next /\ msg.data.at = next - 1 /\ msg.data.short = (next - 1 >= FileBlocks)
  BY <1>1, <1>4, Fields
<1>6. next <= FileBlocks + 1 /\ DataOf(next) \in net
  BY <1>4, <1>5
<1>7. cstate' = "done" <=> next' = FileBlocks + 2
  <2>1. cstate' = IF next - 1 >= FileBlocks THEN "done" ELSE "run"
    BY <1>1, <1>5, Zenon
  <2> QED
    BY <1>2, <1>3, <1>6, <2>1
<1>8. ClientInv'
  <2>1. got \in Seq(Nat) /\ Len(got) = next - 1 /\ \A i \in 1..Len(got) : got[i] = i - 1
    BY <1>2 DEF TransferInv, ClientInv
  <2>2. /\ got' = Append(got, next - 1) /\ got' \in Seq(Nat) /\ Len(got') = next
        /\ \A i \in 1..Len(got') : got'[i] = i - 1
    BY <1>1, <1>3, <1>5, <2>1
  <2>3. next' \in Nat \ {0} /\ Len(got') = next' - 1 /\ next' <= FileBlocks + 2
    BY <1>2, <1>3, <1>6, <2>2
  <2> QED
    BY <1>2, <1>7, <2>2, <2>3, Zenon DEF ClientInv
<1>9. ClientRequest \notin net /\ ClientRequest' \notin net'
  <2>1. DataOf(next) # ClientRequest /\ ClientAck(next) # ClientRequest
    BY <1>2, Fields
  <2>2. ClientRequest' = ClientRequest
    BY <1>2 DEF ClientRequest
  <2> QED
    BY <1>2, <1>6, <2>1, <2>2, SMTT(30) DEF TransferInv
<1>10. \A m \in net' : Known(m)'
  <2>1. \A c : Ack(Client, c) \in net => Ack(Client, c) \in net'
    BY <1>2
  <2>2. \A m \in net : Known(m)'
    BY <1>2, <1>3, <2>1, KnownStays DEF TransferInv
  <2>3. PICK k, ack : k = next /\ ack = ClientAck(k)
    OBVIOUS
  <2>4. k \in 1..(next' - 1)
    BY <1>2, <1>3, <2>3
  <2>5. Known(ack)'
    BY <1>2, <2>3, <2>4, Zenon DEF Known
  <2> QED
    BY <1>2, <2>2, <2>3, <2>5, Zenon
<1>11. Reading => Reading'
  <2> SUFFICES ASSUME Reading PROVE Reading'
    OBVIOUS
  <2>1. next <= pos /\ pos \in Nat
    BY <1>3, <1>6 DEF Reading
  <2>2. blknum' \in 1..next' /\ next' <= pos' + 1
    BY <1>2, <1>3, <2>1 DEF Reading
  <2>3. \A c : DataOf(c) \in net' => DataOf(c) \in net
    BY <1>2, Fields
  <2> QED
    BY <1>2, <2>2, <2>3, Zenon DEF Reading
<1> QED
  BY <1>2, <1>8, <1>9, <1>10, <1>11, Zenon DEF TransferInv

\* The client sends the next block, after the last one was acknowledged.
LEMMA WriteBlockInv == TransferInv /\ WriteBlock => TransferInv'
<1> SUFFICES ASSUME TransferInv, WriteBlock PROVE TransferInv'
  OBVIOUS
<1>1. /\ op = "WRQ" /\ op' = op /\ next' = next + 1 /\ net' = net \cup {ClientData(next)}
      /\ UNCHANGED <<handle, owner, mode_write, written, got>> /\ Ack(Client, next - 1) \in net
  BY DEF WriteBlock, ClientRuns, vars, fileVars
<1>2. next \in Nat \ {0}
  BY DEF TransferInv, ClientInv
<1>3. ClientInv'
  BY <1>1 DEF TransferInv, ClientInv
<1>4. ClientRequest \notin net /\ ClientRequest' \notin net'
  <2>1. Ack(Client, next - 1) # ClientRequest /\ ClientData(next) # ClientRequest
    BY <1>1, Fields
  <2>2. ClientRequest' = ClientRequest
    BY <1>1 DEF ClientRequest
  <2> QED
    BY <1>1, <2>1, <2>2 DEF TransferInv
<1>5. \A m \in net' : Known(m)'
  <2>1. \A c : Ack(Client, c) \in net => Ack(Client, c) \in net'
    BY <1>1
  <2>2. \A m \in net : Known(m)'
    BY <1>1, <1>2, <2>1, KnownStays DEF TransferInv
  <2>3. PICK k, data : k = next /\ data = ClientData(k)
    OBVIOUS
  <2>4. k \in 1..(next' - 1) /\ Ack(Client, k - 1) \in net'
    BY <1>1, <1>2, <2>3
  <2>5. Known(data)'
    BY <1>1, <2>3, <2>4, Zenon DEF Known
  <2> QED
    BY <1>1, <2>2, <2>3, <2>5, Zenon
<1>6. Writing => Writing'
  <2>1. \A b : Ack(Client, b) \in net' => Ack(Client, b) \in net
    BY <1>1, Fields
  <2> QED
    BY <1>1, <2>1, Zenon DEF Writing
<1> QED
  BY <1>1, <1>3, <1>4, <1>5, <1>6, Zenon DEF TransferInv

\* Every step keeps the invariant.
LEMMA TransferStepInv ==
  TransferInv /\ NothingLeftOver /\ [TransferNext]_allVars => TransferInv'
<1> SUFFICES ASSUME TransferInv, NothingLeftOver, [TransferNext]_allVars PROVE TransferInv'
  OBVIOUS
<1>1. CASE ClientError
  <2>1. /\ UNCHANGED fileVars /\ UNCHANGED <<op, next, net, got>>
        /\ cstate = "run" /\ cstate' = "failed"
    BY <1>1 DEF ClientError, ClientRuns, vars
  <2>2. ClientInv'
    BY <2>1 DEF TransferInv, ClientInv
  <2> QED
    BY <2>1, <2>2, ServerStays
<1>2. CASE Tick \/ UNCHANGED allVars
  <2>1. UNCHANGED fileVars /\ UNCHANGED <<op, next, net, got, cstate>>
    BY <1>2 DEF Tick, Interval, allVars, vars, clientVars
  <2>2. ClientInv'
    BY <2>1 DEF TransferInv, ClientInv
  <2> QED
    BY <2>1, <2>2, ServerStays
<1> QED
  BY <1>1, <1>2, ReadBlockInv, WriteBlockInv, DeliverInv, StrangerInv, TimerInvariant, Zenon
     DEF TransferNext

\* The server in a transfer is the server with any clients.
LEMMA TransferIsServer == TransferSpec => TftpSpec
<1>1. TransferInit => TftpInit
  BY DEF TransferInit
<1> QED
  BY <1>1, TransferStepIsStep, PTL DEF TransferSpec, TftpSpec

\* The invariant holds in every transfer.
LEMMA TransferInvariant == TransferSpec => []TransferInv
<1>1. TransferSpec => []NothingLeftOver
  BY TransferIsServer, TransferLeavesNothing, PTL
<1> QED
  BY <1>1, TransferInitInv, TransferStepInv, PTL DEF TransferSpec

\* The client reads the file block for block and in whole, for a file of any
\* length that the block numbers can count, any number of lost, duplicated and
\* late packets, and whatever the other clients send.
THEOREM ClientReadsTheFile == TransferSpec => []ReadsTheFile
<1>1. TransferInv => ReadsTheFile
  <2> SUFFICES ASSUME TransferInv PROVE ReadsTheFile
    OBVIOUS
  <2>1. ClientInv /\ FileBlocks \in Nat
    BY TftpConstants DEF TransferInv
  <2>2. op = "RRQ" /\ cstate = "done" => Len(got) = FileBlocks + 1
    BY <2>1 DEF ClientInv
  <2> QED
    BY <2>1, <2>2, Zenon DEF ClientInv, ReadsTheFile
<1> QED
  BY <1>1, TransferInvariant, PTL

\* The server closes the file as read to the end only after the client has
\* read the end.
THEOREM EndIsReadFirst == TransferSpec => ServerEndsLast
<1>1. ASSUME TransferInv, NEW pkt \in net \cap AckPackets, RecvAckLast(pkt)
      PROVE  cstate = "done"
  <2>1. /\ owner \in {None, pkt.from} /\ handle /\ mode_write = 0 /\ pkt.blk = blknum
        /\ last_data # NULL /\ last_data.short
    BY <1>1, Zenon DEF RecvAckLast, AckFits, Accepted
  <2>2. pkt \in net \cap Packets /\ pkt.op = "ACK"
    BY SMTT(30) DEF Packets, AckPackets
  <2>3. pkt.from = Client /\ pkt # ClientRequest /\ ClientInv /\ (handle => owner # None)
    BY <1>1, <2>2, Delivered, Fields DEF TransferInv, ClientInv
  <2>4. op = "RRQ" /\ pkt.blk \in 1..(next - 1)
    BY <1>1, <2>2, <2>3, Delivered, Zenon
  <2>5. Reading
    BY <1>1, <2>1, <2>3, <2>4 DEF TransferInv
  <2>6. last_data = Block(blknum, blknum - 1)
    BY <2>1, <2>5 DEF Reading
  <2>7. last_data.short = (blknum - 1 >= FileBlocks)
    BY <2>6 DEF Block
  <2>8. blknum - 1 >= FileBlocks
    BY <2>1, <2>7, Zenon
  <2>9. next = FileBlocks + 2
    BY <2>1, <2>3, <2>4, <2>8, TftpConstants DEF ClientInv
  <2> QED
    BY <2>3, <2>4, <2>9, Zenon DEF ClientInv
<1>2. TransferInv => [(\E pkt \in net \cap AckPackets : RecvAckLast(pkt)) => cstate = "done"]_allVars
  BY <1>1
<1> QED
  BY <1>2, TransferInvariant, PTL DEF ServerEndsLast

\* The server writes a block of the client only behind all the blocks before
\* it, however often they are sent again and in whatever order they arrive.
THEOREM BlocksFollow == TransferSpec => NothingIsSkipped
<1>1. ASSUME TransferInv, [TransferNext]_allVars, owner = Client, mode_write = 1
      PROVE  NoGaps(written')
  <2>1. op = "WRQ" /\ NoGaps(written)
    BY <1>1 DEF TransferInv, ClientInv, Reading, Writing
  <2>2. CASE Deliver
    <3>1. PICK pkt \in net \cap Packets :
            recv(pkt) /\ net' = (net \ {ClientRequest}) \cup ToClient(reply')
      BY <2>2, Zenon DEF Deliver
    <3>2. UNCHANGED clientVars /\ pkt # ClientRequest
      BY <1>1, <2>2 DEF Deliver, TransferInv
    <3> QED
      BY <1>1, <2>1, <3>1, <3>2, BlockArrives, Zenon
  <2>3. CASE Stranger
    <3>1. PICK pkt \in Packets : pkt.from # Client /\ recv(pkt)
      BY <2>3, Zenon DEF Stranger
    <3>2. UNCHANGED fileVars
      BY <1>1, <3>1, RecvFromOther, Zenon DEF TransferInv
    <3> QED
      BY <2>1, <3>2 DEF fileVars
  <2>4. CASE Timer
    <3>1. UNCHANGED fileVars \/ written' = written
      BY <2>4, TmrOutcome, Zenon DEF Timer
    <3> QED
      BY <2>1, <3>1 DEF fileVars
  <2>5. CASE ClientRuns \/ Tick \/ UNCHANGED allVars
    BY <2>1, <2>5 DEF ClientRuns, Tick, Interval, allVars, vars, fileVars
  <2> QED
    BY <1>1, <2>2, <2>3, <2>4, <2>5, Zenon DEF TransferNext, ReadBlock, WriteBlock, ClientError
<1>2. TransferInv /\ [TransferNext]_allVars
        => [owner = Client /\ mode_write = 1 =>
              \A i \in 1..Len(written') : \A b \in 1..(written'[i] - 1) :
                \E j \in 1..(i - 1) : written'[j] = b]_allVars
  BY <1>1 DEF NoGaps
<1> QED
  BY <1>2, TransferInvariant, PTL DEF TransferSpec, NothingIsSkipped
=============================================================================

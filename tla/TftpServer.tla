----------------------------- MODULE TftpServer -----------------------------
(***************************************************************************)
(* The TFTP server, apps/tftp/tftp_server.c: one transfer at a time, one   *)
(* retransmission timer.                                                   *)
(*                                                                         *)
(* recv and tftp_tmr run to completion in the main loop, so each outcome   *)
(* of a call is one action.  The packets sent in a step are in reply; a    *)
(* packet for which pbuf_alloc fails is not sent, which for the other side *)
(* is a lost packet.                                                       *)
(*                                                                         *)
(* Time advances in intervals of TFTP_TIMER_MSECS.  Of the timeout list    *)
(* only the pending calls of tftp_tmr matter: tm.due of them fire in this  *)
(* interval, tm.armed in the next one.  The code only uses the difference  *)
(* of timer and last_pkt, which is idle here.                              *)
(*                                                                         *)
(* A definition Name_Fault is Name with a plausible fault in it; it takes  *)
(* no part in the specification and only serves to show that the           *)
(* properties notice the fault.                                            *)
(***************************************************************************)
EXTENDS Integers, Sequences

CONSTANTS
  Clients,       \* address and port of each client
  None,          \* no client: port 0 and address any
  NULL,          \* no last_data
  FileBlocks,    \* full blocks of the file that is read; a short one follows
  BlkMod,        \* block numbers are u16_t (65536 in the code)
  BlkNums,       \* block numbers that arrive in packets
  TIMEOUT,       \* TFTP_TIMEOUT_MSECS / TFTP_TIMER_MSECS (200 in the code)
  MAX_RETRIES,   \* TFTP_MAX_RETRIES (5 in the code)
  TimerSlots,    \* entries of MEMP_SYS_TIMEOUT left for the server (1: TCP's)
  MaxPackets     \* bound on the packets that arrive

ASSUME TftpConstants ==
  /\ None \notin Clients
  /\ NULL \notin [blk : Nat, at : Nat, short : BOOLEAN]
  /\ FileBlocks \in Nat
  /\ BlkMod \in Nat \ {0, 1}
  /\ BlkNums \subseteq 0..(BlkMod - 1)
  /\ TIMEOUT \in Nat
  /\ MAX_RETRIES \in Nat
  /\ TimerSlots \in Nat \ {0}
  /\ MaxPackets \in Nat

VARIABLES
  handle,      \* a file is open
  mode_write,  \* the transfer is a write
  owner,       \* tftp_state.addr and port
  last_data,   \* the DATA packet kept for retransmission
  blknum,
  retries,
  idle,        \* timer - last_pkt
  tm,          \* pending calls of tftp_tmr
  pos,         \* blocks read from the file
  written,     \* blocks written to the file, in order
  reply,       \* packets sent in the last step
  silence,     \* intervals since the transfer's last packet (history)
  packets      \* packets received so far

fileVars == <<handle, mode_write, owner, last_data, blknum, pos, written>>
vars == <<fileVars, retries, idle, tm, reply, silence, packets>>

Error(c) == [op |-> "ERROR", to |-> c]
Ack(c, b) == [op |-> "ACK", to |-> c, blk |-> b]

\* The block of the file at position n: full ones first, then a short one.
Block(b, n) == [blk |-> b, at |-> n, short |-> n >= FileBlocks]
DataTo(c, d) == [op |-> "DATA", to |-> c, data |-> d]

\* What may arrive.  A request is malformed when its file name or mode is too
\* long or not terminated; short is the length test on a DATA packet.
Requests == [op : {"RRQ", "WRQ"}, from : Clients, malformed : BOOLEAN]
DataPackets == [op : {"DATA"}, from : Clients, blk : BlkNums, short : BOOLEAN]
AckPackets == [op : {"ACK"}, from : Clients, blk : BlkNums]
OtherPackets == [op : {"other"}, from : Clients]
Packets == Requests \cup DataPackets \cup AckPackets \cup OtherPackets

\* sys_timeout: nothing happens when the pool is exhausted.
Armed(t) ==
  IF t.due + t.armed < TimerSlots THEN [t EXCEPT !.armed = @ + 1] ELSE t

\* sys_untimeout: the first entry in the list, the one that fires first.
Disarmed(t) ==
  CASE t.due > 0 -> [t EXCEPT !.due = @ - 1]
    [] t.due = 0 /\ t.armed > 0 -> [t EXCEPT !.armed = @ - 1]
    [] OTHER -> t

TftpInit ==
  /\ handle = FALSE
  /\ mode_write = 0
  /\ owner = None
  /\ last_data = NULL
  /\ blknum = 0
  /\ retries = 0
  /\ idle = 0
  /\ tm = [due |-> 0, armed |-> 0]
  /\ pos = 0
  /\ written = <<>>
  /\ reply = {}
  /\ silence = 0
  /\ packets = 0

CloseHandle_KeepData ==
  /\ owner' = None
  /\ handle' = FALSE
  /\ UNCHANGED last_data
\* close_handle, but for sys_untimeout.
CloseHandle ==
  /\ owner' = None
  /\ last_data' = NULL
  /\ handle' = FALSE

-----------------------------------------------------------------------------
(* recv                                                                    *)

\* A packet of another client than the transfer's is answered and ignored.
RecvRefused(pkt) ==
  /\ owner # None
  /\ pkt.from # owner
  /\ reply' = {Error(pkt.from)}
  /\ UNCHANGED <<fileVars, retries, idle, tm, silence>>

\* Every other packet shows that the client is alive.
Accepted(pkt) ==
  /\ owner \in {None, pkt.from}
  /\ idle' = 0
  /\ retries' = 0
  /\ silence' = 0

\* Packets that get an error and leave the transfer as it is: a request while
\* a file is open, DATA or ACK that does not fit the transfer, anything else.
RecvError(pkt) ==
  /\ Accepted(pkt)
  /\ CASE pkt.op \in {"RRQ", "WRQ"} -> handle
       [] pkt.op = "DATA" -> ~handle \/ mode_write # 1
       [] pkt.op = "ACK" -> ~handle \/ mode_write # 0 \/ pkt.blk # blknum
       [] OTHER -> TRUE
  /\ reply' = {Error(pkt.from)}
  /\ UNCHANGED <<fileVars, tm>>

\* A request while no file is open starts the timer, before anything is known
\* of the request.
NewRequest(pkt) ==
  /\ pkt.op \in {"RRQ", "WRQ"}
  /\ Accepted(pkt)
  /\ ~handle

RecvMalformed(pkt) ==
  /\ NewRequest(pkt)
  /\ pkt.malformed
  /\ tm' = Armed(tm)
  /\ reply' = {Error(pkt.from)}
  /\ UNCHANGED fileVars

RecvOpenFails(pkt) ==
  /\ NewRequest(pkt)
  /\ ~pkt.malformed
  /\ tm' = Armed(tm)
  /\ blknum' = 1
  /\ reply' = {Error(pkt.from)}
  /\ UNCHANGED <<handle, mode_write, owner, last_data, pos, written>>

RecvWriteRequest(pkt) ==
  /\ NewRequest(pkt)
  /\ pkt.op = "WRQ"
  /\ ~pkt.malformed
  /\ handle' = TRUE
  /\ mode_write' = 1
  /\ owner' = pkt.from
  /\ blknum' = 1
  /\ written' = <<>>
  /\ tm' = Armed(tm)
  /\ reply' = {Ack(pkt.from, 0)}
  /\ UNCHANGED <<last_data, pos>>

\* send_data for block b at position n of the file, timers t: no memory for
\* the packet; a read error, which ends the transfer; or the packet is sent.
SendDataNoMem(t) ==
  /\ last_data' = NULL
  /\ tm' = t
  /\ reply' = {}

SendDataReadError(c, t) ==
  /\ CloseHandle
  /\ tm' = Disarmed(t)
  /\ reply' = {Error(c)}

SendDataOk(c, b, n, t) ==
  /\ last_data' = Block(b, n)
  /\ tm' = t
  /\ reply' = {DataTo(c, Block(b, n))}

RecvReadRequest(pkt) ==
  /\ NewRequest(pkt)
  /\ pkt.op = "RRQ"
  /\ ~pkt.malformed
  /\ mode_write' = 0
  /\ blknum' = 1
  /\ \/ SendDataNoMem(Armed(tm)) /\ pos' = 0 /\ owner' = pkt.from /\ handle' = TRUE
     \/ SendDataReadError(pkt.from, Armed(tm)) /\ pos' = 0
     \/ /\ SendDataOk(pkt.from, 1, 0, Armed(tm))
        /\ pos' = 1
        /\ owner' = pkt.from
        /\ handle' = TRUE
  /\ UNCHANGED written

\* A DATA packet of the write transfer: the block is written whatever its
\* number, and acknowledged; a short one ends the transfer.
RecvData(pkt) ==
  /\ pkt.op = "DATA"
  /\ Accepted(pkt)
  /\ handle
  /\ mode_write = 1
  /\ written' = Append(written, pkt.blk)
  /\ reply' = {Ack(pkt.from, pkt.blk)}
  /\ IF pkt.short
     THEN CloseHandle /\ tm' = Disarmed(tm)
     ELSE UNCHANGED <<owner, last_data, handle, tm>>
  /\ UNCHANGED <<mode_write, blknum, pos>>

RecvDataFails_Acks(pkt) ==
  /\ pkt.op = "DATA"
  /\ Accepted(pkt)
  /\ handle
  /\ mode_write = 1
  /\ reply' = {Ack(pkt.from, pkt.blk)}
  /\ UNCHANGED <<fileVars, tm>>
\* The write fails: close_handle, and once more for a short block.
RecvDataFails(pkt) ==
  /\ pkt.op = "DATA"
  /\ Accepted(pkt)
  /\ handle
  /\ mode_write = 1
  /\ CloseHandle
  /\ tm' = IF pkt.short THEN Disarmed(Disarmed(tm)) ELSE Disarmed(tm)
  /\ reply' = {Error(pkt.from)}
  /\ UNCHANGED <<mode_write, blknum, pos, written>>

\* An ACK of the block that was sent: the next block, or the end.
AckFits(pkt) ==
  /\ pkt.op = "ACK"
  /\ Accepted(pkt)
  /\ handle
  /\ mode_write = 0
  /\ pkt.blk = blknum

RecvAckNext_AnyBlock(pkt) ==
  /\ pkt.op = "ACK"
  /\ Accepted(pkt)
  /\ handle
  /\ mode_write = 0
  /\ last_data # NULL => ~last_data.short
  /\ blknum' = (pkt.blk + 1) % BlkMod
  /\ SendDataOk(pkt.from, (pkt.blk + 1) % BlkMod, pos, tm)
  /\ pos' = pos + 1
  /\ UNCHANGED <<owner, handle, mode_write, written>>
RecvAckNext(pkt) ==
  /\ AckFits(pkt)
  /\ last_data # NULL => ~last_data.short
  /\ blknum' = (blknum + 1) % BlkMod
  /\ \/ SendDataNoMem(tm) /\ UNCHANGED <<pos, owner, handle>>
     \/ SendDataReadError(pkt.from, tm) /\ UNCHANGED pos
     \/ /\ SendDataOk(pkt.from, (blknum + 1) % BlkMod, pos, tm)
        /\ pos' = pos + 1
        /\ UNCHANGED <<owner, handle>>
  /\ UNCHANGED <<mode_write, written>>

RecvAckLast_AnyLength(pkt) ==
  /\ AckFits(pkt)
  /\ last_data # NULL
  /\ CloseHandle
  /\ tm' = Disarmed(tm)
  /\ reply' = {}
  /\ UNCHANGED <<mode_write, blknum, pos, written>>
RecvAckLast(pkt) ==
  /\ AckFits(pkt)
  /\ last_data # NULL
  /\ last_data.short
  /\ CloseHandle
  /\ tm' = Disarmed(tm)
  /\ reply' = {}
  /\ UNCHANGED <<mode_write, blknum, pos, written>>

recv(pkt) ==
  /\ packets < MaxPackets
  /\ packets' = packets + 1
  /\ \/ RecvRefused(pkt)
     \/ RecvError(pkt)
     \/ RecvMalformed(pkt)
     \/ RecvOpenFails(pkt)
     \/ RecvWriteRequest(pkt)
     \/ RecvReadRequest(pkt)
     \/ RecvData(pkt)
     \/ RecvDataFails(pkt)
     \/ RecvAckNext(pkt)
     \/ RecvAckLast(pkt)

-----------------------------------------------------------------------------
(* tftp_tmr                                                                *)

\* sys_check_timeouts takes an entry off the list and calls tftp_tmr.
Fired == [tm EXCEPT !.due = @ - 1]

\* No transfer: the timer is not set again.
TmrNoTransfer ==
  /\ tm.due > 0
  /\ ~handle
  /\ idle' = idle + 1
  /\ tm' = Fired
  /\ reply' = {}
  /\ UNCHANGED <<fileVars, retries, silence, packets>>

\* With a transfer tftp_tmr sets its timer again.
TmrTransfer ==
  /\ tm.due > 0
  /\ handle
  /\ idle' = idle + 1
  /\ UNCHANGED <<mode_write, blknum, pos, written, silence, packets>>

TmrQuiet_NoRearm ==
  /\ TmrTransfer
  /\ idle + 1 <= TIMEOUT
  /\ tm' = Fired
  /\ reply' = {}
  /\ UNCHANGED <<handle, owner, last_data, retries>>
TmrQuiet ==
  /\ TmrTransfer
  /\ idle + 1 <= TIMEOUT
  /\ tm' = Armed(Fired)
  /\ reply' = {}
  /\ UNCHANGED <<handle, owner, last_data, retries>>

TmrResend_NoCount ==
  /\ TmrTransfer
  /\ idle + 1 > TIMEOUT
  /\ last_data # NULL
  /\ retries < MAX_RETRIES
  /\ tm' = Armed(Fired)
  /\ reply' = {DataTo(owner, last_data)}
  /\ UNCHANGED <<handle, owner, last_data, retries>>
\* The client has been silent too long: the last block is sent again, in every
\* interval from then on ...
TmrResend ==
  /\ TmrTransfer
  /\ idle + 1 > TIMEOUT
  /\ last_data # NULL
  /\ retries < MAX_RETRIES
  /\ tm' = Armed(Fired)
  /\ retries' = retries + 1
  /\ reply' = {DataTo(owner, last_data)}
  /\ UNCHANGED <<handle, owner, last_data>>

\* ... and after MAX_RETRIES of them, or if there is none, the server gives up.
TmrGiveUp ==
  /\ TmrTransfer
  /\ idle + 1 > TIMEOUT
  /\ last_data = NULL \/ retries >= MAX_RETRIES
  /\ CloseHandle
  /\ tm' = Disarmed(Armed(Fired))
  /\ reply' = {}
  /\ UNCHANGED retries

tftp_tmr == TmrNoTransfer \/ TmrQuiet \/ TmrResend \/ TmrGiveUp

\* Bound on the history variable silence, above what a transfer can reach.
SilenceCap == TIMEOUT + MAX_RETRIES + 2

\* All timers of this interval have fired: the next interval begins.
Interval ==
  /\ tm.due = 0
  /\ tm' = [due |-> tm.armed, armed |-> 0]
  /\ silence' = IF handle /\ silence < SilenceCap THEN silence + 1 ELSE silence
  /\ reply' = {}
  /\ UNCHANGED <<fileVars, retries, idle, packets>>

-----------------------------------------------------------------------------

TftpNext ==
  \/ \E pkt \in Packets : recv(pkt)
  \/ tftp_tmr
  \/ Interval

TftpSpec == TftpInit /\ [][TftpNext]_vars

-----------------------------------------------------------------------------
(* Properties                                                              *)

\* The type invariant.
TftpTypeOK ==
  /\ handle \in BOOLEAN
  /\ mode_write \in {0, 1}
  /\ owner \in Clients \cup {None}
  /\ last_data \in [blk : Nat, at : Nat, short : BOOLEAN] \cup {NULL}
  /\ blknum \in 0..(BlkMod - 1)
  /\ retries \in 0..MAX_RETRIES
  /\ idle \in Nat
  /\ tm \in [due : Nat, armed : Nat]
  /\ tm.due + tm.armed <= TimerSlots
  /\ pos \in Nat
  /\ silence \in Nat
  /\ packets \in 0..MaxPackets

\* However a transfer ends (last ACK, short block, read or write error, time
\* out), nothing of it is left: the server belongs to no client, and holds no
\* packet that tftp_tmr would send to the next one.  A write transfer never
\* has a packet to retransmit.
NothingLeftOver ==
  /\ ~handle => owner = None
  /\ ~handle \/ mode_write = 1 => last_data = NULL

\* A transfer always has a pending timer, so that a client that vanishes does
\* not block the server: no order of refused requests, errors and time outs,
\* each with its own sys_timeout or sys_untimeout, takes the timer away.
TransferHasTimer == handle => tm.due + tm.armed > 0

\* Once clients are silent every transfer ends, and the server is free again.
TransferEnds == handle ~> ~handle

\* The timer keeps time.  Refused requests leave their timer behind, yet with
\* the one entry that the pool has left tftp_tmr never counts more intervals
\* since the last packet than have begun.
TimerKeepsTime == handle => idle <= silence + 1

\* A client that falls silent keeps the server busy for a bounded time: the
\* time out, one more interval for each of the MAX_RETRIES retransmissions, and
\* the one in which the server gives up.
GivesUpInTime == handle => silence <= TIMEOUT + MAX_RETRIES + 1
=============================================================================

---------------------------- MODULE TftpTransfer ----------------------------
(***************************************************************************)
(* The TFTP server and one client, over a network that loses, duplicates,  *)
(* delays and reorders packets; other clients may send anything.           *)
(*                                                                         *)
(* The client is not part of the repository.  It is the peer that the      *)
(* server is written for: it acknowledges each block it reads, and again   *)
(* when the block comes again; it sends each block it writes until that    *)
(* block is acknowledged; it stops at an error.                            *)
(*                                                                         *)
(* net holds every packet sent: one that is delivered again is a           *)
(* duplicate, one that is never delivered is lost.  The request is sent    *)
(* once and is not duplicated.                                             *)
(***************************************************************************)
EXTENDS TftpServer

CONSTANT Client

ASSUME TransferConstants ==
  /\ Client \in Clients
  /\ FileBlocks + 2 < BlkMod

VARIABLES
  op,        \* the client's request, "RRQ" or "WRQ"
  net,       \* packets in the network
  next,      \* the block the client waits for or sends
  got,       \* positions in the file of the blocks that were read
  cstate     \* "run", "done" or "failed"

clientVars == <<op, next, got, cstate>>
allVars == <<vars, net, clientVars>>

ClientRequest == [op |-> op, from |-> Client, malformed |-> FALSE]
ClientAck(b) == [op |-> "ACK", from |-> Client, blk |-> b]
\* The file that is written has as many blocks as the one that is read.
ClientData(b) ==
  [op |-> "DATA", from |-> Client, blk |-> b, short |-> b > FileBlocks]

TransferInit ==
  /\ TftpInit
  /\ op \in {"RRQ", "WRQ"}
  /\ net = {ClientRequest}
  /\ next = 1
  /\ got = <<>>
  /\ cstate = "run"

-----------------------------------------------------------------------------
(* The client                                                              *)

ClientRuns ==
  /\ cstate = "run"
  /\ UNCHANGED <<vars, op>>

ReadBlock ==
  /\ ClientRuns
  /\ op = "RRQ"
  /\ \E msg \in net :
       /\ msg.op = "DATA"
       /\ msg.data.blk = next
       /\ got' = Append(got, msg.data.at)
       /\ cstate' = IF msg.data.short THEN "done" ELSE "run"
  /\ next' = next + 1
  /\ net' = net \cup {ClientAck(next)}

WriteBlock ==
  /\ ClientRuns
  /\ op = "WRQ"
  /\ Ack(Client, next - 1) \in net
  /\ net' = net \cup {ClientData(next)}
  /\ next' = next + 1
  /\ cstate' = IF next > FileBlocks THEN "done" ELSE "run"
  /\ UNCHANGED got

\* The error may also be an old one.
ClientError ==
  /\ ClientRuns
  /\ Error(Client) \in net
  /\ cstate' = "failed"
  /\ UNCHANGED <<net, next, got>>

-----------------------------------------------------------------------------
(* The server and the network                                              *)

\* Packets to other clients go elsewhere.
ToClient(sent) == {msg \in sent : msg.to = Client}

Deliver ==
  /\ \E pkt \in net \cap Packets :
       /\ recv(pkt)
       /\ net' = (net \ {ClientRequest}) \cup ToClient(reply')
  /\ UNCHANGED clientVars

\* A packet of another client, which may send anything.
Stranger ==
  /\ \E pkt \in Packets : pkt.from # Client /\ recv(pkt)
  /\ UNCHANGED <<net, clientVars>>

Timer ==
  /\ tftp_tmr
  /\ net' = net \cup ToClient(reply')
  /\ UNCHANGED clientVars

Tick ==
  /\ Interval
  /\ UNCHANGED <<net, clientVars>>

TransferNext ==
  ReadBlock \/ WriteBlock \/ ClientError \/ Deliver \/ Stranger \/ Timer \/ Tick

TransferSpec == TransferInit /\ [][TransferNext]_allVars

\* Time passes and sys_check_timeouts is called; clients may be silent.
TransferFairSpec ==
  TransferSpec /\ WF_allVars(Timer) /\ WF_allVars(Tick)

-----------------------------------------------------------------------------
(* Properties                                                              *)

\* What a client has read is the file from its start, block for block, and
\* all of it when the client has seen the end: neither retransmissions, nor
\* duplicated and late ACKs, nor a send_data that finds no memory make the
\* server skip or repeat a block.
ReadsTheFile ==
  /\ \A i \in 1..Len(got) : got[i] = i - 1
  /\ op = "RRQ" /\ cstate = "done" => Len(got) = FileBlocks + 1

\* The server takes the transfer for complete (it closes the file and sends no
\* error) only when the client has read all of it.
ServerEndsLast ==
  [][(\E pkt \in net \cap AckPackets : RecvAckLast(pkt)) => cstate = "done"]_allVars

\* A block of the client is written only after all the blocks before it, so the
\* end of the file is not written over a gap, whatever fails or is lost on the
\* way and whatever other clients send.
NothingIsSkipped ==
  [][owner = Client /\ mode_write = 1 =>
       \A i \in 1..Len(written') : \A b \in 1..(written'[i] - 1) :
         \E j \in 1..(i - 1) : written'[j] = b]_allVars

\* The file that is written has each block once, in order.
WritesTheFile == \A i \in 1..Len(written) : written[i] = i
=============================================================================

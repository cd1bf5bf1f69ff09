-------------------------------- MODULE Ftpd --------------------------------
(***************************************************************************)
(* The FTP server, lwip_ftpd-sd.cpp: one control connection, the data      *)
(* connection of the transfer under way, and the callbacks lwIP makes for  *)
(* the two (connected, accepted, received, sent, error, poll).             *)
(*                                                                         *)
(* The bytes of the file and of the listing are numbers, so that a byte    *)
(* that is lost, repeated or overwritten in the ring shows.  A reply is    *)
(* the class of its code.  TCP is external: it delivers the bytes of a     *)
(* connection in order, accepts or refuses a tcp_write, and reports a      *)
(* reset.  The client speaks the protocol in order: it waits for each      *)
(* reply, keeps to PORT or to PASV during a session, connects once after   *)
(* each PASV and accepts the connection after PORT; it may reset the data  *)
(* connection or close the control connection at any time.                 *)
(***************************************************************************)
EXTENDS Sfifo, FiniteSets

CONSTANTS
  NULL,         \* a null pointer
  FileLen,      \* the bytes of the file that is read or written
  ListLen,      \* the bytes of a directory listing
  FifoBytes,    \* the bytes asked of sfifo_init for a data connection
  MsgSlots,     \* replies that fit in the ring of the control connection
  SND_BUF,      \* bytes in flight that TCP takes on a data connection
  MaxListen,    \* MEMP_NUM_TCP_PCB_LISTEN, less the one of port 21
  MaxAborts     \* bound: transfers that are cut off

\* The size of a data connection's ring.
RingSize == sfifo_size(FifoBytes)

Rings ==
  [size : {RingSize}, readpos : Nat, writepos : Nat, buffer : [0..(RingSize - 1) -> Nat]]

\* A listing that fits in the ring is written in one go, so that no directory
\* entry is kept from one callback to the next.
ASSUME FtpdAssumption ==
  /\ {FileLen, ListLen, FifoBytes, MsgSlots, SND_BUF, MaxListen, MaxAborts} \subseteq Nat
  /\ FifoBytes > 0 /\ SND_BUF > 0 /\ ListLen < RingSize /\ RingSize \in Nat

\* The null pointer is no ftpd_datastate.
ASSUME NullIsNoData ==
  NULL \notin [connected : BOOLEAN, file : BOOLEAN, pos : Nat, fifo : Rings]

VARIABLES
  \* the server: the control connection's state
  ctl,          \* "none", or "open" while there is an ftpd_msgstate
  state,        \* ftpd_state_e
  passive,
  datafs,       \* NULL or the ftpd_datastate
  datapcb,      \* what the pointer names: "NULL", "listen", "syn", "conn", "gone"
  files,        \* files and directories held open
  \* TCP
  listeners,    \* listening PCBs of data connections
  wire,         \* bytes sent to the client and not acknowledged
  conn,         \* the data connection: "none", "open", or "shut" by the server
  replies,      \* replies sent and not read
  \* the client
  mode,         \* "PASV" or "PORT", for the session
  ready,        \* PORT or PASV was answered and not used yet
  op,           \* "none" or the transfer asked for
  waiting,      \* a command is not answered
  rcvd,         \* bytes read from the data connection
  eof,          \* the data connection has ended
  stored,       \* bytes of the file that STOR writes
  aborts        \* transfers cut off so far

server == <<ctl, state, passive, datafs, datapcb, files>>
tcp == <<listeners, wire, conn, replies>>
client == <<mode, ready, op, waiting, rcvd, eof, stored>>
vars == <<server, tcp, client, aborts>>

File == [i \in 1..FileLen |-> i]
Listing == [i \in 1..ListLen |-> i]
Transfers == {"LIST", "RETR", "STOR"}

\* A fresh ftpd_datastate.
NewData ==
  [connected |-> FALSE, file |-> FALSE, pos |-> 0, fifo |-> sfifo_init(FifoBytes, 0)]

FtpdInit ==
  /\ ctl = "none" /\ state = "IDLE" /\ passive = FALSE
  /\ datafs = NULL /\ datapcb = "NULL" /\ files = 0
  /\ listeners = 0 /\ wire = <<>> /\ conn = "none" /\ replies = <<>>
  /\ mode = "PORT" /\ ready = FALSE /\ op = "none" /\ waiting = FALSE
  /\ rcvd = <<>> /\ eof = FALSE /\ stored = <<>> /\ aborts = 0
-----------------------------------------------------------------------------
(* Replies.  send_msg drops a reply that does not fit.                     *)

Fitting(rs) ==
  SubSeq(replies \o rs, 1, Lesser(MsgSlots, Len(replies \o rs)))

send_msg(r) == replies' = Fitting(<<r>>)

\* The common end of send_file, send_next_directory and ftpd_datarecv, with
\* ftpd_dataclose: TCP still delivers the bytes it has.
Finish_NoReply ==
  /\ datafs' = NULL /\ datapcb' = "NULL" /\ conn' = "shut" /\ state' = "IDLE"
  /\ UNCHANGED replies

Finish ==
  /\ datafs' = NULL /\ datapcb' = "NULL" /\ conn' = "shut" /\ state' = "IDLE"
  /\ send_msg("226")

\* vfs_close and vfs_closedir.
CloseFile_Dropped == UNCHANGED files

CloseFile == files' = files - 1

\* The data connection stays.
GoOn == datapcb' = "conn" /\ conn' = "open" /\ UNCHANGED <<state, replies>>
-----------------------------------------------------------------------------
(* Sending.  `fs' is the data connection's state when the callback sends,  *)
(* `out' what TCP has not got acknowledged, `writes' the number of         *)
(* tcp_write calls that TCP accepts.                                       *)

send_data(fs, out, writes) ==
  LET sndbuf == SND_BUF - Len(out)
      n == SentBytes(fs.fifo, sndbuf, writes)
  IN /\ wire' = out \o SubSeq(Contents(fs.fifo), 1, n)
     /\ datafs' = [fs EXCEPT !.fifo = AfterSend(fs.fifo, sndbuf, writes)]

\* send_file: at most one read for each call; the file is closed by the call
\* that meets its end, and the transfer by one that finds the ring empty.
FileRead(fs, out, writes, n) ==
  /\ send_data([fs EXCEPT !.pos = @ + n,
       !.fifo = sfifo_write(@, SubSeq(File, fs.pos + 1, fs.pos + n))], out, writes)
  /\ GoOn
  /\ UNCHANGED files

send_file_CloseEarly(fs, out, writes) ==
  LET n == Lesser(sfifo_space(fs.fifo), FileLen - fs.pos)
  IN \/ n = 0 /\ sfifo_space(fs.fifo) > 0 /\ Finish /\ CloseFile /\ wire' = out
     \/ (n > 0 \/ sfifo_space(fs.fifo) = 0) /\ FileRead(fs, out, writes, n)

send_file(fs, out, writes) ==
  LET n == Lesser(sfifo_space(fs.fifo), FileLen - fs.pos)
  IN \/ /\ fs.file /\ n = 0 /\ sfifo_space(fs.fifo) > 0
        /\ datafs' = [fs EXCEPT !.file = FALSE]
        /\ CloseFile
        /\ GoOn
        /\ wire' = out
     \/ fs.file /\ (n > 0 \/ sfifo_space(fs.fifo) = 0) /\ FileRead(fs, out, writes, n)
     \/ /\ ~fs.file /\ sfifo_used(fs.fifo) > 0
        /\ send_data(fs, out, writes)
        /\ GoOn
        /\ UNCHANGED files
     \/ /\ ~fs.file /\ sfifo_used(fs.fifo) = 0
        /\ Finish /\ wire' = out
        /\ UNCHANGED files

\* send_next_directory: the loop writes the entries that are left, and closes
\* the directory when it has nothing to send.
send_next_directory(fs, out, writes) ==
  LET full == sfifo_write(fs.fifo, SubSeq(Listing, fs.pos + 1, ListLen))
  IN \/ /\ sfifo_used(full) > 0
        /\ send_data([fs EXCEPT !.pos = ListLen, !.fifo = full], out, writes)
        /\ GoOn
        /\ UNCHANGED files
     \/ /\ sfifo_used(full) = 0
        /\ Finish
        /\ CloseFile
        /\ wire' = out

\* The switch on the state in ftpd_dataconnected, ftpd_dataaccept, ftpd_datasent
\* and ftpd_msgpoll.
SendMore(fs, out, writes) ==
  \/ state \in {"LIST", "NLST"} /\ send_next_directory(fs, out, writes)
  \/ state = "RETR" /\ send_file(fs, out, writes)
  \/ /\ state \notin {"LIST", "NLST", "RETR"}
     /\ datafs' = fs /\ wire' = out
     /\ GoOn
     /\ UNCHANGED files
-----------------------------------------------------------------------------
(* Callbacks of the data connection.                                       *)

\* ftpd_dataconnected: the connection to the client's port is established.
ftpd_dataconnected(writes) ==
  /\ datapcb = "syn"
  /\ SendMore([datafs EXCEPT !.connected = TRUE], wire, writes)
  /\ UNCHANGED <<ctl, passive, listeners, client, aborts>>

\* ftpd_dataaccept: the client has connected to the port of PASV.  The listening
\* PCB is forgotten and stays.
ftpd_dataaccept(writes) ==
  /\ datapcb = "listen" /\ (op # "none" \/ ~waiting)
  /\ SendMore([datafs EXCEPT !.connected = TRUE], wire, writes)
  /\ UNCHANGED <<ctl, passive, listeners, client, aborts>>

\* ftpd_datasent: the client has received and acknowledged n bytes.
ftpd_datasent(n, writes) ==
  /\ datapcb = "conn" /\ n <= Len(wire)
  /\ rcvd' = rcvd \o SubSeq(wire, 1, n)
  /\ SendMore(datafs, SubSeq(wire, n + 1, Len(wire)), writes)
  /\ UNCHANGED <<ctl, passive, listeners, mode, ready, op, waiting, eof, stored, aborts>>

\* ftpd_datarecv with data: n more bytes of the client's file.
ftpd_datarecv(n) ==
  /\ datapcb = "conn" /\ op = "STOR" /\ state = "STOR" /\ ~eof
  /\ Len(stored) + n <= FileLen
  /\ stored' = stored \o SubSeq(File, Len(stored) + 1, Len(stored) + n)
  /\ UNCHANGED <<server, tcp, mode, ready, op, waiting, rcvd, eof, aborts>>

\* ftpd_datarecv without data: the client has closed its side.
ftpd_datarecv_fin ==
  /\ datapcb = "conn" /\ op = "STOR" /\ state = "STOR" /\ Len(stored) = FileLen
  /\ Finish /\ CloseFile
  /\ eof' = TRUE
  /\ UNCHANGED <<ctl, passive, listeners, wire, mode, ready, op, waiting, rcvd, stored, aborts>>

\* The client resets the data connection and does not wait for a reply.
ClientResets ==
  /\ datapcb = "conn" /\ aborts < MaxAborts
  /\ datapcb' = "gone" /\ conn' = "none" /\ wire' = <<>> /\ replies' = <<>>
  /\ op' = "none" /\ ready' = FALSE /\ waiting' = FALSE /\ rcvd' = <<>> /\ stored' = <<>>
  /\ aborts' = aborts + 1
  /\ UNCHANGED <<ctl, passive, files, listeners, mode, eof>>

\* ftpd_dataerr: the PCB is gone.  The file, the ring and the pointer to the PCB
\* stay as they are, and no reply is sent.
ftpd_dataerr_KeepState == ClientResets /\ datafs' = NULL /\ UNCHANGED state

ftpd_dataerr == ClientResets /\ datafs' = NULL /\ state' = "IDLE"
-----------------------------------------------------------------------------
(* The control connection: ftpd_msgaccept, the commands of ftpd_msgrecv,   *)
(* and the callbacks that close it.                                        *)

ftpd_msgaccept ==
  /\ ctl = "none"
  /\ ctl' = "open" /\ state' = "IDLE" /\ passive' = FALSE
  /\ datafs' = NULL /\ datapcb' = "NULL"
  /\ mode' \in {"PASV", "PORT"} /\ waiting' = TRUE
  /\ send_msg("ok")
  /\ UNCHANGED <<files, listeners, wire, conn, ready, op, rcvd, eof, stored, aborts>>

\* The client sends a command when it has nothing to wait for.
Command == ctl = "open" /\ state # "QUIT" /\ ~waiting /\ op = "none"

\* The commands that only answer: CWD, CDUP, PWD, NOOP, SYST, TYPE, MODE, RNFR,
\* RNTO, MKD, RMD, DELE, and the unknown ones; USER and PASS set the state too.
cmd_simple(r, s) ==
  /\ Command
  /\ waiting' = TRUE /\ state' = s
  /\ send_msg(r)
  /\ UNCHANGED <<ctl, passive, datafs, datapcb, files, listeners, wire, conn, mode,
                 ready, op, rcvd, eof, stored, aborts>>

cmd_user == cmd_simple("ok", "PASS")

cmd_pass == cmd_simple("ok", "IDLE")

cmd_noop == \E r \in {"ok", "fail"} : cmd_simple(r, state)

cmd_port ==
  /\ Command /\ mode = "PORT"
  /\ waiting' = TRUE /\ ready' = TRUE
  /\ send_msg("ok")
  /\ UNCHANGED <<server, listeners, wire, conn, mode, op, rcvd, eof, stored, aborts>>

\* cmd_pasv: no memory is answered; no listening PCB is not.
cmd_pasv ==
  /\ Command /\ mode = "PASV" /\ ~ready
  /\ waiting' = TRUE
  /\ \/ /\ datafs' = NULL
        /\ send_msg("fail")
        /\ UNCHANGED <<passive, datapcb, listeners, ready>>
     \/ /\ listeners = MaxListen
        /\ datafs' = NULL /\ datapcb' = "NULL"
        /\ UNCHANGED <<passive, listeners, ready, replies>>
     \/ /\ listeners < MaxListen
        /\ datafs' = NewData /\ datapcb' = "listen" /\ listeners' = listeners + 1
        /\ passive' = TRUE /\ ready' = TRUE
        /\ send_msg("ok")
  /\ UNCHANGED <<ctl, state, files, wire, conn, mode, op, rcvd, eof, stored, aborts>>

\* cmd_retr, cmd_stor and cmd_list_common: the file cannot be opened, there is no
\* memory for the data connection, or the transfer begins.
Transfer(t, prelim) ==
  /\ Command /\ ready
  /\ waiting' = TRUE
  /\ \/ /\ send_msg("fail")
        /\ UNCHANGED <<state, datafs, datapcb, files, op>>
     \/ /\ ~passive
        /\ datafs' = NULL
        /\ replies' = Fitting(prelim \o <<"fail">>)
        /\ UNCHANGED <<state, datapcb, files, op>>
     \/ /\ state' = t /\ op' = t /\ files' = files + 1
        /\ IF passive THEN datafs' = [datafs EXCEPT !.file = TRUE] /\ UNCHANGED datapcb
           ELSE datafs' = [NewData EXCEPT !.file = TRUE] /\ datapcb' = "syn"
        /\ send_msg("150")
  /\ UNCHANGED <<ctl, passive, listeners, wire, conn, mode, ready, rcvd, eof, stored, aborts>>

cmd_retr == Transfer("RETR", <<"150">>)

cmd_stor == Transfer("STOR", <<"150">>)

cmd_list_common == Transfer("LIST", <<>>)

\* cmd_abrt without a data connection: nothing is answered.
cmd_abrt ==
  /\ Command /\ datafs = NULL
  /\ state' = "IDLE"
  /\ UNCHANGED <<ctl, passive, datafs, datapcb, files, tcp, client, aborts>>

cmd_quit == cmd_simple("ok", "QUIT")

\* ftpd_msgclose and ftpd_msgerr: the data connection goes with the control
\* connection; a file that is open stays open.
ftpd_msgclose ==
  /\ ctl' = "none" /\ state' = "IDLE" /\ passive' = FALSE
  /\ datafs' = NULL /\ datapcb' = "NULL"
  /\ listeners' = IF datafs # NULL /\ datapcb = "listen" THEN listeners - 1 ELSE listeners
  /\ conn' = "none" /\ wire' = <<>> /\ replies' = <<>>
  /\ op' = "none" /\ ready' = FALSE /\ waiting' = FALSE /\ eof' = FALSE
  /\ rcvd' = <<>> /\ stored' = <<>>
  /\ UNCHANGED <<files, mode>>

\* ftpd_msgsent: the reply to QUIT is acknowledged.
ftpd_msgsent ==
  /\ ctl = "open" /\ state = "QUIT"
  /\ ftpd_msgclose
  /\ UNCHANGED aborts

\* The client closes or resets the control connection.
ftpd_msgrecv_fin ==
  /\ ctl = "open"
  /\ ftpd_msgclose
  /\ \/ op = "none" /\ UNCHANGED aborts
     \/ op # "none" /\ aborts < MaxAborts /\ aborts' = aborts + 1

\* ftpd_msgpoll, every half second.
ftpd_msgpoll_Lists(writes) ==
  /\ ctl = "open" /\ datafs # NULL
  /\ datafs.connected
  /\ IF state = "LIST" THEN SendMore(datafs, wire, writes) ELSE UNCHANGED <<server, tcp>>
  /\ UNCHANGED <<ctl, passive, listeners, client, aborts>>

ftpd_msgpoll(writes) ==
  /\ ctl = "open" /\ datafs # NULL
  /\ datafs.connected
  /\ SendMore(datafs, wire, writes)
  /\ UNCHANGED <<ctl, passive, listeners, client, aborts>>
-----------------------------------------------------------------------------
(* The client.                                                             *)

\* It reads a reply; before it takes 226 it reads the data to the end.
ClientReads ==
  /\ replies # <<>> /\ (Head(replies) = "226" => eof)
  /\ replies' = Tail(replies)
  /\ waiting' = (Head(replies) = "150")
  /\ \/ /\ Head(replies) = "226"
        /\ op' = "none" /\ ready' = FALSE /\ eof' = FALSE /\ conn' = "none"
        /\ rcvd' = <<>> /\ stored' = <<>>
     \/ /\ Head(replies) # "226"
        /\ UNCHANGED <<op, ready, eof, conn, rcvd, stored>>
  /\ UNCHANGED <<server, listeners, wire, mode, aborts>>

\* It receives what TCP had when the server closed the connection, and the end.
ClientEof ==
  /\ conn = "shut" /\ ~eof
  /\ rcvd' = rcvd \o wire /\ wire' = <<>> /\ eof' = TRUE
  /\ UNCHANGED <<server, listeners, conn, replies, mode, ready, op, waiting, stored, aborts>>

Writes == 0..2
Bytes == 1..SND_BUF

DataSent == \E n \in Bytes, w \in Writes : ftpd_datasent(n, w)

FtpdNext ==
  \/ ftpd_msgaccept \/ cmd_user \/ cmd_pass \/ cmd_noop \/ cmd_port \/ cmd_pasv
  \/ cmd_retr \/ cmd_stor \/ cmd_list_common \/ cmd_abrt \/ cmd_quit
  \/ ftpd_msgsent \/ ftpd_msgrecv_fin
  \/ \E w \in Writes : ftpd_dataconnected(w) \/ ftpd_dataaccept(w) \/ ftpd_msgpoll(w)
  \/ DataSent
  \/ \E n \in Bytes : ftpd_datarecv(n)
  \/ ftpd_datarecv_fin \/ ftpd_dataerr
  \/ ClientReads \/ ClientEof

FtpdSpec == FtpdInit /\ [][FtpdNext]_vars

\* TCP polls, connects and acknowledges; now and then it has memory for what a poll
\* writes.  The client reads its replies, connects for a transfer it has asked
\* for, and sends its file.
FtpdFairness ==
  /\ WF_vars(ftpd_msgpoll(2)) /\ WF_vars(DataSent)
  /\ WF_vars(\E w \in Writes : ftpd_dataconnected(w))
  /\ WF_vars(\E w \in Writes : op # "none" /\ ftpd_dataaccept(w))
  /\ WF_vars(\E n \in Bytes : ftpd_datarecv(n)) /\ WF_vars(ftpd_datarecv_fin)
  /\ WF_vars(ClientReads) /\ WF_vars(ClientEof)

FtpdFairSpec == FtpdSpec /\ FtpdFairness
-----------------------------------------------------------------------------
(* Properties.                                                             *)

\* The pointers of the control connection agree with TCP: while there is a data
\* state its PCB exists (ftpd_msgpoll, ftpd_msgclose and cmd_abrt use datapcb
\* whenever datafs is set), it is marked connected when the connection is
\* open, and a transfer has a data state to work on.
DataStateIsLive ==
  /\ datafs # NULL => /\ datapcb \in {"listen", "syn", "conn"}
                      /\ datafs.connected <=> (datapcb = "conn")
                      /\ datafs.connected <=> (conn = "open")
  /\ state \in Transfers => datafs # NULL

\* The bytes the client has, those in flight and those in the ring are together
\* what the server has read of the file: none is lost, repeated or overtaken, for
\* every way in which tcp_write fails and the ring wraps.
FileArrivesInOrder ==
  LET ring == IF datafs = NULL THEN <<>> ELSE Contents(datafs.fifo)
      read == IF datafs = NULL THEN Len(rcvd \o wire) ELSE datafs.pos
  IN op = "RETR" => rcvd \o wire \o ring = SubSeq(File, 1, read)

\* "226" is true: when the client reads it, the whole file or listing has been
\* received, or the whole file stored.
CompleteAt226 ==
  eof /\ replies # <<>> /\ Head(replies) = "226" =>
    CASE op = "RETR" -> rcvd = File
      [] op = "LIST" -> rcvd = Listing
      [] op = "STOR" -> stored = File

\* Files and directories are closed by every transfer that is not cut off.
OnlyAbortsLeak ==
  state \notin Transfers => files <= aborts

\* A transfer ends: ftpd_msgpoll takes up what a failed tcp_write or the end of
\* the file has left without a callback.
TransferEnds ==
  state \in Transfers ~> state \notin Transfers

\* Every command is answered as long as a listening PCB is left for PASV.
CommandIsAnswered ==
  waiting /\ listeners < MaxListen ~> ~waiting
=============================================================================

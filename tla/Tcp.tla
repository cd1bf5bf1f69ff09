-------------------------------- MODULE Tcp --------------------------------
(***************************************************************************)
(* A connection between two hosts that both run lwIP's TCP: A connects and  *)
(* B listens.  The handlers are tcp_input (tcp_in.c), the timers tcp_slowtmr *)
(* and tcp_fasttmr and the calls of the application (tcp.c, tcp_out.c); each *)
(* is one action, because the stack runs to completion in the main loop.    *)
(* The network delivers in order, except that MaxFaults times a segment, or  *)
(* a copy of it, strays: it arrives at any later time or never.  Resets by   *)
(* an application and data it refuses are faults too.  The retransmission,  *)
(* persist and poll timers outlast the segments that have not strayed; the  *)
(* others may go off at any time.  tcp_slowtmr makes its checks one after   *)
(* the other; each is an action here, and a tick takes as many steps as it  *)
(* has timers that are due.                                                 *)
(***************************************************************************)
EXTENDS TcpPcb
LOCAL INSTANCE SequencesExt

CONSTANTS
  Bytes,      \* the length of the message each side may write
  MaxCwnd,    \* the congestion window is any of 1..MaxCwnd segments
  MaxInFlight,  \* an application calls when at most so many segments are in flight
  MaxFaults,  \* how many faults happen in a behaviour
  IssStep     \* what tcp_next_iss adds: tcp_ticks, the half-seconds since the start

VARIABLES
  pcb,     \* per side: the control block of the connection
  iss,     \* per side: the counter of tcp_next_iss
  app,     \* per side: what the application has done and been told
  net,     \* per side: the segments on their way to it
  late,    \* per side: the segments for it that strayed
  faults   \* how many faults have happened

vars == <<pcb, iss, app, net, late, faults>>

Sides == {"A", "B"}
Peer(p) == IF p = "A" THEN "B" ELSE "A"

ASSUME ConnectionConstants ==
  /\ Bytes \in [Sides -> Nat] /\ MaxCwnd \in Nat \ {0} /\ {MaxInFlight, MaxFaults} \subseteq Nat
  /\ IssStep \in Nat

Quiet == \A p \in Sides : net[p] = <<>>
Calm == Len(net["A"]) + Len(net["B"]) <= MaxInFlight
Fault == faults < MaxFaults /\ faults' = faults + 1

\* Without a connection A has nothing and B its listening block.
NoPcb(p) == NewPcb(IF p = "A" THEN "CLOSED" ELSE "LISTEN")

\* The application holds the block from the connected or accept callback (A:
\* from tcp_connect) until it closes or aborts it or the error callback comes.
Idle == [status |-> "idle", wrote |-> 0, sent |-> 0, got |-> <<>>, unread |-> 0, eof |-> FALSE,
         accepts |-> 0, reset |-> FALSE]
Holds(p) == app[p].status = "open"
Calls(p) == Holds(p) /\ Calm

\* The choices left open where they make a difference: the congestion window
\* and whether a duplicate acknowledgment is the third one.
Cwnd(p) == IF pcb[p].unsent \union pcb[p].unacked = {} THEN {1} ELSE 1..MaxCwnd
Fast(p) == IF pcb[p].unacked = {} THEN {FALSE} ELSE BOOLEAN

Init ==
  /\ pcb = [p \in Sides |-> NoPcb(p)]
  /\ iss = [p \in Sides |-> IF p = "A" THEN 1 ELSE 100]
  /\ app = [p \in Sides |-> Idle]
  /\ net = [p \in Sides |-> <<>>]
  /\ late = [p \in Sides |-> {}]
  /\ faults = 0

\* The end of a call for p: the block keeps its state, what it sent is on its way.
Clear(c) == [c EXCEPT !.out = <<>>, !.recv_data = <<>>, !.recv_acked = 0, !.recv_flags = {}]
Emit(p, c) == net' = [net EXCEPT ![Peer(p)] = @ \o c.out]
Store(p, c) == pcb' = [pcb EXCEPT ![p] = Clear(c)]
Free(p, c) == [NoPcb(p) EXCEPT !.out = c.out]

\* The error callback, if the application still holds the block.  reset records
\* that this side told its peer, or left its peer to find out.
Fail(a, err) == [a EXCEPT !.status = IF @ = "open" THEN err ELSE @, !.unread = 0]

\* tcp_next_iss
NextIss_Same(p) == iss[p]
NextIss(p) == iss[p] + IssStep

-----------------------------------------------------------------------------
\* The calls of the application.

\* tcp_connect
tcp_connect ==
  /\ app["A"].status = "idle"
  /\ LET i == NextIss("A")
         c == [NewPcb("CLOSED") EXCEPT !.snd_nxt = i, !.lastack = i - 1, !.snd_wl2 = i - 1,
                                        !.snd_lbb = i - 1, !.snd_wnd = TCP_WND]
         d == tcp_output([Enqueue(c, <<>>, TRUE, FALSE) EXCEPT !.state = "SYN_SENT"], 1)
     IN Store("A", d) /\ Emit("A", d) /\ iss' = [iss EXCEPT !["A"] = i]
  /\ app' = [app EXCEPT !["A"].status = "open"]
  /\ UNCHANGED <<late, faults>>

\* tcp_write of the whole message, cut into segments, and tcp_output.
tcp_write(p, w) ==
  /\ Calls(p) /\ app[p].wrote = 0 /\ Bytes[p] > 0
  /\ pcb[p].state \in {"SYN_SENT", "ESTABLISHED", "CLOSE_WAIT"}
  /\ LET c == tcp_output(EnqueueData(pcb[p], Bytes[p]), w) IN Store(p, c) /\ Emit(p, c)
  /\ app' = [app EXCEPT ![p].wrote = Bytes[p]]
  /\ UNCHANGED <<iss, late, faults>>

\* tcp_recved for everything read so far; the window it opens is announced if
\* it grew by TCP_WND_UPDATE_THRESHOLD, which is one segment in this build.
MustRead(p) == Calls(p) /\ app[p].unread > 0
tcp_recved(p, w) ==
  /\ MustRead(p)
  /\ LET wnd == u16(pcb[p].rcv_wnd + app[p].unread)
         passive == pcb[p].state \in {"CLOSE_WAIT", "LAST_ACK"}
         c == [pcb[p] EXCEPT !.rcv_wnd = IF wnd > TCP_WND \/ (wnd = 0 /\ passive) THEN TCP_WND ELSE wnd]
         u == tcp_update_rcv_ann_wnd(c)
         d == IF Inflation(c) >= 1 THEN tcp_output(tcp_ack_now(u), w) ELSE u
     IN Store(p, d) /\ Emit(p, d)
  /\ app' = [app EXCEPT ![p].unread = 0]
  /\ UNCHANGED <<iss, late, faults>>

\* tcp_close_shutdown_fin
CloseFin(c, w) ==
  LET next == CASE c.state \in {"SYN_RCVD", "ESTABLISHED"} -> "FIN_WAIT_1"
                [] c.state = "CLOSE_WAIT" -> "LAST_ACK"
                [] OTHER -> c.state
  IN IF next = c.state THEN c ELSE tcp_output([tcp_send_fin(c) EXCEPT !.state = next], w)

\* tcp_close: a reset instead of a FIN if the application has not read
\* everything that arrived.
Unread(c) == c.refused # <<>> \/ c.rcv_wnd # TCP_WND
tcp_close(p, w) ==
  /\ Calls(p)
  /\ LET c == [pcb[p] EXCEPT !.rxclosed = TRUE]
         rst == c.state \in {"ESTABLISHED", "CLOSE_WAIT"} /\ Unread(c)
         r == tcp_rst(c, c.snd_nxt, c.rcv_nxt)
         d == IF rst THEN IF c.state = "ESTABLISHED" THEN TimeWait(r) ELSE Free(p, r)
              ELSE IF c.state = "SYN_SENT" THEN Free(p, c)
              ELSE CloseFin(c, w)
     IN /\ Store(p, d) /\ Emit(p, d)
        /\ app' = [app EXCEPT ![p].status = "closed", ![p].unread = 0,
                              ![p].reset = @ \/ rst \/ c.state = "SYN_SENT"]
        /\ IF rst \/ c.state = "SYN_SENT" THEN Fault ELSE UNCHANGED faults
  /\ UNCHANGED <<iss, late>>

\* tcp_abandon with a reset: a delayed acknowledgment goes out first, except
\* from within tcp_input.
Abandon(p, c, delayed) ==
  LET d == IF delayed /\ "DELAY" \in c.ack THEN tcp_send_empty_ack(c) ELSE c
  IN Free(p, IF c.state = "TIME_WAIT" THEN c ELSE tcp_rst(d, c.snd_nxt, c.rcv_nxt))

\* tcp_abort
tcp_abort(p) ==
  /\ Calls(p)
  /\ LET d == Abandon(p, pcb[p], TRUE) IN Store(p, d) /\ Emit(p, d)
  /\ app' = [app EXCEPT ![p] = [Fail(@, "ERR_ABRT") EXCEPT !.reset = TRUE]]
  /\ Fault
  /\ UNCHANGED <<iss, late>>

-----------------------------------------------------------------------------
\* tcp_input.

\* TCP_EVENT_RECV and TCP_EVENT_CLOSED: the application takes the data, or
\* refuses it and is asked again later.
Recv(c, a, data, fin, take) ==
  IF data # <<>> /\ ~take
  THEN [pcb |-> [c EXCEPT !.refused = data, !.refused_fin = fin], app |-> a]
  ELSE IF c.refused # <<>> THEN [pcb |-> [c EXCEPT !.refused_fin = @ \/ fin], app |-> a]
  ELSE [pcb |-> [c EXCEPT !.rcv_wnd = IF fin /\ @ # TCP_WND THEN u16(@ + 1) ELSE @],
        app |-> [a EXCEPT !.got = @ \o data, !.unread = @ + Len(data), !.eof = @ \/ fin]]

tcp_process_refused_data(c, a, take) ==
  Recv([c EXCEPT !.refused = <<>>, !.refused_fin = FALSE], a, c.refused, c.refused_fin, take)

\* What tcp_input does with the result of tcp_process: the callbacks in their
\* order, then tcp_output.
Callbacks(p, c, b, take, w) ==
  LET opened == c.recv_flags \intersect {"ACCEPT"} # {}
      a == [b EXCEPT !.status = IF opened THEN "open" ELSE @, !.accepts = @ + (IF opened THEN 1 ELSE 0),
                     !.sent = @ + c.recv_acked]
      r == Recv(c, a, c.recv_data, "GOT_FIN" \in c.recv_flags, take)
  IN IF "RESET" \in c.recv_flags THEN [pcb |-> Free(p, c), app |-> Fail(b, "ERR_RST")]
     ELSE IF "CLOSED" \in c.recv_flags
     THEN [pcb |-> Free(p, c), app |-> a]
     ELSE IF c.recv_data # <<>> /\ c.rxclosed
     THEN [pcb |-> Abandon(p, c, FALSE), app |-> [Fail(a, "ERR_ABRT") EXCEPT !.reset = TRUE]]
     ELSE [pcb |-> tcp_output(r.pcb, w), app |-> r.app]

\* A segment for a connection.
InputActive(p, s, fast, take, w) ==
  LET r == tcp_process_refused_data(pcb[p], app[p], take)
      full == r.pcb.refused # <<>>
  IN IF full /\ tcplen(s) > 0
     THEN [r EXCEPT !.pcb = IF @.rcv_ann_wnd = 0 THEN tcp_send_empty_ack(@) ELSE @]
     ELSE Callbacks(p, tcp_process(r.pcb, s, fast), r.app, take, w)

\* tcp_timewait_input
InputTimeWait(c, s) ==
  IF s.rst THEN c
  ELSE IF s.syn /\ Between(s.seq, c.rcv_nxt, c.rcv_nxt + c.rcv_wnd) THEN tcp_rst(c, s.ack, End(s))
  ELSE IF tcplen(s) > 0 THEN tcp_output(tcp_ack_now(c), 1)
  ELSE c

\* tcp_listen_input
InputListen(p, s) ==
  IF s.rst THEN NoPcb(p)
  ELSE IF s.isack THEN tcp_rst(NoPcb(p), s.ack, End(s))
  ELSE IF ~s.syn THEN NoPcb(p)
  ELSE LET i == NextIss(p)
           c == [NewPcb("SYN_RCVD") EXCEPT
                   !.rcv_nxt = s.seq + 1, !.right_edge = s.seq + 1, !.snd_wl2 = i, !.snd_nxt = i,
                   !.lastack = i, !.snd_lbb = i, !.snd_wl1 = s.seq - 1, !.snd_wnd = s.wnd]
       IN tcp_output(Enqueue(c, <<>>, TRUE, FALSE), 1)

\* tcp_input with no block for the segment.
InputClosed(p, s) == IF s.rst THEN NoPcb(p) ELSE tcp_rst(NoPcb(p), s.ack, End(s))

Result(p, s, fast, take, w) ==
  LET state == pcb[p].state
      Keep(c) == [pcb |-> c, app |-> app[p]]
  IN CASE state \in Active -> InputActive(p, s, fast, take, w)
       [] state = "TIME_WAIT" -> Keep(InputTimeWait(pcb[p], s))
       [] state = "LISTEN" -> Keep(InputListen(p, s))
       [] OTHER -> Keep(InputClosed(p, s))

\* Segment s arrives at p.
tcp_input(p, s, fast, take, w) ==
  /\ IF take THEN UNCHANGED faults ELSE Fault
  /\ LET r == Result(p, s, fast, take, w)
     IN /\ take \/ r.pcb.refused # <<>>
        /\ Store(p, r.pcb)
        /\ net' = [net EXCEPT ![p] = IF late' = late THEN Tail(@) ELSE @, ![Peer(p)] = @ \o r.pcb.out]
        /\ app' = [app EXCEPT ![p] = r.app]
        /\ iss' = [iss EXCEPT ![p] = IF pcb[p].state = "LISTEN" /\ r.pcb.state = "SYN_RCVD" THEN NextIss(p) ELSE @]

Deliver(p, fast, take, w) ==
  /\ net[p] # <<>>
  /\ UNCHANGED late
  /\ tcp_input(p, Head(net[p]), fast, take, w)

DeliverLate(p, s, fast, take, w) ==
  /\ late' = [late EXCEPT ![p] = @ \ {s}]
  /\ tcp_input(p, s, fast, take, w)

\* The next segment, or a copy of it, strays.
Stray(p, copy) ==
  /\ net[p] # <<>>
  /\ Fault
  /\ late' = [late EXCEPT ![p] = @ \union {Head(net[p])}]
  /\ net' = [net EXCEPT ![p] = IF copy THEN @ ELSE Tail(@)]
  /\ UNCHANGED <<pcb, iss, app>>

-----------------------------------------------------------------------------
\* The timers.

GivesUp(c) == c.nrtx >= (IF c.state = "SYN_SENT" THEN TCP_SYNMAXRTX ELSE TCP_MAXRTX)
Runs(p) == pcb[p].state \in Active /\ ~GivesUp(pcb[p])

\* tcp_slowtmr: the retransmission timer; the congestion window falls to one segment.
RetransmitDue(p) == Runs(p) /\ ~pcb[p].persist /\ pcb[p].unacked # {} /\ pcb[p].rtime /\ Quiet
Retransmit(p) ==
  /\ RetransmitDue(p)
  /\ LET c == tcp_output(tcp_rexmit_rto(pcb[p]), 1) IN Store(p, c) /\ Emit(p, c)
  /\ UNCHANGED <<iss, app, late, faults>>

\* tcp_slowtmr: the persist timer.
PersistDue(p) == Runs(p) /\ pcb[p].persist /\ pcb[p].unacked \union pcb[p].unsent # {} /\ Quiet
Persist(p) ==
  /\ PersistDue(p)
  /\ LET c == tcp_zero_window_probe(pcb[p]) IN Store(p, c) /\ Emit(p, c)
  /\ UNCHANGED <<iss, app, late, faults>>

\* tcp_slowtmr: a connection that is removed; its peer hears nothing.  The
\* times are counted from the last segment before the close, so the segments
\* of the other side may still be on their way.
TimedOut_OnlyRexmit(p) == pcb[p].state \in Active /\ GivesUp(pcb[p])
TimedOut(p) ==
  \/ pcb[p].state \in Active /\ GivesUp(pcb[p])
  \/ pcb[p].state = "FIN_WAIT_2" /\ pcb[p].rxclosed
  \/ pcb[p].state \in {"SYN_RCVD", "LAST_ACK", "TIME_WAIT"}
GiveUp(p) ==
  /\ TimedOut(p)
  /\ Store(p, NoPcb(p))
  /\ app' = IF pcb[p].state = "TIME_WAIT" THEN app
            ELSE [app EXCEPT ![p] = [Fail(@, "ERR_ABRT") EXCEPT !.reset = TRUE]]
  /\ UNCHANGED <<iss, net, late, faults>>

\* tcp_slowtmr: the queue of out-of-sequence data is dropped after a while.
DropOoseq(p) ==
  /\ pcb[p].state \in Active
  /\ pcb[p].ooseq # {} /\ Quiet
  /\ pcb' = [pcb EXCEPT ![p].ooseq = {}]
  /\ UNCHANGED <<iss, app, net, late, faults>>

\* tcp_slowtmr: tcp_output from the poll timer.
Poll(p, w) ==
  /\ Runs(p) /\ Quiet
  /\ LET c == tcp_output(pcb[p], w)
     IN c.out # <<>> /\ Store(p, c) /\ Emit(p, c)
  /\ UNCHANGED <<iss, app, late, faults>>

\* tcp_fasttmr: the delayed acknowledgment, then the data refused earlier.
FastDue(p) == pcb[p].state \in Active /\ ("DELAY" \in pcb[p].ack \/ pcb[p].refused # <<>>)
tcp_fasttmr(p, w) ==
  /\ FastDue(p)
  /\ LET c == IF "DELAY" \in pcb[p].ack
              THEN [tcp_output(tcp_ack_now(pcb[p]), w) EXCEPT !.ack = {}] ELSE pcb[p]
         r == tcp_process_refused_data(c, app[p], TRUE)
     IN /\ Store(p, r.pcb) /\ Emit(p, r.pcb)
        /\ app' = [app EXCEPT ![p] = r.app]
  /\ UNCHANGED <<iss, late, faults>>

Next ==
  \/ tcp_connect
  \/ \E p \in Sides :
       \/ \E w \in Cwnd(p) : tcp_write(p, w)
       \/ \E w \in Cwnd(p) : tcp_recved(p, w)
       \/ \E w \in Cwnd(p) : tcp_close(p, w)
       \/ tcp_abort(p)
       \/ \E fast \in Fast(p), take \in BOOLEAN, w \in Cwnd(p) : Deliver(p, fast, take, w)
       \/ \E s \in late[p], fast \in Fast(p), take \in BOOLEAN, w \in Cwnd(p) : DeliverLate(p, s, fast, take, w)
       \/ \E copy \in BOOLEAN : Stray(p, copy)
       \/ Retransmit(p) \/ Persist(p) \/ GiveUp(p) \/ DropOoseq(p)
       \/ \E w \in Cwnd(p) : Poll(p, w)
       \/ \E w \in Cwnd(p) : tcp_fasttmr(p, w)

\* The network goes on delivering and strayed segments die out; the timers go
\* on running, and an application reads what it has been given.  Each of these
\* steps ends the condition it waits for, so weak fairness of it is that the
\* condition does not hold for ever; a delivery need not empty the network.
Delivered(p) == net[p] # <<>> /\ net'[p] = Tail(net[p])
Fairness ==
  \A p \in Sides :
    /\ []<>(net[p] = <<>>) \/ []<><<Delivered(p)>>_vars
    /\ []<>~MustRead(p) /\ []<>~FastDue(p) /\ []<>~RetransmitDue(p) /\ []<>~PersistDue(p)
    /\ []<>~TimedOut(p)

Spec == Init /\ [][Next]_vars /\ Fairness

-----------------------------------------------------------------------------
Received(p) == Len(app[p].got) + Len(pcb[p].refused)
IsFree(p) == pcb[p].state \in {"CLOSED", "LISTEN"}

\* What an application receives is what the other one wrote, in order and
\* once; the end of the stream is reported (recv with NULL) only after all of
\* it and after the other side closed.
StreamIntact ==
  \A p \in Sides :
    /\ app[p].got = [i \in 1..Len(app[p].got) |-> i]
    /\ Len(app[p].got) <= app[Peer(p)].wrote
    /\ app[p].eof => Len(app[p].got) = app[Peer(p)].wrote /\ app[Peer(p)].status = "closed"

\* A byte reported by the sent callback has reached the other application, or
\* waits for it in refused_data, unless that side broke the connection.
SentIsReceived ==
  \A p \in Sides : app[p].sent <= Received(Peer(p)) \/ app[Peer(p)].reset

\* While both ends have the connection, neither acknowledges what the other
\* has not sent, nor believes acknowledged what the other has not received.
Synchronized(p) == pcb[p].state \in SynReceived \ {"SYN_RCVD"}
EndsAgree ==
  (Synchronized("A") /\ Synchronized("B")) =>
    \A p \in Sides : pcb[p].lastack <= pcb[Peer(p)].rcv_nxt /\ pcb[Peer(p)].rcv_nxt <= pcb[p].snd_nxt

\* Delays, duplicates, losses and retransmissions do not reset a connection:
\* an application is told ERR_RST only if the other side broke it off.
OnlyPeerResets ==
  \A p \in Sides : app[p].status = "ERR_RST" => app[Peer(p)].reset

\* A connects once, so B accepts once, whatever becomes of copies of the SYN.
NoGhostAccept == app["B"].accepts <= 1

\* The assertions of tcp_receive: what is received fits the receive window.
RcvNxtFitsWindow ==
  [][\A p \in Sides : (Synchronized(p) /\ ~IsFree(p)') => pcb'[p].rcv_nxt - pcb[p].rcv_nxt <= pcb[p].rcv_wnd]_vars

\* A closed connection gives its block back, whatever the other side does.
ClosedIsFreed == \A p \in Sides : app[p].status = "closed" ~> IsFree(p)

\* What is written arrives, if the receiver keeps the connection and the
\* sender does not break it off.
Arrives(p, n) == Len(app[Peer(p)].got) >= n \/ app[Peer(p)].status # "open" \/ app[p].reset
DataArrives ==
  \A p \in Sides : \A n \in 1..Bytes[p] :
    (app[p].wrote >= n /\ app[Peer(p)].status = "open") ~> Arrives(p, n)
=============================================================================

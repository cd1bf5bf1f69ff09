------------------------------- MODULE TcpPcb -------------------------------
(***************************************************************************)
(* The protocol control block of lwIP's TCP (core/tcp.c, tcp_in.c,          *)
(* tcp_out.c) and the functions that change it, as operators from a block   *)
(* to a block.  A segment carries at most one byte, so the maximum segment  *)
(* size is one and Nagle's algorithm never holds a segment back.  Sequence  *)
(* numbers are small enough not to wrap; the receive window keeps its       *)
(* 16 bits, because the code can take it below zero.                        *)
(*                                                                         *)
(* The queues unsent and unacked are kept sorted by the code and are sets   *)
(* here.  ooseq is the set of <<sequence number, byte>> pairs it holds, the *)
(* FIN being the pair <<sequence number, FIN>>.  The congestion window w is *)
(* a parameter of tcp_output: any number of segments, at least one.         *)
(*                                                                         *)
(* A block also carries what one call produces: the segments sent (out) and *)
(* the globals recv_data, recv_acked and recv_flags of tcp_in.c.            *)
(***************************************************************************)
EXTENDS Integers, Sequences, FiniteSets, FiniteSetsExt
LOCAL INSTANCE SequencesExt

CONSTANTS
  TCP_WND,        \* the receive window
  TCP_SYNMAXRTX,  \* retransmissions of a SYN before the connection fails
  TCP_MAXRTX      \* retransmissions of anything else

ASSUME TcpConstants ==
  /\ TCP_WND \in 2..32767
  /\ {TCP_SYNMAXRTX, TCP_MAXRTX} \subseteq Nat \ {0}

u16(n) == n % 65536
FIN == 0
SynReceived == {"SYN_RCVD", "ESTABLISHED", "FIN_WAIT_1", "FIN_WAIT_2", "CLOSE_WAIT", "CLOSING", "LAST_ACK"}
Active == SynReceived \union {"SYN_SENT"}

\* TCP_SEQ_BETWEEN
Between(a, b, c) == b <= a /\ a <= c

\* TCP_TCPLEN: SYN and FIN take a sequence number each.
tcplen(s) == Len(s.data) + (IF s.syn \/ s.fin THEN 1 ELSE 0)
End(s) == s.seq + tcplen(s)

\* A queued segment; ackno and window are filled in when it is sent.
Seg(seq, data, syn, fin) == [seq |-> seq, data |-> data, syn |-> syn, fin |-> fin]

\* What goes over the wire.
Packet(s, isack, rst, ack, wnd) ==
  [seq |-> s.seq, data |-> s.data, syn |-> s.syn, fin |-> s.fin,
   isack |-> isack, rst |-> rst, ack |-> ack, wnd |-> wnd]

Before(s, t) == s.seq < t.seq
Oldest(segs) == CHOOSE s \in segs : \A t \in segs : s.seq <= t.seq
Newest(segs) == CHOOSE s \in segs : \A t \in segs : t.seq <= s.seq

\* A block the pool hands out (tcp_alloc), and the place of one that is free.
NewPcb(state) ==
  [state |-> state, snd_nxt |-> 0, lastack |-> 0, snd_lbb |-> 0, unsent |-> {}, unacked |-> {},
   snd_wnd |-> 0, snd_wl1 |-> 0, snd_wl2 |-> 0, persist |-> FALSE, rtime |-> FALSE, nrtx |-> 0,
   infr |-> FALSE, rcv_nxt |-> 0, rcv_wnd |-> TCP_WND, rcv_ann_wnd |-> TCP_WND, right_edge |-> 0,
   ooseq |-> {}, ack |-> {}, rxclosed |-> FALSE, refused |-> <<>>, refused_fin |-> FALSE,
   out |-> <<>>, recv_data |-> <<>>, recv_acked |-> 0, recv_flags |-> {}]

\* tcp_pcb_purge: the queues go and the retransmission timer stops.
tcp_pcb_purge(c) ==
  [c EXCEPT !.refused = <<>>, !.ooseq = {}, !.rtime = FALSE, !.unsent = {}, !.unacked = {}]

-----------------------------------------------------------------------------
\* Sending (tcp_out.c).

\* tcp_rst: a reset for whoever sent a segment with this ackno, or for the peer.
tcp_rst(c, seqno, ackno) ==
  [c EXCEPT !.out = Append(@, Packet(Seg(seqno, <<>>, FALSE, FALSE), TRUE, TRUE, ackno, TCP_WND))]

\* The edge of the window is remembered whenever a header is built.
Advertise(c) == [c EXCEPT !.right_edge = c.rcv_nxt + c.rcv_ann_wnd]

tcp_send_empty_ack(c) ==
  [Advertise(c) EXCEPT
     !.out = Append(@, Packet(Seg(c.snd_nxt, <<>>, FALSE, FALSE), TRUE, FALSE, c.rcv_nxt, c.rcv_ann_wnd)),
     !.ack = {}]

tcp_ack(c) == [c EXCEPT !.ack = IF "DELAY" \in @ THEN (@ \ {"DELAY"}) \union {"NOW"} ELSE @ \union {"DELAY"}]
tcp_ack_now(c) == [c EXCEPT !.ack = @ \union {"NOW"}]

\* tcp_output without the check for tcp_input_pcb: every unsent segment the
\* two windows allow goes out with the acknowledgment; if none does, an
\* ACK_NOW makes an empty one.  A segment that does not fit an open window
\* with nothing in flight starts the persist timer.  Until the handshake is
\* over the congestion window is one byte.
tcp_output(c, w) ==
  LET syn_sent == c.state = "SYN_SENT"
      wnd == Min({c.snd_wnd, IF syn_sent THEN 1 ELSE w})
      fit == {s \in c.unsent : Between(s.seq - c.lastack + Len(s.data), 0, wnd)}
  IN IF fit = {} /\ "NOW" \in c.ack THEN tcp_send_empty_ack(c)
     ELSE IF fit = {}
     THEN [c EXCEPT !.persist = @ \/ (c.unsent # {} /\ wnd > 0 /\ wnd = c.snd_wnd /\ c.unacked = {})]
     ELSE [Advertise(c) EXCEPT
            !.out = @ \o SetToSortSeq({Packet(s, ~syn_sent, FALSE, c.rcv_nxt, c.rcv_ann_wnd) : s \in fit}, Before),
            !.unsent = @ \ fit, !.unacked = @ \union fit,
            !.snd_nxt = Max({@} \union {End(s) : s \in fit}),
            !.ack = IF syn_sent THEN @ ELSE {}, !.rtime = TRUE]

\* tcp_enqueue_flags, and the queueing part of tcp_write for n segments of data.
Enqueue(c, data, syn, fin) ==
  LET s == Seg(c.snd_lbb, data, syn, fin)
  IN [c EXCEPT !.unsent = @ \union {s}, !.snd_lbb = End(s)]
EnqueueData(c, n) ==
  [c EXCEPT !.unsent = @ \union {Seg(c.snd_lbb + i - 1, <<i>>, FALSE, FALSE) : i \in 1..n}, !.snd_lbb = @ + n]

\* tcp_send_fin: the FIN goes onto the last unsent segment if there is one.
tcp_send_fin(c) ==
  IF c.unsent # {} /\ ~Newest(c.unsent).syn /\ ~Newest(c.unsent).fin
  THEN LET l == Newest(c.unsent)
       IN [c EXCEPT !.unsent = (@ \ {l}) \union {[l EXCEPT !.fin = TRUE]}]
  ELSE Enqueue(c, <<>>, FALSE, TRUE)

\* tcp_rexmit_rto up to its tcp_output, and tcp_rexmit.
Requeue(c, segs) ==
  IF c.unacked = {} THEN c
  ELSE [c EXCEPT !.unsent = @ \union segs, !.unacked = @ \ segs, !.nrtx = @ + 1]
tcp_rexmit_rto(c) == Requeue(c, c.unacked)
tcp_rexmit(c) == Requeue(c, {s \in c.unacked : s = Oldest(c.unacked)})

\* tcp_zero_window_probe: one byte, or the FIN, from the oldest segment.
tcp_zero_window_probe_SndNxt(c) ==
  LET s == Oldest(IF c.unacked # {} THEN c.unacked ELSE c.unsent)
  IN [Advertise(c) EXCEPT
       !.out = Append(@, Packet(Seg(s.seq, s.data, FALSE, s.fin /\ s.data = <<>>), TRUE, FALSE,
                                c.rcv_nxt, c.rcv_ann_wnd))]
tcp_zero_window_probe(c) ==
  LET q == IF c.unacked # {} THEN c.unacked ELSE c.unsent
      s == Oldest(q)
      is_fin == s.fin /\ s.data = <<>>
  IN IF q = {} THEN c
     ELSE [Advertise(c) EXCEPT
            !.out = Append(@, Packet(Seg(s.seq, s.data, FALSE, is_fin), TRUE, FALSE, c.rcv_nxt, c.rcv_ann_wnd)),
            !.snd_nxt = Max({@, s.seq + 1})]

-----------------------------------------------------------------------------
\* Receiving (tcp_in.c).

\* tcp_update_rcv_ann_wnd: the right edge moves by a segment or more, or not at all.
Inflation(c) == c.rcv_nxt + c.rcv_wnd - c.right_edge
tcp_update_rcv_ann_wnd(c) ==
  [c EXCEPT !.rcv_ann_wnd =
     IF Inflation(c) >= 1 THEN c.rcv_wnd ELSE Max({0, c.right_edge - c.rcv_nxt})]

\* tcp_receive, "Update window": only from a segment newer than the last update.
UpdateWindow_NoPersist(c, s) ==
  IF c.snd_wl1 < s.seq \/ (c.snd_wl1 = s.seq /\ c.snd_wl2 < s.ack) \/ (c.snd_wl2 = s.ack /\ s.wnd > c.snd_wnd)
  THEN [c EXCEPT !.snd_wnd = s.wnd, !.snd_wl1 = s.seq, !.snd_wl2 = s.ack]
  ELSE c
UpdateWindow(c, s) ==
  IF c.snd_wl1 < s.seq \/ (c.snd_wl1 = s.seq /\ c.snd_wl2 < s.ack) \/ (c.snd_wl2 = s.ack /\ s.wnd > c.snd_wnd)
  THEN [c EXCEPT !.snd_wnd = s.wnd, !.snd_wl1 = s.seq, !.snd_wl2 = s.ack, !.persist = s.wnd = 0]
  ELSE c

\* tcp_rexmit_fast; which duplicate is the third one is left open (fast).
tcp_rexmit_fast(c) ==
  IF c.unacked # {} /\ ~c.infr THEN [tcp_rexmit(c) EXCEPT !.infr = TRUE, !.rtime = TRUE] ELSE c

DataBytes(segs) == Cardinality({s \in segs : s.data # <<>>})

\* tcp_receive, the acknowledgment: a duplicate one, one for new data, or one
\* for what was never sent; then the segments a retransmission put back on
\* unsent that it covers as well.
NewAck_Partial(c, ack) ==
  LET acked == {t \in c.unacked : t.seq <= ack}
  IN [c EXCEPT !.infr = FALSE, !.nrtx = 0, !.lastack = ack, !.unacked = @ \ acked,
               !.rtime = c.unacked # acked, !.recv_acked = @ + DataBytes(acked)]
NewAck(c, ack) ==
  LET acked == {t \in c.unacked : End(t) <= ack}
  IN [c EXCEPT !.infr = FALSE, !.nrtx = 0, !.lastack = ack, !.unacked = @ \ acked,
               !.rtime = c.unacked # acked, !.recv_acked = @ + DataBytes(acked)]
AckUnsent(c, ack) ==
  LET acked == {t \in c.unsent : Between(ack, End(t), c.snd_nxt)}
  IN [c EXCEPT !.unsent = @ \ acked, !.recv_acked = @ + DataBytes(acked)]
ReceiveAck(c, s, fast) ==
  LET u == UpdateWindow(c, s)
      duplicate == /\ s.ack = u.lastack /\ tcplen(s) = 0 /\ u.rtime
                   /\ u.snd_wl2 + u.snd_wnd = c.snd_wl2 + c.snd_wnd
  IN AckUnsent(
       IF s.ack <= u.lastack THEN IF duplicate /\ fast THEN tcp_rexmit_fast(u) ELSE u
       ELSE IF s.ack <= u.snd_nxt THEN NewAck(u, s.ack)
       ELSE tcp_send_empty_ack(u), s.ack)

Units(s) == {<<s.seq + i - 1, s.data[i]>> : i \in 1..Len(s.data)}
              \union (IF s.fin THEN {<<s.seq + Len(s.data), FIN>>} ELSE {})
HasFin(units) == \E u \in units : u[2] = FIN

\* tcp_receive, a segment that starts at rcv_nxt: what the window admits of it
\* and what ooseq holds next to it are received, and acknowledged.
InSequence(c, units) ==
  LET here == {u \in units : u[1] < c.rcv_nxt + c.rcv_wnd}
      all  == here \union (IF HasFin(here) THEN {} ELSE c.ooseq)
      next == Min({n \in c.rcv_nxt..(c.rcv_nxt + Cardinality(all)) : \A u \in all : u[1] # n})
      run  == {u \in all : u[1] < next}
      data == {u \in run : u[2] # FIN}
  IN tcp_ack(tcp_update_rcv_ann_wnd(
       [c EXCEPT !.rcv_nxt = next, !.rcv_wnd = u16(@ - (next - c.rcv_nxt)), !.ooseq = all \ run,
                 !.recv_data = [i \in 1..Cardinality(data) |->
                                  (CHOOSE u \in data : u[1] = c.rcv_nxt + i - 1)[2]],
                 !.recv_flags = @ \union (IF HasFin(run) THEN {"GOT_FIN"} ELSE {})]))

\* tcp_receive, a segment that starts later: a copy of one already there and
\* anything after a FIN are dropped; only what goes to the end of a queue that
\* is not empty is cut to the window.
QueueOoseq(c, seq, units) ==
  IF \E u \in c.ooseq : u[1] = seq THEN c.ooseq
  ELSE IF c.ooseq # {} /\ \A u \in c.ooseq : u[1] < seq
  THEN IF HasFin(c.ooseq) THEN c.ooseq
       ELSE c.ooseq \union {u \in units : u[1] < c.rcv_nxt + c.rcv_wnd}
  ELSE c.ooseq \union units

InWindow(c, seq) == Between(seq, c.rcv_nxt, c.rcv_nxt + c.rcv_wnd - 1)

\* tcp_receive, the data, cut at rcv_nxt if part of it is old.
ReceiveData_AnyOrder(c, s) ==
  IF ~InWindow(c, s.seq) THEN tcp_send_empty_ack(c) ELSE InSequence([c EXCEPT !.rcv_nxt = s.seq], Units(s))
ReceiveData(c, s) ==
  LET seq == IF Between(c.rcv_nxt, s.seq + 1, End(s) - 1) THEN c.rcv_nxt ELSE s.seq
      units == {u \in Units(s) : u[1] >= seq}
      d == IF seq < c.rcv_nxt THEN tcp_ack_now(c) ELSE c
  IN IF ~InWindow(c, seq) THEN tcp_send_empty_ack(d)
     ELSE IF seq = c.rcv_nxt THEN InSequence(d, units)
     ELSE [tcp_send_empty_ack(d) EXCEPT !.ooseq = QueueOoseq(c, seq, units)]

tcp_receive(c, s, fast) ==
  LET d == IF s.isack THEN ReceiveAck(c, s, fast) ELSE c
  IN IF tcplen(s) > 0 /\ c.state \in {"ESTABLISHED", "FIN_WAIT_1", "FIN_WAIT_2"} THEN ReceiveData(d, s)
     ELSE IF ~InWindow(d, s.seq) THEN tcp_ack_now(d) ELSE d

-----------------------------------------------------------------------------
\* tcp_process, by state.

TimeWait(c) == [tcp_pcb_purge(c) EXCEPT !.state = "TIME_WAIT"]
Flag(c, f) == [c EXCEPT !.recv_flags = @ \union {f}]

ProcessRst(c, s) ==
  IF IF c.state = "SYN_SENT" THEN s.ack = c.snd_nxt ELSE s.seq = c.rcv_nxt
  THEN [Flag(c, "RESET") EXCEPT !.ack = @ \ {"DELAY"}]
  ELSE IF c.state # "SYN_SENT" /\ Between(s.seq, c.rcv_nxt, c.rcv_nxt + c.rcv_wnd) THEN tcp_ack_now(c)
  ELSE c

ProcessSynSent(c, s) ==
  IF s.isack /\ s.syn /\ s.ack = c.lastack + 1
  THEN LET q == IF c.unacked # {} THEN c.unacked ELSE c.unsent
           unacked == c.unacked \ {Oldest(q)}
       IN tcp_ack_now([Flag(c, "CONNECTED") EXCEPT
            !.state = "ESTABLISHED", !.rcv_nxt = s.seq + 1, !.right_edge = s.seq + 1, !.lastack = s.ack,
            !.snd_wnd = s.wnd, !.snd_wl1 = s.seq - 1, !.unacked = unacked, !.unsent = @ \ {Oldest(q)},
            !.rtime = unacked # {}, !.nrtx = IF unacked # {} THEN 0 ELSE @])
  ELSE IF s.isack
  THEN LET d == tcp_rst(c, s.ack, End(s))
       IN IF c.nrtx < TCP_SYNMAXRTX THEN tcp_rexmit_rto([d EXCEPT !.rtime = TRUE]) ELSE d
  ELSE c

\* ESTABLISHED, and CLOSE_WAIT once the FIN has come.
Receive(c, s, fast) ==
  LET d == tcp_receive([c EXCEPT !.state = IF @ = "SYN_RCVD" THEN "ESTABLISHED" ELSE @], s, fast)
  IN IF "GOT_FIN" \in d.recv_flags THEN [tcp_ack_now(d) EXCEPT !.state = "CLOSE_WAIT"] ELSE d

ProcessSynRcvd(c, s, fast) ==
  IF s.isack
  THEN IF Between(s.ack, c.lastack + 1, c.snd_nxt)
       THEN Receive(Flag(c, "ACCEPT"), s, fast)
       ELSE tcp_rst(c, s.ack, End(s))
  ELSE IF s.syn /\ s.seq = c.rcv_nxt - 1 THEN tcp_rexmit(c)
  ELSE c

\* What the FIN received, and our FIN acknowledged, lead to while closing.
ProcessClosing(c, s, fast) ==
  LET d == tcp_receive(c, s, fast)
      got_fin == "GOT_FIN" \in d.recv_flags
      fin_acked == s.isack /\ s.ack = d.snd_nxt /\ d.unsent = {}
  IN CASE c.state = "FIN_WAIT_1" /\ got_fin ->
            IF fin_acked THEN TimeWait(tcp_ack_now(d)) ELSE [tcp_ack_now(d) EXCEPT !.state = "CLOSING"]
       [] c.state = "FIN_WAIT_1" /\ ~got_fin /\ fin_acked -> [d EXCEPT !.state = "FIN_WAIT_2"]
       [] c.state = "FIN_WAIT_2" /\ got_fin -> TimeWait(tcp_ack_now(d))
       [] c.state = "CLOSING" /\ fin_acked -> TimeWait(d)
       [] c.state = "LAST_ACK" /\ fin_acked -> Flag(d, "CLOSED")
       [] OTHER -> d

tcp_process_SynResets(c, s, fast) ==
  IF s.rst THEN ProcessRst(c, s)
  ELSE IF s.syn /\ c.state \notin {"SYN_SENT", "SYN_RCVD"} THEN tcp_rst(c, s.ack, End(s))
  ELSE IF c.state = "SYN_SENT" THEN ProcessSynSent(c, s)
  ELSE IF c.state = "SYN_RCVD" THEN ProcessSynRcvd(c, s, fast)
  ELSE IF c.state \in {"ESTABLISHED", "CLOSE_WAIT"} THEN Receive(c, s, fast)
  ELSE ProcessClosing(c, s, fast)
tcp_process(c, s, fast) ==
  IF s.rst THEN ProcessRst(c, s)
  ELSE IF s.syn /\ c.state \notin {"SYN_SENT", "SYN_RCVD"} THEN tcp_ack_now(c)
  ELSE IF c.state = "SYN_SENT" THEN ProcessSynSent(c, s)
  ELSE IF c.state = "SYN_RCVD" THEN ProcessSynRcvd(c, s, fast)
  ELSE IF c.state \in {"ESTABLISHED", "CLOSE_WAIT"} THEN Receive(c, s, fast)
  ELSE ProcessClosing(c, s, fast)

=============================================================================

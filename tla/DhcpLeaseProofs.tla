------------------------- MODULE DhcpLeaseProofs --------------------------
(***************************************************************************)
(* A BOUND client's lease runs at the server, whatever goes wrong:         *)
(* LeaseInv, and the steps that keep it.                                   *)
(***************************************************************************)
EXTENDS DhcpProofs

\* Unless the server has withdrawn it, it holds a for at least n ticks.
Covered(a, n, srv) == a \in retired \/ (srv.addr = a /\ n <= srv.left)

\* Until a RELEASE or DECLINE has arrived, nothing answers the client's
\* present transaction: what was sent before has another id.
DropsComeFirst(d) ==
    \A j \in DOMAIN d.out : d.out[j].type \in Drops =>
        /\ \A i \in 1 .. (j - 1) : d.out[i].xid # d.xid
        /\ \A m \in replies : m.xid # d.xid

\* What the client counts on, when its request timer has come to t.  An ACK
\* is at most one tick late, and two probes, of at most one tick each, lie
\* between it and dhcp_bind: the server has to keep the lease that long.
CountsOn(d, t, srv) ==
    Grace >= 3 =>
        /\ d.state = "CHECKING" =>
              /\ NoDrops(d) /\ d.tries \in 1..2
              /\ Covered(d.offered, T0(d.lease) + Grace + 1 - d.tries - t, srv)
        /\ d.state = "BOUND" => NoDrops(d) /\ Covered(d.addr, d.t0 - d.used, srv)

\* An ACK that the client will accept promises no more than the server
\* keeps, even if it is a tick late.
AcksCovered ==
    \A m \in replies : Grace >= 3 /\ m.type = "ACK" /\ m.xid = dhcp.xid =>
        Covered(m.addr, T0(m.lease) + Grace - (IF m.late THEN 1 ELSE 0), server)

LeaseInv ==
    /\ StuckInv /\ DropsComeFirst(dhcp) /\ AcksCovered
    /\ CountsOn(dhcp, dhcp.timer, server)

-----------------------------------------------------------------------------
(* The lease at the server: the functions of dhcp.c.                       *)

\* A client whose transaction is x, or one that nothing has answered yet.
Base(x, d) ==
    /\ Typed(d) /\ d.timer \in 0..2 /\ FreshWorks /\ DropsComeFirst(d)
    /\ d.xid = x \/ \A m \in replies : m.xid # d.xid

Kept(x, d, srv) == Base(x, d) /\ CountsOn(d, d.timer, srv)

\* A message from d to e, if the cable is in.
Queues(d, e, type, a) ==
    e.out = IF phy.up THEN Append(d.out, [type |-> type, addr |-> a, xid |-> e.xid])
                      ELSE d.out

\* Sending keeps the order of RELEASE and DECLINE and what comes after them.
LEMMA SendsInOrder ==
    ASSUME NEW d, Typed(d), DropsComeFirst(d), NEW e, Typed(e), NEW type, NEW a,
           Queues(d, e, type, a),
           New(e.xid, d) \/ (e.xid = d.xid /\ type \notin Drops)
    PROVE  /\ DropsComeFirst(e)
           /\ NoDrops(d) /\ type \notin Drops => NoDrops(e)
           /\ e.xid = d.xid \/ \A m \in replies : m.xid # e.xid
  <1> DEFINE msg == [type |-> type, addr |-> a, xid |-> e.xid]
  <1>1. msg.type = type /\ msg.xid = e.xid
    OBVIOUS
  <1>2. /\ d.out \in Seq(Sent) /\ Len(d.out) \in Nat /\ DOMAIN d.out = 1 .. Len(d.out)
        /\ e.out \in Seq(Sent) /\ Len(e.out) \in Nat /\ DOMAIN e.out = 1 .. Len(e.out)
    BY DEF Typed
  <1> HIDE DEF msg
  <1>3. \/ e.out = d.out
        \/ /\ Len(e.out) = Len(d.out) + 1 /\ e.out[Len(d.out) + 1] = msg
           /\ \A i \in 1 .. Len(d.out) : e.out[i] = d.out[i]
    BY <1>2 DEF Queues, msg
  <1>4. \A i \in DOMAIN e.out : \/ i \in DOMAIN d.out /\ e.out[i] = d.out[i]
                                \/ i = Len(d.out) + 1 /\ e.out[i] = msg
    BY <1>2, <1>3
  <1>5. \A i, j \in DOMAIN e.out : i < j => i \in DOMAIN d.out /\ e.out[i] = d.out[i]
    BY <1>2, <1>3
  <1>7. NoDrops(d) /\ type \notin Drops => NoDrops(e)
    BY <1>1, <1>4 DEF NoDrops
  <1>8. CASE New(e.xid, d)
    <2>1. /\ \A i \in DOMAIN d.out : d.out[i].xid # e.xid
          /\ \A m \in replies : m.xid # e.xid
      BY <1>8 DEF New
    <2>2. ASSUME NEW j \in DOMAIN e.out, NEW i \in 1 .. (j - 1)
          PROVE  e.out[i].xid # e.xid
      <3>1. i \in DOMAIN d.out /\ e.out[i] = d.out[i]
        BY <1>2, <1>5, <2>2, SMTT(30)
      <3>. QED
        BY <2>1, <3>1
    <2>. QED
      BY <1>7, <2>1, <2>2 DEF DropsComeFirst
  <1>9. CASE e.xid = d.xid /\ type \notin Drops
    <2>1. ASSUME NEW j \in DOMAIN e.out, e.out[j].type \in Drops
          PROVE  /\ \A i \in 1 .. (j - 1) : e.out[i].xid # e.xid
                 /\ \A m \in replies : m.xid # e.xid
      <3>1. j \in DOMAIN d.out /\ d.out[j].type \in Drops
        BY <1>1, <1>4, <1>9, <2>1
      <3>2. /\ \A i \in 1 .. (j - 1) : d.out[i].xid # d.xid
            /\ \A m \in replies : m.xid # d.xid
        BY <3>1 DEF DropsComeFirst
      <3>3. ASSUME NEW i \in 1 .. (j - 1) PROVE e.out[i] = d.out[i]
        <4>1. i \in DOMAIN e.out /\ i < j
          BY <1>2
        <4>. QED
          BY <1>5, <4>1
      <3>. QED
        BY <1>9, <3>2, <3>3
    <2>. QED
      BY <1>7, <1>9, <2>1 DEF DropsComeFirst
  <1>. QED
    BY <1>8, <1>9

\* A request that ends in a state without a promise of the server.
LEMMA TurnsKept ==
    ASSUME NEW x, NEW d, Base(x, d), NEW e, NEW s, NEW type, NEW a, NEW srv,
           Turns(d, e, s, type, a), s \notin {"CHECKING", "BOUND"},
           type \in {"DISCOVER", "REQUEST", "DECLINE"}, type = "DECLINE" => d.state # s
    PROVE  Kept(x, e, srv)
  <1>1. Sends(d, e, type, a) /\ (type \in Drops => New(e.xid, d))
    BY DEF Turns, Drops
  <1>2. /\ DropsComeFirst(e)
        /\ e.xid = d.xid \/ \A m \in replies : m.xid # e.xid
    BY <1>1, SendsInOrder DEF Base, Sends, Queues
  <1>. QED
    BY <1>2 DEF Base, Kept, Turns, Sends, CountsOn

\* No request of the client's costs it the lease it counts on.
LEMMA RequestsKept ==
    ASSUME NEW x, NEW d, Base(x, d), NEW srv
    PROVE  /\ Kept(x, dhcp_discover(d), srv) /\ Kept(x, dhcp_select(d), srv)
           /\ Kept(x, dhcp_renew(d), srv) /\ Kept(x, dhcp_rebind(d), srv)
           /\ Kept(x, dhcp_reboot(d), srv)
           /\ d.state = "CHECKING" => Kept(x, dhcp_decline(d), srv)
  <1>1. /\ Typed(d) /\ d.offered \in Hosts /\ d.addr \in Hosts /\ ANY \in Hosts
        /\ FreshWorks
    BY DEF Base, Typed, Hosts
  <1>2. /\ Discovers(d, dhcp_discover(d))
        /\ Turns(d, dhcp_select(d), "REQUESTING", "REQUEST", d.offered)
        /\ Turns(d, dhcp_renew(d), "RENEWING", "REQUEST", d.addr)
        /\ Turns(d, dhcp_rebind(d), "REBINDING", "REQUEST", d.addr)
        /\ Turns(d, dhcp_reboot(d), "REBOOTING", "REQUEST", d.offered)
        /\ Turns(d, dhcp_decline(d), "BACKING_OFF", "DECLINE", d.offered)
    BY <1>1, Requests
  <1> DEFINE o == [d EXCEPT !.offered = ANY]
  <1>3. /\ Typed(o) /\ o.out = d.out /\ o.xid = d.xid /\ o.timer = d.timer
        /\ Turns(o, dhcp_discover(d), "SELECTING", "DISCOVER", ANY)
    BY <1>2 DEF Discovers
  <1> HIDE DEF o
  <1>4. Base(x, o)
    BY <1>3 DEF Base, DropsComeFirst
  <1>5. Kept(x, dhcp_discover(d), srv)
    BY <1>3, <1>4, TurnsKept
  <1>6. Kept(x, dhcp_select(d), srv) /\ Kept(x, dhcp_renew(d), srv)
        /\ Kept(x, dhcp_rebind(d), srv) /\ Kept(x, dhcp_reboot(d), srv)
    BY <1>2, TurnsKept
  <1>7. ASSUME d.state = "CHECKING" PROVE Kept(x, dhcp_decline(d), srv)
    BY <1>2, <1>7, TurnsKept
  <1>. QED
    BY <1>5, <1>6, <1>7

\* The first probe, and the second.
LEMMA CheckKept ==
    ASSUME NEW x, NEW d, Base(x, d), NEW srv, srv.left \in Nat, Grace \in Nat,
           Grace >= 3 =>
              /\ NoDrops(d)
              /\ \/ d.state # "CHECKING" /\ Covered(d.offered, T0(d.lease) + Grace - 1, srv)
                 \/ /\ d.state = "CHECKING" /\ d.tries = 1
                    /\ Covered(d.offered, T0(d.lease) + Grace - 2, srv)
    PROVE  Kept(x, dhcp_check(d), srv)
  <1> DEFINE e == dhcp_check(d)
  <1>1. Turns(d, e, "CHECKING", "ARP", d.offered)
    BY CheckTurns DEF Base
  <1> HIDE DEF e
  <1>2. DropsComeFirst(e) /\ e.xid = d.xid /\ (Grace >= 3 => NoDrops(e))
    BY <1>1, SendsInOrder DEF Base, Turns, Sends, Queues, Drops
  <1>3. /\ e.lease = d.lease /\ e.offered = d.offered /\ e.timer = 1 /\ Typed(e)
        /\ e.state = "CHECKING"
    BY <1>1 DEF Turns, Sends, SameClient, SameLease
  <1>4. Grace >= 3 => e.tries = IF d.state # "CHECKING" THEN 1 ELSE 2
    BY <1>1 DEF Turns, TRIES_CAP
  <1>5. T0(d.lease) \in Nat
    BY LeaseTicks DEF Base, Typed, Shape
  <1>6. Grace >= 3 => Covered(e.offered, T0(e.lease) + Grace + 1 - e.tries - e.timer, srv)
    BY <1>3, <1>4, <1>5 DEF Covered
  <1>. QED
    BY <1>2, <1>3, <1>4, <1>6 DEF Kept, Base, CountsOn, e

\* dhcp_bind counts on no more than the server keeps.
LEMMA BindKept ==
    ASSUME NEW x, NEW d, Base(x, d), NEW srv, d.state # "BOUND",
           Grace >= 3 => NoDrops(d) /\ Covered(d.offered, T0(d.lease), srv)
    PROVE  Kept(x, dhcp_bind(d), srv)
  <1> DEFINE e == dhcp_bind(d)
  <1>1. /\ Typed(e) /\ e.state = "BOUND" /\ e.addr = d.offered /\ e.out = d.out
        /\ e.xid = d.xid /\ e.used = 0 /\ e.t0 = T0(d.lease) /\ e.timer = 0
    BY Binds DEF Base
  <1>2. T0(d.lease) \in Nat
    BY LeaseTicks DEF Base, Typed, Shape
  <1> HIDE DEF e
  <1>3. Base(x, e) /\ (Grace >= 3 => NoDrops(e))
    BY <1>1 DEF Base, DropsComeFirst, NoDrops
  <1>4. e.t0 - e.used = T0(d.lease)
    BY <1>1, <1>2
  <1>5. CountsOn(e, e.timer, srv)
    BY <1>1, <1>3, <1>4 DEF CountsOn
  <1>. QED
    BY <1>3, <1>5 DEF Kept, e


\* A RELEASE takes a transaction id of its own.
LEMMA ReleaseKept ==
    ASSUME NEW x, NEW d, Base(x, d), d.state # "OFF"
    PROVE  Base(x, dhcp_release(d))
  <1> DEFINE e == dhcp_release(d)
  <1>1. /\ Typed(e) /\ e.timer = 0
        /\ \/ e.out = d.out /\ e.xid = d.xid
           \/ /\ New(e.xid, d)
              /\ e.out = IF phy.up
                         THEN Append(d.out, [type |-> "RELEASE", addr |-> d.addr, xid |-> e.xid])
                         ELSE d.out
    BY Releases DEF Base
  <1> HIDE DEF e
  <1>2. CASE e.out = d.out /\ e.xid = d.xid
    BY <1>1, <1>2 DEF Base, DropsComeFirst, e
  <1>3. CASE ~(e.out = d.out /\ e.xid = d.xid)
    <2>1. DropsComeFirst(e) /\ \A m \in replies : m.xid # e.xid
      BY <1>1, <1>3, SendsInOrder DEF Base, New, Queues
    <2>. QED
      BY <1>1, <2>1 DEF Base, e
  <1>. QED
    BY <1>2, <1>3

\* The request timer has run out: in CHECKING after at most one more tick.
LEMMA TimeoutKept ==
    ASSUME NEW x, NEW d, Base(x, d), NEW srv, CountsOn(d, 2, srv), srv.left \in Nat,
           d.state \in Asking \cup Leased, Grace \in Nat
    PROVE  Kept(x, dhcp_timeout(d), srv)
  <1>1. Kept(x, dhcp_discover(d), srv) /\ Kept(x, dhcp_select(d), srv)
        /\ Kept(x, dhcp_reboot(d), srv)
    BY RequestsKept
  <1>2. Kept(x, dhcp_discover(dhcp_release(d)), srv)
    BY ReleaseKept, RequestsKept, Zenon DEF Asking, Leased
  <1>3. ASSUME d.state = "CHECKING"
        PROVE  IF d.tries <= 1 THEN Kept(x, dhcp_check(d), srv) ELSE Kept(x, dhcp_bind(d), srv)
    <2>1. Grace >= 3 =>
            /\ NoDrops(d) /\ d.tries \in 1..2
            /\ Covered(d.offered, T0(d.lease) + Grace + 1 - d.tries - 2, srv)
      BY <1>3 DEF CountsOn
    <2>2. T0(d.lease) \in Nat
      BY LeaseTicks DEF Base, Typed, Shape
    <2>3. CASE d.tries <= 1
      <3>1. Grace >= 3 => d.tries = 1 /\ Covered(d.offered, T0(d.lease) + Grace - 2, srv)
        BY <2>1, <2>2, <2>3 DEF Covered
      <3>. QED
        BY <1>3, <2>1, <2>3, <3>1, CheckKept
    <2>4. CASE ~(d.tries <= 1)
      <3>1. Grace >= 3 => Covered(d.offered, T0(d.lease), srv)
        BY <2>1, <2>2, <2>4 DEF Covered
      <3>. QED
        BY <1>3, <2>1, <2>4, <3>1, BindKept
    <2>. QED
      BY <2>3, <2>4
  <1>4. d.state \in Leased => Kept(x, d, srv)
    BY DEF Kept, CountsOn, Leased
  <1>. QED
    BY <1>1, <1>2, <1>3, <1>4 DEF dhcp_timeout, Asking, Leased

\* A tick has passed, at the server too.
LEMMA CoarseKept ==
    ASSUME NEW x, NEW d, Base(x, d), Alive(d), NEW srv, d.out = <<>>,
           d.state = "CHECKING" => CountsOn(d, d.timer, srv),
           Grace >= 3 /\ d.state = "BOUND" =>
              d.used + 1 = d.t0 \/ Covered(d.addr, d.t0 - (d.used + 1), srv)
    PROVE  Kept(x, CoarseTimer(d), srv)
  <1>1. PICK c : /\ Ticked(d, c)
                 /\ \/ LeaseEnds(d) /\ CoarseTimer(d) = dhcp_discover(dhcp_release(c))
                    \/ CoarseTimer(d) \in {dhcp_rebind(c), dhcp_renew(c)}
                    \/ ~LeaseEnds(d) /\ CoarseTimer(d) = c
    BY CoarseOutcome DEF Base
  <1>2. Base(x, c)
    BY <1>1 DEF Base, DropsComeFirst, SameButTimers, Ticked
  <1>3. d.state # "OFF" /\ (d.state = "BOUND" => d.t0 > 0)
    BY DEF Alive, Sound, Asking, Leased
  <1>4. Kept(x, dhcp_discover(dhcp_release(c)), srv)
    <2>1. c.state # "OFF"
      BY <1>1, <1>3 DEF Ticked, SameButTimers
    <2>. QED
      BY <1>2, <2>1, ReleaseKept, RequestsKept, Zenon
  <1>5. Kept(x, dhcp_rebind(c), srv) /\ Kept(x, dhcp_renew(c), srv)
    BY <1>2, RequestsKept
  <1>6. ASSUME ~LeaseEnds(d) PROVE Kept(x, c, srv)
    <2>1. ASSUME d.state = "CHECKING" PROVE CountsOn(c, c.timer, srv)
      BY <1>1, <2>1 DEF CountsOn, NoDrops, SameButTimers, Ticked
    <2>2. ASSUME d.state = "BOUND" PROVE CountsOn(c, c.timer, srv)
      <3>1. c.t0 = d.t0 /\ c.used = d.used + 1 /\ c.addr = d.addr /\ c.out = d.out
            /\ c.state = "BOUND"
        BY <1>1, <1>3, <2>2 DEF SameButTimers, Ticked
      <3>2. Grace >= 3 => Covered(c.addr, c.t0 - c.used, srv)
        BY <1>3, <1>6, <2>2, <3>1, SMTT(30) DEF LeaseEnds
      <3>. QED
        BY <3>1, <3>2 DEF CountsOn, NoDrops
    <2>3. ASSUME d.state \notin {"CHECKING", "BOUND"} PROVE CountsOn(c, c.timer, srv)
      BY <1>1, <2>3 DEF CountsOn, SameButTimers, Ticked
    <2>. QED
      BY <1>2, <2>1, <2>2, <2>3 DEF Kept
  <1>. QED
    BY <1>1, <1>4, <1>5, <1>6

\* A link that comes or goes.
LEMMA LinkKept ==
    ASSUME NEW x, NEW d, NEW srv, Kept(x, d, srv)
    PROVE  Kept(x, check_link_status(d), srv)
  <1> DEFINE up == [d EXCEPT !.link = TRUE]
             down == [d EXCEPT !.link = FALSE]
             fresh == [up EXCEPT !.tries = 0]
  <1>1. /\ Typed(up) /\ up.out = d.out /\ up.xid = d.xid /\ up.state = d.state
        /\ up.timer = d.timer
    BY SetLink DEF Kept, Base
  <1>2. /\ Typed(down) /\ down.out = d.out /\ down.xid = d.xid /\ down.state = d.state
        /\ down.tries = d.tries /\ down.timer = d.timer /\ down.offered = d.offered
        /\ down.addr = d.addr /\ SameLease(d, down)
    BY SetLink DEF Kept, Base
  <1> HIDE DEF up, down
  <1>3. /\ Typed(fresh) /\ fresh.out = d.out /\ fresh.xid = d.xid /\ fresh.timer = d.timer
    BY <1>1, SetTries
  <1> HIDE DEF fresh
  <1>4. Base(x, fresh)
    BY <1>3 DEF Kept, Base, DropsComeFirst
  <1>5. Kept(x, down, srv)
    BY <1>2 DEF Kept, Base, DropsComeFirst, CountsOn, NoDrops, SameLease
  <1>6. Kept(x, dhcp_network_changed(up), srv)
    BY <1>4, RequestsKept DEF dhcp_network_changed, fresh
  <1>. QED
    BY <1>5, <1>6 DEF check_link_status, netif_set_link_up, netif_set_link_down, up, down

\* An ACK that counts finds no RELEASE or DECLINE on the wire.
LEMMA RecvKept ==
    ASSUME NEW d, Kept(d.xid, d, server), NEW m \in replies, m \in Answers,
           server.left \in Nat, Grace \in Nat,
           Grace >= 3 /\ m.type = "ACK" /\ m.xid = d.xid =>
              Covered(m.addr, T0(m.lease) + Grace - (IF m.late THEN 1 ELSE 0), server)
    PROVE  Kept(d.xid, dhcp_recv(d, m), server) /\ Kept(d.xid, dhcp_arp_reply(d, m), server)
  <1> DEFINE x == d.xid
             ack == dhcp_handle_ack(d, m)
             offer == Offered(d, m)
             nak == Refused(d)
  <1>0. /\ Typed(d) /\ Base(x, d) /\ d.timer \in 0..2
        /\ m.addr \in Hosts /\ m.lease \in Nat /\ m.late \in BOOLEAN
    BY DEF Kept, Base, Answers
  <1>1. Kept(x, dhcp_arp_reply(d, m), server)
    BY <1>0, RequestsKept DEF dhcp_arp_reply
  <1>2. /\ Typed(ack) /\ ack.out = d.out /\ ack.xid = d.xid /\ ack.timer = d.timer
        /\ ack.state = d.state /\ ack.lease = m.lease /\ ack.offered = m.addr
    BY <1>0, AckFields
  <1>3. Typed(offer) /\ offer.out = d.out /\ offer.xid = d.xid /\ offer.timer = 0
    BY <1>0, OfferFields
  <1>4. Typed(nak) /\ nak.out = d.out /\ nak.xid = d.xid /\ nak.timer \in 0..2
    BY <1>0, RefusedFields
  <1>5. \/ dhcp_recv(d, m) \in {dhcp_discover(nak), dhcp_select(offer), d}
        \/ /\ m.xid = d.xid /\ m.type = "ACK" /\ d.state = "REQUESTING"
           /\ dhcp_recv(d, m) = dhcp_check(ack)
        \/ /\ m.xid = d.xid /\ m.type = "ACK" /\ d.state # "BOUND"
           /\ dhcp_recv(d, m) = dhcp_bind(ack)
    BY RecvOutcome
  <1> HIDE DEF ack, offer, nak
  <1>6. Base(x, ack) /\ Base(x, offer) /\ Base(x, nak)
    BY <1>0, <1>2, <1>3, <1>4, SMTT(30) DEF Base, DropsComeFirst
  <1>7. ASSUME m.xid = d.xid, m.type = "ACK"
        PROVE  /\ d.state = "REQUESTING" => Kept(x, dhcp_check(ack), server)
               /\ d.state # "BOUND" => Kept(x, dhcp_bind(ack), server)
    <2>1. NoDrops(ack)
      BY <1>0, <1>2, <1>7 DEF Base, DropsComeFirst, NoDrops
    <2>2. T0(m.lease) \in Nat
      BY <1>0, LeaseTicks
    <2>3. Grace >= 3 => /\ Covered(ack.offered, T0(ack.lease) + Grace - 1, server)
                        /\ Covered(ack.offered, T0(ack.lease), server)
      BY <1>0, <1>2, <1>7, <2>2 DEF Covered
    <2>. QED
      BY <1>2, <1>6, <2>1, <2>3, CheckKept, BindKept
  <1>8. Kept(x, dhcp_discover(nak), server) /\ Kept(x, dhcp_select(offer), server)
    BY <1>6, RequestsKept
  <1>9. Kept(x, dhcp_recv(d, m), server)
    BY <1>5, <1>7, <1>8
  <1>. QED
    BY <1>1, <1>9

\* The client with nothing of its own on the wire.
Cleared(d) == [d EXCEPT !.out = <<>>]

\* A cable that is pulled loses the client's messages and nothing else of it.
LEMMA ClearKept ==
    ASSUME NEW x, NEW d, NEW srv, Kept(x, d, srv)
    PROVE  Kept(x, Cleared(d), srv)
  <1>1. Typed(d) /\ <<>> \in Seq(Sent)
    BY DEF Kept, Base
  <1>2. PICK o \in Seq(Sent) : o = <<>>
    BY <1>1
  <1>3. PICK e : e = [d EXCEPT !.out = o]
    BY Zenon
  <1>4. /\ Typed(e) /\ SameClient(d, e) /\ e.timer = d.timer /\ e.out = o
        /\ e.xid = d.xid /\ e.state = d.state /\ e.tries = d.tries
    BY <1>1, <1>3, SetOut, Zenon
  <1>5. Base(x, e)
    BY <1>2, <1>4 DEF Kept, Base, DropsComeFirst
  <1>6. CountsOn(e, e.timer, srv)
    BY <1>2, <1>4 DEF Kept, CountsOn, NoDrops, SameClient, SameLease
  <1>7. e = Cleared(d)
    BY <1>2, <1>3, Zenon DEF Cleared
  <1>. QED
    BY <1>5, <1>6, <1>7 DEF Kept

\* The client does not notice that a message has arrived.
LEMMA PopKept ==
    ASSUME NEW x, NEW d, NEW srv, Kept(x, d, srv), d.out # <<>>
    PROVE  /\ Kept(x, Popped(d), srv) /\ Popped(d).xid = d.xid /\ Popped(d).state = d.state
           /\ Popped(d).out = Tail(d.out) /\ Popped(d).timer = d.timer
           /\ Popped(d).tries = d.tries /\ SameClient(d, Popped(d))
           /\ \A j \in DOMAIN Popped(d).out : Popped(d).out[j].type \in Drops =>
                Head(d.out).xid # d.xid
  <1> DEFINE e == Popped(d)
             o == Tail(d.out)
  <1>1. Typed(d) /\ d.out \in Seq(Sent)
    BY DEF Kept, Base, Typed
  <1>2. /\ o \in Seq(Sent) /\ Head(d.out) = d.out[1] /\ Len(d.out) \in Nat \ {0}
        /\ DOMAIN d.out = 1 .. Len(d.out) /\ DOMAIN o = 1 .. (Len(d.out) - 1)
        /\ \A j \in DOMAIN o : o[j] = d.out[j + 1]
    BY <1>1
  <1> HIDE DEF o
  <1>3. /\ Typed(e) /\ SameClient(d, e) /\ e.out = o /\ e.xid = d.xid
        /\ e.state = d.state /\ e.tries = d.tries /\ e.timer = d.timer
    <2>1. e = [d EXCEPT !.out = o]
      BY Zenon DEF Popped, o
    <2> HIDE DEF e
    <2>. QED
      BY <1>1, <1>2, <2>1, SetOut
  <1> HIDE DEF e
  <1>4. \A j \in DOMAIN o : j + 1 \in DOMAIN d.out /\ 1 \in 1 .. ((j + 1) - 1)
                            /\ \A i \in 1 .. (j - 1) : i \in DOMAIN o /\ i + 1 \in 1 .. ((j + 1) - 1)
    BY <1>2
  <1>5. DropsComeFirst(d)
    BY DEF Kept, Base
  <1>6. ASSUME NEW j \in DOMAIN o, o[j].type \in Drops
        PROVE  /\ Head(d.out).xid # d.xid
               /\ \A i \in 1 .. (j - 1) : o[i].xid # d.xid
               /\ \A m \in replies : m.xid # d.xid
    <2>1. /\ \A i \in 1 .. ((j + 1) - 1) : d.out[i].xid # d.xid
          /\ \A m \in replies : m.xid # d.xid
      BY <1>2, <1>4, <1>5, <1>6 DEF DropsComeFirst
    <2>. QED
      BY <1>2, <1>4, <2>1, Zenon
  <1>7. DropsComeFirst(e)
    BY <1>3, <1>6 DEF DropsComeFirst
  <1>8. NoDrops(d) => NoDrops(e)
    BY <1>2, <1>3, <1>4 DEF NoDrops
  <1>9. Kept(x, e, srv)
    BY <1>3, <1>7, <1>8 DEF Kept, Base, CountsOn, SameClient, SameLease
  <1>. QED
    BY <1>3, <1>6, <1>9 DEF e, o

\* LeaseInv holds at first.
LEMMA LeaseInit ==
    Init => LeaseInv
  <1> SUFFICES ASSUME Init PROVE LeaseInv
    OBVIOUS
  <1> DEFINE first == [type |-> "DISCOVER", addr |-> ANY, xid |-> 0]
             o == IF phy.up THEN <<first>> ELSE <<>>
  <1>1. StuckInv
    BY StuckInit
  <1>3. /\ dhcp.state = "SELECTING" /\ dhcp.tries = 1 /\ dhcp.timer = 1 /\ dhcp.xid = 0
        /\ dhcp.offered = ANY /\ dhcp.addr = ANY /\ dhcp.out = o
    BY DEF Init
  <1>5. \A j \in DOMAIN o : o[j].type \notin Drops
    BY DEF Drops
  <1> HIDE DEF o
  <1>7. replies = {}
    BY DEF Init
  <1>8. DropsComeFirst(dhcp) /\ CountsOn(dhcp, dhcp.timer, server)
    BY <1>3, <1>5 DEF DropsComeFirst, CountsOn
  <1>. QED
    BY <1>1, <1>7, <1>8 DEF LeaseInv, AcksCovered

\* What LeaseInv says of the numbers involved.
LEMMA LeaseFacts ==
    ASSUME LeaseInv, FreshWorks
    PROVE  /\ Kept(dhcp.xid, dhcp, server) /\ Alive(dhcp) /\ Grace \in Nat
           /\ server.left \in Nat /\ (server.addr = ANY => server.left = 0)
           /\ \A m \in replies : m \in Answers /\ T0(m.lease) \in Nat /\ T0(m.lease) >= 1
           /\ T0(dhcp.lease) \in Nat /\ T0(dhcp.lease) >= 1
           /\ dhcp.state = "BOUND" => dhcp.t0 \in Nat /\ dhcp.used \in Nat /\ dhcp.used < dhcp.t0
  <1>1. Kept(dhcp.xid, dhcp, server) /\ Alive(dhcp) /\ Grace \in Nat
    BY DhcpAssumption DEF LeaseInv, Kept, Base, StuckInv, Alive, Sound
  <1>2. server.left \in Nat /\ (server.addr = ANY => server.left = 0)
    BY DhcpAssumption DEF LeaseInv, StuckInv, NoLease
  <1>3. \A m \in replies : m \in Answers /\ m.lease \in Nat
    BY DEF LeaseInv, StuckInv, Answers
  <1>4. \A m \in replies : T0(m.lease) \in Nat /\ T0(m.lease) >= 1
    BY <1>3, LeaseTicks
  <1>5. T0(dhcp.lease) \in Nat /\ T0(dhcp.lease) >= 1
    BY <1>1, LeaseTicks DEF Alive, Sound, Typed, Shape
  <1>6. dhcp.state = "BOUND" => dhcp.t0 \in Nat /\ dhcp.used \in Nat /\ dhcp.used < dhcp.t0
    BY <1>1 DEF Alive, Sound, Typed, Shape, LeaseRuns, Leased
  <1>. QED
    BY <1>1, <1>2, <1>3, <1>4, <1>5, <1>6

\* A step after which the server and what it has withdrawn are the same.
LEMMA LeaseStays ==
    ASSUME LeaseInv, StuckInv', NEW d, dhcp' = d, Kept(dhcp.xid, d, server),
           replies' \subseteq replies, server' = server, retired' = retired
    PROVE  LeaseInv'
  <1>2. DropsComeFirst(dhcp)'
    BY DEF Kept, Base, DropsComeFirst
  <1>3. CountsOn(dhcp, dhcp.timer, server)'
    BY DEF Kept, CountsOn, Covered, NoDrops
  <1>4. AcksCovered'
    BY DEF LeaseInv, AcksCovered, Kept, Base, Covered
  <1>. QED
    BY <1>2, <1>3, <1>4 DEF LeaseInv

\* A minute passes.
LEMMA LeaseCoarse ==
    ASSUME LeaseInv, FreshWorks, StuckInv', dhcp_coarse_tmr
    PROVE  LeaseInv'
  <1> DEFINE d == WithTimer(dhcp, 2 * dhcp.timer)
             e == check_link_status(CoarseTimer(d))
  <1>0. /\ Kept(dhcp.xid, dhcp, server) /\ Alive(dhcp) /\ Grace \in Nat
        /\ server.left \in Nat /\ (server.addr = ANY => server.left = 0)
        /\ \A m \in replies : m \in Answers /\ T0(m.lease) \in Nat /\ T0(m.lease) >= 1
        /\ T0(dhcp.lease) \in Nat /\ T0(dhcp.lease) >= 1
        /\ dhcp.state = "BOUND" => dhcp.t0 \in Nat /\ dhcp.used \in Nat /\ dhcp.used < dhcp.t0
    BY LeaseFacts
  <1> PICK srv : srv = server'
    OBVIOUS
  <1>1. /\ dhcp.out = <<>> /\ dhcp.timer < 2 /\ (\A m \in replies : ~m.late)
        /\ replies' = {[m EXCEPT !.late = TRUE] : m \in replies} /\ retired' = retired
        /\ srv = IF server.left > 1 THEN [server EXCEPT !.left = @ - 1] ELSE NoLease
    BY DEF dhcp_coarse_tmr
  <1>2. dhcp' = e
    BY Zenon DEF dhcp_coarse_tmr, enet_poll, WithTimer
  <1>3. dhcp.timer \in 0..1 /\ 2 * dhcp.timer \in Nat /\ Typed(dhcp)
    BY <1>0, <1>1 DEF Kept, Base
  <1>4. /\ Typed(d) /\ SameClient(dhcp, d) /\ d.timer = 2 * dhcp.timer /\ d.out = dhcp.out
        /\ d.xid = dhcp.xid /\ d.state = dhcp.state /\ d.tries = dhcp.tries
    BY <1>3, SetTimer, SMTT(30)
  <1>5. Alive(d)
    BY <1>0, <1>1, AliveFields
  <1> HIDE DEF d
  <1>6. Base(dhcp.xid, d)
    BY <1>0, <1>3, <1>4 DEF Kept, Base, DropsComeFirst
  <1>7. server = NoLease \/ server \in [addr : Addrs, left : Nat \ {0}]
    BY DEF LeaseInv, StuckInv
  <1>9. ASSUME NEW a, NEW n \in Int, n >= 2, Covered(a, n, server)
        PROVE  Covered(a, n - 1, srv)
    BY <1>0, <1>1, <1>7, <1>9 DEF Covered, NoLease
  <1>10. ASSUME d.state = "CHECKING", Grace >= 3 PROVE CountsOn(d, d.timer, srv)
    <2>1. /\ NoDrops(dhcp) /\ dhcp.tries \in 1..2 /\ dhcp.timer = 1
          /\ Covered(dhcp.offered, T0(dhcp.lease) + Grace + 1 - dhcp.tries - 1, server)
      BY <1>0, <1>3, <1>4, <1>10 DEF Kept, CountsOn, Alive, Asking
    <2> DEFINE n == T0(dhcp.lease) + Grace + 1 - dhcp.tries - 1
    <2>2. n \in Int /\ n >= 2
      BY <1>0, <1>10, <2>1
    <2>3. Covered(dhcp.offered, n - 1, srv)
      <3> HIDE DEF n
      <3>. QED
        BY <1>9, <2>1, <2>2 DEF n
    <2>4. n - 1 = T0(dhcp.lease) + Grace + 1 - dhcp.tries - 2
      BY <1>0, <2>1
    <2>. QED
      BY <1>4, <1>10, <2>1, <2>3, <2>4, SMTT(30) DEF CountsOn, NoDrops, SameClient, SameLease
  <1>11. ASSUME d.state = "BOUND", Grace >= 3
         PROVE  d.used + 1 = d.t0 \/ Covered(d.addr, d.t0 - (d.used + 1), srv)
    <2>1. Covered(dhcp.addr, dhcp.t0 - dhcp.used, server)
      BY <1>0, <1>4, <1>11 DEF Kept, CountsOn
    <2>2. dhcp.t0 \in Nat /\ dhcp.used \in Nat /\ dhcp.used < dhcp.t0
      BY <1>0, <1>4, <1>11
    <2>3. dhcp.used + 1 # dhcp.t0 => dhcp.t0 - dhcp.used \in Int /\ dhcp.t0 - dhcp.used >= 2
      BY <2>2
    <2>4. dhcp.used + 1 # dhcp.t0 => Covered(dhcp.addr, (dhcp.t0 - dhcp.used) - 1, srv)
      BY <1>9, <2>1, <2>3
    <2>5. (dhcp.t0 - dhcp.used) - 1 = dhcp.t0 - (dhcp.used + 1)
      BY <2>2
    <2>. QED
      BY <1>4, <2>4, <2>5 DEF SameClient, SameLease
  <1>12. Kept(dhcp.xid, e, srv)
    <2>1. d.state = "CHECKING" => CountsOn(d, d.timer, srv)
      BY <1>10 DEF CountsOn
    <2>. QED
      <3>1. d.out = <<>>
        BY <1>1, <1>4
      <3>2. Kept(dhcp.xid, CoarseTimer(d), srv)
        BY <1>5, <1>6, <1>11, <2>1, <3>1, CoarseKept
      <3>. QED
        BY <3>2, LinkKept
  <1> HIDE DEF e
  <1>13. \A m \in replies' : \E n \in replies :
            m.xid = n.xid /\ m.type = n.type /\ m.addr = n.addr /\ m.lease = n.lease
            /\ m.late = TRUE /\ n.late = FALSE /\ m \in Answers
    <2> SUFFICES ASSUME NEW m \in replies'
                 PROVE  \E n \in replies :
                          m.xid = n.xid /\ m.type = n.type /\ m.addr = n.addr /\ m.lease = n.lease
                          /\ m.late = TRUE /\ n.late = FALSE /\ m \in Answers
      BY Zenon
    <2>1. PICK n \in replies : m = [n EXCEPT !.late = TRUE]
      BY <1>1
    <2>2. n \in Answers /\ n.late = FALSE
      BY <1>0, <1>1
    <2>. QED
      BY <2>1, <2>2, Zenon DEF Answers
  <1>16. DropsComeFirst(dhcp)'
    BY <1>2, <1>12, <1>13 DEF DropsComeFirst, Kept, Base
  <1>17. CountsOn(dhcp, dhcp.timer, server)'
    BY <1>1, <1>2, <1>12 DEF Kept, CountsOn, Covered, NoDrops
  <1>18. AcksCovered'
    <2> SUFFICES ASSUME NEW m \in replies', Grace >= 3, m.type = "ACK", m.xid = e.xid
                 PROVE  Covered(m.addr, T0(m.lease) + Grace - (IF m.late THEN 1 ELSE 0), server)'
      BY <1>2 DEF AcksCovered
    <2>1. PICK n \in replies : m.xid = n.xid /\ m.type = n.type /\ m.addr = n.addr
                               /\ m.lease = n.lease /\ m.late = TRUE /\ n.late = FALSE
      BY <1>13
    <2>2. n.xid = dhcp.xid
      BY <1>12, <2>1 DEF Kept, Base
    <2>3. Covered(n.addr, T0(n.lease) + Grace - 0, server)
      BY <2>1, <2>2 DEF LeaseInv, AcksCovered
    <2>4. T0(n.lease) \in Nat /\ T0(n.lease) >= 1
      BY <1>0
    <2>5. Covered(n.addr, (T0(n.lease) + Grace - 0) - 1, srv)
      BY <1>0, <1>9, <2>3, <2>4
    <2>6. (T0(n.lease) + Grace - 0) - 1 = T0(n.lease) + Grace - 1
      BY <1>0, <2>4
    <2>. QED
      BY <1>1, <2>1, <2>5, <2>6 DEF Covered
  <1>. QED
    BY <1>16, <1>17, <1>18 DEF LeaseInv

\* The server or a host answers.  A RELEASE or DECLINE finds nothing that
\* the client counts on; a grant never shortens what it counts on.
LEMMA LeaseAnswer ==
    ASSUME LeaseInv, FreshWorks, StuckInv', Answer
    PROVE  LeaseInv'
  <1> DEFINE h == Head(dhcp.out)
             e == Popped(dhcp)
             Held(a, n) == a \in retired' \/ (server'.addr = a /\ n <= server'.left)
  <1>0. /\ Kept(dhcp.xid, dhcp, server) /\ Alive(dhcp) /\ Grace \in Nat
        /\ server.left \in Nat /\ (server.addr = ANY => server.left = 0)
        /\ \A m \in replies : m \in Answers /\ T0(m.lease) \in Nat /\ T0(m.lease) >= 1
        /\ T0(dhcp.lease) \in Nat /\ T0(dhcp.lease) >= 1
        /\ dhcp.state = "BOUND" => dhcp.t0 \in Nat /\ dhcp.used \in Nat /\ dhcp.used < dhcp.t0
    BY LeaseFacts
  <1>1. dhcp.out # <<>> /\ dhcp' = e
    BY Zenon DEF Answer, Popped
  <1>2. /\ Kept(dhcp.xid, e, server) /\ e.xid = dhcp.xid /\ e.state = dhcp.state
        /\ e.timer = dhcp.timer /\ e.tries = dhcp.tries /\ SameClient(dhcp, e)
        /\ \A j \in DOMAIN e.out : e.out[j].type \in Drops => h.xid # dhcp.xid
    <2>1. Kept(dhcp.xid, dhcp, server)
      BY <1>0, SMTT(30)
    <2>. QED
      BY <1>1, <2>1, PopKept
  <1>3. h \in Sent /\ 1 \in DOMAIN dhcp.out /\ h = dhcp.out[1]
    BY <1>0, <1>1 DEF Kept, Base, Typed
  <1> HIDE DEF e, h
  <1>4. h.type \in Drops =>
          /\ \A m \in replies : m.xid # dhcp.xid
          /\ Grace >= 3 => dhcp.state \notin {"CHECKING", "BOUND"}
    BY <1>0, <1>3 DEF Kept, Base, DropsComeFirst, CountsOn, NoDrops
  <1>5. server = NoLease \/ server \in [addr : Addrs, left : Nat \ {0}]
    BY DEF LeaseInv, StuckInv
  <1> DEFINE granted(secs) == [addr |-> h.addr,
                               left |-> Max({server.left, secs \div 60 + Grace})]
             new(type, a, secs) == [type |-> type, addr |-> a, lease |-> secs,
                                    xid |-> h.xid, late |-> FALSE]
  <1>6. \/ /\ h.type \in Drops /\ replies' = replies
           /\ server' \in {server, NoLease} /\ retired \subseteq retired'
        \/ /\ server' = server /\ retired' = retired
           /\ \/ replies' = replies
              \/ \E a \in Hosts : \/ replies' = replies \cup {new("OFFER", a, 0)}
                                  \/ replies' = replies \cup {new("NAK", a, 0)}
                                  \/ replies' = replies \cup {new("ARPREPLY", a, 0)}
        \/ \E secs \in LeaseTimes :
             /\ h.addr # ANY /\ (h.addr = server.addr \/ server.addr = ANY)
             /\ server' = granted(secs) /\ retired' = retired
             /\ replies' = replies \cup {new("ACK", h.addr, secs)}
    BY <1>3, Zenon DEF Answer, Reply, h, Sent, Hosts, Drops
  <1>7. LeaseTimes \subseteq Nat
    BY DhcpAssumption
  <1>8. CASE h.type \in Drops /\ replies' = replies
             /\ server' \in {server, NoLease} /\ retired \subseteq retired'
    <2>2. DropsComeFirst(dhcp)'
      BY <1>1, <1>2, <1>8, SMTT(30) DEF Kept, Base, DropsComeFirst
    <2>3. CountsOn(dhcp, dhcp.timer, server)'
      BY <1>1, <1>2, <1>4, <1>8, SMTT(30) DEF CountsOn
    <2>4. AcksCovered'
      BY <1>1, <1>2, <1>4, <1>8 DEF AcksCovered
    <2>. QED
      BY <2>2, <2>3, <2>4 DEF LeaseInv
  <1>9. ASSUME NEW m, m \in Answers, m.xid = h.xid, m.late = FALSE,
               replies' \in {replies, replies \cup {m}}, retired' = retired,
               m.type = "ACK" => Held(m.addr, T0(m.lease) + Grace),
               \A a : \A n \in Int : n >= 1 /\ Covered(a, n, server) => Held(a, n)
        PROVE  LeaseInv'
    <2>2. DropsComeFirst(dhcp)'
      BY <1>1, <1>2, <1>9, SMTT(30) DEF Kept, Base, DropsComeFirst
    <2>3. CountsOn(dhcp, dhcp.timer, server)'
      <3>1. CountsOn(e, e.timer, server) /\ e.timer \in 0..2
        BY <1>2 DEF Kept, Base
      <3>2. ASSUME e.state = "CHECKING", Grace >= 3
            PROVE  Held(e.offered, T0(e.lease) + Grace + 1 - e.tries - e.timer)
        <4> DEFINE n == T0(e.lease) + Grace + 1 - e.tries - e.timer
        <4>1. e.tries \in 1..2 /\ Covered(e.offered, n, server) /\ T0(e.lease) = T0(dhcp.lease)
          BY <1>2, <3>1, <3>2 DEF CountsOn, SameClient, SameLease
        <4>2. n \in Int /\ n >= 1
          BY <1>0, <3>1, <3>2, <4>1
        <4> HIDE DEF n
        <4>3. Held(e.offered, n)
          BY <1>9, <4>1, <4>2
        <4>. QED
          BY <4>3 DEF n
      <3>3. ASSUME e.state = "BOUND", Grace >= 3 PROVE Held(e.addr, e.t0 - e.used)
        <4>1. e.t0 - e.used \in Int /\ e.t0 - e.used >= 1
          BY <1>0, <1>2, <3>3 DEF SameClient, SameLease
        <4>2. Covered(e.addr, e.t0 - e.used, server)
          BY <3>1, <3>3 DEF CountsOn
        <4>. QED
          BY <1>9, <4>1, <4>2
      <3>. QED
        BY <1>1, <3>1, <3>2, <3>3 DEF CountsOn, NoDrops, Covered
    <2>4. AcksCovered'
      <3> SUFFICES ASSUME NEW k \in replies', Grace >= 3, k.type = "ACK", k.xid = e.xid
                   PROVE  Held(k.addr, T0(k.lease) + Grace - (IF k.late THEN 1 ELSE 0))
        BY <1>1 DEF AcksCovered, Covered
      <3>1. CASE k \in replies
        <4> DEFINE n == T0(k.lease) + Grace - (IF k.late THEN 1 ELSE 0)
        <4>1. Covered(k.addr, n, server)
          BY <1>2, <3>1 DEF LeaseInv, AcksCovered
        <4>2. n \in Int /\ n >= 1
          BY <1>0, <3>1 DEF Answers
        <4> HIDE DEF n
        <4>3. Held(k.addr, n)
          BY <1>9, <4>1, <4>2
        <4>. QED
          BY <4>3 DEF n
      <3>2. CASE k = m
        <4>1. T0(m.lease) \in Nat
          BY <1>9, LeaseTicks DEF Answers
        <4>2. T0(k.lease) + Grace - (IF k.late THEN 1 ELSE 0) = T0(m.lease) + Grace
          BY <1>0, <1>9, <3>2, <4>1
        <4>. QED
          BY <1>9, <3>2, <4>2
      <3>. QED
        BY <1>9, <3>1, <3>2
    <2>. QED
      BY <2>2, <2>3, <2>4, SMTT(30) DEF LeaseInv
  <1>10. CASE server' = server /\ retired' = retired
              /\ \E m \in Answers : /\ m.xid = h.xid /\ m.late = FALSE /\ m.type # "ACK"
                                    /\ replies' \in {replies, replies \cup {m}}
    <2>1. \A a, n : Covered(a, n, server) => Held(a, n)
      BY <1>10 DEF Covered
    <2>. QED
      BY <1>9, <1>10, <2>1, Zenon
  <1>11. ASSUME NEW secs \in LeaseTimes, h.addr # ANY,
                h.addr = server.addr \/ server.addr = ANY,
                server' = granted(secs), retired' = retired,
                replies' = replies \cup {new("ACK", h.addr, secs)}
         PROVE  LeaseInv'
    <2>1. /\ secs \in Nat /\ T0(secs) \in Nat /\ T0(secs) >= 1
          /\ T0(secs) <= secs \div 60 /\ secs \div 60 \in Nat
      BY <1>7, LeaseTicks
    <2>2. /\ Max({server.left, secs \div 60 + Grace}) \in Nat
          /\ Max({server.left, secs \div 60 + Grace}) >= server.left
          /\ Max({server.left, secs \div 60 + Grace}) >= T0(secs) + Grace
      <3>1. server.left \in Int /\ secs \div 60 + Grace \in Int
        BY <1>0, <2>1
      <3>2. Max({server.left, secs \div 60 + Grace}) =
               IF server.left >= secs \div 60 + Grace THEN server.left ELSE secs \div 60 + Grace
        BY <3>1, MaxOfTwo, SMTT(30)
      <3>. QED
        BY <1>0, <2>1, <3>2, SMTT(30)
    <2>3. /\ server'.addr = h.addr /\ server'.left \in Nat
          /\ server'.left >= server.left /\ server'.left >= T0(secs) + Grace
      BY <1>11, <2>2, SMTT(30)
    <2>4. \A a : \A n \in Int : n >= 1 /\ Covered(a, n, server) => Held(a, n)
      BY <1>0, <1>11, <2>3, SMTT(30) DEF Covered
    <2> DEFINE m == new("ACK", h.addr, secs)
    <2>6. /\ m \in Answers /\ m.xid = h.xid /\ m.late = FALSE /\ m.type = "ACK"
          /\ m.addr = h.addr /\ m.lease = secs
      BY <1>3, <2>1 DEF Answers, Sent
    <2> HIDE DEF m
    <2>7. Held(m.addr, T0(m.lease) + Grace)
      BY <2>3, <2>6, SMTT(30) DEF Covered
    <2>8. replies' \in {replies, replies \cup {m}}
      BY <1>11 DEF m
    <2>. QED
      BY <1>9, <1>11, <2>4, <2>6, <2>7, <2>8, Zenon
  <1>12. ASSUME server' = server, retired' = retired, NEW a \in Hosts,
                NEW type \in {"OFFER", "NAK", "ARPREPLY"},
                replies' \in {replies, replies \cup {new(type, a, 0)}}
         PROVE  LeaseInv'
    <2>1. LET m == new(type, a, 0)
          IN  m \in Answers /\ m.xid = h.xid /\ m.late = FALSE /\ m.type # "ACK"
      BY <1>3, <1>12 DEF Answers, Sent
    <2>. QED
      BY <1>10, <1>12, <2>1, Zenon
  <1>13. ANY \in Hosts
    BY DEF Hosts
  <1> HIDE DEF new, granted
  <1>. QED
    BY <1>6, <1>8, <1>11, <1>12, <1>13

\* LeaseInv is inductive.
LEMMA LeaseNext ==
    ASSUME LeaseInv, FreshWorks, [Next]_vars
    PROVE  LeaseInv'
  <1>0. StuckInv'
    BY StuckNext DEF LeaseInv
  <1>1. /\ Kept(dhcp.xid, dhcp, server) /\ Alive(dhcp) /\ Grace \in Nat
        /\ server.left \in Nat /\ (server.addr = ANY => server.left = 0)
        /\ \A m \in replies : m \in Answers /\ T0(m.lease) \in Nat /\ T0(m.lease) >= 1
        /\ T0(dhcp.lease) \in Nat /\ T0(dhcp.lease) >= 1
        /\ dhcp.state = "BOUND" => dhcp.t0 \in Nat /\ dhcp.used \in Nat /\ dhcp.used < dhcp.t0
    BY LeaseFacts
  <1>2. CASE PollLink
    <2>1. Kept(dhcp.xid, check_link_status(dhcp), server)
      BY <1>1, LinkKept
    <2>. QED
      BY <1>0, <1>2, <2>1, LeaseStays DEF PollLink, enet_poll
  <1>3. CASE dhcp_fine_tmr
    <2> DEFINE d == WithTimer(dhcp, 0)
    <2>1. dhcp' = check_link_status(dhcp_timeout(d))
      BY <1>3, Zenon DEF dhcp_fine_tmr, enet_poll, WithTimer
    <2>2. /\ Typed(d) /\ SameClient(dhcp, d) /\ d.timer = 0 /\ d.out = dhcp.out
          /\ d.xid = dhcp.xid /\ d.state = dhcp.state /\ d.tries = dhcp.tries
      <3>1. Typed(dhcp)
        BY <1>1 DEF Kept, Base
      <3>. QED
        BY <3>1, SetTimer
    <2> HIDE DEF d
    <2>3. Base(dhcp.xid, d) /\ d.state \in Asking \cup Leased
      BY <1>1, <2>2 DEF Kept, Base, DropsComeFirst, Alive
    <2>4. CountsOn(d, 2, server)
      <3>1. CountsOn(dhcp, dhcp.timer, server) /\ dhcp.timer \in 0..2
        BY <1>1 DEF Kept, Base
      <3>2. ASSUME dhcp.state = "CHECKING", Grace >= 3
            PROVE  Covered(dhcp.offered, T0(dhcp.lease) + Grace + 1 - dhcp.tries - 2, server)
        BY <1>1, <3>1, <3>2 DEF CountsOn, Covered
      <3>. QED
        BY <2>2, <3>1, <3>2, SMTT(30) DEF CountsOn, NoDrops, SameClient, SameLease
    <2>5. Kept(dhcp.xid, check_link_status(dhcp_timeout(d)), server)
      BY <1>1, <2>3, <2>4, TimeoutKept, LinkKept
    <2>. QED
      BY <1>0, <1>3, <2>1, <2>5, LeaseStays DEF dhcp_fine_tmr
  <1>4. CASE dhcp_coarse_tmr
    BY <1>0, <1>4, LeaseCoarse
  <1>5. ASSUME NEW m \in replies, NEW again \in BOOLEAN, Receive(m, again) PROVE LeaseInv'
    <2>1. Grace >= 3 /\ m.type = "ACK" /\ m.xid = dhcp.xid =>
            Covered(m.addr, T0(m.lease) + Grace - (IF m.late THEN 1 ELSE 0), server)
      BY DEF LeaseInv, AcksCovered
    <2>2. /\ Kept(dhcp.xid, dhcp_recv(dhcp, m), server)
          /\ Kept(dhcp.xid, dhcp_arp_reply(dhcp, m), server)
      BY <1>1, <2>1, RecvKept
    <2>. QED
      BY <1>0, <1>5, <2>2, LeaseStays DEF Receive
  <1>6. CASE Answer
    BY <1>0, <1>6, LeaseAnswer, SMTT(30)
  <1>7. CASE Lose
    <2>1. dhcp.out # <<>> => Kept(dhcp.xid, Popped(dhcp), server)
      BY <1>1, PopKept
    <2>2. /\ \/ dhcp' = dhcp /\ replies' \subseteq replies
             \/ dhcp.out # <<>> /\ dhcp' = Popped(dhcp) /\ replies' = replies
          /\ server' = server /\ retired' = retired
      BY <1>7, Zenon DEF Lose, Popped
    <2>. QED
      BY <1>0, <1>1, <2>1, <2>2, LeaseStays, SMTT(30)
  <1>8. CASE HostAppears \/ Plug \/ UNCHANGED vars
    BY <1>0, <1>1, <1>8, LeaseStays DEF HostAppears, Plug, vars
  <1>9. CASE Withdraw
    <2>1. /\ dhcp' = dhcp /\ replies' = replies /\ server' = NoLease
          /\ retired' = retired \cup {server.addr}
      BY <1>9 DEF Withdraw
    <2>2. \A a, n : Covered(a, n, server) => Covered(a, n, server)'
      BY <2>1 DEF Covered
    <2>3. DropsComeFirst(dhcp)'
      BY <2>1, SMTT(30) DEF LeaseInv, DropsComeFirst
    <2>4. CountsOn(dhcp, dhcp.timer, server)'
      BY <2>1, <2>2, SMTT(30) DEF LeaseInv, CountsOn, NoDrops
    <2>5. AcksCovered'
      BY <2>1, <2>2 DEF LeaseInv, AcksCovered
    <2>. QED
      BY <1>0, <2>3, <2>4, <2>5 DEF LeaseInv
  <1>10. CASE Unplug
    <2>2. Kept(dhcp.xid, Cleared(dhcp), server)
      BY <1>1, ClearKept
    <2>3. dhcp' = Cleared(dhcp) /\ replies' = {} /\ server' = server /\ retired' = retired
      BY <1>10 DEF Unplug, Cleared
    <2>. QED
      BY <1>0, <2>2, <2>3, LeaseStays
  <1>. QED
    BY <1>2, <1>3, <1>4, <1>5, <1>6, <1>7, <1>8, <1>9, <1>10 DEF Next, Client

-----------------------------------------------------------------------------
(* The theorem about leases.                                               *)

\* Whatever is late, lost, repeated, declined or withdrawn, for any leases and
\* any number of faults, a BOUND client's lease still runs at the server
\* (dhcp_bind, dhcp_coarse_tmr), as long as the server keeps it three ticks
\* longer than it says.
THEOREM BoundClientIsLeased ==
    ASSUME Grace >= 3
    PROVE  Spec => []BoundIsLeased
  <1>1. Init => LeaseInv /\ ClientInv
    BY LeaseInit, ClientStep
  <1>2. LeaseInv /\ ClientInv /\ [Next]_vars => LeaseInv' /\ ClientInv'
    BY LeaseNext, ClientStep, Zenon
  <1>3. LeaseInv => BoundIsLeased
    BY DEF LeaseInv, CountsOn, Covered, BoundIsLeased
  <1>. QED
    BY <1>1, <1>2, <1>3, PTL DEF Spec
=============================================================================

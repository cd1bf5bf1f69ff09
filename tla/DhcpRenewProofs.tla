------------------------- MODULE DhcpRenewProofs --------------------------
(***************************************************************************)
(* The address stays on the client's interface as long as nothing goes     *)
(* wrong: RenewInv, and the steps of the client that keep it.              *)
(***************************************************************************)
EXTENDS DhcpProofs

\* The server would grant a.
Grants(a, srv) == a \in Addrs /\ (srv.addr = a \/ srv.addr = ANY)

\* At most one message of the client's present transaction is on the wire,
\* and the last one sent; no host but the server has anything to say.
OneAtATime(d, R) ==
    /\ \A i \in DOMAIN d.out : d.out[i].xid = d.xid <=> i = Len(d.out)
    /\ d.state # "SELECTING" => Len(d.out) <= 1
    /\ d.out # <<>> => \A m \in R : m.xid # d.xid
    /\ \A m, n \in R : m.xid = d.xid /\ n.xid = d.xid => m = n
    /\ \A m \in R : m.type # "ARPREPLY" /\ (m.type = "ACK" => m.lease \in LeaseTimes)
    /\ NoDrops(d)

\* A request that the server will grant is on the wire, or its ACK.
Granted(d, a, R, srv) ==
    /\ Grants(a, srv)
    /\ \/ d.out = <<[type |-> "REQUEST", addr |-> a, xid |-> d.xid]>>
       \/ d.out = <<>> /\ \E m \in R : m.xid = d.xid /\ m.type = "ACK" /\ m.addr = a

\* The client has no address before it is BOUND.
Waits(d) ==
    /\ d.state \in {"SELECTING", "REQUESTING", "CHECKING"}
    /\ d.addr = ANY /\ d.t0 = 0 /\ d.t1 = 0 /\ d.t2 = 0

\* The address is renewed before it is rebound, and before the lease ends.
RenewalNext(d) == 0 < d.t1 /\ d.t1 < d.t2 /\ d.used + d.t1 < d.t0

InOrder(d, R, srv) ==
    \/ /\ Waits(d) /\ d.state = "SELECTING"
       /\ \A m \in R : m.xid = d.xid => m.type = "OFFER" /\ Grants(m.addr, srv)
       /\ \A i \in DOMAIN d.out : d.out[i].xid = d.xid => d.out[i].type = "DISCOVER"
    \/ Waits(d) /\ d.state = "REQUESTING" /\ Granted(d, d.offered, R, srv)
    \/ /\ Waits(d) /\ d.state = "CHECKING" /\ d.lease \in LeaseTimes
       /\ Grants(d.offered, srv) /\ \A i \in DOMAIN d.out : d.out[i].type = "ARP"
    \/ d.state = "BOUND" /\ RenewalNext(d) /\ Grants(d.addr, srv) /\ d.out = <<>>
    \/ d.state = "RENEWING" /\ Granted(d, d.addr, R, srv)

Undisturbed(d, R, srv) == OneAtATime(d, R) /\ InOrder(d, R, srv)

RenewInv ==
    faults = 0 => others = {} /\ retired = {} /\ Undisturbed(dhcp, replies, server)

\* What is known of the interface as long as nothing has gone wrong.
Connected ==
    /\ dhcp.link \in BOOLEAN /\ phy.reg \in BOOLEAN /\ (dhcp.link => phy.reg)
    /\ (phy.reg => phy.up) /\ (replies # {} => phy.up)
    /\ ~dhcp.link => dhcp.state \notin Leased /\ (dhcp.state = "CHECKING" => dhcp.tries = 1)

ShortLeases == \A s \in LeaseTimes : s <= LongestRenewed

\* The timers of a lease that is not too long (dhcp_bind).
LEMMA BindsInTime ==
    ASSUME ShortLeases, NEW s \in LeaseTimes
    PROVE  0 < T1(s) /\ T1(s) < T2(s) /\ 0 + T1(s) < T0(s)
  <1>1. s \in Nat /\ s >= 120 /\ s <= LongestRenewed
    BY DhcpAssumption DEF ShortLeases
  <1>2. T1(s) < T0(s)
    BY <1>1, RenewalComesFirst, SMT
  <1>3. 0 < T1(s) /\ T1(s) < T2(s)
    BY <1>1, TicksRange, Halves, U16Large, SMTT(30) DEF T1, T2, LongestRenewed
  <1>. QED
    BY <1>1, <1>2, <1>3, TicksRange, Halves, U16Large, SMT DEF T0, T1

\* What the wire is like after a message to an idle one.
LEMMA Alone ==
    ASSUME NEW e, NEW R, NEW msg, e.out = <<>> \/ e.out = <<msg>>,
           msg.xid = e.xid, msg.type \notin Drops,
           \A m \in R : m.xid # e.xid /\ m.type # "ARPREPLY"
                        /\ (m.type = "ACK" => m.lease \in LeaseTimes)
    PROVE  OneAtATime(e, R)
  <1>1. CASE e.out = <<>>
    BY <1>1 DEF OneAtATime, NoDrops
  <1>2. CASE e.out = <<msg>>
    <2>1. DOMAIN e.out = {1} /\ e.out[1] = msg /\ Len(e.out) = 1
      BY <1>2
    <2>. QED
      BY <2>1 DEF OneAtATime, NoDrops
  <1>. QED
    BY <1>1, <1>2

\* The link comes up before the client has an address, if it comes up.
LEMMA LinkRenews ==
    ASSUME NEW d, Typed(d), FreshWorks, NEW srv, Undisturbed(d, replies, srv),
           d.link \in BOOLEAN, phy.reg \in BOOLEAN,
           d.link => phy.reg, ~d.link => d.state \notin Leased, phy.reg => phy.up
    PROVE  LET e == check_link_status(d)
           IN  Undisturbed(e, replies, srv) /\ e.addr = d.addr
  <1> DEFINE e == check_link_status(d)
  <1>1. CASE phy.reg = d.link
    BY <1>1 DEF check_link_status
  <1>2. CASE phy.reg # d.link
    <2>0. d.link # TRUE
      BY <1>2, Zenon
    <2>1. phy.reg = TRUE /\ d.link = FALSE /\ d.state \notin Leased
      BY <1>2, <2>0, Zenon
    <2>2. Waits(d)
      BY <2>1 DEF Undisturbed, InOrder, Leased
    <2>3. phy.up /\ d.state \notin Leased \cup {"REBOOTING"}
      BY <2>1, <2>2 DEF Waits
    <2> DEFINE msg == [type |-> "DISCOVER", addr |-> ANY, xid |-> e.xid]
    <2>4. /\ e.state = "SELECTING" /\ e.addr = d.addr /\ SameLease(d, e) /\ New(e.xid, d)
          /\ e.out = Append(d.out, msg)
      BY <2>1, <2>3, LinkUp, Zenon
    <2>5. msg.type = "DISCOVER" /\ msg.xid = e.xid
      OBVIOUS
    <2> HIDE DEF e, msg
    <2>6. d.out \in Seq(Sent)
      BY DEF Typed
    <2>7. /\ DOMAIN e.out = 1 .. Len(d.out) + 1 /\ Len(e.out) = Len(d.out) + 1
          /\ e.out[Len(d.out) + 1] = msg /\ Len(d.out) \in Nat
          /\ \A i \in 1 .. Len(d.out) : e.out[i] = d.out[i] /\ i \in DOMAIN d.out
      BY <2>4, <2>6
    <2>8. \A i \in 1 .. Len(d.out) : d.out[i].xid # e.xid /\ d.out[i].type \notin Drops
      BY <2>4, <2>7 DEF New, Undisturbed, OneAtATime, NoDrops
    <2>9. \A m \in replies : m.xid # e.xid
      BY <2>4 DEF New
    <2>10. ASSUME NEW i \in DOMAIN e.out
           PROVE  /\ e.out[i].type \notin Drops
                  /\ e.out[i].xid = e.xid <=> i = Len(e.out)
                  /\ e.out[i].xid = e.xid => e.out[i].type = "DISCOVER"
      <3>1. CASE i = Len(d.out) + 1
        BY <2>5, <2>7, <3>1 DEF Drops
      <3>2. CASE i \in 1 .. Len(d.out)
        BY <2>7, <2>8, <3>2
      <3>. QED
        BY <2>7, <3>1, <3>2
    <2>11. OneAtATime(e, replies)
      BY <2>4, <2>9, <2>10 DEF OneAtATime, NoDrops, Undisturbed
    <2>12. InOrder(e, replies, srv)
      BY <2>2, <2>4, <2>9, <2>10 DEF InOrder, Waits, SameLease
    <2>. QED
      BY <2>4, <2>11, <2>12 DEF Undisturbed, e
  <1>. QED
    BY <1>1, <1>2

\* The request timer: only a DISCOVER is repeated, and only a probe ends.
LEMMA TimeoutRenews ==
    ASSUME NEW d, Typed(d), FreshWorks, ShortLeases, NEW srv, Undisturbed(d, replies, srv),
           d.out = <<>>, replies = {}
    PROVE  LET e == dhcp_timeout(d)
           IN  /\ Typed(e) /\ Undisturbed(e, replies, srv) /\ e.link = d.link
               /\ d.addr # ANY => e.addr = d.addr
               /\ d.state \notin Leased /\ (d.state = "CHECKING" => d.tries = 1) =>
                     e.state \notin Leased
  <1> DEFINE e == dhcp_timeout(d)
  <1>1. /\ d.state \in {"SELECTING", "CHECKING", "BOUND"}
        /\ d.state \in {"SELECTING", "CHECKING"} => Waits(d)
        /\ d.state = "CHECKING" => d.lease \in LeaseTimes /\ Grants(d.offered, srv)
    BY DEF Undisturbed, InOrder, Granted, Waits
  <1>2. ASSUME NEW c, NEW type, type \notin Drops, NEW a,
               c.out = IF phy.up THEN Append(<<>>, [type |-> type, addr |-> a, xid |-> c.xid])
                                 ELSE <<>>
        PROVE  OneAtATime(c, replies)
    <2>1. PICK msg : msg = [type |-> type, addr |-> a, xid |-> c.xid]
      BY Zenon
    <2>2. Append(<<>>, msg) = <<msg>> /\ msg.xid = c.xid /\ msg.type \notin Drops
      BY <1>2, <2>1
    <2>3. c.out = <<>> \/ c.out = <<msg>>
      BY <1>2, <2>1, <2>2, Zenon
    <2>. QED
      BY <2>2, <2>3, Alone
  <1>3. CASE d.state = "SELECTING"
    <2>1. e = dhcp_discover(d)
      BY <1>3 DEF dhcp_timeout
    <2> HIDE DEF e
    <2> DEFINE o == [d EXCEPT !.offered = ANY]
    <2>9. Discovers(d, e)
      BY <2>1, Requests
    <2>2. /\ o.out = d.out /\ Sends(o, e, "DISCOVER", ANY)
          /\ e.state = "SELECTING" /\ e.addr = d.addr /\ e.link = d.link /\ SameLease(d, e)
      BY <2>9, Zenon DEF Discovers, Turns
    <2> HIDE DEF o
    <2>7. Typed(e) /\ "DISCOVER" \notin Drops
      BY <2>2 DEF Sends, Drops
    <2>8. o.out = <<>>
      BY <2>2
    <2>0. /\ Typed(e) /\ "DISCOVER" \notin Drops
          /\ e.out = IF phy.up
                     THEN Append(<<>>, [type |-> "DISCOVER", addr |-> ANY, xid |-> e.xid])
                     ELSE <<>>
      BY <2>2, <2>7, <2>8, Zenon DEF Sends
    <2>3. OneAtATime(e, replies)
      BY <1>2, <2>0, Zenon
    <2>4. Waits(e)
      BY <1>1, <1>3, <2>2 DEF Waits, SameLease
    <2>5. \A i \in DOMAIN e.out : e.out[i].type = "DISCOVER"
      BY <2>0
    <2>6. Undisturbed(e, replies, srv)
      BY <2>2, <2>3, <2>4, <2>5 DEF Undisturbed, InOrder
    <2>. QED
      BY <1>3, <2>0, <2>2, <2>6 DEF e, Leased
  <1>4. CASE d.state = "CHECKING" /\ d.tries <= 1
    <2>1. e = dhcp_check(d)
      BY <1>4 DEF dhcp_timeout
    <2>2. Turns(d, e, "CHECKING", "ARP", d.offered)
      BY <2>1, CheckTurns
    <2> HIDE DEF e
    <2>3. /\ e.state = "CHECKING" /\ SameClient(d, e) /\ Sends(d, e, "ARP", d.offered)
          /\ Typed(e)
      BY <2>2 DEF Turns, Sends
    <2>4. OneAtATime(e, replies)
      BY <1>2, <2>3 DEF Sends, Drops
    <2>5. /\ Waits(e) /\ e.lease \in LeaseTimes /\ e.addr = d.addr /\ e.link = d.link
          /\ Grants(e.offered, srv)
      BY <1>1, <1>4, <2>3 DEF Waits, SameClient, SameLease
    <2>7. \A i \in DOMAIN e.out : e.out[i].type = "ARP"
      BY <2>3 DEF Sends
    <2>6. Undisturbed(e, replies, srv)
      BY <2>3, <2>4, <2>5, <2>7 DEF Undisturbed, InOrder
    <2>. QED
      BY <2>3, <2>5, <2>6 DEF e, Leased
  <1>5. CASE d.state = "CHECKING" /\ ~(d.tries <= 1)
    <2>1. e = dhcp_bind(d)
      BY <1>5 DEF dhcp_timeout
    <2>2. /\ Typed(e) /\ e.state = "BOUND" /\ e.link = d.link /\ e.out = d.out
          /\ e.used = 0 /\ e.t0 = T0(d.lease) /\ e.addr = d.offered
          /\ e.t1 = T1(d.lease) /\ e.t2 = T2(d.lease)
      BY <2>1, Binds
    <2> HIDE DEF e
    <2>3. RenewalNext(e)
      BY <1>1, <1>5, <2>2, BindsInTime DEF RenewalNext
    <2>4. OneAtATime(e, replies)
      BY <2>2 DEF OneAtATime, NoDrops
    <2>5. Undisturbed(e, replies, srv)
      BY <1>1, <1>5, <2>2, <2>3, <2>4 DEF Undisturbed, InOrder
    <2>6. d.addr = ANY /\ d.tries # 1
      BY <1>1, <1>5 DEF Waits
    <2>. QED
      BY <1>5, <2>2, <2>5, <2>6 DEF e
  <1>6. CASE d.state = "BOUND"
    <2>1. e = d
      BY <1>6 DEF dhcp_timeout
    <2>. QED
      BY <1>6, <2>1 DEF Leased
  <1>. QED
    BY <1>1, <1>3, <1>4, <1>5, <1>6, SMTT(30)

\* A tick: the renewal is due before anything else.
LEMMA CoarseRenews ==
    ASSUME NEW d, Typed(d), FreshWorks, NEW srv, Undisturbed(d, replies, srv),
           NEW srv2, srv2.addr = srv.addr \/ srv2.addr = ANY, d.state = "BOUND" => phy.up,
           d.out = <<>>, replies = {}
    PROVE  LET e == CoarseTimer(d)
           IN  /\ Typed(e) /\ Undisturbed(e, replies, srv2) /\ e.link = d.link
               /\ e.addr = d.addr /\ (d.state \notin Leased => e.state \notin Leased)
  <1> DEFINE e == CoarseTimer(d)
  <1>1. /\ d.state \in {"SELECTING", "CHECKING", "BOUND"}
        /\ d.state \in {"SELECTING", "CHECKING"} => Waits(d)
        /\ d.state = "CHECKING" => d.lease \in LeaseTimes /\ Grants(d.offered, srv2)
        /\ d.state = "BOUND" => RenewalNext(d) /\ Grants(d.addr, srv2)
    BY DEF Undisturbed, InOrder, Granted, Waits, Grants
  <1>2. /\ d.t0 \in Nat /\ d.t1 \in Nat /\ d.t2 \in Nat /\ d.used \in Nat
    BY DEF Typed, Shape
  <1>3. d.state # "BOUND" => ~LeaseEnds(d) /\ d.t2 = 0 /\ d.t1 = 0
    BY <1>1 DEF LeaseEnds, Waits
  <1>4. d.state = "BOUND" => ~LeaseEnds(d) /\ d.t2 > 1 /\ d.t1 > 0 /\ d.t0 > 0
    BY <1>1, <1>2 DEF LeaseEnds, RenewalNext
  <1>5. PICK c : /\ Ticked(d, c)
                 /\ \/ d.state = "BOUND" /\ e = dhcp_renew(c)
                    \/ /\ e = c
                       /\ d.state = "BOUND" => /\ c.t2 = d.t2 - 1 /\ c.t1 = d.t1 - 1
                                               /\ d.t1 # 1
                       /\ d.state # "BOUND" => c.t2 = 0 /\ c.t1 = 0
    <2>1. PICK c : /\ Ticked(d, c)
                   /\ \/ LeaseEnds(d) /\ CoarseTimer(d) = dhcp_discover(dhcp_release(c))
                      \/ ~LeaseEnds(d) /\ d.t2 = 1 /\ CoarseTimer(d) = dhcp_rebind(c)
                      \/ ~LeaseEnds(d) /\ d.t1 = 1 /\ d.t2 # 1 /\ CoarseTimer(d) = dhcp_renew(c)
                      \/ /\ ~LeaseEnds(d) /\ CoarseTimer(d) = c
                         /\ d.t1 = 1 => d.state # "BOUND"
                         /\ c.t2 = IF d.t2 = 0 THEN 0 ELSE d.t2 - 1
                         /\ c.t1 = IF d.t1 = 0 THEN 0 ELSE IF d.t2 = 1 THEN d.t1 ELSE d.t1 - 1
      BY CoarseOutcome
    <2>. QED
      BY <1>2, <1>3, <1>4, <2>1
  <1> HIDE DEF e
  <1>6. /\ Typed(c) /\ SameButTimers(d, c)
        /\ c.used = IF d.t0 > 0 THEN d.used + 1 ELSE d.used
    BY <1>5 DEF Ticked
  <1>7. CASE d.state = "BOUND" /\ e = dhcp_renew(c)
    <2> DEFINE msg == [type |-> "REQUEST", addr |-> c.addr, xid |-> c.xid]
    <2>1. Turns(c, e, "RENEWING", "REQUEST", c.addr)
      BY <1>6, <1>7, Requests
    <2>2. /\ Typed(e) /\ e.state = "RENEWING" /\ e.xid = c.xid /\ e.addr = c.addr
          /\ e.link = c.link /\ e.out = Append(c.out, msg)
      BY <1>7, <2>1 DEF Turns, Sends, SameClient
    <2>3. c.out = <<>> /\ c.addr = d.addr /\ c.link = d.link
      BY <1>6 DEF SameButTimers
    <2>4. msg.xid = e.xid /\ msg.type \notin Drops
      BY <2>2 DEF Drops
    <2>5. e.out = <<msg>>
      BY <2>2, <2>3
    <2>6. msg = [type |-> "REQUEST", addr |-> e.addr, xid |-> e.xid]
      BY <2>2, Zenon
    <2> HIDE DEF msg
    <2>7. OneAtATime(e, replies)
      BY <2>4, <2>5, Alone
    <2>8. Granted(e, e.addr, replies, srv2)
      BY <1>1, <1>7, <2>2, <2>3, <2>5, <2>6 DEF Granted
    <2>9. InOrder(e, replies, srv2)
      BY <1>7, <2>2, <2>3, <2>8, SMTT(30) DEF InOrder
    <2>. QED
      BY <1>7, <2>2, <2>3, <2>7, <2>9, SMTT(30) DEF e, Undisturbed, Leased
  <1>8. CASE /\ e = c
             /\ d.state = "BOUND" => c.t2 = d.t2 - 1 /\ c.t1 = d.t1 - 1 /\ d.t1 # 1
             /\ d.state # "BOUND" => c.t2 = 0 /\ c.t1 = 0
    <2>1. /\ c.out = <<>> /\ c.addr = d.addr /\ c.link = d.link /\ c.state = d.state
          /\ c.lease = d.lease /\ c.t0 = d.t0 /\ c.offered = d.offered
      BY <1>6 DEF SameButTimers
    <2>2. OneAtATime(c, replies)
      BY <2>1 DEF OneAtATime, NoDrops
    <2>3. CASE d.state = "BOUND"
      <3>1. RenewalNext(c)
        BY <1>1, <1>2, <1>4, <1>6, <1>8, <2>1, <2>3 DEF RenewalNext
      <3>. QED
        BY <1>1, <1>6, <1>8, <2>1, <2>2, <2>3, <3>1, Zenon DEF e, Undisturbed, InOrder, Leased
    <2>4. CASE d.state # "BOUND"
      <3>1. Waits(c)
        BY <1>1, <1>8, <2>1, <2>4, SMTT(30) DEF Waits
      <3>2. InOrder(c, replies, srv2)
        <4>1. CASE d.state = "SELECTING"
          BY <2>1, <3>1, <4>1 DEF InOrder
        <4>2. CASE d.state = "CHECKING"
          BY <1>1, <2>1, <3>1, <4>2, SMTT(30) DEF InOrder
        <4>. QED
          BY <1>1, <2>4, <4>1, <4>2
      <3>. QED
        BY <1>6, <1>8, <2>1, <2>2, <2>4, <3>1, <3>2 DEF e, Undisturbed, Waits, Leased
    <2>. QED
      BY <2>3, <2>4
  <1>. QED
    BY <1>5, <1>7, <1>8

-----------------------------------------------------------------------------
(* Renewal, while nothing goes wrong: the steps.                           *)

\* A message for another transaction.
LEMMA OtherRenews ==
    ASSUME NEW d, NEW R, NEW srv, Undisturbed(d, R, srv), NEW m, m.xid # d.xid
    PROVE  Undisturbed(d, R \ {m}, srv)
  <1>1. OneAtATime(d, R \ {m})
    BY DEF Undisturbed, OneAtATime
  <1>2. \A a : Granted(d, a, R, srv) => Granted(d, a, R \ {m}, srv)
    BY DEF Granted
  <1>3. InOrder(d, R \ {m}, srv)
    BY <1>2, Zenon DEF Undisturbed, InOrder
  <1>. QED
    BY <1>1, <1>3 DEF Undisturbed

\* The answer that the client waits for.
LEMMA RecvRenews ==
    ASSUME NEW d, Typed(d), FreshWorks, ShortLeases, NEW srv, phy.up,
           Undisturbed(d, replies, srv), NEW m \in replies, m \in Answers
    PROVE  LET e == IF m.type = "ARPREPLY" THEN dhcp_arp_reply(d, m) ELSE dhcp_recv(d, m)
           IN  /\ Undisturbed(e, replies \ {m}, srv)
               /\ d.addr # ANY => e.addr = d.addr
  <1> DEFINE e == dhcp_recv(d, m)
             R == replies \ {m}
  <1>0. SUFFICES Undisturbed(e, R, srv) /\ (d.addr # ANY => e.addr = d.addr)
    BY DEF Undisturbed, OneAtATime
  <1>1. CASE m.xid # d.xid
    <2>1. e = d
      BY <1>1 DEF dhcp_recv
    <2>. QED
      BY <1>1, <2>1, OtherRenews
  <1>2. ASSUME m.xid = d.xid PROVE Undisturbed(e, R, srv) /\ (d.addr # ANY => e.addr = d.addr)
    <2>1. /\ d.out = <<>> /\ m.type # "ARPREPLY" /\ (m.type = "ACK" => m.lease \in LeaseTimes)
          /\ \A k \in R : /\ k.xid # d.xid /\ k.type # "ARPREPLY"
                          /\ k.type = "ACK" => k.lease \in LeaseTimes
      BY <1>2 DEF Undisturbed, OneAtATime
    <2>2. ASSUME NEW c, NEW msg, c.out = Append(<<>>, msg), msg.xid = c.xid, c.xid = d.xid,
                 msg.type \notin Drops
          PROVE  c.out = <<msg>> /\ OneAtATime(c, R)
      <3>1. c.out = <<msg>>
        BY <2>2
      <3>. QED
        BY <2>1, <2>2, <3>1, Alone
    <2>3. CASE d.state = "SELECTING"
      <3>1. Waits(d) /\ m.type = "OFFER" /\ Grants(m.addr, srv)
        BY <1>2, <2>3 DEF Undisturbed, InOrder
      <3>2. e = dhcp_select(Offered(d, m))
        BY <1>2, <2>3, <3>1, RecvOutcome
      <3> DEFINE o == Offered(d, m)
                 msg == [type |-> "REQUEST", addr |-> e.offered, xid |-> e.xid]
      <3>3. /\ Typed(o) /\ o.out = d.out /\ o.xid = d.xid /\ o.addr = d.addr
            /\ SameTimers(d, o) /\ o.offered = m.addr
        BY OfferFields
      <3>4. Turns(o, e, "REQUESTING", "REQUEST", o.offered)
        BY <3>2, <3>3, Requests, Zenon
      <3> HIDE DEF o, e
      <3>5. /\ e.state = "REQUESTING" /\ e.offered = m.addr /\ e.xid = d.xid
            /\ e.addr = d.addr /\ SameTimers(d, e)
            /\ e.out = Append(<<>>, [type |-> "REQUEST", addr |-> m.addr, xid |-> e.xid])
        BY <2>1, <3>3, <3>4 DEF Turns, Sends, SameClient, SameLease, SameTimers
      <3>6. e.out = Append(<<>>, msg) /\ msg.xid = e.xid /\ msg.type \notin Drops
        BY <3>5 DEF Drops
      <3>7. e.out = <<msg>> /\ OneAtATime(e, R)
        BY <2>2, <3>5, <3>6, Zenon
      <3>8. Granted(e, e.offered, R, srv)
        BY <3>1, <3>5, <3>7, Zenon DEF Granted
      <3>9. Waits(e)
        BY <3>1, <3>5 DEF Waits, SameTimers
      <3>. QED
        BY <3>5, <3>7, <3>8, <3>9, Zenon DEF Undisturbed, InOrder
    <2>4. CASE d.state = "REQUESTING"
      <3>1. Waits(d) /\ m.type = "ACK" /\ Grants(m.addr, srv)
        <4>1. Waits(d) /\ Granted(d, d.offered, replies, srv)
          BY <2>4 DEF Undisturbed, InOrder
        <4>2. PICK k \in replies : k.xid = d.xid /\ k.type = "ACK" /\ k.addr = d.offered
          BY <2>1, <4>1 DEF Granted
        <4>3. k = m
          BY <1>2, <4>2 DEF Undisturbed, OneAtATime
        <4>. QED
          BY <4>1, <4>2, <4>3 DEF Granted
      <3> DEFINE o == dhcp_handle_ack(d, m)
                 msg == [type |-> "ARP", addr |-> o.offered, xid |-> e.xid]
      <3>2. e = dhcp_check(o)
        BY <1>2, <2>4, <3>1, RecvOutcome, Zenon
      <3>3. /\ Typed(o) /\ o.out = d.out /\ o.xid = d.xid /\ o.addr = d.addr
            /\ SameTimers(d, o) /\ o.lease = m.lease /\ o.offered = m.addr
        BY AckFields
      <3>4. Turns(o, e, "CHECKING", "ARP", o.offered)
        BY <3>2, <3>3, CheckTurns
      <3> HIDE DEF o, e
      <3>5. /\ e.state = "CHECKING" /\ e.xid = d.xid /\ e.lease = m.lease /\ e.offered = m.addr
            /\ e.addr = d.addr /\ SameTimers(d, e) /\ e.out = Append(<<>>, msg)
        BY <2>1, <3>3, <3>4 DEF Turns, Sends, SameClient, SameLease, SameTimers
      <3>6. msg.xid = e.xid /\ msg.type \notin Drops
        BY DEF Drops
      <3>7. e.out = <<msg>> /\ OneAtATime(e, R)
        BY <2>2, <3>5, <3>6, Zenon
      <3>8. \A i \in DOMAIN e.out : e.out[i].type = "ARP"
        BY <3>7
      <3>9. Waits(e)
        BY <3>1, <3>5, SMTT(30) DEF Waits, SameTimers
      <3>. QED
        BY <2>1, <3>1, <3>5, <3>7, <3>8, <3>9, Zenon DEF Undisturbed, InOrder
    <2>5. CASE d.state = "RENEWING"
      <3>1. m.type = "ACK" /\ m.addr = d.addr /\ Grants(d.addr, srv)
        <4>1. Granted(d, d.addr, replies, srv)
          BY <2>5 DEF Undisturbed, InOrder, Waits
        <4>2. PICK k \in replies : k.xid = d.xid /\ k.type = "ACK" /\ k.addr = d.addr
          BY <2>1, <4>1 DEF Granted
        <4>3. k = m
          BY <1>2, <4>2 DEF Undisturbed, OneAtATime
        <4>. QED
          BY <4>1, <4>2, <4>3 DEF Granted
      <3> DEFINE o == dhcp_handle_ack(d, m)
      <3>2. e = dhcp_bind(o)
        BY <1>2, <2>5, <3>1, RecvOutcome
      <3>3. Typed(o) /\ o.out = d.out /\ o.xid = d.xid /\ o.lease = m.lease /\ o.offered = m.addr
        BY AckFields
      <3>4. /\ e.state = "BOUND" /\ e.addr = o.offered /\ e.out = o.out
            /\ e.used = 0 /\ e.t0 = T0(o.lease) /\ e.xid = o.xid
            /\ e.t1 = T1(o.lease) /\ e.t2 = T2(o.lease)
        BY <3>2, <3>3, Binds
      <3> HIDE DEF o, e
      <3>5. RenewalNext(e)
        BY <2>1, <3>1, <3>3, <3>4, BindsInTime DEF RenewalNext
      <3>6. e.out = <<>> /\ e.addr = d.addr /\ e.xid = d.xid
        BY <2>1, <3>1, <3>3, <3>4
      <3>7. OneAtATime(e, R)
        BY <2>1, <3>6 DEF OneAtATime, NoDrops
      <3>. QED
        BY <3>1, <3>4, <3>5, <3>6, <3>7, SMTT(30) DEF Undisturbed, InOrder
    <2>6. CASE d.state \in {"CHECKING", "BOUND"}
      <3>1. e = d
        BY <2>1, <2>6, RecvOutcome
      <3>2. OneAtATime(d, R)
        BY DEF Undisturbed, OneAtATime
      <3>3. InOrder(d, R, srv)
        BY <2>6 DEF Undisturbed, InOrder
      <3>. QED
        BY <3>1, <3>2, <3>3 DEF Undisturbed
    <2>. QED
      BY <2>3, <2>4, <2>5, <2>6, Zenon DEF Undisturbed, InOrder
  <1>. QED
    BY <1>1, <1>2

\* The first message, and the ones after it.
LEMMA FirstAndRest ==
    ASSUME NEW q \in Seq(Sent), q # <<>>
    PROVE  /\ DOMAIN q = 1 .. Len(q) /\ Len(q) \in Nat \ {0}
           /\ Head(q) = q[1] /\ 1 \in DOMAIN q /\ q[1] \in Sent
           /\ Tail(q) \in Seq(Sent) /\ Len(Tail(q)) = Len(q) - 1
           /\ DOMAIN Tail(q) = 1 .. (Len(q) - 1)
           /\ \A i \in DOMAIN Tail(q) : Tail(q)[i] = q[i + 1] /\ i + 1 \in DOMAIN q
           /\ Tail(q) # <<>> => Len(q) # 1
  <1>1. /\ DOMAIN q = 1 .. Len(q) /\ Len(q) \in Nat \ {0}
        /\ Head(q) = q[1] /\ 1 \in DOMAIN q /\ q[1] \in Sent
    OBVIOUS
  <1>0. Tail(q) \in Seq(Sent)
    OBVIOUS
  <1>2. PICK t \in Seq(Sent) : t = Tail(q)
    BY <1>0, Zenon
  <1>3. Len(t) = Len(q) - 1 /\ DOMAIN t = 1 .. (Len(q) - 1)
    BY <1>2
  <1>4. \A i \in DOMAIN t : t[i] = q[i + 1] /\ i + 1 \in DOMAIN q
    BY <1>1, <1>2, <1>3
  <1>5. t # <<>> => Len(q) # 1
    BY <1>2, <1>3
  <1>. QED
    BY <1>1, <1>2, <1>3, <1>4, <1>5

\* The reply to a message is the only one of its transaction.
LEMMA PopRenews ==
    ASSUME NEW d, d.out \in Seq(Sent), d.out # <<>>, NEW e, e.out = Tail(d.out),
           e.xid = d.xid, e.state = d.state, NEW R, OneAtATime(d, R), NEW r, NEW S,
           \/ S = R
           \/ /\ S = R \cup {r} /\ r.xid = Head(d.out).xid /\ r.type # "ARPREPLY"
              /\ r.type = "ACK" => r.lease \in LeaseTimes
    PROVE  OneAtATime(e, S)
  <1>1. /\ DOMAIN d.out = 1 .. Len(d.out) /\ Len(d.out) \in Nat \ {0}
        /\ DOMAIN e.out = 1 .. (Len(d.out) - 1) /\ Len(e.out) = Len(d.out) - 1
        /\ \A i \in DOMAIN e.out : e.out[i] = d.out[i + 1] /\ i + 1 \in DOMAIN d.out
        /\ Head(d.out) = d.out[1] /\ 1 \in DOMAIN d.out /\ (e.out # <<>> => Len(d.out) # 1)
    BY FirstAndRest
  <1>2. \A i \in DOMAIN e.out : e.out[i].xid = e.xid <=> i = Len(e.out)
    BY <1>1 DEF OneAtATime
  <1>3. e.state # "SELECTING" => Len(e.out) <= 1
    BY <1>1 DEF OneAtATime
  <1>4. NoDrops(e)
    BY <1>1 DEF OneAtATime, NoDrops
  <1>5. e.out # <<>> => Head(d.out).xid # d.xid
    BY <1>1 DEF OneAtATime
  <1>6. \A m \in R : m.xid # d.xid
    BY DEF OneAtATime
  <1>7. e.out # <<>> => \A m \in S : m.xid # e.xid
    BY <1>5, <1>6
  <1>8. \A m, n \in S : m.xid = e.xid /\ n.xid = e.xid => m = n
    BY <1>6
  <1>9. \A m \in S : m.type # "ARPREPLY" /\ (m.type = "ACK" => m.lease \in LeaseTimes)
    BY DEF OneAtATime
  <1>. QED
    BY <1>2, <1>3, <1>4, <1>7, <1>8, <1>9, Zenon DEF OneAtATime

\* The server grants what it has been asked for.
LEMMA AnswerRenews ==
    ASSUME Typed(dhcp), others = {}, retired = {}, Undisturbed(dhcp, replies, server), Answer
    PROVE  /\ Undisturbed(dhcp', replies', server')
           /\ retired' = {} /\ dhcp'.addr = dhcp.addr
  <1>1. PICK e : e = Popped(dhcp)
    OBVIOUS
  <1>2. PICK m : m = Head(dhcp.out)
    OBVIOUS
  <1>3. dhcp' = e /\ dhcp.out # <<>>
    BY <1>1 DEF Answer, Popped
  <1>4. /\ e.out = Tail(dhcp.out) /\ e.xid = dhcp.xid /\ e.state = dhcp.state
        /\ SameClient(dhcp, e) /\ dhcp.out \in Seq(Sent)
    <2>1. dhcp.out \in Seq(Sent)
      BY DEF Typed
    <2>2. PICK o \in Seq(Sent) : o = Tail(dhcp.out)
      BY <1>3, <2>1, FirstAndRest, Zenon
    <2>. QED
      BY <1>1, <2>1, <2>2 DEF Typed, Shape, SameClient, SameLease, Fields, Popped
  <1>5. /\ dhcp.out[1] = m /\ 1 \in DOMAIN dhcp.out /\ m \in Sent
        /\ (m.xid = dhcp.xid <=> Len(dhcp.out) = 1) /\ m.type \notin Drops
        /\ \A k \in replies : k.xid # dhcp.xid
    <2>1. dhcp.out[1] = m /\ 1 \in DOMAIN dhcp.out /\ m \in Sent
      BY <1>2, <1>3, <1>4, FirstAndRest
    <2>. QED
      BY <1>3, <2>1, Zenon DEF Undisturbed, OneAtATime, NoDrops
  <1> DEFINE Msg(type, a, secs) ==
                [type |-> type, addr |-> a, lease |-> secs, xid |-> m.xid, late |-> FALSE]
             mine(a) == a = server.addr \/ (server.addr = ANY /\ a \in Addrs \ retired)
             Comes(r) == replies' = replies \cup {r} /\ r.xid = m.xid
  <1>6. /\ retired' = retired
        /\ \/ /\ m.type = "DISCOVER" /\ server' = server
              /\ \E r : Comes(r) /\ r.type = "OFFER" /\ Grants(r.addr, server)
           \/ /\ m.type = "REQUEST" /\ m.addr # ANY /\ mine(m.addr) /\ server'.addr = m.addr
              /\ \E r : Comes(r) /\ r.type = "ACK" /\ r.addr = m.addr /\ r.lease \in LeaseTimes
           \/ /\ m.type = "REQUEST" /\ m.addr # ANY /\ ~mine(m.addr)
              /\ \E r : Comes(r) /\ r.type = "NAK"
           \/ m.type = "REQUEST" /\ m.addr = ANY /\ replies' = replies
           \/ m.type = "ARP" /\ replies' = replies /\ server' = server
    <2>1. \/ /\ m.type = "DISCOVER" /\ UNCHANGED <<server, retired>>
             /\ \E a \in Addrs : mine(a) /\ replies' = replies \cup {Msg("OFFER", a, 0)}
          \/ /\ m.type = "REQUEST" /\ m.addr # ANY /\ mine(m.addr) /\ retired' = retired
             /\ \E secs \in LeaseTimes :
                   /\ server' = [addr |-> m.addr,
                                 left |-> Max({server.left, secs \div 60 + Grace})]
                   /\ replies' = replies \cup {Msg("ACK", m.addr, secs)}
          \/ /\ m.type = "REQUEST" /\ m.addr # ANY /\ ~mine(m.addr) /\ retired' = retired
             /\ replies' = replies \cup {Msg("NAK", ANY, 0)}
          \/ /\ m.type = "REQUEST" /\ m.addr = ANY /\ UNCHANGED <<replies, retired>>
          \/ m.type \in Drops
          \/ m.type = "ARP" /\ UNCHANGED <<replies, server, retired>>
      BY <1>2, Zenon DEF Answer, Reply, Drops
    <2>2. ASSUME NEW type, NEW a, NEW secs, NEW r, r = Msg(type, a, secs)
          PROVE  r.type = type /\ r.addr = a /\ r.lease = secs /\ r.xid = m.xid
      BY <2>2
    <2> HIDE DEF Msg
    <2>3. CASE m.type = "DISCOVER"
      <3>1. PICK a \in Addrs : mine(a) /\ replies' = replies \cup {Msg("OFFER", a, 0)}
        BY <2>1, <2>3 DEF Drops
      <3>2. PICK r : r = Msg("OFFER", a, 0)
        OBVIOUS
      <3>3. r.type = "OFFER" /\ r.addr = a /\ r.xid = m.xid
        BY <2>2, <3>2
      <3>4. Grants(r.addr, server)
        BY <3>1, <3>3 DEF Grants
      <3>5. server' = server /\ retired' = retired
        BY <2>1, <2>3, SMTT(30) DEF Drops
      <3>. QED
        BY <2>3, <3>1, <3>2, <3>3, <3>4, <3>5
    <2>4. CASE m.type = "REQUEST" /\ m.addr # ANY /\ mine(m.addr)
      <3>1. PICK secs \in LeaseTimes :
               /\ server' = [addr |-> m.addr,
                             left |-> Max({server.left, secs \div 60 + Grace})]
               /\ replies' = replies \cup {Msg("ACK", m.addr, secs)}
        BY <2>1, <2>4, Zenon DEF Drops
      <3>2. PICK r : r = Msg("ACK", m.addr, secs)
        OBVIOUS
      <3>3. r.type = "ACK" /\ r.addr = m.addr /\ r.xid = m.xid /\ r.lease = secs
        BY <2>2, <3>2
      <3>4. server'.addr = m.addr /\ retired' = retired
        BY <2>1, <2>4, <3>1, SMTT(30) DEF Drops
      <3>. QED
        BY <2>4, <3>1, <3>2, <3>3, <3>4
    <2>5. CASE m.type = "REQUEST" /\ m.addr # ANY /\ ~mine(m.addr)
      <3>1. replies' = replies \cup {Msg("NAK", ANY, 0)} /\ retired' = retired
        BY <2>1, <2>5 DEF Drops
      <3>2. PICK r : r = Msg("NAK", ANY, 0)
        OBVIOUS
      <3>3. r.type = "NAK" /\ r.xid = m.xid
        BY <2>2, <3>2
      <3>. QED
        BY <2>5, <3>1, <3>2, <3>3
    <2>6. CASE m.type = "REQUEST" /\ m.addr = ANY
      BY <2>1, <2>6 DEF Drops
    <2>7. CASE m.type = "ARP"
      BY <2>1, <2>7 DEF Drops
    <2>. QED
      BY <1>5, <2>3, <2>4, <2>5, <2>6, <2>7, Zenon DEF Sent, Drops
  <1> HIDE DEF Msg
  <1>7. OneAtATime(e, replies')
    <2>0. OneAtATime(dhcp, replies)
      BY DEF Undisturbed
    <2>1. CASE replies' = replies
      <3>1. PICK S : S = replies'
        OBVIOUS
      <3>2. OneAtATime(e, S)
        BY <1>3, <1>4, <2>0, <2>1, <3>1, PopRenews
      <3>. QED
        BY <3>1, <3>2
    <2>2. ASSUME NEW r, Comes(r), r.type # "ARPREPLY", r.type = "ACK" => r.lease \in LeaseTimes
          PROVE  OneAtATime(e, replies')
      <3>1. PICK S : S = replies'
        OBVIOUS
      <3>2. S = replies \cup {r} /\ r.xid = Head(dhcp.out).xid
        BY <1>2, <2>2, <3>1
      <3>3. OneAtATime(e, S)
        BY <1>3, <1>4, <2>0, <2>2, <3>2, PopRenews, SMTT(30)
      <3>. QED
        BY <3>1, <3>3
    <2> HIDE DEF mine, Comes
    <2>. QED
      BY <1>6, <2>1, <2>2
  <1>8. ASSUME NEW a, Granted(dhcp, a, replies, server)
        PROVE  Granted(e, a, replies', server')
    <2>1. dhcp.out = <<[type |-> "REQUEST", addr |-> a, xid |-> dhcp.xid]>> /\ Grants(a, server)
      BY <1>3, <1>8 DEF Granted
    <2>2. m.type = "REQUEST" /\ m.addr = a /\ m.xid = dhcp.xid /\ e.out = <<>>
      BY <1>2, <1>4, <2>1
    <2>3. m.addr # ANY /\ mine(m.addr)
      BY <2>1, <2>2, DhcpAssumption DEF Grants
    <2>4. PICK r : Comes(r) /\ r.type = "ACK" /\ r.addr = a /\ server'.addr = a
      BY <1>6, <2>2, <2>3
    <2>5. r \in replies' /\ r.xid = e.xid
      BY <1>4, <2>2, <2>4, SMTT(30)
    <2>. QED
      BY <2>1, <2>2, <2>4, <2>5, SMTT(30) DEF Granted, Grants
  <1>9. Waits(dhcp) => Waits(e)
    BY <1>4 DEF Waits, SameClient, SameLease
  <1>10. InOrder(e, replies', server')
    <2>1. CASE dhcp.state = "SELECTING"
      <3>1. /\ Waits(dhcp) /\ (m.xid = dhcp.xid => m.type = "DISCOVER")
            /\ \A i \in DOMAIN dhcp.out : dhcp.out[i].xid = dhcp.xid =>
                  dhcp.out[i].type = "DISCOVER"
        BY <1>5, <2>1 DEF Undisturbed, InOrder
      <3>2. \A i \in DOMAIN e.out : e.out[i].xid = e.xid => e.out[i].type = "DISCOVER"
        <4>1. \A i \in DOMAIN e.out : e.out[i] = dhcp.out[i + 1] /\ i + 1 \in DOMAIN dhcp.out
          BY <1>3, <1>4, FirstAndRest, SMTT(30)
        <4>. QED
          BY <1>4, <3>1, <4>1
      <3>3. ASSUME NEW k \in replies', k.xid = e.xid
            PROVE  k.type = "OFFER" /\ Grants(k.addr, server')
        <4>1. k \notin replies
          BY <1>4, <1>5, <3>3
        <4>2. ASSUME NEW r, Comes(r) PROVE k = r /\ m.type = "DISCOVER"
          BY <1>4, <3>1, <3>3, <4>1, <4>2
        <4> HIDE DEF mine
        <4>. QED
          BY <1>6, <3>3, <4>1, <4>2, SMTT(30)
      <3>. QED
        BY <1>4, <1>9, <2>1, <3>1, <3>2, <3>3, Zenon DEF InOrder
    <2>2. CASE dhcp.state = "REQUESTING"
      <3>1. Waits(dhcp) /\ Granted(dhcp, dhcp.offered, replies, server)
        BY <2>2 DEF Undisturbed, InOrder
      <3>2. e.offered = dhcp.offered
        BY <1>4 DEF SameClient
      <3>. QED
        BY <1>4, <1>8, <1>9, <2>2, <3>1, <3>2 DEF InOrder
    <2>3. CASE dhcp.state = "RENEWING"
      <3>1. Granted(dhcp, dhcp.addr, replies, server)
        BY <2>3 DEF Undisturbed, InOrder, Waits
      <3>2. e.addr = dhcp.addr
        BY <1>4 DEF SameClient
      <3>. QED
        BY <1>4, <1>8, <2>3, <3>1, <3>2, SMTT(30) DEF InOrder
    <2>4. CASE dhcp.state = "CHECKING"
      <3>1. /\ Waits(dhcp) /\ dhcp.lease \in LeaseTimes /\ Grants(dhcp.offered, server)
            /\ \A i \in DOMAIN dhcp.out : dhcp.out[i].type = "ARP"
        BY <2>4 DEF Undisturbed, InOrder
      <3>2. m.type = "ARP"
        BY <1>5, <3>1
      <3>3. server' = server
        BY <1>6, <3>2
      <3>4. \A i \in DOMAIN e.out : e.out[i].type = "ARP"
        <4>1. \A i \in DOMAIN e.out : e.out[i] = dhcp.out[i + 1] /\ i + 1 \in DOMAIN dhcp.out
          BY <1>3, <1>4, FirstAndRest
        <4>. QED
          BY <3>1, <4>1
      <3>5. e.offered = dhcp.offered /\ e.lease = dhcp.lease
        BY <1>4 DEF SameClient, SameLease
      <3>. QED
        BY <1>4, <1>9, <2>4, <3>1, <3>3, <3>4, <3>5 DEF InOrder
    <2>5. dhcp.state # "BOUND"
      BY <1>3 DEF Undisturbed, InOrder, Waits
    <2>. QED
      BY <2>1, <2>2, <2>3, <2>4, <2>5, Zenon DEF Undisturbed, InOrder
  <1>. QED
    BY <1>3, <1>4, <1>6, <1>7, <1>10 DEF Undisturbed, SameClient

\* RenewInv holds at first.
LEMMA RenewInit ==
    Init => RenewInv
  <1> SUFFICES ASSUME Init PROVE Undisturbed(dhcp, replies, server)
    BY DEF Init, RenewInv
  <1>1. PICK first : first = [type |-> "DISCOVER", addr |-> ANY, xid |-> 0]
    BY Zenon
  <1>2. /\ dhcp.state = "SELECTING" /\ dhcp.xid = 0 /\ dhcp.addr = ANY
        /\ dhcp.t0 = 0 /\ dhcp.t1 = 0 /\ dhcp.t2 = 0 /\ replies = {}
        /\ dhcp.out = <<>> \/ dhcp.out = <<first>>
    BY <1>1 DEF Init
  <1>3. first.type = "DISCOVER" /\ first.xid = dhcp.xid /\ first.type \notin Drops
    BY <1>1, <1>2 DEF Drops
  <1>4. OneAtATime(dhcp, replies)
    BY <1>2, <1>3, Alone
  <1>5. \A i \in DOMAIN dhcp.out : dhcp.out[i].type = "DISCOVER"
    BY <1>2, <1>3
  <1>. QED
    BY <1>2, <1>4, <1>5 DEF Undisturbed, InOrder, Waits

\* A step without a fault keeps the order, and the address.
LEMMA RenewStep ==
    ASSUME StuckInv, FreshWorks, CountFacts, Connected, ShortLeases,
           others = {}, retired = {}, Undisturbed(dhcp, replies, server),
           faults = 0, faults' = 0, Next
    PROVE  /\ others' = {} /\ retired' = {} /\ Undisturbed(dhcp', replies', server')
           /\ dhcp.addr # ANY => dhcp'.addr = dhcp.addr
  <1>1. /\ Typed(dhcp) /\ dhcp.timer \in 0..2 /\ replies \subseteq Answers /\ server.left \in Nat
    BY DhcpAssumption DEF StuckInv, Alive, Sound, NoLease
  <1>3. /\ dhcp.link \in BOOLEAN /\ phy.reg \in BOOLEAN /\ (dhcp.link => phy.reg)
        /\ (phy.reg => phy.up) /\ (replies # {} => phy.up)
        /\ ~dhcp.link => dhcp.state \notin Leased /\ (dhcp.state = "CHECKING" => dhcp.tries = 1)
    BY DEF Connected
  <1>4. dhcp.state = "BOUND" => phy.up
    BY <1>3 DEF Leased
  <1>5. ASSUME NEW n \in 0..2, NEW d, d = WithTimer(dhcp, n)
        PROVE  /\ Typed(d) /\ Undisturbed(d, replies, server)
               /\ d.out = dhcp.out /\ d.link = dhcp.link /\ d.state = dhcp.state
               /\ d.tries = dhcp.tries /\ d.addr = dhcp.addr
    <2>1. /\ Typed(d) /\ SameClient(dhcp, d) /\ d.timer = n /\ d.out = dhcp.out
          /\ d.xid = dhcp.xid /\ d.state = dhcp.state /\ d.tries = dhcp.tries
      BY <1>1, <1>5, SetTimer, SMTT(30)
    <2>2. d.addr = dhcp.addr /\ d.link = dhcp.link /\ d.offered = dhcp.offered
          /\ SameLease(dhcp, d)
      BY <2>1 DEF SameClient
    <2>3. OneAtATime(d, replies)
      BY <2>1 DEF Undisturbed, OneAtATime, NoDrops
    <2>4. InOrder(d, replies, server)
      <3>1. /\ Waits(d) <=> Waits(dhcp)
            /\ RenewalNext(d) <=> RenewalNext(dhcp)
        BY <2>1, <2>2 DEF Waits, RenewalNext, SameLease
      <3>2. \A a : Granted(d, a, replies, server) <=> Granted(dhcp, a, replies, server)
        BY <2>1 DEF Granted
      <3>3. d.lease = dhcp.lease
        BY <2>2 DEF SameLease
      <3>. QED
        BY <2>1, <2>2, <3>1, <3>2, <3>3, Zenon DEF Undisturbed, InOrder
    <2>. QED
      BY <2>1, <2>2, <2>3, <2>4, SMTT(30) DEF Undisturbed
  <1>6. ASSUME NEW d, Typed(d), NEW srv, Undisturbed(d, replies, srv), d.link = dhcp.link,
               ~dhcp.link => d.state \notin Leased, enet_poll(d), NEW e, e = dhcp'
        PROVE  Undisturbed(e, replies, srv) /\ e.addr = d.addr
    <2>1. e = check_link_status(d)
      BY <1>6 DEF enet_poll
    <2>2. d.link \in BOOLEAN /\ (d.link => phy.reg) /\ (~d.link => d.state \notin Leased)
      BY <1>3, <1>6, Zenon
    <2>. QED
      BY <1>3, <1>6, <2>1, <2>2, LinkRenews
  <1>7. CASE PollLink
    <2>1. PICK d : d = dhcp
      OBVIOUS
    <2>2. PICK e : e = dhcp'
      OBVIOUS
    <2>3. /\ enet_poll(d) /\ replies' = replies /\ server' = server /\ others' = others
          /\ retired' = retired
      BY <1>7, <2>1 DEF PollLink
    <2>4. Undisturbed(e, replies, server) /\ e.addr = d.addr
      BY <1>1, <1>3, <1>6, <2>1, <2>2, <2>3
    <2>. QED
      BY <2>1, <2>2, <2>3, <2>4, SMTT(30)
  <1>8. CASE dhcp_fine_tmr
    <2>1. /\ faults' = faults + (IF InFlight THEN 1 ELSE 0)
          /\ replies' = replies /\ server' = server /\ others' = others /\ retired' = retired
          /\ enet_poll(dhcp_timeout(WithTimer(dhcp, 0)))
      BY <1>8, Zenon DEF dhcp_fine_tmr, Fault, WithTimer
    <2>2. ~InFlight
      BY <2>1
    <2>3. dhcp.out = <<>> /\ replies = {}
      BY <2>2 DEF InFlight
    <2>4. PICK d : d = WithTimer(dhcp, 0)
      OBVIOUS
    <2>5. /\ Typed(d) /\ Undisturbed(d, replies, server) /\ d.out = <<>>
          /\ d.link = dhcp.link /\ d.state = dhcp.state /\ d.tries = dhcp.tries
          /\ d.addr = dhcp.addr
      BY <1>5, <2>3, <2>4
    <2>6. PICK e : e = dhcp_timeout(d)
      OBVIOUS
    <2>7. /\ Typed(e) /\ Undisturbed(e, replies, server) /\ e.link = d.link
          /\ d.addr # ANY => e.addr = d.addr
          /\ d.state \notin Leased /\ (d.state = "CHECKING" => d.tries = 1) =>
                e.state \notin Leased
      BY <2>3, <2>5, <2>6, TimeoutRenews
    <2>8. PICK f : f = dhcp'
      BY SMTT(30)
    <2>9. enet_poll(e) /\ e.link = dhcp.link /\ (~dhcp.link => e.state \notin Leased)
      BY <1>3, <2>1, <2>4, <2>5, <2>6, <2>7
    <2>10. Undisturbed(f, replies, server) /\ f.addr = e.addr
      BY <1>6, <2>7, <2>8, <2>9
    <2>. QED
      BY <2>1, <2>5, <2>7, <2>8, <2>10
  <1>9. CASE dhcp_coarse_tmr
    <2>1. /\ faults' = faults + Cardinality(replies) /\ others' = others /\ retired' = retired
          /\ dhcp.out = <<>> /\ dhcp.timer < 2
          /\ replies' = {[m EXCEPT !.late = TRUE] : m \in replies}
          /\ enet_poll(CoarseTimer([dhcp EXCEPT !.timer = 2 * @]))
          /\ server' = IF server.left > 1 THEN [server EXCEPT !.left = @ - 1] ELSE NoLease
      BY <1>9 DEF dhcp_coarse_tmr, Fault
    <2>2. replies = {}
      <3>1. Cardinality(replies) = 0
        BY <2>1 DEF CountFacts
      <3>. QED
        BY <3>1, Zenon DEF CountFacts
    <2>3. replies' = {} /\ replies' = replies
      BY <2>1, <2>2
    <2>4. PICK n \in 0..2 : n = 2 * dhcp.timer
      BY <1>1, <2>1
    <2>5. PICK d : d = WithTimer(dhcp, n)
      OBVIOUS
    <2>6. /\ Typed(d) /\ Undisturbed(d, replies, server) /\ d.out = <<>>
          /\ d.link = dhcp.link /\ d.state = dhcp.state /\ d.addr = dhcp.addr
      BY <1>5, <2>1, <2>5
    <2>7. PICK srv : srv = server'
      OBVIOUS
    <2>8. srv.addr = server.addr \/ srv.addr = ANY
      <3>1. CASE server.left > 1
        <4>1. srv = [server EXCEPT !.left = @ - 1]
          BY <2>1, <2>7, <3>1
        <4>2. server \in [addr : Addrs, left : Nat \ {0}]
          BY <3>1 DEF StuckInv, NoLease
        <4>. QED
          BY <4>1, <4>2
      <3>2. CASE ~(server.left > 1)
        BY <2>1, <2>7, <3>2 DEF NoLease
      <3>. QED
        BY <3>1, <3>2
    <2>9. PICK e : e = CoarseTimer(d)
      OBVIOUS
    <2>10. /\ Typed(e) /\ Undisturbed(e, replies, srv) /\ e.link = d.link
           /\ e.addr = d.addr /\ (d.state \notin Leased => e.state \notin Leased)
      <3>1. d.state = "BOUND" => phy.up
        BY <1>4, <2>6
      <3>. QED
        BY <2>2, <2>6, <2>8, <2>9, <3>1, CoarseRenews
    <2>11. enet_poll(e)
      <3>1. [dhcp EXCEPT !.timer = 2 * @] = d
        BY <2>4, <2>5, Zenon DEF WithTimer
      <3>. QED
        BY <2>1, <2>9, <3>1, Zenon
    <2>12. PICK f : f = dhcp'
      OBVIOUS
    <2>13. ~dhcp.link => e.state \notin Leased
      BY <1>3, <2>6, <2>10
    <2>14. e.link = dhcp.link
      BY <2>6, <2>10
    <2>15. Undisturbed(f, replies, srv) /\ f.addr = e.addr
      BY <1>6, <2>10, <2>11, <2>12, <2>13, <2>14
    <2>. QED
      BY <2>1, <2>3, <2>6, <2>7, <2>10, <2>12, <2>15, Zenon
  <1>10. ASSUME NEW m \in replies, NEW again \in BOOLEAN, Receive(m, again)
         PROVE  /\ others' = {} /\ retired' = {} /\ Undisturbed(dhcp', replies', server')
                /\ dhcp.addr # ANY => dhcp'.addr = dhcp.addr
    <2>1. faults' = faults + (IF again THEN 1 ELSE 0)
      BY <1>10 DEF Receive, Fault
    <2>2. ASSUME again = TRUE PROVE FALSE
      <3>1. faults' = faults + 1
        BY <2>1, <2>2, Zenon
      <3>. QED
        BY <3>1
    <2>3. again = FALSE
      BY <2>2, Zenon
    <2>4. /\ replies' = replies \ {m} /\ server' = server /\ others' = others
          /\ retired' = retired
          /\ dhcp' = IF m.type = "ARPREPLY" THEN dhcp_arp_reply(dhcp, m) ELSE dhcp_recv(dhcp, m)
      BY <1>10, <2>3, Zenon DEF Receive
    <2>5. phy.up /\ m \in Answers
      BY <1>1, <1>3
    <2>6. PICK d : d = dhcp
      OBVIOUS
    <2>7. PICK e : e = IF m.type = "ARPREPLY" THEN dhcp_arp_reply(d, m) ELSE dhcp_recv(d, m)
      OBVIOUS
    <2>8. Undisturbed(e, replies \ {m}, server) /\ (d.addr # ANY => e.addr = d.addr)
      BY <1>1, <2>5, <2>6, <2>7, RecvRenews, Zenon
    <2>9. dhcp' = e
      BY <2>4, <2>6, <2>7
    <2>. QED
      BY <2>4, <2>6, <2>8, <2>9
  <1>11. CASE Answer
    <2>1. others' = others
      BY <1>11 DEF Answer
    <2>. QED
      BY <1>1, <1>11, <2>1, AnswerRenews
  <1>12. CASE Lose \/ HostAppears \/ Withdraw \/ Unplug
    <2>1. faults' = faults + 1
      BY <1>12 DEF Lose, HostAppears, Withdraw, Unplug, Fault
    <2>. QED
      BY <2>1
  <1>13. CASE Plug
    BY <1>13 DEF Plug
  <1>. QED
    BY <1>7, <1>8, <1>9, <1>10, <1>11, <1>12, <1>13 DEF Next, Client

\* RenewInv is inductive, and the address stays.
LEMMA RenewNext ==
    ASSUME StuckInv, FreshWorks, CountFacts, faults \in Nat, faults = 0 => Connected,
           ShortLeases, RenewInv, [Next]_vars
    PROVE  /\ RenewInv'
           /\ faults' = 0 /\ dhcp.addr # ANY => dhcp'.addr = dhcp.addr
  <1>1. CASE UNCHANGED vars
    BY <1>1 DEF vars, RenewInv
  <1>2. CASE Next /\ faults' # 0
    BY <1>2 DEF RenewInv
  <1>3. CASE Next /\ faults' = 0
    <2>1. faults \in Nat /\ \E n \in Nat : faults' = faults + n
      <3>2. CASE Answer \/ Plug \/ PollLink
        <4>1. faults' = faults
          BY <3>2 DEF Answer, Plug, PollLink
        <4>. QED
          BY <4>1
      <3>3. CASE Lose \/ HostAppears \/ Withdraw \/ Unplug
        BY <3>3 DEF Lose, HostAppears, Withdraw, Unplug, Fault
      <3>4. CASE dhcp_fine_tmr
        BY <3>4 DEF dhcp_fine_tmr, Fault
      <3>5. CASE dhcp_coarse_tmr
        BY <3>5 DEF dhcp_coarse_tmr, Fault, CountFacts
      <3>6. ASSUME NEW m \in replies, NEW again \in BOOLEAN, Receive(m, again)
            PROVE  \E n \in Nat : faults' = faults + n
        BY <3>6 DEF Receive, Fault
      <3>. QED
        BY <1>3, <3>2, <3>3, <3>4, <3>5, <3>6 DEF Next, Client
    <2>2. faults = 0
      BY <1>3, <2>1
    <2>. QED
      BY <1>3, <2>2, RenewStep DEF RenewInv
  <1>. QED
    BY <1>1, <1>2, <1>3

-----------------------------------------------------------------------------
(* The theorem about the address.                                          *)

\* For any leases that T1's 16 bits can hold, any number of addresses and a
\* server that forgets a lease the moment it is over, an address once bound
\* stays on the interface as long as nothing goes wrong (dhcp_bind,
\* dhcp_coarse_tmr, dhcp_renew, dhcp_handle_ack).
THEOREM AddressIsRenewed ==
    ASSUME \A s \in LeaseTimes : s <= LongestRenewed
    PROVE  Spec => RenewedInTime
  <1> DEFINE Inv == ClientInv /\ HostsInv /\ RenewInv
             Stays == faults' = 0 /\ dhcp.addr # ANY => dhcp'.addr = dhcp.addr
  <1>1. Init => Inv
    BY ClientStep, HostsInit, RenewInit, Zenon
  <1>2. CountFacts /\ HostsInv => faults \in Nat /\ (faults = 0 => Connected)
    <2> SUFFICES ASSUME CountFacts, HostsInv, faults = 0 PROVE Connected
      BY DEF HostsInv
    <2>1. Linked
      BY DEF HostsInv, OnlyHosts, CountFacts
    <2>. QED
      BY <2>1 DEF Linked, Unlinked, Connected
  <1>3. ShortLeases
    BY DEF ShortLeases
  <1>4. Inv /\ [Next]_vars => Inv' /\ Stays
    BY <1>2, <1>3, ClientStep, HostsNext, RenewNext, Zenon
  <1>. QED
    BY <1>1, <1>4, PTL DEF Spec, RenewedInTime
=============================================================================

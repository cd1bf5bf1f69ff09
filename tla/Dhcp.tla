------------------------------- MODULE Dhcp -------------------------------
(***************************************************************************)
(* The DHCP client of lwIP (core/ipv4/dhcp.c) on the Ethernet interface,   *)
(* and the link-status poll of lwip_t41.c that restarts it.  The client    *)
(* runs in the main loop: each action below is one received message or one *)
(* enet_poll, which runs a timer that is due and then polls the link.      *)
(*                                                                         *)
(* The other end is external, modelled from how the code uses it: a wire   *)
(* that loses, delays and duplicates, a server that leases one address at  *)
(* a time to this client, hosts that answer ARP, and a PHY whose status    *)
(* bit stays low until it has been read.                                   *)
(*                                                                         *)
(* Time is counted in coarse ticks (DHCP_COARSE_TIMER_SECS).  A request    *)
(* times out within 60 s, so it sees at most one tick.                     *)
(***************************************************************************)
EXTENDS Integers, Sequences, FiniteSets, FiniteSetsExt

CONSTANTS Addrs,       \* the addresses the server hands out
          ANY,         \* IP_ADDR_ANY, the address of an unconfigured interface
          LeaseTimes,  \* the lease times the server may grant, in seconds
          Grace,       \* ticks the server keeps a lease beyond its time
          MaxFaults    \* bound on what goes wrong outside the client

\* The server grants whole minutes, and at least two of them.
ASSUME DhcpAssumption ==
    /\ ANY \notin Addrs /\ Cardinality(Addrs) > 1
    /\ LeaseTimes \subseteq Nat /\ \A s \in LeaseTimes : s % 60 = 0 /\ s >= 120
    /\ Grace \in Nat /\ MaxFaults \in Nat

VARIABLES dhcp,     \* struct dhcp, the interface's address and link flag, and
                    \* the messages sent that nobody has received yet
          replies,  \* the messages on their way to the client
          server,   \* the address leased to this client and the ticks left
          others,   \* the addresses other hosts use
          retired,  \* the addresses declined by the client, and those the
                    \* server has withdrawn: it no longer grants them
          phy,      \* up: the cable is plugged in; reg: the next status read
          faults    \* how many faults have happened

vars == <<dhcp, replies, server, others, retired, phy, faults>>

COARSE == 60    \* DHCP_COARSE_TIMER_SECS
U16_MAX == 65535
REBOOT_TRIES == 2
TRIES_CAP == 6  \* the code compares tries with at most 5

NoLease == [addr |-> ANY, left |-> 0]

-----------------------------------------------------------------------------
(* Sending.                                                                *)

\* A random transaction id differs from every id still in use.
FreshXid(d) ==
    LET used == {d.out[i].xid : i \in DOMAIN d.out} \cup {m.xid : m \in replies}
                  \cup {d.xid}
    IN  Min(0 .. Cardinality(used) \ used)

\* A state change forgets the tries and the request timer.
dhcp_set_state(d, s) ==
    IF d.state = s THEN d ELSE [d EXCEPT !.state = s, !.tries = 0, !.timer = 0]

\* A frame sent without a link is lost.
Transmit(d, type, a) ==
    IF phy.up THEN [d EXCEPT !.out = Append(@, [type |-> type, addr |-> a, xid |-> d.xid])]
              ELSE d

dhcp_create_msg_SameXid(d, type, a) == Transmit(d, type, a)

\* A REQUEST keeps the transaction id, any other message takes a new one
\* unless it is a retransmission.
dhcp_create_msg(d, type, a) ==
    Transmit(IF type # "REQUEST" /\ d.tries = 0 THEN [d EXCEPT !.xid = FreshXid(d)] ELSE d,
             type, a)

\* tries++ and request_timeout = ..., the end of every request.
Await(d) == [d EXCEPT !.tries = Min({@ + 1, TRIES_CAP}), !.timer = 1]

dhcp_discover(d) ==
    Await(dhcp_create_msg(dhcp_set_state([d EXCEPT !.offered = ANY], "SELECTING"),
                          "DISCOVER", ANY))

dhcp_select(d) ==
    Await(dhcp_create_msg(dhcp_set_state(d, "REQUESTING"), "REQUEST", d.offered))

\* RENEWING and REBINDING ask for the interface's address (ciaddr).
dhcp_renew(d) == Await(dhcp_create_msg(dhcp_set_state(d, "RENEWING"), "REQUEST", d.addr))
dhcp_rebind(d) == Await(dhcp_create_msg(dhcp_set_state(d, "REBINDING"), "REQUEST", d.addr))

dhcp_reboot(d) ==
    Await(dhcp_create_msg(dhcp_set_state(d, "REBOOTING"), "REQUEST", d.offered))

\* The ARP probe for the acknowledged address.
dhcp_check(d) == Await(Transmit(dhcp_set_state(d, "CHECKING"), "ARP", d.offered))

dhcp_decline(d) ==
    Await(dhcp_create_msg(dhcp_set_state(d, "BACKING_OFF"), "DECLINE", d.offered))

-----------------------------------------------------------------------------
(* Leases.                                                                 *)

\* Seconds to coarse ticks, rounded, at least one and at most 16 bits.
Ticks(secs) ==
    LET t == (secs + COARSE \div 2) \div COARSE
    IN  IF t = 0 THEN 1 ELSE IF t > U16_MAX THEN U16_MAX ELSE t

\* The ticks after which a lease is renewed, rebound and over, when the
\* server leaves T1 and T2 to handle_ack's defaults.
T0(lease) == Ticks(lease)
T1(lease) == Ticks(lease \div 2)
T2(lease) == Ticks((lease * 7) \div 8)

dhcp_bind_KeepUsed(d) ==
    [dhcp_set_state(d, "BOUND") EXCEPT
        !.addr = d.offered, !.t0 = T0(d.lease),
        !.t1 = T1(d.lease), !.t2 = T2(d.lease), !.t2_timeout = T2(d.lease)]

dhcp_bind(d) ==
    [dhcp_set_state(d, "BOUND") EXCEPT
        !.addr = d.offered, !.used = 0, !.t0 = T0(d.lease),
        !.t1 = T1(d.lease), !.t2 = T2(d.lease), !.t2_timeout = T2(d.lease)]

dhcp_handle_offer(d, m) == dhcp_select([d EXCEPT !.offered = m.addr])

dhcp_handle_ack(d, m) == [d EXCEPT !.lease = m.lease, !.offered = m.addr]

\* The timers of the old lease keep running.
dhcp_handle_nak(d) ==
    dhcp_discover([dhcp_set_state(d, "BACKING_OFF") EXCEPT !.addr = ANY])

dhcp_supplied_address(d) == d.state \in {"BOUND", "RENEWING"}

\* Without a supplied address the release ends before it sends the message
\* and before it removes the address.
dhcp_release(d) ==
    LET off == [dhcp_set_state(d, "OFF") EXCEPT
                   !.offered = ANY, !.lease = 0, !.t0 = 0, !.t1 = 0, !.t2 = 0, !.used = 0]
    IN  IF dhcp_supplied_address(d)
        THEN [dhcp_create_msg(off, "RELEASE", d.addr) EXCEPT !.addr = ANY]
        ELSE off

dhcp_t1_timeout(d) ==
    LET next == (d.t2_timeout - d.used) \div 2
        again == IF next >= 1 THEN [d EXCEPT !.t1 = next] ELSE d
    IN  IF d.state \in {"REQUESTING", "BOUND", "RENEWING"} THEN dhcp_renew(again) ELSE d

dhcp_t2_timeout(d) ==
    LET next == (d.t0 - d.used) \div 2
        again == IF next >= 1 THEN [d EXCEPT !.t2 = next] ELSE d
    IN  IF d.state \in {"REQUESTING", "BOUND", "RENEWING", "REBINDING"}
        THEN dhcp_rebind(again) ELSE d

-----------------------------------------------------------------------------
(* The callbacks, as functions of the client.                              *)

dhcp_timeout_NoRediscover(d) ==
    CASE d.state = "SELECTING" -> dhcp_discover(d)
      [] d.state = "REQUESTING" -> IF d.tries <= 5 THEN dhcp_select(d)
                                                   ELSE dhcp_discover(dhcp_release(d))
      [] d.state = "CHECKING" -> IF d.tries <= 1 THEN dhcp_check(d) ELSE dhcp_bind(d)
      [] d.state = "REBOOTING" /\ d.tries < REBOOT_TRIES -> dhcp_reboot(d)
      [] OTHER -> d

dhcp_timeout(d) ==
    CASE d.state \in {"BACKING_OFF", "SELECTING"} -> dhcp_discover(d)
      [] d.state = "REQUESTING" -> IF d.tries <= 5 THEN dhcp_select(d)
                                                   ELSE dhcp_discover(dhcp_release(d))
      [] d.state = "CHECKING" -> IF d.tries <= 1 THEN dhcp_check(d) ELSE dhcp_bind(d)
      [] d.state = "REBOOTING" -> IF d.tries < REBOOT_TRIES THEN dhcp_reboot(d)
                                                            ELSE dhcp_discover(d)
      [] OTHER -> d

\* The first timer that is due decides; the ones after it are not even
\* decremented on that tick.
CoarseTimer(d) ==
    LET u == IF d.t0 > 0 THEN [d EXCEPT !.used = @ + 1] ELSE d
        r == [u EXCEPT !.t2 = Max({0, @ - 1})]
        w == [r EXCEPT !.t1 = Max({0, @ - 1})]
    IN  IF d.t0 > 0 /\ u.used = d.t0 THEN dhcp_discover(dhcp_release(u))
        ELSE IF d.t2 = 1 THEN dhcp_t2_timeout(r)
        ELSE IF d.t1 = 1 THEN dhcp_t1_timeout(w)
        ELSE w

dhcp_arp_reply_OwnAddr(d, m) ==
    IF d.state = "CHECKING" /\ m.addr = d.addr THEN dhcp_decline(d) ELSE d

dhcp_arp_reply(d, m) ==
    IF d.state = "CHECKING" /\ m.addr = d.offered THEN dhcp_decline(d) ELSE d

dhcp_recv(d, m) ==
    IF m.xid # d.xid THEN d ELSE
    CASE m.type = "ACK" /\ d.state = "REQUESTING" -> dhcp_check(dhcp_handle_ack(d, m))
      [] m.type = "ACK" /\ d.state \in {"REBOOTING", "REBINDING", "RENEWING"} ->
            dhcp_bind(dhcp_handle_ack(d, m))
      [] m.type = "NAK" /\ d.state \in {"REBOOTING", "REQUESTING", "REBINDING", "RENEWING"} ->
            dhcp_handle_nak(d)
      [] m.type = "OFFER" /\ d.state = "SELECTING" ->
            dhcp_handle_offer([d EXCEPT !.timer = 0], m)
      [] OTHER -> d

dhcp_network_changed(d) ==
    IF d.state \in {"REBINDING", "RENEWING", "BOUND", "REBOOTING"}
    THEN dhcp_reboot([d EXCEPT !.tries = 0])
    ELSE dhcp_discover([d EXCEPT !.tries = 0])

netif_set_link_up(d) == dhcp_network_changed([d EXCEPT !.link = TRUE])
netif_set_link_down(d) == [d EXCEPT !.link = FALSE]

\* The interface is told when the PHY's status differs from its link flag.
check_link_status(d) ==
    IF phy.reg = d.link THEN d
    ELSE IF phy.reg THEN netif_set_link_up(d) ELSE netif_set_link_down(d)

-----------------------------------------------------------------------------
(* The client's actions.                                                   *)

InFlight == dhcp.out # <<>> \/ replies # {}

\* A fault happens, while the bound allows one.
Fault(n) == faults + n <= MaxFaults /\ faults' = faults + n

\* Every enet_poll reads the status register after it has run the timers.
enet_poll(d) ==
    /\ dhcp' = check_link_status(d)
    /\ phy' = [phy EXCEPT !.reg = phy.up]

\* No timer is due.
PollLink ==
    /\ phy.reg # phy.up \/ phy.reg # dhcp.link
    /\ enet_poll(dhcp)
    /\ UNCHANGED <<replies, server, others, retired, faults>>

\* The request timer runs out.  With an answer still on its way it has run
\* out early: the network was slow.
dhcp_fine_tmr ==
    /\ dhcp.timer > 0
    /\ Fault(IF InFlight THEN 1 ELSE 0)
    /\ enet_poll(dhcp_timeout([dhcp EXCEPT !.timer = 0]))
    /\ UNCHANGED <<replies, server, others, retired>>

\* A minute passes, for the server too.  A reply that it overtakes is late.
dhcp_coarse_tmr ==
    /\ dhcp.out = <<>> /\ dhcp.timer < 2 /\ \A m \in replies : ~m.late
    /\ Fault(Cardinality(replies))
    /\ enet_poll(CoarseTimer([dhcp EXCEPT !.timer = 2 * @]))
    /\ replies' = {[m EXCEPT !.late = TRUE] : m \in replies}
    /\ server' = IF server.left > 1 THEN [server EXCEPT !.left = @ - 1]
                                    ELSE NoLease
    /\ UNCHANGED <<others, retired>>

\* A message arrives; duplicated, it will arrive again.
Receive(m, again) ==
    /\ Fault(IF again THEN 1 ELSE 0)
    /\ replies' = IF again THEN replies ELSE replies \ {m}
    /\ dhcp' = IF m.type = "ARPREPLY" THEN dhcp_arp_reply(dhcp, m) ELSE dhcp_recv(dhcp, m)
    /\ UNCHANGED <<server, others, retired, phy>>

-----------------------------------------------------------------------------
(* Everything else (external).                                             *)

Reply(type, a, secs, x) ==
    replies' = replies \cup {[type |-> type, addr |-> a, lease |-> secs, xid |-> x,
                              late |-> FALSE]}

\* The server and the other hosts answer the oldest message on the wire.  A
\* server offers a client the address it holds, refuses any other, and does
\* not take back time that it has granted.
Answer ==
    /\ dhcp.out # <<>>
    /\ dhcp' = [dhcp EXCEPT !.out = Tail(@)]
    /\ LET m == Head(dhcp.out)
           mine(a) == a = server.addr \/ (server.addr = ANY /\ a \in Addrs \ retired)
       IN  \/ /\ m.type = "DISCOVER"
              /\ \E a \in Addrs : mine(a) /\ Reply("OFFER", a, 0, m.xid)
              /\ UNCHANGED <<server, retired>>
           \/ /\ m.type = "REQUEST" /\ m.addr # ANY /\ mine(m.addr)
              /\ \E secs \in LeaseTimes :
                    /\ server' = [addr |-> m.addr,
                                  left |-> Max({server.left, secs \div 60 + Grace})]
                    /\ Reply("ACK", m.addr, secs, m.xid)
              /\ UNCHANGED retired
           \/ /\ m.type = "REQUEST" /\ m.addr # ANY /\ ~mine(m.addr)
              /\ Reply("NAK", ANY, 0, m.xid)
              /\ UNCHANGED <<server, retired>>
           \/ /\ m.type = "REQUEST" /\ m.addr = ANY
              /\ UNCHANGED <<replies, server, retired>>
           \/ /\ m.type \in {"RELEASE", "DECLINE"}
              /\ server' = IF m.addr = server.addr THEN NoLease ELSE server
              /\ retired' = IF m.type = "DECLINE" THEN retired \cup {m.addr} ELSE retired
              /\ UNCHANGED replies
           \/ /\ m.type = "ARP"
              /\ IF m.addr \in others THEN Reply("ARPREPLY", m.addr, 0, m.xid)
                                      ELSE UNCHANGED replies
              /\ UNCHANGED <<server, retired>>
    /\ UNCHANGED <<others, phy, faults>>

Lose ==
    /\ Fault(1)
    /\ \/ \E m \in replies : replies' = replies \ {m} /\ UNCHANGED dhcp
       \/ /\ dhcp.out # <<>>
          /\ dhcp' = [dhcp EXCEPT !.out = Tail(@)] /\ UNCHANGED replies
    /\ UNCHANGED <<server, others, retired, phy>>

\* Another host starts to use an address that is neither on the interface nor
\* being probed already; one address stays free.
HostAppears ==
    /\ Fault(1)
    /\ \E a \in Addrs \ {dhcp.addr, dhcp.offered} :
          a \notin others /\ others \cup retired \cup {a} # Addrs /\ others' = others \cup {a}
    /\ UNCHANGED <<dhcp, replies, server, retired, phy>>

\* The server, reconfigured, no longer knows the address it has leased.
Withdraw ==
    /\ Fault(1)
    /\ server.addr # ANY /\ others \cup retired \cup {server.addr} # Addrs
    /\ retired' = retired \cup {server.addr}
    /\ server' = NoLease
    /\ UNCHANGED <<dhcp, replies, others, phy>>

\* The cable comes out, with all that is on it.
Unplug ==
    /\ phy.up /\ Fault(1)
    /\ phy' = [up |-> FALSE, reg |-> FALSE]
    /\ dhcp' = [dhcp EXCEPT !.out = <<>>] /\ replies' = {}
    /\ UNCHANGED <<server, others, retired>>

Plug ==
    /\ ~phy.up
    /\ phy' = [phy EXCEPT !.up = TRUE]
    /\ UNCHANGED <<dhcp, replies, server, others, retired, faults>>

\* dhcp_start has sent the first DISCOVER, and no link has been seen yet.
Init ==
    /\ phy \in [up : BOOLEAN, reg : BOOLEAN] /\ phy.reg = phy.up
    /\ dhcp = [state |-> "SELECTING", tries |-> 1, timer |-> 1, xid |-> 0, offered |-> ANY,
               lease |-> 0, t0 |-> 0, t1 |-> 0, t2 |-> 0, t2_timeout |-> 0, used |-> 0,
               addr |-> ANY, link |-> FALSE,
               out |-> IF phy.up THEN <<[type |-> "DISCOVER", addr |-> ANY, xid |-> 0]>>
                                 ELSE <<>>]
    /\ replies = {} /\ server = NoLease
    /\ others = {} /\ retired = {} /\ faults = 0

Client == PollLink \/ dhcp_fine_tmr \/ dhcp_coarse_tmr
              \/ \E m \in replies, again \in BOOLEAN : Receive(m, again)

Next == Client \/ Answer \/ Lose \/ HostAppears \/ Withdraw \/ Unplug \/ Plug

Spec == Init /\ [][Next]_vars

\* When a poll, the fine timer and the coarse timer have something to do.
LinkDue == phy.reg # phy.up \/ phy.reg # dhcp.link
FineDue == phy.up /\ dhcp.timer > 0 /\ (InFlight => faults < MaxFaults)
CoarseDue ==
    /\ dhcp.out = <<>> /\ dhcp.timer < 2 /\ replies = {}
    /\ dhcp.timer + dhcp.t0 + dhcp.t1 + dhcp.t2 + server.left > 0

\* The main loop runs its timers and polls the PHY: weak fairness, with the
\* guard of each timer, and that it changes anything, written out.  The wire
\* carries a message in less time than any timer takes, so it is empty again
\* and again.
FairSpec ==
    /\ Spec
    /\ []<>~LinkDue
    /\ ([]<>~FineDue \/ []<><<dhcp_fine_tmr>>_vars)
    /\ ([]<>~CoarseDue \/ []<><<dhcp_coarse_tmr>>_vars)
    /\ []<>(dhcp.out = <<>>) /\ []<>(replies = {})

-----------------------------------------------------------------------------
(* Properties.                                                             *)

\* While the client is BOUND (dhcp_bind, dhcp_coarse_tmr), the server holds
\* the interface's address for it for at least as long as the client's own
\* lease timer will run: whatever was late, lost, repeated or declined, the
\* client never counts on a lease that has run out at the server.
BoundIsLeased ==
    dhcp.state = "BOUND" /\ dhcp.addr \notin retired =>
        server.addr = dhcp.addr /\ dhcp.t0 - dhcp.used <= server.left

\* When hosts that already use an address are all that goes wrong, the
\* client never puts such an address on the interface: dhcp_check's probe is
\* answered before the check times out, and dhcp_arp_reply declines.
TakenIsDeclined == faults = Cardinality(others) => dhcp.addr \notin others

\* As long as nothing goes wrong outside the client, an address once bound
\* stays on the interface: the renewal that dhcp_bind schedules from the
\* rounded T1 always comes before the lease runs out.
RenewedInTime ==
    [][faults' = 0 /\ dhcp.addr # ANY => dhcp'.addr = dhcp.addr]_vars

\* With the cable in, the client is BOUND again and again: no loss, delay,
\* refusal, address conflict or link drop leaves dhcp_timeout,
\* dhcp_coarse_tmr and dhcp_network_changed in a state with no way on.
BoundAgain == []<>(~phy.up \/ dhcp.state = "BOUND")

\* An address on the interface belongs to a running lease: when the lease
\* has expired, dhcp_coarse_tmr has dhcp_release remove the address.
AddressHasLease == dhcp.addr # ANY => dhcp.t0 > 0

=============================================================================

---------------------------- MODULE DhcpProofs ----------------------------
(***************************************************************************)
(* For which leases the client's timers are in order: dhcp_coarse_tmr      *)
(* looks at the expiry first, so a renewal that is due on the same tick    *)
(* never takes place.  What each function of dhcp.c does to the client,    *)
(* and two invariants: a timer that leads on always runs (StuckInv), and   *)
(* while other hosts are all that goes wrong the client has the address of *)
(* none of them (HostsInv).                                                *)
(*                                                                         *)
(* That a new transaction id is one that no message carries (FreshWorks),  *)
(* and what is known of the sizes of the sets of messages and hosts        *)
(* (CountFacts), are shown at the end, where the theorems are.             *)
(***************************************************************************)
EXTENDS Dhcp, FiniteSetTheorems, TLAPS

\* The longest lease whose T1 is not cut off at 16 bits, in seconds.
LongestRenewed == 2 * (60 * U16_MAX - 31) + 1

\* Division by 60, as the range of what is divided.
LEMMA Div60 ==
    ASSUME NEW a \in Nat
    PROVE  a \div 60 \in Nat /\ 60 * (a \div 60) <= a /\ a < 60 * (a \div 60) + 60
  BY SMT

\* The largest value of the 16-bit timers.
LEMMA U16Large ==
    U16_MAX \in Nat /\ U16_MAX > 2
  BY SMT DEF U16_MAX

\* Rounding to ticks, as a range of seconds (dhcp_bind).
LEMMA TicksRange ==
    ASSUME NEW s \in Nat
    PROVE  \/ s < 90 /\ Ticks(s) = 1
           \/ s >= 60 * U16_MAX - 30 /\ Ticks(s) = U16_MAX
           \/ /\ Ticks(s) \in 2 .. U16_MAX
              /\ 60 * Ticks(s) <= s + 30 /\ s + 30 < 60 * Ticks(s) + 60
  <1> DEFINE t == (s + 30) \div 60
  <1>1. t \in Nat /\ 60 * t <= s + 30 /\ s + 30 < 60 * t + 60
    BY Div60
  <1>2. COARSE \div 2 = 30
    BY DEF COARSE
  <1>3. Ticks(s) = IF t = 0 THEN 1 ELSE IF t > U16_MAX THEN U16_MAX ELSE t
    BY <1>2 DEF Ticks, COARSE
  <1> HIDE DEF t
  <1>. QED
    BY <1>1, <1>3, U16Large, SMT

\* The halves and seven eighths that handle_ack computes.
LEMMA Halves ==
    ASSUME NEW a \in Nat
    PROVE  /\ a \div 2 \in Nat /\ 2 * (a \div 2) <= a /\ a <= 2 * (a \div 2) + 1
           /\ (a * 7) \div 8 \in Nat
           /\ 8 * ((a * 7) \div 8) <= 7 * a /\ 7 * a < 8 * ((a * 7) \div 8) + 8
  BY SMT

\* Every lease of at least 90 seconds, up to the one whose renewal time
\* reaches the largest 16-bit number of minutes, is renewed on an earlier
\* tick than the one on which it expires.
THEOREM RenewalComesFirst ==
    ASSUME NEW lease \in Nat, lease >= 90, lease <= LongestRenewed
    PROVE  T1(lease) < T0(lease)
  BY TicksRange, Halves, U16Large, SMT DEF T0, T1, LongestRenewed

\* Outside that range the renewal falls on the tick of the expiry, which
\* comes first: such a lease is never renewed.
THEOREM NeverRenewedOutside ==
    ASSUME NEW lease \in Nat, lease < 90 \/ lease > LongestRenewed
    PROVE  T1(lease) = T0(lease)
  BY TicksRange, Halves, U16Large, SMT DEF T0, T1, LongestRenewed

\* The rebind time lies between the renewal and the expiry, for every lease.
THEOREM TimersInOrder ==
    ASSUME NEW lease \in Nat
    PROVE  T1(lease) <= T2(lease) /\ T2(lease) <= T0(lease)
  BY TicksRange, Halves, U16Large, SMT DEF T0, T1, T2

-----------------------------------------------------------------------------
(* A timer that leads on runs in every state.                              *)

Fields == {"state", "tries", "timer", "xid", "offered", "lease", "t0", "t1", "t2",
           "t2_timeout", "used", "addr", "link", "out"}
Asking == {"SELECTING", "REQUESTING", "CHECKING", "BACKING_OFF", "REBOOTING"}
Leased == {"BOUND", "RENEWING", "REBINDING"}

\* In a state that waits for an answer the request timer runs, and in the
\* others the lease has ticks left: there is no state in which neither
\* dhcp_fine_tmr nor dhcp_coarse_tmr will move the client on.
NeverStuck ==
    \/ dhcp.state \in Asking /\ dhcp.timer > 0
    \/ dhcp.state \in Leased /\ dhcp.used < dhcp.t0

Shape(d) ==
    /\ d = [f \in Fields |-> d[f]]
    /\ d.timer \in Nat /\ d.lease \in Nat /\ d.used \in Nat /\ d.t2_timeout \in Nat
    /\ d.t0 \in Nat /\ d.t1 \in Nat /\ d.t2 \in Nat

SameLease(d, e) ==
    /\ e.t0 = d.t0 /\ e.t1 = d.t1 /\ e.t2 = d.t2 /\ e.used = d.used
    /\ e.lease = d.lease /\ e.t2_timeout = d.t2_timeout

\* Assignments to the timers, and those of a received ACK.
WithLease(d, a, x, y, z) ==
    [d EXCEPT !.addr = a, !.used = 0, !.t0 = x, !.t1 = y, !.t2 = z, !.t2_timeout = z]
WithT1(d, n) == [d EXCEPT !.t1 = n]
WithT2(d, n) == [d EXCEPT !.t2 = n]
WithTimer(d, n) == [d EXCEPT !.timer = n]
WithAck(d, secs, a) == [d EXCEPT !.lease = secs, !.offered = a]

-----------------------------------------------------------------------------
(* What a function of dhcp.c sends, and under which transaction id.        *)

Hosts == Addrs \cup {ANY}
Drops == {"RELEASE", "DECLINE"}
Sent == [type : {"DISCOVER", "REQUEST", "ARP"} \cup Drops, addr : Hosts, xid : Nat]
Answers == [type : {"OFFER", "ACK", "NAK", "ARPREPLY"}, addr : Hosts, lease : Nat,
            xid : Nat, late : BOOLEAN]

Typed(d) ==
    /\ Shape(d) /\ d.tries \in Nat /\ d.xid \in Nat
    /\ d.offered \in Hosts /\ d.addr \in Hosts /\ d.out \in Seq(Sent)

\* No message on the wire, in either direction, has the transaction id x.
New(x, d) ==
    /\ x \in Nat /\ x # d.xid
    /\ \A i \in DOMAIN d.out : d.out[i].xid # x
    /\ \A m \in replies : m.xid # x

\* What is known of the sizes of these sets.
CountFacts ==
    /\ Cardinality({}) = 0 /\ Cardinality(others) \in Nat
    /\ \A a : Cardinality(others \cup {a}) =
                 IF a \in others THEN Cardinality(others) ELSE Cardinality(others) + 1
    /\ Cardinality(replies) \in Nat /\ (Cardinality(replies) = 0 => replies = {})

\* The fields that only a new lease changes.
SameClient(d, e) ==
    SameLease(d, e) /\ e.addr = d.addr /\ e.offered = d.offered /\ e.link = d.link

\* e is d after it has sent a message of this type about a, unless the link
\* was down: under the same transaction id or under a new one.
Sends(d, e, type, a) ==
    /\ Typed(e) /\ SameClient(d, e)
    /\ e.out = IF phy.up THEN Append(d.out, [type |-> type, addr |-> a, xid |-> e.xid])
                          ELSE d.out
    /\ e.xid = d.xid \/ New(e.xid, d)

\* e is d after a request that puts it into state s.
Turns(d, e, s, type, a) ==
    /\ Sends(d, e, type, a) /\ e.state = s /\ e.timer = 1
    /\ e.tries = IF d.state # s THEN 1 ELSE IF d.tries < TRIES_CAP THEN d.tries + 1
                                                                  ELSE TRIES_CAP
    /\ type \in {"REQUEST", "ARP"} => e.xid = d.xid
    /\ type \in {"DISCOVER", "DECLINE"} /\ (d.state # s \/ d.tries = 0) => New(e.xid, d)

\* FreshXid finds such an id.
FreshWorks == \A d : Typed(d) => New(FreshXid(d), d)

\* The pieces of a request.
LEMMA StateSet ==
    ASSUME NEW d, Typed(d), NEW s
    PROVE  LET e == dhcp_set_state(d, s)
           IN  /\ Typed(e) /\ SameClient(d, e) /\ e.state = s
               /\ e.out = d.out /\ e.xid = d.xid
               /\ e.tries = IF d.state = s THEN d.tries ELSE 0
  BY Zenon DEF Typed, Shape, SameClient, SameLease, Fields, dhcp_set_state

\* A request ends with a timer, and one more try.
LEMMA Awaits ==
    ASSUME NEW d, Typed(d)
    PROVE  LET e == Await(d)
           IN  /\ Typed(e) /\ SameClient(d, e) /\ e.state = d.state
               /\ e.out = d.out /\ e.xid = d.xid /\ e.timer = 1
               /\ e.tries = IF d.tries < TRIES_CAP THEN d.tries + 1 ELSE TRIES_CAP
  <1>1. d.tries \in Nat /\ TRIES_CAP = 6
    BY DEF Typed, TRIES_CAP
  <1>2. Min({d.tries + 1, TRIES_CAP}) = IF d.tries < TRIES_CAP THEN d.tries + 1 ELSE TRIES_CAP
    BY <1>1 DEF Min
  <1> DEFINE n == Min({d.tries + 1, TRIES_CAP})
  <1>3. n \in Nat
    BY <1>1, <1>2
  <1>4. Await(d) = [d EXCEPT !.tries = n, !.timer = 1]
    BY Zenon DEF Await
  <1> HIDE DEF n
  <1>5. LET e == [d EXCEPT !.tries = n, !.timer = 1]
        IN  /\ Typed(e) /\ SameClient(d, e) /\ e.state = d.state
            /\ e.out = d.out /\ e.xid = d.xid /\ e.timer = 1 /\ e.tries = n
    BY <1>3, Zenon DEF Typed, Shape, SameClient, SameLease, Fields
  <1>. QED
    BY <1>2, <1>4, <1>5 DEF n

\* A message that is sent, or lost for want of a link.
LEMMA Transmits ==
    ASSUME NEW d, Typed(d), NEW type, NEW a \in Hosts,
           type \in {"DISCOVER", "REQUEST", "ARP"} \cup Drops
    PROVE  LET e == Transmit(d, type, a)
           IN  /\ Sends(d, e, type, a)
               /\ e.state = d.state /\ e.tries = d.tries /\ e.xid = d.xid
  <1> DEFINE msg == [type |-> type, addr |-> a, xid |-> d.xid]
             o == Append(d.out, msg)
  <1>1. msg \in Sent
    BY DEF Typed, Sent
  <1>2. o \in Seq(Sent)
    BY <1>1 DEF Typed
  <1>3. Transmit(d, type, a) = IF phy.up THEN [d EXCEPT !.out = o] ELSE d
    BY Zenon DEF Transmit
  <1> HIDE DEF o
  <1>4. LET e == [d EXCEPT !.out = o]
        IN  /\ Typed(e) /\ SameClient(d, e) /\ e.state = d.state
            /\ e.out = o /\ e.xid = d.xid /\ e.tries = d.tries
    BY <1>2, Zenon DEF Typed, Shape, SameClient, SameLease, Fields
  <1>5. SameClient(d, d)
    BY DEF SameClient, SameLease
  <1>. QED
    BY <1>3, <1>4, <1>5 DEF Sends, o

\* dhcp_create_msg: the transaction id of a REQUEST is the old one.
LEMMA Creates ==
    ASSUME NEW d, Typed(d), FreshWorks, NEW type, NEW a \in Hosts,
           type \in {"DISCOVER", "REQUEST", "ARP"} \cup Drops
    PROVE  LET e == dhcp_create_msg(d, type, a)
           IN  /\ Sends(d, e, type, a) /\ e.state = d.state /\ e.tries = d.tries
               /\ type = "REQUEST" => e.xid = d.xid
               /\ type # "REQUEST" /\ d.tries = 0 => New(e.xid, d)
  <1> DEFINE x == FreshXid(d)
             f == [d EXCEPT !.xid = x]
  <1>1. New(x, d) /\ x \in Nat
    BY DEF New, FreshWorks
  <1> HIDE DEF x
  <1>2. /\ Typed(f) /\ SameClient(d, f) /\ f.state = d.state
        /\ f.out = d.out /\ f.xid = x /\ f.tries = d.tries
    BY <1>1, Zenon DEF Typed, Shape, SameClient, SameLease, Fields
  <1>3. dhcp_create_msg(d, type, a) =
          Transmit(IF type # "REQUEST" /\ d.tries = 0 THEN f ELSE d, type, a)
    BY Zenon DEF dhcp_create_msg, x
  <1> HIDE DEF f
  <1>4. CASE type # "REQUEST" /\ d.tries = 0
    <2> DEFINE e == Transmit(f, type, a)
    <2>1. /\ Sends(f, e, type, a)
          /\ e.state = f.state /\ e.tries = f.tries /\ e.xid = f.xid
      BY <1>2, Transmits
    <2>2. dhcp_create_msg(d, type, a) = e
      BY <1>3, <1>4
    <2> HIDE DEF e
    <2>. QED
      BY <1>1, <1>2, <1>4, <2>1, <2>2 DEF Sends, SameClient, SameLease
  <1>5. CASE ~(type # "REQUEST" /\ d.tries = 0)
    BY <1>3, <1>5, Transmits
  <1>. QED
    BY <1>4, <1>5

\* A request: a new state, a message and a timer.
LEMMA RequestTurns ==
    ASSUME NEW d, Typed(d), FreshWorks, NEW s, NEW type, NEW a \in Hosts,
           type \in {"DISCOVER", "REQUEST", "DECLINE"}
    PROVE  Turns(d, Await(dhcp_create_msg(dhcp_set_state(d, s), type, a)), s, type, a)
  <1> DEFINE e == dhcp_set_state(d, s)
             f == dhcp_create_msg(e, type, a)
             g == Await(f)
  <1>1. /\ Typed(e) /\ SameClient(d, e) /\ e.state = s
        /\ e.out = d.out /\ e.xid = d.xid
        /\ e.tries = IF d.state = s THEN d.tries ELSE 0
    BY StateSet
  <1> HIDE DEF e
  <1>2. /\ Sends(e, f, type, a) /\ f.state = e.state /\ f.tries = e.tries
        /\ type = "REQUEST" => f.xid = e.xid
        /\ type # "REQUEST" /\ e.tries = 0 => New(f.xid, e)
    BY <1>1, Creates DEF Drops
  <1> HIDE DEF f
  <1>3. /\ Typed(g) /\ SameClient(f, g) /\ g.state = f.state
        /\ g.out = f.out /\ g.xid = f.xid /\ g.timer = 1
        /\ g.tries = IF f.tries < TRIES_CAP THEN f.tries + 1 ELSE TRIES_CAP
    BY <1>2, Awaits DEF Sends
  <1> HIDE DEF g
  <1>4. Sends(d, g, type, a)
    BY <1>1, <1>2, <1>3 DEF Sends, SameClient, SameLease, New
  <1>5. New(f.xid, e) => New(g.xid, d)
    BY <1>1, <1>3 DEF New
  <1>6. TRIES_CAP = 6 /\ d.tries \in Nat
    BY DEF Typed, TRIES_CAP
  <1>7. Turns(d, g, s, type, a)
    BY <1>1, <1>2, <1>3, <1>4, <1>5, <1>6 DEF Turns
  <1>. QED
    BY <1>7 DEF e, f, g

\* The probe has no transaction of its own.
LEMMA CheckTurns ==
    ASSUME NEW d, Typed(d)
    PROVE  Turns(d, dhcp_check(d), "CHECKING", "ARP", d.offered)
  <1> DEFINE e == dhcp_set_state(d, "CHECKING")
             f == Transmit(e, "ARP", d.offered)
             g == Await(f)
  <1>1. /\ Typed(e) /\ SameClient(d, e) /\ e.state = "CHECKING"
        /\ e.out = d.out /\ e.xid = d.xid
        /\ e.tries = IF d.state = "CHECKING" THEN d.tries ELSE 0
    BY StateSet
  <1>2. d.offered \in Hosts
    BY DEF Typed
  <1> HIDE DEF e
  <1>3. /\ Sends(e, f, "ARP", d.offered)
        /\ f.state = e.state /\ f.tries = e.tries /\ f.xid = e.xid
    BY <1>1, <1>2, Transmits
  <1> HIDE DEF f
  <1>4. /\ Typed(g) /\ SameClient(f, g) /\ g.state = f.state
        /\ g.out = f.out /\ g.xid = f.xid /\ g.timer = 1
        /\ g.tries = IF f.tries < TRIES_CAP THEN f.tries + 1 ELSE TRIES_CAP
    BY <1>3, Awaits DEF Sends
  <1> HIDE DEF g
  <1>5. Sends(d, g, "ARP", d.offered)
    BY <1>1, <1>3, <1>4 DEF Sends, SameClient, SameLease, New
  <1>6. TRIES_CAP = 6 /\ d.tries \in Nat
    BY DEF Typed, TRIES_CAP
  <1>7. Turns(d, g, "CHECKING", "ARP", d.offered)
    BY <1>1, <1>3, <1>4, <1>5, <1>6 DEF Turns
  <1>. QED
    BY <1>7, Zenon DEF e, f, g, dhcp_check

\* Assignments outside the conversation.
LEMMA SetOffered ==
    ASSUME NEW d, Typed(d), NEW a \in Hosts
    PROVE  LET e == [d EXCEPT !.offered = a]
           IN  /\ Typed(e) /\ e.offered = a /\ e.out = d.out /\ e.xid = d.xid
               /\ e.state = d.state /\ e.tries = d.tries /\ e.timer = d.timer
               /\ e.addr = d.addr /\ e.link = d.link /\ SameLease(d, e)
  BY Zenon DEF Typed, Shape, SameLease, Fields

\* The interface's address.
LEMMA SetAddr ==
    ASSUME NEW d, Typed(d), NEW a \in Hosts
    PROVE  LET e == [d EXCEPT !.addr = a]
           IN  /\ Typed(e) /\ e.addr = a /\ e.out = d.out /\ e.xid = d.xid
               /\ e.state = d.state /\ e.tries = d.tries /\ e.timer = d.timer
               /\ e.offered = d.offered /\ e.link = d.link /\ SameLease(d, e)
  BY Zenon DEF Typed, Shape, SameLease, Fields

\* The interface's link flag.
LEMMA SetLink ==
    ASSUME NEW d, Typed(d), NEW b
    PROVE  LET e == [d EXCEPT !.link = b]
           IN  /\ Typed(e) /\ e.link = b /\ e.out = d.out /\ e.xid = d.xid
               /\ e.state = d.state /\ e.tries = d.tries /\ e.timer = d.timer
               /\ e.offered = d.offered /\ e.addr = d.addr /\ SameLease(d, e)
  BY Zenon DEF Typed, Shape, SameLease, Fields

\* The tries.
LEMMA SetTries ==
    ASSUME NEW d, Typed(d), NEW n \in Nat
    PROVE  LET e == [d EXCEPT !.tries = n]
           IN  /\ Typed(e) /\ SameClient(d, e) /\ e.tries = n /\ e.out = d.out
               /\ e.xid = d.xid /\ e.state = d.state /\ e.timer = d.timer
  BY Zenon DEF Typed, Shape, SameClient, SameLease, Fields

\* The request timer.
LEMMA SetTimer ==
    ASSUME NEW d, Typed(d), NEW n \in Nat
    PROVE  LET e == WithTimer(d, n)
           IN  /\ Typed(e) /\ SameClient(d, e) /\ e.timer = n /\ e.out = d.out
               /\ e.xid = d.xid /\ e.state = d.state /\ e.tries = d.tries
  BY Zenon DEF Typed, Shape, SameClient, SameLease, Fields, WithTimer

\* The messages on the wire, of which the oldest leaves it first.
LEMMA SetOut ==
    ASSUME NEW d, Typed(d), NEW o \in Seq(Sent)
    PROVE  LET e == [d EXCEPT !.out = o]
           IN  /\ Typed(e) /\ SameClient(d, e) /\ e.timer = d.timer /\ e.out = o
               /\ e.xid = d.xid /\ e.state = d.state /\ e.tries = d.tries
  BY Zenon DEF Typed, Shape, SameClient, SameLease, Fields

Popped(d) == [d EXCEPT !.out = Tail(d.out)]


\* No RELEASE or DECLINE is on the wire.
NoDrops(d) == \A i \in DOMAIN d.out : d.out[i].type \notin Drops

\* The timers of the lease.
SameButTimers(d, e) ==
    /\ e.state = d.state /\ e.timer = d.timer /\ e.tries = d.tries /\ e.out = d.out
    /\ e.xid = d.xid /\ e.lease = d.lease /\ e.offered = d.offered /\ e.addr = d.addr
    /\ e.link = d.link /\ e.t0 = d.t0

\* The ticks of the lease that are used up.
LEMMA SetUsed ==
    ASSUME NEW d, Typed(d), NEW n \in Nat
    PROVE  LET e == [d EXCEPT !.used = n]
           IN  Typed(e) /\ SameButTimers(d, e) /\ e.used = n /\ e.t1 = d.t1 /\ e.t2 = d.t2
  BY Zenon DEF Typed, Shape, SameButTimers, Fields

\* T1 alone.
LEMMA SetT1 ==
    ASSUME NEW d, Typed(d), NEW n \in Nat
    PROVE  LET e == WithT1(d, n)
           IN  Typed(e) /\ SameButTimers(d, e) /\ e.used = d.used /\ e.t1 = n /\ e.t2 = d.t2
  BY Zenon DEF Typed, Shape, SameButTimers, Fields, WithT1

\* T2 alone.
LEMMA SetT2 ==
    ASSUME NEW d, Typed(d), NEW n \in Nat
    PROVE  LET e == WithT2(d, n)
           IN  Typed(e) /\ SameButTimers(d, e) /\ e.used = d.used /\ e.t1 = d.t1 /\ e.t2 = n
  BY Zenon DEF Typed, Shape, SameButTimers, Fields, WithT2

\* dhcp_discover forgets the address on offer first.
Discovers(d, e) ==
    LET o == [d EXCEPT !.offered = ANY]
    IN  /\ Typed(o) /\ o.out = d.out /\ o.xid = d.xid /\ o.timer = d.timer
        /\ Turns(o, e, "SELECTING", "DISCOVER", ANY)
        /\ e.state = "SELECTING" /\ e.addr = d.addr /\ e.link = d.link /\ SameLease(d, e)
        /\ d.state # "SELECTING" \/ d.tries = 0 => New(e.xid, d)

\* What each request of the client sends, and in which state it leaves it.
LEMMA Requests ==
    ASSUME NEW d, Typed(d), FreshWorks
    PROVE  /\ Discovers(d, dhcp_discover(d))
           /\ Turns(d, dhcp_select(d), "REQUESTING", "REQUEST", d.offered)
           /\ Turns(d, dhcp_renew(d), "RENEWING", "REQUEST", d.addr)
           /\ Turns(d, dhcp_rebind(d), "REBINDING", "REQUEST", d.addr)
           /\ Turns(d, dhcp_reboot(d), "REBOOTING", "REQUEST", d.offered)
           /\ Turns(d, dhcp_decline(d), "BACKING_OFF", "DECLINE", d.offered)
  <1>1. d.offered \in Hosts /\ d.addr \in Hosts /\ ANY \in Hosts
    BY DEF Typed, Hosts
  <1>2. /\ Turns(d, dhcp_select(d), "REQUESTING", "REQUEST", d.offered)
        /\ Turns(d, dhcp_renew(d), "RENEWING", "REQUEST", d.addr)
        /\ Turns(d, dhcp_rebind(d), "REBINDING", "REQUEST", d.addr)
        /\ Turns(d, dhcp_reboot(d), "REBOOTING", "REQUEST", d.offered)
        /\ Turns(d, dhcp_decline(d), "BACKING_OFF", "DECLINE", d.offered)
    BY <1>1, RequestTurns
       DEF dhcp_select, dhcp_renew, dhcp_rebind, dhcp_reboot, dhcp_decline
  <1> DEFINE o == [d EXCEPT !.offered = ANY]
             e == dhcp_discover(d)
  <1>3. /\ Typed(o) /\ o.out = d.out /\ o.xid = d.xid /\ o.timer = d.timer
        /\ o.state = d.state /\ o.tries = d.tries /\ o.addr = d.addr /\ o.link = d.link
        /\ SameLease(d, o)
    BY <1>1, SetOffered
  <1> HIDE DEF o
  <1>4. Turns(o, e, "SELECTING", "DISCOVER", ANY)
    BY <1>1, <1>3, RequestTurns DEF dhcp_discover, o
  <1> HIDE DEF e
  <1>5. /\ e.state = "SELECTING" /\ e.addr = d.addr /\ e.link = d.link /\ SameLease(d, e)
        /\ d.state # "SELECTING" \/ d.tries = 0 => New(e.xid, d)
    BY <1>3, <1>4 DEF Turns, Sends, SameClient, SameLease, New
  <1>6. Discovers(d, e)
    BY <1>3, <1>4, <1>5, Zenon DEF Discovers, o
  <1>. QED
    BY <1>2, <1>6 DEF e

\* A lease runs for at least one tick, and the server counts no less.
LEMMA LeaseTicks ==
    ASSUME NEW secs \in Nat
    PROVE  /\ T0(secs) \in Nat /\ T0(secs) >= 1
           /\ secs \in LeaseTimes => T0(secs) <= secs \div 60 /\ secs \div 60 \in Nat \ {0}
  <1>1. T0(secs) \in Nat /\ T0(secs) >= 1
    BY TicksRange, U16Large, SMT DEF T0
  <1>2. ASSUME secs \in LeaseTimes PROVE T0(secs) <= secs \div 60 /\ secs \div 60 \in Nat
    <2>1. secs % 60 = 0 /\ secs >= 120
      BY <1>2, DhcpAssumption
    <2>2. secs = 60 * (secs \div 60) /\ secs \div 60 \in Nat
      BY <2>1, SMT
    <2>. QED
      BY <2>1, <2>2, TicksRange, U16Large, SMT DEF T0
  <1>. QED
    BY <1>1, <1>2

\* The assignments of dhcp_bind and dhcp_release.
LEMMA Binds ==
    ASSUME NEW d, Typed(d)
    PROVE  LET e == dhcp_bind(d)
           IN  /\ Typed(e) /\ e.state = "BOUND" /\ e.addr = d.offered
               /\ e.offered = d.offered /\ e.link = d.link /\ e.out = d.out
               /\ e.xid = d.xid /\ e.used = 0 /\ e.t0 = T0(d.lease)
               /\ e.t1 = T1(d.lease) /\ e.t2 = T2(d.lease)
               /\ e.timer \in {0, d.timer} /\ (d.state # "BOUND" => e.timer = 0)
  <1> DEFINE s == dhcp_set_state(d, "BOUND")
  <1>1. /\ Typed(s) /\ SameClient(d, s) /\ s.state = "BOUND" /\ s.out = d.out
        /\ s.xid = d.xid
    BY StateSet
  <1>2. s.timer \in {0, d.timer} /\ (d.state # "BOUND" => s.timer = 0)
    BY DEF dhcp_set_state, Typed, Shape, Fields
  <1>3. /\ T0(d.lease) \in Nat /\ T1(d.lease) \in Nat /\ T2(d.lease) \in Nat
        /\ d.offered \in Hosts
    <2>1. d.lease \in Nat /\ d.offered \in Hosts
      BY DEF Typed, Shape
    <2>2. d.lease \div 2 \in Nat /\ (d.lease * 7) \div 8 \in Nat
      BY <2>1, Halves
    <2>3. ASSUME NEW n \in Nat PROVE Ticks(n) \in Nat
      BY TicksRange, U16Large, SMT
    <2>. QED
      BY <2>1, <2>2, <2>3 DEF T0, T1, T2
  <1> HIDE DEF s
  <1> DEFINE e(x, y, z) == WithLease(s, d.offered, x, y, z)
  <1>4. ASSUME NEW x \in Nat, NEW y \in Nat, NEW z \in Nat
        PROVE  /\ Typed(e(x, y, z)) /\ e(x, y, z).state = "BOUND"
               /\ e(x, y, z).addr = d.offered /\ e(x, y, z).offered = d.offered
               /\ e(x, y, z).link = d.link /\ e(x, y, z).out = d.out
               /\ e(x, y, z).xid = d.xid /\ e(x, y, z).used = 0 /\ e(x, y, z).t0 = x
               /\ e(x, y, z).t1 = y /\ e(x, y, z).t2 = z
               /\ e(x, y, z).timer = s.timer
    BY <1>1, <1>3, Zenon DEF Typed, Shape, SameClient, SameLease, Fields, WithLease
  <1>5. dhcp_bind(d) = e(T0(d.lease), T1(d.lease), T2(d.lease))
    BY Zenon DEF dhcp_bind, s, WithLease
  <1> HIDE DEF e
  <1>. QED
    BY <1>2, <1>3, <1>4, <1>5

Off(d) ==
    [d EXCEPT !.offered = ANY, !.lease = 0, !.t0 = 0, !.t1 = 0, !.t2 = 0, !.used = 0]

\* The assignments of dhcp_release.
LEMMA SwitchedOff ==
    ASSUME NEW d, Typed(d)
    PROVE  LET e == Off(d)
           IN  /\ Typed(e) /\ e.state = d.state /\ e.tries = d.tries /\ e.timer = d.timer
               /\ e.offered = ANY /\ e.addr = d.addr /\ e.link = d.link
               /\ e.out = d.out /\ e.xid = d.xid
               /\ e.t0 = 0 /\ e.t1 = 0 /\ e.t2 = 0 /\ e.used = 0
  BY Zenon DEF Typed, Shape, Fields, Off, Hosts

\* dhcp_release stops all timers of the lease, and sends its RELEASE, if it
\* sends one, under a transaction id of its own.
LEMMA Releases ==
    ASSUME NEW d, Typed(d), FreshWorks, d.state # "OFF"
    PROVE  LET e == dhcp_release(d)
           IN  /\ Typed(e) /\ e.state = "OFF" /\ e.timer = 0 /\ e.link = d.link
               /\ e.t0 = 0 /\ e.t1 = 0 /\ e.t2 = 0 /\ e.addr \in {ANY, d.addr}
               /\ ~dhcp_supplied_address(d) => e.addr = d.addr /\ e.out = d.out
               /\ \/ e.out = d.out /\ e.xid = d.xid
                  \/ /\ New(e.xid, d)
                     /\ e.out = IF phy.up
                                THEN Append(d.out, [type |-> "RELEASE", addr |-> d.addr,
                                                    xid |-> e.xid])
                                ELSE d.out
  <1> DEFINE s == dhcp_set_state(d, "OFF")
             off == Off(s)
             msg == dhcp_create_msg(off, "RELEASE", d.addr)
             fin == [msg EXCEPT !.addr = ANY]
  <1>1. /\ Typed(s) /\ SameClient(d, s) /\ s.state = "OFF" /\ s.out = d.out
        /\ s.xid = d.xid /\ s.tries = 0
    BY StateSet
  <1>2. s.timer = 0
    BY DEF dhcp_set_state, Typed, Shape, Fields
  <1> HIDE DEF s
  <1>3. /\ Typed(off) /\ off.state = "OFF" /\ off.tries = 0 /\ off.timer = 0
        /\ off.addr = d.addr /\ off.link = d.link /\ off.out = d.out /\ off.xid = d.xid
        /\ off.t0 = 0 /\ off.t1 = 0 /\ off.t2 = 0
    BY <1>1, <1>2, SwitchedOff DEF SameClient
  <1>4. dhcp_release(d) = IF dhcp_supplied_address(d) THEN fin ELSE off
    BY Zenon DEF dhcp_release, s, Off
  <1> HIDE DEF off
  <1>5. d.addr \in Hosts /\ ANY \in Hosts
    BY DEF Typed, Hosts
  <1>6. /\ Sends(off, msg, "RELEASE", d.addr) /\ msg.state = "OFF"
        /\ New(msg.xid, off)
    BY <1>3, <1>5, Creates DEF Drops
  <1>7. msg.timer = 0
    BY <1>3 DEF dhcp_create_msg, Transmit, Typed, Shape, Fields
  <1> HIDE DEF msg
  <1>8. /\ Typed(msg) /\ msg.link = d.link /\ msg.t0 = 0 /\ msg.t1 = 0 /\ msg.t2 = 0
        /\ New(msg.xid, d)
        /\ msg.out = IF phy.up THEN Append(d.out, [type |-> "RELEASE", addr |-> d.addr,
                                                   xid |-> msg.xid])
                               ELSE d.out
    BY <1>3, <1>6 DEF Sends, SameClient, SameLease, New
  <1>9. /\ Typed(fin) /\ fin.addr = ANY /\ fin.out = msg.out /\ fin.xid = msg.xid
        /\ fin.state = msg.state /\ fin.timer = msg.timer /\ fin.link = msg.link
        /\ SameLease(msg, fin)
    BY <1>5, <1>8, SetAddr
  <1> HIDE DEF fin
  <1>. QED
    BY <1>3, <1>4, <1>6, <1>7, <1>8, <1>9 DEF SameLease

\* The decrement of a timer that may have stopped.
LEMMA CountDown ==
    ASSUME NEW n \in Nat
    PROVE  Max({0, n - 1}) = IF n = 0 THEN 0 ELSE n - 1
  BY DEF Max

\* The larger of two numbers.
LEMMA MaxOfTwo ==
    ASSUME NEW a \in Int, NEW b \in Int
    PROVE  Max({a, b}) = IF a >= b THEN a ELSE b
  BY DEF Max

\* A tick: the lease ends, is rebound or renewed, or only its timers move.
LeaseEnds(d) == d.t0 > 0 /\ d.used + 1 = d.t0

Ticked(d, c) ==
    /\ Typed(c) /\ SameButTimers(d, c)
    /\ c.used = IF d.t0 > 0 THEN d.used + 1 ELSE d.used

\* The four ways a tick ends.
LEMMA CoarseOutcome ==
    ASSUME NEW d, Typed(d)
    PROVE  \E c : /\ Ticked(d, c)
                  /\ \/ LeaseEnds(d) /\ CoarseTimer(d) = dhcp_discover(dhcp_release(c))
                     \/ ~LeaseEnds(d) /\ d.t2 = 1 /\ CoarseTimer(d) = dhcp_rebind(c)
                     \/ ~LeaseEnds(d) /\ d.t1 = 1 /\ d.t2 # 1 /\ CoarseTimer(d) = dhcp_renew(c)
                     \/ /\ ~LeaseEnds(d) /\ CoarseTimer(d) = c
                        /\ d.t1 = 1 => d.state # "BOUND"
                        /\ c.t2 = IF d.t2 = 0 THEN 0 ELSE d.t2 - 1
                        /\ c.t1 = IF d.t1 = 0 THEN 0 ELSE IF d.t2 = 1 THEN d.t1 ELSE d.t1 - 1
  <1> DEFINE u == IF d.t0 > 0 THEN [d EXCEPT !.used = @ + 1] ELSE d
             k2 == Max({0, u.t2 - 1})
             r == WithT2(u, k2)
             k1 == Max({0, r.t1 - 1})
             w == WithT1(r, k1)
             n1 == (w.t2_timeout - w.used) \div 2
             n2 == (r.t0 - r.used) \div 2
             a1 == IF n1 >= 1 THEN WithT1(w, n1) ELSE w
             a2 == IF n2 >= 1 THEN WithT2(r, n2) ELSE r
  <1>1. Ticked(d, u) /\ u.t1 = d.t1 /\ u.t2 = d.t2
    <2>1. d.used \in Nat /\ d.used + 1 \in Nat
      BY DEF Typed, Shape
    <2>2. [d EXCEPT !.used = @ + 1] = [d EXCEPT !.used = d.used + 1]
      OBVIOUS
    <2>. QED
      BY <2>1, <2>2, SetUsed DEF SameButTimers, Ticked
  <1>2. ASSUME NEW e, Ticked(d, e), NEW n \in Nat
        PROVE  /\ Ticked(d, WithT1(e, n)) /\ WithT1(e, n).t1 = n /\ WithT1(e, n).t2 = e.t2
               /\ Ticked(d, WithT2(e, n)) /\ WithT2(e, n).t2 = n /\ WithT2(e, n).t1 = e.t1
    <2> DEFINE f == WithT1(e, n)
               g == WithT2(e, n)
    <2>1. /\ Typed(f) /\ SameButTimers(e, f) /\ f.used = e.used /\ f.t1 = n /\ f.t2 = e.t2
          /\ Typed(g) /\ SameButTimers(e, g) /\ g.used = e.used /\ g.t1 = e.t1 /\ g.t2 = n
      BY <1>2, SetT1, SetT2, Zenon DEF Ticked
    <2> HIDE DEF f, g
    <2>2. Ticked(d, f) /\ Ticked(d, g)
      BY <1>2, <2>1 DEF Ticked, SameButTimers
    <2>. QED
      BY <2>1, <2>2 DEF f, g
  <1> HIDE DEF u
  <1>3. u.t2 \in Nat /\ u.t1 \in Nat
    BY <1>1 DEF Ticked, Typed, Shape
  <1>4. k2 \in Nat /\ k2 = IF d.t2 = 0 THEN 0 ELSE d.t2 - 1
    BY <1>1, <1>3, CountDown
  <1> HIDE DEF k2
  <1>5. Ticked(d, r) /\ r.t1 = d.t1 /\ r.t2 = IF d.t2 = 0 THEN 0 ELSE d.t2 - 1
    BY <1>1, <1>2, <1>4, Zenon
  <1> HIDE DEF r
  <1>6. r.t1 \in Nat /\ n2 \in Int /\ r.state = d.state
    BY <1>5 DEF Ticked, Typed, Shape, SameButTimers
  <1>7. k1 \in Nat /\ k1 = IF d.t1 = 0 THEN 0 ELSE d.t1 - 1
    BY <1>5, <1>6, CountDown
  <1> HIDE DEF k1
  <1>8. /\ Ticked(d, w) /\ w.t2 = IF d.t2 = 0 THEN 0 ELSE d.t2 - 1
        /\ w.t1 = IF d.t1 = 0 THEN 0 ELSE d.t1 - 1
    BY <1>2, <1>5, <1>7, Zenon
  <1> HIDE DEF w
  <1>9. n1 \in Int /\ w.state = d.state
    BY <1>8 DEF Ticked, Typed, Shape, SameButTimers
  <1> HIDE DEF n1, n2
  <1>10. Ticked(d, a1) /\ Ticked(d, a2)
    <2>1. (n1 >= 1 => n1 \in Nat) /\ (n2 >= 1 => n2 \in Nat)
      BY <1>6, <1>9
    <2>2. (n1 >= 1 => Ticked(d, WithT1(w, n1))) /\ (n2 >= 1 => Ticked(d, WithT2(r, n2)))
      BY <1>2, <1>5, <1>8, <2>1, Zenon
    <2>. QED
      BY <1>5, <1>8, <2>2
  <1>11. dhcp_t2_timeout(r) = IF r.state \in {"REQUESTING", "BOUND", "RENEWING", "REBINDING"}
                              THEN dhcp_rebind(a2) ELSE r
    BY Zenon DEF dhcp_t2_timeout, n2, WithT2
  <1>12. dhcp_t1_timeout(w) = IF w.state \in {"REQUESTING", "BOUND", "RENEWING"}
                              THEN dhcp_renew(a1) ELSE w
    BY Zenon DEF dhcp_t1_timeout, n1, WithT1
  <1> HIDE DEF a1, a2
  <1>13. CoarseTimer(d) =
           IF d.t0 > 0 /\ u.used = d.t0 THEN dhcp_discover(dhcp_release(u))
           ELSE IF d.t2 = 1 THEN dhcp_t2_timeout(r)
           ELSE IF d.t1 = 1 THEN dhcp_t1_timeout(w)
           ELSE w
    BY Zenon DEF CoarseTimer, u, k2, r, k1, w, WithT1, WithT2
  <1>14. LeaseEnds(d) <=> d.t0 > 0 /\ u.used = d.t0
    BY <1>1 DEF LeaseEnds, Ticked
  <1>15. CASE LeaseEnds(d)
    BY <1>1, <1>13, <1>14, <1>15
  <1>16. CASE ~LeaseEnds(d) /\ d.t2 = 1
    <2>1. CoarseTimer(d) = dhcp_t2_timeout(r)
      BY <1>13, <1>14, <1>16
    <2>. QED
      BY <1>5, <1>6, <1>10, <1>11, <1>16, <2>1
  <1>17. CASE ~LeaseEnds(d) /\ d.t2 # 1 /\ d.t1 = 1
    <2>1. CoarseTimer(d) = dhcp_t1_timeout(w)
      BY <1>13, <1>14, <1>17
    <2>. QED
      BY <1>8, <1>9, <1>10, <1>12, <1>17, <2>1
  <1>18. CASE ~LeaseEnds(d) /\ d.t2 # 1 /\ d.t1 # 1
    <2>1. CoarseTimer(d) = w
      BY <1>13, <1>14, <1>18
    <2>. QED
      BY <1>8, <1>18, <2>1
  <1>. QED
    BY <1>15, <1>16, <1>17, <1>18

\* A message arrives: what is set before the next request.
Offered(d, m) == [WithTimer(d, 0) EXCEPT !.offered = m.addr]
Refused(d) == [dhcp_set_state(d, "BACKING_OFF") EXCEPT !.addr = ANY]

SameTimers(d, e) == e.t0 = d.t0 /\ e.t1 = d.t1 /\ e.t2 = d.t2

\* dhcp_handle_ack takes the message's lease and address.
LEMMA AckFields ==
    ASSUME NEW d, Typed(d), NEW m \in Answers
    PROVE  LET e == dhcp_handle_ack(d, m)
           IN  /\ Typed(e) /\ e.state = d.state /\ e.timer = d.timer /\ e.tries = d.tries
               /\ e.out = d.out /\ e.xid = d.xid /\ e.addr = d.addr /\ e.link = d.link
               /\ SameTimers(d, e) /\ e.used = d.used /\ e.lease = m.lease /\ e.offered = m.addr
  <1> DEFINE e(l, a) == WithAck(d, l, a)
  <1>1. ASSUME NEW l \in Nat, NEW a \in Hosts
        PROVE  /\ Typed(e(l, a)) /\ e(l, a).state = d.state /\ e(l, a).timer = d.timer
               /\ e(l, a).tries = d.tries /\ e(l, a).out = d.out /\ e(l, a).xid = d.xid
               /\ e(l, a).addr = d.addr /\ e(l, a).link = d.link
               /\ SameTimers(d, e(l, a)) /\ e(l, a).used = d.used /\ e(l, a).lease = l /\ e(l, a).offered = a
    BY Zenon DEF Typed, Shape, Fields, WithAck, SameTimers
  <1>2. m.lease \in Nat /\ m.addr \in Hosts
    BY DEF Answers
  <1>3. dhcp_handle_ack(d, m) = e(m.lease, m.addr)
    BY Zenon DEF dhcp_handle_ack, WithAck
  <1> HIDE DEF e
  <1>. QED
    BY <1>1, <1>2, <1>3

\* dhcp_handle_offer takes its address.
LEMMA OfferFields ==
    ASSUME NEW d, Typed(d), NEW m \in Answers
    PROVE  LET e == Offered(d, m)
           IN  /\ Typed(e) /\ e.state = d.state /\ e.timer = 0 /\ e.tries = d.tries
               /\ e.out = d.out /\ e.xid = d.xid /\ e.addr = d.addr /\ e.link = d.link
               /\ SameTimers(d, e) /\ e.used = d.used /\ e.offered = m.addr
  <1> DEFINE s == WithTimer(d, 0)
  <1>1. /\ Typed(s) /\ SameClient(d, s) /\ s.timer = 0 /\ s.out = d.out
        /\ s.xid = d.xid /\ s.state = d.state /\ s.tries = d.tries
    BY SetTimer
  <1>2. Offered(d, m) = [s EXCEPT !.offered = m.addr] /\ m.addr \in Hosts
    BY DEF Offered, Answers
  <1> HIDE DEF s
  <1> DEFINE e == [s EXCEPT !.offered = m.addr]
  <1>3. /\ Typed(e) /\ e.offered = m.addr /\ e.out = s.out /\ e.xid = s.xid
        /\ e.state = s.state /\ e.tries = s.tries /\ e.timer = s.timer
        /\ e.addr = s.addr /\ e.link = s.link /\ SameLease(s, e)
    BY <1>1, <1>2, SetOffered
  <1> HIDE DEF e
  <1>. QED
    BY <1>1, <1>2, <1>3 DEF e, SameClient, SameLease, SameTimers

\* dhcp_handle_nak gives the address up.
LEMMA RefusedFields ==
    ASSUME NEW d, Typed(d), d.timer \in 0..2
    PROVE  LET e == Refused(d)
           IN  /\ Typed(e) /\ e.state = "BACKING_OFF" /\ e.timer \in 0..2
               /\ e.out = d.out /\ e.xid = d.xid /\ e.addr = ANY /\ e.link = d.link
               /\ SameTimers(d, e) /\ e.used = d.used
  <1> DEFINE s == dhcp_set_state(d, "BACKING_OFF")
  <1>1. /\ Typed(s) /\ SameClient(d, s) /\ s.state = "BACKING_OFF" /\ s.out = d.out
        /\ s.xid = d.xid
    BY StateSet
  <1>2. s.timer \in 0..2
    BY DEF dhcp_set_state, Typed, Shape, Fields
  <1>3. Refused(d) = [s EXCEPT !.addr = ANY] /\ ANY \in Hosts
    BY DEF Refused, Hosts
  <1> HIDE DEF s
  <1> DEFINE e == [s EXCEPT !.addr = ANY]
  <1>4. /\ Typed(e) /\ e.addr = ANY /\ e.out = s.out /\ e.xid = s.xid
        /\ e.state = s.state /\ e.timer = s.timer /\ e.link = s.link /\ SameLease(s, e)
    BY <1>1, <1>3, SetAddr
  <1> HIDE DEF e
  <1>. QED
    BY <1>1, <1>2, <1>3, <1>4 DEF e, SameClient, SameLease, SameTimers

\* What dhcp_recv does with a message.
LEMMA RecvOutcome ==
    ASSUME NEW d, NEW m
    PROVE  LET e == dhcp_recv(d, m)
           IN  \/ /\ m.xid = d.xid /\ m.type = "ACK" /\ d.state = "REQUESTING"
                  /\ e = dhcp_check(dhcp_handle_ack(d, m))
               \/ /\ m.xid = d.xid /\ m.type = "ACK"
                  /\ d.state \in {"REBOOTING", "REBINDING", "RENEWING"}
                  /\ e = dhcp_bind(dhcp_handle_ack(d, m))
               \/ /\ m.xid = d.xid /\ m.type = "NAK"
                  /\ d.state \in {"REBOOTING", "REQUESTING", "REBINDING", "RENEWING"}
                  /\ e = dhcp_discover(Refused(d))
               \/ /\ m.xid = d.xid /\ m.type = "OFFER" /\ d.state = "SELECTING"
                  /\ e = dhcp_select(Offered(d, m))
               \/ /\ e = d
                  /\ m.xid = d.xid =>
                        /\ m.type = "ACK" => d.state \notin {"REQUESTING", "RENEWING"}
                        /\ m.type = "OFFER" => d.state # "SELECTING"
  <1> DEFINE ack == dhcp_handle_ack(d, m)
             offer == dhcp_handle_offer([d EXCEPT !.timer = 0], m)
             nak == dhcp_handle_nak(d)
  <1>1. offer = dhcp_select(Offered(d, m))
    BY Zenon DEF dhcp_handle_offer, Offered, WithTimer
  <1>2. nak = dhcp_discover(Refused(d))
    BY Zenon DEF dhcp_handle_nak, Refused
  <1> HIDE DEF ack, offer, nak
  <1>3. dhcp_recv(d, m) =
          IF m.xid # d.xid THEN d ELSE
          CASE m.type = "ACK" /\ d.state = "REQUESTING" -> dhcp_check(ack)
            [] m.type = "ACK" /\ d.state \in {"REBOOTING", "REBINDING", "RENEWING"} ->
                  dhcp_bind(ack)
            [] m.type = "NAK" /\ d.state \in {"REBOOTING", "REQUESTING", "REBINDING",
                                              "RENEWING"} -> nak
            [] m.type = "OFFER" /\ d.state = "SELECTING" -> offer
            [] OTHER -> d
    BY Zenon DEF dhcp_recv, ack, offer, nak
  <1>. QED
    BY <1>1, <1>2, <1>3 DEF ack

-----------------------------------------------------------------------------
(* A client that is never stuck.                                           *)

\* The timers of the lease belong together.
LeaseRuns(d) ==
    /\ d.t0 > 0 => d.used < d.t0
    /\ d.t1 > 0 \/ d.t2 > 0 => d.t0 > 0

\* A client, apart from its request timer.
Sound(d) ==
    /\ Typed(d) /\ d.timer \in 0..2
    /\ LeaseRuns(d) /\ (d.state \in Leased => d.t0 > 0)

Alive(d) ==
    /\ Sound(d)
    /\ d.state \in Asking \cup Leased
    /\ d.state \in Asking => d.timer > 0

StuckInv ==
    /\ Alive(dhcp) /\ replies \subseteq Answers
    /\ server = NoLease \/ server \in [addr : Addrs, left : Nat \ {0}]

\* A request leaves a client that waits for the answer.
LEMMA TurnsAlive ==
    ASSUME NEW d, LeaseRuns(d), NEW e, NEW s \in Asking \cup Leased, NEW type, NEW a,
           Turns(d, e, s, type, a), s \in Leased => d.t0 > 0
    PROVE  Alive(e)
  <1>1. Typed(e) /\ e.state = s /\ e.timer = 1 /\ SameLease(d, e)
    BY DEF Turns, Sends, SameClient
  <1>2. LeaseRuns(e) /\ e.t0 = d.t0
    BY <1>1 DEF LeaseRuns, SameLease
  <1>. QED
    BY <1>1, <1>2 DEF Alive, Sound

\* Every request of the client's is such a request.
LEMMA RequestsAlive ==
    ASSUME NEW d, Typed(d), LeaseRuns(d), FreshWorks
    PROVE  /\ Alive(dhcp_discover(d)) /\ Alive(dhcp_select(d)) /\ Alive(dhcp_reboot(d))
           /\ Alive(dhcp_check(d)) /\ Alive(dhcp_decline(d))
           /\ d.t0 > 0 => Alive(dhcp_renew(d)) /\ Alive(dhcp_rebind(d))
  <1>1. /\ Turns(d, dhcp_select(d), "REQUESTING", "REQUEST", d.offered)
        /\ Turns(d, dhcp_renew(d), "RENEWING", "REQUEST", d.addr)
        /\ Turns(d, dhcp_rebind(d), "REBINDING", "REQUEST", d.addr)
        /\ Turns(d, dhcp_reboot(d), "REBOOTING", "REQUEST", d.offered)
        /\ Turns(d, dhcp_decline(d), "BACKING_OFF", "DECLINE", d.offered)
        /\ Turns(d, dhcp_check(d), "CHECKING", "ARP", d.offered)
    BY Requests, CheckTurns
  <1>2. Alive(dhcp_select(d)) /\ Alive(dhcp_reboot(d))
    BY <1>1, TurnsAlive DEF Asking, Leased
  <1>3. Alive(dhcp_check(d)) /\ Alive(dhcp_decline(d))
    BY <1>1, TurnsAlive DEF Asking, Leased
  <1>4. ASSUME d.t0 > 0 PROVE Alive(dhcp_renew(d)) /\ Alive(dhcp_rebind(d))
    BY <1>1, <1>4, TurnsAlive DEF Asking, Leased
  <1>5. Alive(dhcp_discover(d))
    <2> DEFINE e == dhcp_discover(d)
    <2>1. e.state = "SELECTING" /\ SameLease(d, e) /\ Typed(e) /\ e.timer = 1
      BY Requests, Zenon DEF Discovers, Turns, Sends
    <2> HIDE DEF e
    <2>2. LeaseRuns(e)
      BY <2>1 DEF LeaseRuns, SameLease
    <2>. QED
      BY <2>1, <2>2 DEF Alive, Sound, Asking, Leased, e
  <1>. QED
    BY <1>2, <1>3, <1>4, <1>5

\* A new lease runs for at least a tick.
LEMMA BindAlive ==
    ASSUME NEW d, Typed(d), d.timer \in 0..2
    PROVE  Alive(dhcp_bind(d))
  <1> DEFINE e == dhcp_bind(d)
  <1>1. /\ Typed(e) /\ e.state = "BOUND" /\ e.used = 0 /\ e.t0 = T0(d.lease)
        /\ e.timer \in {0, d.timer}
    BY Binds
  <1>2. T0(d.lease) \in Nat /\ T0(d.lease) >= 1
    BY LeaseTicks DEF Typed, Shape
  <1> HIDE DEF e
  <1>. QED
    BY <1>1, <1>2 DEF Alive, Sound, LeaseRuns, Asking, Leased, e

\* The request timer has run out.
LEMMA TimeoutAlive ==
    ASSUME NEW d, Sound(d), d.state \in Asking \cup Leased, FreshWorks
    PROVE  Alive(dhcp_timeout(d))
  <1>1. Typed(d) /\ LeaseRuns(d) /\ d.timer \in 0..2 /\ d.state # "OFF"
    BY DEF Sound, Asking, Leased
  <1>2. /\ Alive(dhcp_discover(d)) /\ Alive(dhcp_select(d)) /\ Alive(dhcp_reboot(d))
        /\ Alive(dhcp_check(d)) /\ Alive(dhcp_bind(d))
    BY <1>1, RequestsAlive, BindAlive
  <1>3. Alive(dhcp_discover(dhcp_release(d)))
    <2> DEFINE r == dhcp_release(d)
    <2>1. Typed(r) /\ r.t0 = 0 /\ r.t1 = 0 /\ r.t2 = 0
      BY <1>1, Releases, Zenon
    <2> HIDE DEF r
    <2>. QED
      BY <2>1, RequestsAlive DEF LeaseRuns, r
  <1>4. d.state \in Leased => Alive(d)
    BY DEF Alive, Asking, Leased
  <1>. QED
    BY <1>2, <1>3, <1>4 DEF dhcp_timeout, Asking, Leased

\* A tick: t1 and t2 run only while the lease does, so that a renewal or
\* rebinding they start has a lease to fall back on.
LEMMA CoarseAlive ==
    ASSUME NEW d, Alive(d), FreshWorks
    PROVE  Alive(CoarseTimer(d))
  <1>1. /\ Typed(d) /\ LeaseRuns(d) /\ d.timer \in 0..2 /\ d.state # "OFF"
        /\ d.used \in Nat /\ d.t0 \in Nat /\ d.t1 \in Nat /\ d.t2 \in Nat
    BY DEF Alive, Sound, Asking, Leased, Typed, Shape
  <1>2. PICK c : /\ Ticked(d, c)
                 /\ \/ LeaseEnds(d) /\ CoarseTimer(d) = dhcp_discover(dhcp_release(c))
                    \/ ~LeaseEnds(d) /\ d.t2 = 1 /\ CoarseTimer(d) = dhcp_rebind(c)
                    \/ ~LeaseEnds(d) /\ d.t1 = 1 /\ CoarseTimer(d) = dhcp_renew(c)
                    \/ /\ ~LeaseEnds(d) /\ CoarseTimer(d) = c
                       /\ (c.t1 > 0 => d.t1 > 0) /\ (c.t2 > 0 => d.t2 > 0)
    <2>1. ASSUME NEW n \in Nat, NEW k, k = IF n = 0 THEN 0 ELSE n - 1, k > 0 PROVE n > 0
      BY <2>1
    <2>. QED
      BY <1>1, <2>1, CoarseOutcome
  <1>3. /\ Typed(c) /\ c.state = d.state /\ c.timer = d.timer /\ c.t0 = d.t0
        /\ c.used = IF d.t0 > 0 THEN d.used + 1 ELSE d.used
    BY <1>2 DEF Ticked, SameButTimers
  <1>4. CASE LeaseEnds(d) /\ CoarseTimer(d) = dhcp_discover(dhcp_release(c))
    <2> DEFINE r == dhcp_release(c)
    <2>1. Typed(r) /\ r.t0 = 0 /\ r.t1 = 0 /\ r.t2 = 0
      BY <1>1, <1>3, Releases, Zenon
    <2> HIDE DEF r
    <2>. QED
      BY <1>4, <2>1, RequestsAlive DEF LeaseRuns, r
  <1>5. ASSUME ~LeaseEnds(d), d.t0 > 0 PROVE LeaseRuns(c) /\ c.t0 > 0
    BY <1>1, <1>3, <1>5 DEF LeaseEnds, LeaseRuns
  <1>6. CASE ~LeaseEnds(d) /\ (d.t2 = 1 \/ d.t1 = 1)
             /\ CoarseTimer(d) \in {dhcp_rebind(c), dhcp_renew(c)}
    <2>1. d.t0 > 0
      BY <1>1, <1>6 DEF LeaseRuns
    <2>. QED
      BY <1>3, <1>5, <1>6, <2>1, RequestsAlive
  <1>7. CASE /\ ~LeaseEnds(d) /\ CoarseTimer(d) = c
             /\ (c.t1 > 0 => d.t1 > 0) /\ (c.t2 > 0 => d.t2 > 0)
    <2>1. LeaseRuns(c)
      BY <1>1, <1>3, <1>5, <1>7 DEF LeaseRuns
    <2>. QED
      BY <1>3, <1>7, <2>1 DEF Alive, Sound
  <1>. QED
    BY <1>2, <1>4, <1>6, <1>7

\* No message takes the client out of reach of its timers.
LEMMA RecvAlive ==
    ASSUME NEW d, Alive(d), FreshWorks, NEW m \in Answers
    PROVE  Alive(dhcp_recv(d, m)) /\ Alive(dhcp_arp_reply(d, m))
  <1> DEFINE ack == dhcp_handle_ack(d, m)
             offer == Offered(d, m)
             nak == Refused(d)
  <1>1. Typed(d) /\ LeaseRuns(d) /\ d.timer \in 0..2
    BY DEF Alive, Sound
  <1>2. Alive(dhcp_arp_reply(d, m))
    BY <1>1, RequestsAlive DEF dhcp_arp_reply
  <1>3. /\ Typed(ack) /\ SameTimers(d, ack) /\ ack.used = d.used /\ ack.timer = d.timer
        /\ Typed(offer) /\ SameTimers(d, offer) /\ offer.used = d.used
        /\ Typed(nak) /\ SameTimers(d, nak) /\ nak.used = d.used
    BY <1>1, AckFields, OfferFields, RefusedFields
  <1>4. dhcp_recv(d, m) \in {dhcp_check(ack), dhcp_bind(ack), dhcp_discover(nak),
                             dhcp_select(offer), d}
    BY RecvOutcome
  <1> HIDE DEF ack, offer, nak
  <1>5. LeaseRuns(ack) /\ LeaseRuns(offer) /\ LeaseRuns(nak)
    BY <1>1, <1>3 DEF LeaseRuns, SameTimers
  <1>6. /\ Alive(dhcp_check(ack)) /\ Alive(dhcp_bind(ack)) /\ Alive(dhcp_discover(nak))
        /\ Alive(dhcp_select(offer))
    BY <1>1, <1>3, <1>5, RequestsAlive, BindAlive
  <1>. QED
    BY <1>2, <1>4, <1>6

\* The link poll restarts the client or leaves it as it is.
LEMMA LinkAlive ==
    ASSUME NEW d, Alive(d), FreshWorks
    PROVE  Alive(check_link_status(d))
  <1> DEFINE up == [d EXCEPT !.link = TRUE]
             down == [d EXCEPT !.link = FALSE]
             fresh == [up EXCEPT !.tries = 0]
  <1>1. /\ Typed(up) /\ SameLease(d, up) /\ Typed(down) /\ SameLease(d, down)
        /\ down.state = d.state /\ down.timer = d.timer
    BY SetLink DEF Alive, Sound
  <1> HIDE DEF up, down
  <1>2. Typed(fresh) /\ SameClient(up, fresh)
    BY <1>1, SetTries
  <1> HIDE DEF fresh
  <1>3. LeaseRuns(fresh) /\ Alive(down)
    BY <1>1, <1>2 DEF Alive, Sound, LeaseRuns, SameLease, SameClient
  <1>4. Alive(dhcp_network_changed(up))
    BY <1>2, <1>3, RequestsAlive DEF dhcp_network_changed, fresh
  <1>. QED
    BY <1>3, <1>4 DEF check_link_status, netif_set_link_up, netif_set_link_down, up, down

\* A client that is alive stays so if only its request timer, which may run
\* on, or the messages on the wire change.
LEMMA AliveFields ==
    ASSUME NEW d, Alive(d)
    PROVE  /\ \A o \in Seq(Sent) : Alive([d EXCEPT !.out = o])
           /\ Sound(WithTimer(d, 0)) /\ WithTimer(d, 0).state \in Asking \cup Leased
           /\ d.timer < 2 => Alive(WithTimer(d, 2 * d.timer))
  <1>1. Typed(d) /\ LeaseRuns(d) /\ d.timer \in 0..2
    BY DEF Alive, Sound
  <1>2. ASSUME NEW o \in Seq(Sent) PROVE Alive([d EXCEPT !.out = o])
    <2> DEFINE e == [d EXCEPT !.out = o]
    <2>1. Typed(e) /\ SameLease(d, e) /\ e.state = d.state /\ e.timer = d.timer
      BY <1>1, SetOut DEF SameClient
    <2> HIDE DEF e
    <2>2. Alive(e)
      BY <2>1 DEF Alive, Sound, LeaseRuns, SameLease
    <2>. QED
      BY <2>2 DEF e
  <1>3. ASSUME NEW n \in 0..2
        PROVE  LET e == WithTimer(d, n)
               IN  Sound(e) /\ e.state = d.state /\ e.timer = n
    <2> DEFINE e == WithTimer(d, n)
    <2>1. Typed(e) /\ SameLease(d, e) /\ e.state = d.state /\ e.timer = n
      BY <1>1, SetTimer DEF SameClient
    <2> HIDE DEF e
    <2>2. Sound(e)
      BY <2>1 DEF Alive, Sound, LeaseRuns, SameLease
    <2>. QED
      BY <2>1, <2>2 DEF e
  <1>4. Sound(WithTimer(d, 0)) /\ WithTimer(d, 0).state \in Asking \cup Leased
    BY <1>3 DEF Alive
  <1>5. ASSUME d.timer < 2 PROVE Alive(WithTimer(d, 2 * d.timer))
    <2>1. PICK n \in 0..2 : n = 2 * d.timer /\ (d.timer > 0 => n > 0)
      BY <1>1, <1>5
    <2>2. Alive(WithTimer(d, n))
      BY <1>3, <2>1 DEF Alive
    <2>. QED
      BY <2>1, <2>2
  <1>. QED
    BY <1>2, <1>4, <1>5

\* dhcp_start has set a timer.
LEMMA StuckInit ==
    Init => StuckInv
  <1> SUFFICES ASSUME Init PROVE StuckInv
    OBVIOUS
  <1> DEFINE first == [type |-> "DISCOVER", addr |-> ANY, xid |-> 0]
             o == IF phy.up THEN <<first>> ELSE <<>>
  <1>1. Shape(dhcp) /\ dhcp.state = "SELECTING" /\ dhcp.timer = 1
        /\ dhcp.t0 = 0 /\ dhcp.t1 = 0 /\ dhcp.t2 = 0
    BY DEF Init, Shape, Fields
  <1>2. /\ dhcp.tries = 1 /\ dhcp.xid = 0 /\ dhcp.offered = ANY /\ dhcp.addr = ANY
        /\ dhcp.out = o /\ replies = {} /\ server = NoLease
    BY DEF Init
  <1>3. first \in Sent /\ ANY \in Hosts
    BY DEF Sent, Hosts
  <1>4. o \in Seq(Sent)
    BY <1>3
  <1> HIDE DEF o
  <1>5. Typed(dhcp)
    BY <1>1, <1>2, <1>3, <1>4 DEF Typed
  <1>6. Alive(dhcp)
    BY <1>1, <1>5 DEF Alive, Sound, LeaseRuns, Asking, Leased
  <1>. QED
    BY <1>2, <1>6 DEF StuckInv

\* The server or a host answers the oldest message on the wire.
LEMMA AnswerTypes ==
    ASSUME StuckInv, Answer
    PROVE  /\ replies' \subseteq Answers
           /\ server' = NoLease \/ server' \in [addr : Addrs, left : Nat \ {0}]
  <1> DEFINE h == Head(dhcp.out)
             new(type, a, secs) == [type |-> type, addr |-> a, lease |-> secs,
                                    xid |-> h.xid, late |-> FALSE]
  <1>1. dhcp.out # <<>> /\ dhcp.out \in Seq(Sent)
    BY DEF Answer, StuckInv, Alive, Sound, Typed
  <1>2. h \in Sent
    BY <1>1
  <1> HIDE DEF h
  <1>3. h.addr \in Hosts /\ h.xid \in Nat /\ ANY \in Hosts
    BY <1>2 DEF Sent, Hosts
  <1>4. ASSUME NEW type \in {"OFFER", "NAK", "ARPREPLY", "ACK"}, NEW a \in Hosts,
               NEW secs \in Nat
        PROVE  new(type, a, secs) \in Answers
    BY <1>3 DEF Answers
  <1> HIDE DEF new
  <1>5. /\ \/ replies' = replies
           \/ \E a \in Hosts : \/ replies' = replies \cup {new("OFFER", a, 0)}
                               \/ replies' = replies \cup {new("NAK", a, 0)}
                               \/ replies' = replies \cup {new("ARPREPLY", a, 0)}
           \/ \E secs \in LeaseTimes : replies' = replies \cup {new("ACK", h.addr, secs)}
        /\ \/ server' \in {server, NoLease}
           \/ \E secs \in LeaseTimes :
                /\ h.addr # ANY
                /\ server' = [addr |-> h.addr, left |-> Max({server.left, secs \div 60 + Grace})]
    BY <1>3, Zenon DEF Answer, Reply, h, new, Hosts
  <1>6. LeaseTimes \subseteq Nat /\ Grace \in Nat /\ server.left \in Nat
    BY DhcpAssumption DEF StuckInv, NoLease
  <1>7. replies' \subseteq Answers
    BY <1>3, <1>4, <1>5, <1>6 DEF StuckInv
  <1>8. ASSUME NEW secs \in LeaseTimes, h.addr # ANY
        PROVE  [addr |-> h.addr, left |-> Max({server.left, secs \div 60 + Grace})]
                  \in [addr : Addrs, left : Nat \ {0}]
    <2>1. secs \div 60 \in Nat /\ secs \div 60 >= 1
      BY <1>6, LeaseTicks
    <2>2. PICK n : n = secs \div 60 + Grace
      OBVIOUS
    <2>3. n \in Nat /\ n >= 1
      BY <1>6, <2>1, <2>2
    <2>4. Max({server.left, n}) = IF server.left >= n THEN server.left ELSE n
      BY <1>6, <2>3, MaxOfTwo
    <2>5. Max({server.left, n}) \in Nat \ {0}
      BY <1>6, <2>3, <2>4
    <2>6. h.addr \in Addrs
      BY <1>3, <1>8 DEF Hosts
    <2>. QED
      BY <2>2, <2>5, <2>6
  <1>9. server' = NoLease \/ server' \in [addr : Addrs, left : Nat \ {0}]
    BY <1>5, <1>8, Zenon DEF StuckInv
  <1>. QED
    BY <1>7, <1>9

\* No step stops both timers.
LEMMA StuckNext ==
    ASSUME StuckInv, FreshWorks, [Next]_vars
    PROVE  StuckInv'
  <1>0. /\ Alive(dhcp) /\ replies \subseteq Answers
        /\ server = NoLease \/ server \in [addr : Addrs, left : Nat \ {0}]
    BY DEF StuckInv
  <1>1. ASSUME NEW d, dhcp' = d, Alive(d), replies' \subseteq Answers,
               server' = NoLease \/ server' \in [addr : Addrs, left : Nat \ {0}]
        PROVE  StuckInv'
    BY <1>1 DEF StuckInv, Alive, Sound, Typed, Shape, LeaseRuns
  <1>2. dhcp.out # <<>> => Alive(Popped(dhcp))
    <2>1. dhcp.out \in Seq(Sent)
      BY <1>0 DEF Alive, Sound, Typed
    <2>2. dhcp.out # <<>> => Tail(dhcp.out) \in Seq(Sent)
      BY <2>1
    <2>. QED
      BY <1>0, <2>2, AliveFields, Zenon DEF Popped
  <1>3. CASE PollLink
    BY <1>0, <1>1, <1>3, LinkAlive DEF PollLink, enet_poll
  <1>4. CASE dhcp_fine_tmr
    <2>1. /\ dhcp' = check_link_status(dhcp_timeout(WithTimer(dhcp, 0)))
          /\ replies' = replies /\ server' = server
      BY <1>4, Zenon DEF dhcp_fine_tmr, enet_poll, WithTimer
    <2>2. Alive(check_link_status(dhcp_timeout(WithTimer(dhcp, 0))))
      BY <1>0, AliveFields, TimeoutAlive, LinkAlive
    <2>. QED
      BY <1>0, <1>1, <2>1, <2>2
  <1>5. CASE dhcp_coarse_tmr
    <2>1. /\ dhcp.timer < 2
          /\ replies' = {[m EXCEPT !.late = TRUE] : m \in replies}
          /\ server' = IF server.left > 1 THEN [server EXCEPT !.left = @ - 1] ELSE NoLease
      BY <1>5 DEF dhcp_coarse_tmr
    <2>2. dhcp' = check_link_status(CoarseTimer(WithTimer(dhcp, 2 * dhcp.timer)))
      BY <1>5, Zenon DEF dhcp_coarse_tmr, enet_poll, WithTimer
    <2>3. Alive(check_link_status(CoarseTimer(WithTimer(dhcp, 2 * dhcp.timer))))
      BY <1>0, <2>1, AliveFields, CoarseAlive, LinkAlive
    <2>4. replies' \subseteq Answers
      <3>1. \A m \in Answers : [m EXCEPT !.late = TRUE] \in Answers
        BY Zenon DEF Answers
      <3>. QED
        BY <1>0, <2>1, <3>1
    <2>5. server' = NoLease \/ server' \in [addr : Addrs, left : Nat \ {0}]
      BY <1>0, <2>1 DEF NoLease
    <2>. QED
      BY <1>1, <2>2, <2>3, <2>4, <2>5
  <1>6. ASSUME NEW m \in replies, NEW again \in BOOLEAN, Receive(m, again) PROVE StuckInv'
    <2>1. Alive(dhcp_recv(dhcp, m)) /\ Alive(dhcp_arp_reply(dhcp, m))
      BY <1>0, RecvAlive
    <2>. QED
      BY <1>0, <1>1, <1>6, <2>1 DEF Receive
  <1>7. CASE Answer
    <2>1. dhcp' = Popped(dhcp) /\ dhcp.out # <<>>
      BY <1>7, Zenon DEF Answer, Popped
    <2>. QED
      BY <1>1, <1>2, <1>7, <2>1, AnswerTypes
  <1>8. CASE Lose
    <2>1. /\ \/ dhcp' = dhcp /\ replies' \subseteq replies
             \/ dhcp.out # <<>> /\ dhcp' = Popped(dhcp) /\ replies' = replies
          /\ server' = server
      BY <1>8, Zenon DEF Lose, Popped
    <2>. QED
      BY <1>0, <1>1, <1>2, <2>1
  <1>9. CASE HostAppears \/ Plug \/ UNCHANGED vars
    BY <1>0, <1>1, <1>9 DEF HostAppears, Plug, vars
  <1>10. CASE Withdraw
    BY <1>0, <1>1, <1>10 DEF Withdraw
  <1>11. CASE Unplug
    <2>1. <<>> \in Seq(Sent)
      OBVIOUS
    <2>2. Alive([dhcp EXCEPT !.out = <<>>])
      BY <1>0, <2>1, AliveFields, Zenon
    <2>. QED
      BY <1>0, <1>1, <1>11, <2>2 DEF Unplug
  <1>. QED
    BY <1>3, <1>4, <1>5, <1>6, <1>7, <1>8, <1>9, <1>10, <1>11 DEF Next, Client

\* The link has come up for a client that has no lease.
LEMMA LinkUp ==
    ASSUME NEW d, Typed(d), FreshWorks, phy.reg = TRUE, d.link = FALSE,
           d.state \notin Leased \cup {"REBOOTING"}
    PROVE  LET e == check_link_status(d)
           IN  /\ Typed(e) /\ e.state = "SELECTING" /\ e.addr = d.addr /\ e.link = TRUE
               /\ SameLease(d, e) /\ New(e.xid, d)
               /\ e.out = IF phy.up THEN Append(d.out, [type |-> "DISCOVER", addr |-> ANY,
                                                        xid |-> e.xid])
                                    ELSE d.out
  <1> DEFINE up == [d EXCEPT !.link = TRUE]
             fresh == [up EXCEPT !.tries = 0]
             e == dhcp_discover(fresh)
  <1>1. check_link_status(d) = e
    <2>1. up.state = d.state
      BY SetLink
    <2> HIDE DEF up
    <2>2. dhcp_network_changed(up) = e
      BY <2>1, Zenon DEF dhcp_network_changed, Leased
    <2>. QED
      BY <2>2, Zenon DEF check_link_status, netif_set_link_up, up
  <1>2. /\ Typed(up) /\ up.link = TRUE /\ up.out = d.out /\ up.xid = d.xid
        /\ up.addr = d.addr /\ SameLease(d, up)
    BY SetLink
  <1> HIDE DEF up
  <1>3. Typed(fresh) /\ SameClient(up, fresh) /\ fresh.tries = 0 /\ fresh.out = up.out
        /\ fresh.xid = up.xid
    BY <1>2, SetTries
  <1> HIDE DEF fresh
  <1>4. Discovers(fresh, e)
    BY <1>3, Requests
  <1> HIDE DEF e
  <1>5. /\ e.state = "SELECTING" /\ e.addr = d.addr /\ e.link = TRUE /\ SameLease(d, e)
        /\ New(e.xid, d)
    BY <1>2, <1>3, <1>4 DEF Discovers, SameClient, SameLease, New
  <1> DEFINE o == [fresh EXCEPT !.offered = ANY]
  <1>6. o.out = fresh.out /\ Sends(o, e, "DISCOVER", ANY)
    BY <1>4 DEF Discovers, Turns
  <1> HIDE DEF o
  <1>7. /\ Typed(e)
        /\ e.out = IF phy.up THEN Append(d.out, [type |-> "DISCOVER", addr |-> ANY, xid |-> e.xid])
                             ELSE d.out
    BY <1>2, <1>3, <1>6 DEF Sends
  <1>. QED
    BY <1>1, <1>5, <1>7

-----------------------------------------------------------------------------
(* Addresses of other hosts.                                               *)

\* Hosts that take an address are all that has gone wrong.
OnlyHosts == faults = Cardinality(others)

Probed(d) ==
    d.state = "CHECKING" /\ d.offered \in others =>
        \/ \E i \in DOMAIN d.out : d.out[i].type = "ARP" /\ d.out[i].addr = d.offered
        \/ \E m \in replies : m.type = "ARPREPLY" /\ m.addr = d.offered

Renews(d) ==
    d.state \in {"RENEWING", "REBINDING"} =>
        /\ \A i \in DOMAIN d.out : d.out[i].type = "REQUEST" => d.out[i].addr = d.addr
        /\ \A m \in replies : m.type = "ACK" => m.addr = d.addr

\* The client has no address of another host, and is not about to get one.
Clear(d) ==
    d.addr \notin others /\ d.state # "REBOOTING" /\ Probed(d) /\ Renews(d)

\* Before the link is up the first time there is no lease.
Unlinked(d) ==
    ~d.link =>
        /\ d.t0 = 0 /\ d.t1 = 0 /\ d.t2 = 0
        /\ d.state \notin Leased /\ (d.state = "CHECKING" => d.tries = 1)
        /\ ~phy.reg => d.state = "SELECTING" /\ d.out = <<>> /\ replies = {}

\* While the client sees a link there is one.
Linked ==
    /\ phy \in [up : BOOLEAN, reg : BOOLEAN] /\ dhcp.link \in BOOLEAN
    /\ Clear(dhcp) /\ Unlinked(dhcp)
    /\ dhcp.link => phy.reg
    /\ phy.reg \/ dhcp.out # <<>> \/ replies # {} => phy.up

HostsInv ==
    /\ others \in SUBSET Addrs
    /\ faults \in Nat /\ Cardinality(others) <= faults
    /\ OnlyHosts => Linked

\* States in which nothing but the interface's own address matters.
LEMMA Settled ==
    ASSUME NEW e, e.addr \notin others,
           e.state \in {"SELECTING", "REQUESTING", "BACKING_OFF", "BOUND"}
    PROVE  Clear(e)
  BY DEF Clear, Probed, Renews

\* A request does not bring an address of another host.
LEMMA RequestsClear ==
    ASSUME NEW d, Typed(d), FreshWorks, d.addr \notin others
    PROVE  /\ Clear(dhcp_discover(d)) /\ dhcp_discover(d).link = d.link
           /\ Clear(dhcp_select(d)) /\ dhcp_select(d).link = d.link
           /\ Clear(dhcp_decline(d)) /\ dhcp_decline(d).link = d.link
           /\ Typed(dhcp_discover(d)) /\ Typed(dhcp_select(d))
           /\ dhcp_discover(d).state = "SELECTING" /\ dhcp_select(d).state = "REQUESTING"
           /\ dhcp_decline(d).state = "BACKING_OFF"
           /\ SameTimers(d, dhcp_discover(d)) /\ SameTimers(d, dhcp_select(d))
           /\ SameTimers(d, dhcp_decline(d))
  <1> DEFINE a == dhcp_discover(d)
             b == dhcp_select(d)
             c == dhcp_decline(d)
  <1>1. /\ Discovers(d, a) /\ Turns(d, b, "REQUESTING", "REQUEST", d.offered)
        /\ Turns(d, c, "BACKING_OFF", "DECLINE", d.offered)
    BY Requests
  <1> HIDE DEF a, b, c
  <1>2. /\ a.addr = d.addr /\ a.link = d.link /\ a.state = "SELECTING" /\ Typed(a)
        /\ b.addr = d.addr /\ b.link = d.link /\ b.state = "REQUESTING" /\ Typed(b)
        /\ c.addr = d.addr /\ c.link = d.link /\ c.state = "BACKING_OFF"
        /\ SameTimers(d, a) /\ SameTimers(d, b) /\ SameTimers(d, c)
    BY <1>1 DEF Discovers, Turns, Sends, SameClient, SameLease, SameTimers
  <1>3. Clear(a) /\ Clear(b) /\ Clear(c)
    BY <1>2, Settled
  <1>. QED
    BY <1>2, <1>3 DEF a, b, c

\* A probe is on the wire, if there is a cable.
LEMMA CheckClear ==
    ASSUME NEW d, Typed(d), d.addr \notin others, phy.up
    PROVE  LET e == dhcp_check(d)
           IN  /\ Clear(e) /\ e.link = d.link /\ Typed(e) /\ e.state = "CHECKING"
               /\ SameTimers(d, e) /\ e.addr = d.addr
               /\ d.state # "CHECKING" => e.tries = 1
               /\ \E i \in DOMAIN e.out : e.out[i].type = "ARP" /\ e.out[i].addr = e.offered
  <1> DEFINE e == dhcp_check(d)
             msg == [type |-> "ARP", addr |-> d.offered, xid |-> e.xid]
  <1>1. Turns(d, e, "CHECKING", "ARP", d.offered)
    BY CheckTurns
  <1>2. msg.type = "ARP" /\ msg.addr = d.offered
    OBVIOUS
  <1> HIDE DEF e
  <1>3. /\ Typed(e) /\ e.state = "CHECKING" /\ e.addr = d.addr /\ e.offered = d.offered
        /\ e.link = d.link /\ e.out = Append(d.out, msg) /\ d.out \in Seq(Sent)
        /\ SameTimers(d, e) /\ (d.state # "CHECKING" => e.tries = 1)
    BY <1>1 DEF Turns, Sends, SameClient, SameLease, SameTimers, Typed
  <1> HIDE DEF msg
  <1>4. e.out \in Seq(Sent)
    BY <1>3 DEF Typed
  <1>5. Len(d.out) + 1 \in DOMAIN e.out /\ e.out[Len(d.out) + 1] = msg
    BY <1>3, <1>4
  <1>6. Clear(e)
    BY <1>2, <1>3, <1>5 DEF Clear, Probed, Renews
  <1>7. \E i \in DOMAIN e.out : e.out[i].type = "ARP" /\ e.out[i].addr = e.offered
    BY <1>2, <1>3, <1>5
  <1>. QED
    BY <1>3, <1>6, <1>7 DEF e

\* A renewal asks for the interface's address.
LEMMA RenewClear ==
    ASSUME NEW d, Typed(d), FreshWorks, d.addr \notin others, d.out = <<>>, replies = {}
    PROVE  /\ Clear(dhcp_renew(d)) /\ dhcp_renew(d).link = d.link /\ Typed(dhcp_renew(d))
           /\ Clear(dhcp_rebind(d)) /\ dhcp_rebind(d).link = d.link /\ Typed(dhcp_rebind(d))
  <1>1. ASSUME NEW e, NEW s \in {"RENEWING", "REBINDING"}, Turns(d, e, s, "REQUEST", d.addr)
        PROVE  Clear(e) /\ e.link = d.link /\ Typed(e)
    <2> DEFINE msg == [type |-> "REQUEST", addr |-> d.addr, xid |-> e.xid]
    <2>1. msg.addr = d.addr
      OBVIOUS
    <2> HIDE DEF msg
    <2>2. /\ Typed(e) /\ e.state = s /\ e.addr = d.addr /\ e.link = d.link
          /\ e.out = <<>> \/ e.out = Append(<<>>, msg)
      BY <1>1 DEF Turns, Sends, SameClient, msg
    <2>3. \A i \in DOMAIN e.out : e.out[i] = msg
      BY <2>2
    <2>. QED
      BY <1>1, <2>1, <2>2, <2>3 DEF Clear, Probed, Renews
  <1>. QED
    BY <1>1, Requests

\* The request timer has run out, with nothing on the wire: the probe of the
\* address on offer was not answered.
LEMMA TimeoutClear ==
    ASSUME NEW d, Typed(d), FreshWorks, Clear(d), d.out = <<>>, replies = {}, phy.up,
           d.state \in Asking \cup Leased, ANY \notin others
    PROVE  LET e == dhcp_timeout(d)
           IN  /\ Typed(e) /\ Clear(e) /\ e.link = d.link
               /\ d.state \notin Leased /\ (d.state = "CHECKING" => d.tries = 1) =>
                     e.state \notin Leased
  <1> DEFINE e == dhcp_timeout(d)
             Good(c) == /\ Typed(c) /\ Clear(c) /\ c.link = d.link
                        /\ d.state \notin Leased /\ (d.state = "CHECKING" => d.tries = 1) =>
                              c.state \notin Leased
  <1>1. /\ Typed(d) /\ FreshWorks /\ d.addr \notin others /\ d.state # "REBOOTING"
        /\ d.tries \in Nat
    BY DEF Clear, Typed
  <1>2. Good(dhcp_discover(d)) /\ Good(dhcp_select(d))
    BY <1>1, RequestsClear DEF Leased
  <1>3. Good(dhcp_check(d))
    BY <1>1, CheckClear DEF Leased
  <1>4. Good(dhcp_discover(dhcp_release(d)))
    <2> DEFINE r == dhcp_release(d)
    <2>1. Typed(r) /\ r.addr \notin others /\ r.link = d.link
      BY <1>1, Releases, Zenon DEF Asking, Leased
    <2> HIDE DEF r
    <2>. QED
      BY <1>1, <2>1, RequestsClear DEF Leased, r
  <1>5. d.state = "CHECKING" /\ ~(d.tries <= 1) => Good(dhcp_bind(d))
    <2> DEFINE b == dhcp_bind(d)
    <2>1. Typed(b) /\ b.state = "BOUND" /\ b.addr = d.offered /\ b.link = d.link
      BY <1>1, Binds
    <2> HIDE DEF b
    <2>2. d.state = "CHECKING" => d.offered \notin others
      BY DEF Clear, Probed
    <2>. QED
      BY <2>1, <2>2, Settled DEF b
  <1>6. d.state \in Leased => Good(d)
    BY <1>1
  <1>7. Good(e)
    <2> HIDE DEF Good
    <2>. QED
      <3>1. d.state = "CHECKING" => Good(e)
        BY <1>1, <1>3, <1>5 DEF dhcp_timeout
      <3>2. d.state = "REQUESTING" => Good(e)
        BY <1>1, <1>2, <1>4 DEF dhcp_timeout
      <3>3. d.state \in {"SELECTING", "BACKING_OFF", "REBOOTING"} => Good(e)
        BY <1>1, <1>2 DEF dhcp_timeout
      <3>4. d.state \in Leased => Good(e)
        BY <1>1, <1>6 DEF dhcp_timeout, Leased
      <3>. QED
        BY <3>1, <3>2, <3>3, <3>4 DEF Asking
  <1>. QED
    BY <1>7

\* Nor does a tick.
LEMMA CoarseClear ==
    ASSUME NEW d, Alive(d), FreshWorks, Clear(d), d.out = <<>>, replies = {},
           ANY \notin others
    PROVE  LET e == CoarseTimer(d)
           IN  /\ Typed(e) /\ Clear(e) /\ e.link = d.link
               /\ d.t0 = 0 /\ d.t1 = 0 /\ d.t2 = 0 =>
                     /\ SameButTimers(d, e) /\ e.t1 = 0 /\ e.t2 = 0
  <1> DEFINE e == CoarseTimer(d)
  <1>1. PICK c : /\ Ticked(d, c)
                 /\ \/ LeaseEnds(d) /\ e = dhcp_discover(dhcp_release(c))
                    \/ d.t2 = 1 /\ e = dhcp_rebind(c)
                    \/ d.t1 = 1 /\ e = dhcp_renew(c)
                    \/ /\ e = c /\ (d.t2 = 0 => c.t2 = 0)
                       /\ d.t1 = 0 => c.t1 = 0
    BY CoarseOutcome DEF Alive, Sound
  <1> HIDE DEF e
  <1>2. /\ Typed(c) /\ c.addr = d.addr /\ c.addr \notin others
        /\ c.link = d.link /\ c.out = <<>> /\ Clear(c) /\ SameButTimers(d, c)
    BY <1>1 DEF SameButTimers, Ticked, Clear, Probed, Renews
  <1>3. CASE LeaseEnds(d) /\ e = dhcp_discover(dhcp_release(c))
    <2> DEFINE r == dhcp_release(c)
    <2>0. c.state # "OFF"
      BY <1>2 DEF SameButTimers, Alive, Asking, Leased
    <2>1. Typed(r) /\ r.addr \notin others /\ r.link = d.link
      BY <1>2, <2>0, Releases, Zenon
    <2> HIDE DEF r
    <2>2. Typed(e) /\ Clear(e) /\ e.link = d.link
      BY <1>2, <1>3, <2>1, RequestsClear DEF r
    <2>. QED
      BY <1>3, <2>2 DEF LeaseEnds, e
  <1>4. CASE d.t2 = 1 /\ e = dhcp_rebind(c)
    BY <1>2, <1>4, RenewClear DEF e
  <1>5. CASE d.t1 = 1 /\ e = dhcp_renew(c)
    BY <1>2, <1>5, RenewClear DEF e
  <1>6. CASE /\ e = c /\ (d.t2 = 0 => c.t2 = 0)
             /\ d.t1 = 0 => c.t1 = 0
    BY <1>2, <1>6 DEF e
  <1>. QED
    BY <1>1, <1>3, <1>4, <1>5, <1>6, Zenon

\* What Linked needs of the client that polls the link.
Pollable(d) ==
    /\ Typed(d) /\ Clear(d) /\ d.link \in BOOLEAN /\ (d.link => phy.reg)
    /\ d.out # <<>> \/ replies # {} => phy.up
    /\ ~d.link /\ phy.reg => d.state \notin Leased
    /\ ~d.link /\ ~phy.reg =>
          /\ d.state = "SELECTING" /\ d.t0 = 0 /\ d.t1 = 0 /\ d.t2 = 0
          /\ replies = {}

\* What a poll leaves behind.
LEMMA PollClear ==
    ASSUME NEW d, Pollable(d), FreshWorks, enet_poll(d),
           phy \in [up : BOOLEAN, reg : BOOLEAN], others' = others, replies' = replies,
           phy.reg => phy.up
    PROVE  Linked'
  <1> USE DEF Pollable
  <1>1. dhcp' = check_link_status(d) /\ phy' = [phy EXCEPT !.reg = phy.up]
    BY DEF enet_poll
  <1>2. /\ phy'.up = phy.up /\ phy'.reg = phy.up /\ phy.up \in BOOLEAN /\ phy.reg \in BOOLEAN
        /\ phy' \in [up : BOOLEAN, reg : BOOLEAN]
    BY <1>1
  <1>3. ASSUME NEW e, dhcp' = e, Clear(e) PROVE Clear(dhcp)'
    BY <1>3 DEF Clear, Probed, Renews
  <1>4. CASE d.link
    <2>1. phy.reg /\ phy.up /\ phy.reg = d.link
      BY <1>2, <1>4, Zenon
    <2>2. dhcp' = d
      BY <1>1, <2>1, Zenon DEF check_link_status
    <2>. QED
      BY <1>2, <1>3, <1>4, <2>1, <2>2, Zenon DEF Linked, Unlinked
  <1>5. CASE ~d.link /\ phy.reg
    <2> DEFINE e == check_link_status(d)
    <2>1. phy.reg = TRUE /\ d.link = FALSE /\ d.state # "REBOOTING" /\ d.addr \notin others
      BY <1>2, <1>5 DEF Clear
    <2>2. e.state = "SELECTING" /\ e.addr = d.addr /\ e.link = TRUE
      BY <1>5, <2>1, LinkUp, Zenon
    <2> HIDE DEF e
    <2>3. Clear(e)
      BY <2>1, <2>2, Settled
    <2>4. dhcp' = e
      BY <1>1 DEF e
    <2>. QED
      BY <1>2, <1>3, <1>5, <2>2, <2>3, <2>4, Zenon DEF Linked, Unlinked
  <1>6. CASE ~d.link /\ ~phy.reg
    <2>1. dhcp' = d
      BY <1>1, <1>2, <1>6 DEF check_link_status
    <2>. QED
      BY <1>2, <1>3, <1>6, <2>1 DEF Linked, Unlinked, Leased
  <1>. QED
    BY <1>4, <1>5, <1>6

-----------------------------------------------------------------------------
(* Addresses of other hosts: the steps.                                    *)

\* HostsInv holds at first.
LEMMA HostsInit ==
    ASSUME Init, CountFacts
    PROVE  HostsInv
  <1>1. /\ dhcp.state = "SELECTING" /\ dhcp.addr = ANY /\ dhcp.link = FALSE
        /\ dhcp.t0 = 0 /\ dhcp.t1 = 0 /\ dhcp.t2 = 0 /\ (~phy.up => dhcp.out = <<>>)
    BY DEF Init
  <1>2. /\ phy \in [up : BOOLEAN, reg : BOOLEAN] /\ phy.reg = phy.up
        /\ replies = {} /\ others = {} /\ faults = 0
    BY DEF Init
  <1>3. phy.reg <=> phy.up
    BY <1>2, Zenon
  <1>4. Clear(dhcp) /\ Unlinked(dhcp)
    BY <1>1, <1>2, <1>3 DEF Clear, Probed, Renews, Unlinked, Leased
  <1>5. Linked
    <2>1. dhcp.link \in BOOLEAN
      BY <1>1, Zenon
    <2>2. ~dhcp.link
      BY <1>1, Zenon
    <2>. QED
      BY <1>1, <1>2, <1>3, <1>4, <2>1, <2>2 DEF Linked
  <1>7. Cardinality(others) = 0
    BY <1>2, Zenon DEF CountFacts
  <1>8. others \in SUBSET Addrs /\ faults \in Nat /\ Cardinality(others) <= faults
    BY <1>2, <1>7
  <1>. QED
    BY <1>5, <1>8 DEF HostsInv

\* A message that arrives once.
LEMMA HostsRecv ==
    ASSUME StuckInv, FreshWorks, Linked, ANY \notin others,
           NEW m \in replies, Receive(m, FALSE)
    PROVE  Linked'
  <1> DEFINE ack == dhcp_handle_ack(dhcp, m)
             offer == Offered(dhcp, m)
             nak == Refused(dhcp)
  <1>0. /\ Typed(dhcp) /\ m \in Answers /\ dhcp.timer \in 0..2 /\ Clear(dhcp)
        /\ dhcp.addr \notin others /\ dhcp.state # "REBOOTING" /\ m.addr \in Hosts
    BY DEF StuckInv, Alive, Sound, Linked, Clear, Answers
  <1>1. /\ replies' = replies \ {m} /\ others' = others /\ phy' = phy
        /\ dhcp' = IF m.type = "ARPREPLY" THEN dhcp_arp_reply(dhcp, m) ELSE dhcp_recv(dhcp, m)
    BY DEF Receive
  <1>2. /\ phy.up /\ (~dhcp.link => phy.reg)
        /\ ~dhcp.link => /\ dhcp.t0 = 0 /\ dhcp.t1 = 0 /\ dhcp.t2 = 0
                         /\ dhcp.state \notin Leased
                         /\ dhcp.state = "CHECKING" => dhcp.tries = 1
    BY DEF Linked, Unlinked
  <1>3. ASSUME NEW e, dhcp' = e, e.link = dhcp.link, Clear(dhcp)',
               ~e.link => /\ SameTimers(dhcp, e) /\ e.state \notin Leased
                          /\ e.state = "CHECKING" => e.tries = 1
        PROVE  Linked'
    BY <1>1, <1>2, <1>3 DEF Linked, Unlinked, SameTimers
  <1>4. ASSUME NEW e, dhcp' = e, e.addr \notin others,
               e.state \in {"SELECTING", "REQUESTING", "BACKING_OFF", "BOUND"}
        PROVE  Clear(dhcp)'
    BY <1>1, <1>4, SMTT(30) DEF Clear, Probed, Renews
  <1>5. CASE m.type = "ARPREPLY" /\ dhcp.state = "CHECKING" /\ m.addr = dhcp.offered
    <2> DEFINE e == dhcp_decline(dhcp)
    <2>1. /\ Clear(e) /\ e.link = dhcp.link /\ e.state = "BACKING_OFF" /\ SameTimers(dhcp, e)
      BY <1>0, RequestsClear
    <2>2. dhcp' = e
      BY <1>1, <1>5 DEF dhcp_arp_reply
    <2> HIDE DEF e
    <2>. QED
      BY <1>3, <1>4, <2>1, <2>2 DEF Clear, Leased
  <1>6. ASSUME dhcp' = dhcp, ~(m.type = "ARPREPLY" /\ dhcp.state = "CHECKING"
                                                   /\ m.addr = dhcp.offered)
        PROVE  Linked'
    <2>1. Clear(dhcp)'
      BY <1>0, <1>1, <1>6 DEF Clear, Probed, Renews
    <2>2. PICK e : e = dhcp
      OBVIOUS
    <2>. QED
      BY <1>2, <1>3, <1>6, <2>1, <2>2, SMTT(30) DEF SameTimers
  <1>7. CASE m.type = "ARPREPLY" /\ ~(dhcp.state = "CHECKING" /\ m.addr = dhcp.offered)
    BY <1>1, <1>6, <1>7 DEF dhcp_arp_reply
  <1>8. CASE m.type # "ARPREPLY"
    <2>1. /\ Typed(ack) /\ ack.state = dhcp.state /\ ack.addr = dhcp.addr
          /\ ack.link = dhcp.link /\ SameTimers(dhcp, ack) /\ ack.offered = m.addr
      BY <1>0, AckFields
    <2>2. /\ Typed(offer) /\ offer.addr = dhcp.addr /\ offer.link = dhcp.link
          /\ SameTimers(dhcp, offer)
      BY <1>0, OfferFields
    <2>3. /\ Typed(nak) /\ nak.addr = ANY /\ nak.link = dhcp.link /\ SameTimers(dhcp, nak)
      BY <1>0, RefusedFields
    <2>4. \/ dhcp.state = "REQUESTING" /\ dhcp' = dhcp_check(ack)
          \/ /\ m.type = "ACK" /\ dhcp.state \in {"REBINDING", "RENEWING"}
             /\ dhcp' = dhcp_bind(ack)
          \/ dhcp' = dhcp_discover(nak)
          \/ dhcp' = dhcp_select(offer)
          \/ dhcp' = dhcp
      BY <1>0, <1>1, <1>8, RecvOutcome
    <2> HIDE DEF ack, offer, nak
    <2>5. CASE dhcp.state = "REQUESTING" /\ dhcp' = dhcp_check(ack)
      <3> DEFINE e == dhcp_check(ack)
      <3>1. /\ e.link = ack.link /\ e.state = "CHECKING" /\ SameTimers(ack, e)
            /\ e.addr = ack.addr /\ e.tries = 1
            /\ \E i \in DOMAIN e.out : e.out[i].type = "ARP" /\ e.out[i].addr = e.offered
        BY <1>0, <1>2, <2>1, <2>5, CheckClear
      <3> HIDE DEF e
      <3>2. dhcp' = e
        BY <2>5 DEF e
      <3>3. Clear(dhcp)'
        BY <1>0, <1>1, <2>1, <3>1, <3>2 DEF Clear, Probed, Renews
      <3>. QED
        BY <1>3, <2>1, <3>1, <3>2, <3>3, SMTT(30) DEF SameTimers, Leased
    <2>6. CASE /\ m.type = "ACK" /\ dhcp.state \in {"REBINDING", "RENEWING"}
               /\ dhcp' = dhcp_bind(ack)
      <3> DEFINE e == dhcp_bind(ack)
      <3>1. e.state = "BOUND" /\ e.addr = m.addr /\ e.link = dhcp.link
        BY <2>1, Binds, SMTT(30)
      <3> HIDE DEF e
      <3>2. dhcp' = e /\ m.addr = dhcp.addr /\ dhcp.link
        BY <1>0, <1>2, <2>6 DEF e, Clear, Renews, Leased
      <3>. QED
        BY <1>0, <1>3, <1>4, <3>1, <3>2, Zenon
    <2>7. CASE dhcp' = dhcp_discover(nak)
      <3> DEFINE e == dhcp_discover(nak)
      <3>1. Clear(e) /\ e.link = nak.link /\ e.state = "SELECTING" /\ SameTimers(nak, e)
        BY <2>3, RequestsClear
      <3> HIDE DEF e
      <3>2. dhcp' = e
        BY <2>7 DEF e
      <3>. QED
        BY <1>3, <1>4, <2>3, <3>1, <3>2 DEF Clear, SameTimers, Leased
    <2>8. CASE dhcp' = dhcp_select(offer)
      <3> DEFINE e == dhcp_select(offer)
      <3>1. Clear(e) /\ e.link = offer.link /\ e.state = "REQUESTING" /\ SameTimers(offer, e)
        BY <1>0, <2>2, RequestsClear
      <3> HIDE DEF e
      <3>2. dhcp' = e
        BY <2>8 DEF e
      <3>. QED
        BY <1>3, <1>4, <2>2, <3>1, <3>2 DEF Clear, SameTimers, Leased
    <2>9. CASE dhcp' = dhcp
      BY <1>6, <1>8, <2>9
    <2>. QED
      BY <2>4, <2>5, <2>6, <2>7, <2>8, <2>9, Zenon
  <1>. QED
    BY <1>5, <1>7, <1>8, SMTT(30)

\* The server or a host answers: a host whose address is probed does.
LEMMA HostsAnswer ==
    ASSUME StuckInv, Linked, Answer
    PROVE  Linked'
  <1> DEFINE e == Popped(dhcp)
             h == Head(dhcp.out)
             o == dhcp.out
  <1>1. /\ dhcp.out # <<>> /\ dhcp' = e /\ others' = others /\ phy' = phy
    BY DEF Answer, Popped
  <1>2. Typed(dhcp) /\ o \in Seq(Sent) /\ h = o[1]
    BY <1>1 DEF StuckInv, Alive, Sound, Typed
  <1>3. /\ Typed(e) /\ SameClient(dhcp, e) /\ e.out = Tail(o)
        /\ e.state = dhcp.state /\ e.tries = dhcp.tries
    <2> DEFINE t == Tail(o)
    <2>1. t \in Seq(Sent) /\ e = [dhcp EXCEPT !.out = t]
      BY <1>1, <1>2 DEF Popped
    <2> HIDE DEF t, e
    <2>2. /\ Typed(e) /\ SameClient(dhcp, e) /\ e.out = t
          /\ e.state = dhcp.state /\ e.tries = dhcp.tries
      BY <1>2, <2>1, Zenon DEF Typed, Shape, SameClient, SameLease, Fields
    <2>. QED
      BY <2>2 DEF t
  <1>4. /\ \A i \in DOMAIN e.out : i + 1 \in DOMAIN o /\ e.out[i] = o[i + 1]
        /\ \A i \in DOMAIN o : i = 1 \/ (i - 1 \in DOMAIN e.out /\ e.out[i - 1] = o[i])
        /\ 1 \in DOMAIN o
    BY <1>1, <1>2, <1>3
  <1>5. /\ phy.up /\ (~dhcp.link => phy.reg)
    BY <1>1 DEF Linked, Unlinked
  <1>6. /\ replies \subseteq replies'
        /\ h.type = "ARP" /\ h.addr \in others =>
              \E m \in replies' : m.type = "ARPREPLY" /\ m.addr = h.addr
        /\ \A m \in replies' \ replies : m.type = "ACK" => h.type = "REQUEST" /\ m.addr = h.addr
    <2> DEFINE new(type, a, secs) == [type |-> type, addr |-> a, lease |-> secs,
                                      xid |-> h.xid, late |-> FALSE]
    <2>1. \/ replies' = replies /\ ~(h.type = "ARP" /\ h.addr \in others)
          \/ \E a : \/ h.type # "ARP" /\ replies' = replies \cup {new("OFFER", a, 0)}
                    \/ h.type # "ARP" /\ replies' = replies \cup {new("NAK", a, 0)}
          \/ h.type = "ARP" /\ replies' = replies \cup {new("ARPREPLY", h.addr, 0)}
          \/ \E secs : h.type = "REQUEST" /\ replies' = replies \cup {new("ACK", h.addr, secs)}
      BY Zenon DEF Answer, Reply, h
    <2>2. \A type, a, secs : new(type, a, secs).type = type /\ new(type, a, secs).addr = a
      OBVIOUS
    <2> HIDE DEF new, h
    <2>3. \/ replies' = replies /\ ~(h.type = "ARP" /\ h.addr \in others)
          \/ \E m : /\ replies' = replies \cup {m}
                    /\ \/ h.type # "ARP" /\ m.type # "ACK"
                       \/ h.type = "ARP" /\ m.type = "ARPREPLY" /\ m.addr = h.addr
                       \/ h.type = "REQUEST" /\ m.addr = h.addr
      BY <2>1, <2>2
    <2>. QED
      BY <2>3
  <1> HIDE DEF e, h
  <1>7. Probed(dhcp)'
    <2> SUFFICES ASSUME e.state = "CHECKING", e.offered \in others
                 PROVE  \/ \E i \in DOMAIN e.out : /\ e.out[i].type = "ARP"
                                                   /\ e.out[i].addr = e.offered
                        \/ \E m \in replies' : m.type = "ARPREPLY" /\ m.addr = e.offered
      BY <1>1 DEF Probed
    <2>1. \/ \E i \in DOMAIN o : o[i].type = "ARP" /\ o[i].addr = e.offered
          \/ \E m \in replies : m.type = "ARPREPLY" /\ m.addr = e.offered
      BY <1>3 DEF Linked, Clear, Probed, SameClient
    <2>. QED
      BY <1>2, <1>4, <1>6, <2>1, Zenon
  <1>8. Renews(dhcp)'
    <2> SUFFICES ASSUME e.state \in {"RENEWING", "REBINDING"}
                 PROVE  /\ \A i \in DOMAIN e.out : e.out[i].type = "REQUEST" =>
                                                      e.out[i].addr = e.addr
                        /\ \A m \in replies' : m.type = "ACK" => m.addr = e.addr
      BY <1>1 DEF Renews
    <2>1. /\ \A i \in DOMAIN o : o[i].type = "REQUEST" => o[i].addr = e.addr
          /\ \A m \in replies : m.type = "ACK" => m.addr = e.addr
      BY <1>3 DEF Linked, Clear, Renews, SameClient
    <2>. QED
      BY <1>2, <1>4, <1>6, <2>1
  <1>9. Clear(dhcp)'
    BY <1>1, <1>3, <1>7, <1>8, SMTT(30) DEF Linked, Clear, SameClient
  <1>10. Unlinked(dhcp)'
    BY <1>1, <1>3, <1>5 DEF Linked, Unlinked, SameClient, SameLease
  <1>. QED
    BY <1>1, <1>3, <1>5, <1>9, <1>10 DEF Linked, SameClient

\* A timer that fires while nothing is on the wire, or none.
LEMMA HostsPoll ==
    ASSUME StuckInv, FreshWorks, Linked, ANY \notin others, others' = others,
           replies' = replies,
           \/ enet_poll(dhcp)
           \/ /\ dhcp.out = <<>> /\ replies = {}
              /\ \/ enet_poll(dhcp_timeout(WithTimer(dhcp, 0)))
                 \/ dhcp.timer < 2 /\ enet_poll(CoarseTimer(WithTimer(dhcp, 2 * dhcp.timer)))
    PROVE  Linked'
  <1>1. /\ Typed(dhcp) /\ dhcp.timer \in 0..2 /\ Alive(dhcp)
        /\ dhcp.link \in BOOLEAN /\ phy \in [up : BOOLEAN, reg : BOOLEAN]
    BY DEF StuckInv, Alive, Sound, Linked
  <1>2. /\ Clear(dhcp) /\ (dhcp.link => phy.reg) /\ (phy.reg => phy.up)
        /\ dhcp.out # <<>> \/ replies # {} => phy.up
        /\ ~dhcp.link =>
              /\ dhcp.t0 = 0 /\ dhcp.t1 = 0 /\ dhcp.t2 = 0
              /\ dhcp.state \notin Leased /\ (dhcp.state = "CHECKING" => dhcp.tries = 1)
              /\ ~phy.reg => dhcp.state = "SELECTING" /\ dhcp.out = <<>> /\ replies = {}
    BY DEF Linked, Unlinked
  <1>3. CASE enet_poll(dhcp)
    <2>1. Pollable(dhcp)
      BY <1>1, <1>2, SMTT(30) DEF Pollable
    <2>. QED
      BY <1>1, <1>2, <1>3, <2>1, PollClear
  <1>4. ASSUME NEW n \in 0..2, NEW d, d = WithTimer(dhcp, n)
        PROVE  /\ Typed(d) /\ Clear(d) /\ d.out = dhcp.out /\ d.link = dhcp.link
               /\ d.state = dhcp.state /\ d.tries = dhcp.tries /\ d.timer = n
               /\ SameTimers(dhcp, d) /\ d.addr = dhcp.addr
    <2>1. /\ Typed(d) /\ SameClient(dhcp, d) /\ d.timer = n /\ d.out = dhcp.out
          /\ d.xid = dhcp.xid /\ d.state = dhcp.state /\ d.tries = dhcp.tries
      BY <1>1, <1>4, SetTimer
    <2>. QED
      BY <1>1, <1>2, <2>1
         DEF Clear, Probed, Renews, SameClient, SameLease, SameTimers
  <1>5. ASSUME dhcp.out = <<>>, replies = {}, enet_poll(dhcp_timeout(WithTimer(dhcp, 0)))
        PROVE  Linked'
    <2>1. PICK d : d = WithTimer(dhcp, 0)
      OBVIOUS
    <2>2. /\ Typed(d) /\ Clear(d) /\ d.out = dhcp.out /\ d.link = dhcp.link
          /\ d.state = dhcp.state /\ d.tries = dhcp.tries /\ SameTimers(dhcp, d)
          /\ d.state \in Asking \cup Leased
      BY <1>1, <1>4, <2>1 DEF Alive
    <2>3. PICK e : e = dhcp_timeout(d)
      OBVIOUS
    <2>4. enet_poll(e)
      BY <1>5, <2>1, <2>3
    <2>5. CASE phy.up
      <3>1. /\ Typed(e) /\ Clear(e) /\ e.link = d.link
            /\ d.state \notin Leased /\ (d.state = "CHECKING" => d.tries = 1) =>
                  e.state \notin Leased
        BY <1>5, <2>2, <2>3, <2>5, TimeoutClear, SMTT(30)
      <3>2. d.state = "SELECTING" => e.state = "SELECTING" /\ SameTimers(d, e)
        <4>1. d.state = "SELECTING" => e = dhcp_discover(d)
          BY <2>3 DEF dhcp_timeout
        <4>2. d.addr \notin others
          BY <2>2 DEF Clear
        <4>. QED
          BY <2>2, <4>1, <4>2, RequestsClear
      <3>. QED
        <4>1. Pollable(e)
          BY <1>1, <1>2, <1>5, <2>2, <2>5, <3>1, <3>2, SMTT(30) DEF Pollable, SameTimers
        <4>. QED
          BY <1>1, <1>2, <2>4, <4>1, PollClear, SMTT(30)
    <2>6. CASE ~phy.up
      <3>1. ~dhcp.link /\ ~phy.reg /\ d.state = "SELECTING" /\ d.addr \notin others
        BY <1>2, <2>2, <2>6 DEF Clear
      <3>2. e = dhcp_discover(d)
        BY <2>3, <3>1, SMTT(30) DEF dhcp_timeout
      <3>3. /\ Typed(e) /\ Clear(e) /\ e.link = d.link /\ e.state = "SELECTING"
            /\ SameTimers(d, e)
        BY <2>2, <3>1, <3>2, RequestsClear, SMTT(30)
      <3>4. e.out = <<>>
        <4> DEFINE q == [d EXCEPT !.offered = ANY]
        <4>1. q.out = d.out /\ Sends(q, e, "DISCOVER", ANY)
          BY <2>2, <3>2, Requests, SMTT(30) DEF Discovers, Turns
        <4> HIDE DEF q
        <4>. QED
          BY <1>5, <2>2, <2>6, <4>1 DEF Sends
      <3>. QED
        <4>1. Pollable(e)
          BY <1>1, <1>2, <1>5, <2>2, <3>1, <3>3, <3>4 DEF Pollable, SameTimers
        <4>. QED
          BY <1>1, <1>2, <2>4, <4>1, PollClear, SMTT(30)
    <2>. QED
      BY <2>5, <2>6
  <1>6. ASSUME dhcp.out = <<>>, replies = {}, dhcp.timer < 2,
               enet_poll(CoarseTimer(WithTimer(dhcp, 2 * dhcp.timer)))
        PROVE  Linked'
    <2>1. PICK d : d = WithTimer(dhcp, 2 * dhcp.timer)
      OBVIOUS
    <2>0. 2 * dhcp.timer \in 0..2 /\ (dhcp.timer > 0 => 2 * dhcp.timer > 0)
      BY <1>1, <1>6
    <2>2. /\ Typed(d) /\ Clear(d) /\ d.out = dhcp.out /\ d.link = dhcp.link
          /\ d.state = dhcp.state /\ SameTimers(dhcp, d)
      BY <1>4, <2>0, <2>1
    <2>3. Alive(d)
      BY <1>1, <1>6, <2>1, AliveFields
    <2>4. PICK e : e = CoarseTimer(d)
      OBVIOUS
    <2>5. enet_poll(e)
      BY <1>6, <2>1, <2>4, SMTT(30)
    <2>6. /\ Typed(e) /\ Clear(e) /\ e.link = d.link
          /\ d.t0 = 0 /\ d.t1 = 0 /\ d.t2 = 0 =>
                SameButTimers(d, e) /\ e.t1 = 0 /\ e.t2 = 0
      BY <1>6, <2>2, <2>3, <2>4, CoarseClear, SMTT(30)
    <2>7. ~dhcp.link => /\ e.state = dhcp.state /\ e.out = <<>>
                        /\ e.t0 = 0 /\ e.t1 = 0 /\ e.t2 = 0
      BY <1>2, <1>6, <2>2, <2>6 DEF SameTimers, SameButTimers
    <2>. QED
      <3>1. Pollable(e)
        BY <1>1, <1>2, <1>6, <2>2, <2>6, <2>7 DEF Pollable
      <3>. QED
        BY <1>1, <1>2, <2>5, <3>1, PollClear, SMTT(30)
  <1>. QED
    BY <1>3, <1>5, <1>6

\* HostsInv is inductive, given StuckInv.
LEMMA HostsNext ==
    ASSUME StuckInv, FreshWorks, CountFacts, HostsInv, [Next]_vars
    PROVE  HostsInv'
  <1>0. /\ others \in SUBSET Addrs /\ ANY \notin others /\ faults \in Nat
        /\ Cardinality(others) \in Nat /\ Cardinality(others) <= faults
        /\ Typed(dhcp) /\ dhcp.timer \in 0..2
    BY DhcpAssumption DEF HostsInv, CountFacts, StuckInv, Alive, Sound
  <1>1. ASSUME NEW n \in Nat, faults' = faults + n, others' = others, n = 0 /\ Linked => Linked'
        PROVE  HostsInv'
    BY <1>0, <1>1 DEF HostsInv, OnlyHosts
  <1>2. ASSUME faults' = faults, others' = others, Linked => Linked'
        PROVE  HostsInv'
    BY <1>0, <1>1, <1>2
  <1>3. ASSUME faults' = faults + 1, others' = others PROVE HostsInv'
    BY <1>0, <1>1, <1>3
  <1>4. CASE UNCHANGED vars
    <2>1. Linked => Linked'
      BY <1>4 DEF vars, Linked, Clear, Probed, Renews, Unlinked
    <2>. QED
      BY <1>2, <1>4, <2>1, SMTT(30) DEF vars
  <1>5. CASE PollLink
    <2>1. /\ enet_poll(dhcp) /\ replies' = replies /\ others' = others /\ faults' = faults
      BY <1>5 DEF PollLink
    <2>. QED
      BY <1>0, <1>2, <2>1, HostsPoll
  <1>6. CASE dhcp_fine_tmr
    <2>1. /\ faults' = faults + (IF InFlight THEN 1 ELSE 0)
          /\ replies' = replies /\ others' = others
          /\ enet_poll(dhcp_timeout(WithTimer(dhcp, 0)))
      BY <1>6, Zenon DEF dhcp_fine_tmr, Fault, WithTimer
    <2>2. CASE InFlight
      BY <1>3, <2>1, <2>2
    <2>3. CASE ~InFlight
      <3>1. dhcp.out = <<>> /\ replies = {} /\ faults' = faults
        BY <1>0, <2>1, <2>3 DEF InFlight
      <3>. QED
        BY <1>0, <1>2, <2>1, <3>1, HostsPoll
    <2>. QED
      BY <2>2, <2>3
  <1>7. CASE dhcp_coarse_tmr
    <2>1. /\ faults' = faults + Cardinality(replies) /\ others' = others
          /\ dhcp.out = <<>> /\ dhcp.timer < 2
          /\ replies' = {[m EXCEPT !.late = TRUE] : m \in replies}
          /\ enet_poll(CoarseTimer([dhcp EXCEPT !.timer = 2 * @]))
      BY <1>7 DEF dhcp_coarse_tmr, Fault
    <2>2. enet_poll(CoarseTimer(WithTimer(dhcp, 2 * dhcp.timer)))
      <3>1. [dhcp EXCEPT !.timer = 2 * @] = WithTimer(dhcp, 2 * dhcp.timer)
        BY Zenon DEF WithTimer
      <3>. QED
        BY <2>1, <3>1, Zenon
    <2>3. ASSUME Cardinality(replies) = 0, Linked PROVE Linked'
      <3>1. replies = {} /\ replies' = replies
        <4>1. replies = {}
          BY <2>3, Zenon DEF CountFacts
        <4>. QED
          BY <2>1, <4>1
      <3>2. others' = others /\ dhcp.out = <<>> /\ dhcp.timer < 2 /\ ANY \notin others
        BY <1>0, <2>1
      <3>. QED
        BY <2>2, <2>3, <3>1, <3>2, HostsPoll, Zenon
    <2>. QED
      BY <1>1, <2>1, <2>3 DEF CountFacts
  <1>8. ASSUME NEW m \in replies, NEW again \in BOOLEAN, Receive(m, again)
        PROVE  HostsInv'
    <2>1. faults' = faults + (IF again THEN 1 ELSE 0) /\ others' = others
      BY <1>8 DEF Receive, Fault
    <2>2. CASE again = TRUE
      BY <1>3, <2>1, <2>2
    <2>3. CASE again = FALSE
      <3>1. Receive(m, FALSE) /\ faults' = faults + 0
        BY <1>8, <2>1, <2>3, Zenon
      <3>2. faults' = faults
        BY <1>0, <3>1
      <3>. QED
        BY <1>0, <1>2, <2>1, <3>1, <3>2, HostsRecv, Zenon
    <2>. QED
      BY <2>2, <2>3, Zenon
  <1>9. CASE Answer
    <2>1. others' = others /\ faults' = faults
      BY <1>9 DEF Answer
    <2>. QED
      BY <1>2, <1>9, <2>1, HostsAnswer
  <1>10. CASE Lose \/ Withdraw \/ Unplug
    <2>1. others' = others /\ faults' = faults + 1
      BY <1>10 DEF Lose, Withdraw, Unplug, Fault
    <2>. QED
      BY <1>3, <2>1
  <1>11. CASE Plug
    <2>1. /\ others' = others /\ faults' = faults /\ dhcp' = dhcp /\ replies' = replies
          /\ phy' = [phy EXCEPT !.up = TRUE]
      BY <1>11 DEF Plug
    <2>2. ASSUME Linked PROVE Linked'
      <3>1. phy'.reg = phy.reg /\ phy'.up = TRUE /\ phy' \in [up : BOOLEAN, reg : BOOLEAN]
        BY <2>1, <2>2, Zenon DEF Linked
      <3>. QED
        BY <2>1, <2>2, <3>1 DEF Linked, Clear, Probed, Renews, Unlinked
    <2>. QED
      BY <1>2, <2>1, <2>2
  <1>12. CASE HostAppears
    <2>1. PICK a \in Addrs \ {dhcp.addr, dhcp.offered} :
             a \notin others /\ others' = others \cup {a}
      BY <1>12 DEF HostAppears
    <2>2. /\ faults' = faults + 1 /\ dhcp' = dhcp /\ replies' = replies /\ phy' = phy
      BY <1>12 DEF HostAppears, Fault
    <2>3. Cardinality(others') = Cardinality(others) + 1
      BY <2>1 DEF CountFacts
    <2>4. Linked => Linked'
      BY <2>1, <2>2 DEF Linked, Clear, Probed, Renews, Unlinked
    <2>. QED
      BY <1>0, <2>1, <2>2, <2>3, <2>4 DEF HostsInv, OnlyHosts
  <1>. QED
    BY <1>4, <1>5, <1>6, <1>7, <1>8, <1>9, <1>10, <1>11, <1>12 DEF Next, Client

-----------------------------------------------------------------------------
(* Transaction ids.                                                        *)

\* The ids that FreshXid avoids.
Carried(d) ==
    {d.out[i].xid : i \in DOMAIN d.out} \cup {m.xid : m \in replies} \cup {d.xid}

\* FreshXid takes the least id that is free.
LEMMA FreshIsLeast ==
    ASSUME NEW d
    PROVE  FreshXid(d) = Min(0 .. Cardinality(Carried(d)) \ Carried(d))
  BY Zenon DEF FreshXid, Carried


\* A nonempty set of natural numbers has a least element.
LEMMA LeastIsIn ==
    ASSUME NEW S \in SUBSET Nat, S # {}
    PROVE  Min(S) \in S
  <1> DEFINE R == OpToRel(<, Nat)
  <1>1. ASSUME NEW x \in Nat, NEW y \in Nat, y < x PROVE <<y, x>> \in R
    <2>1. PICK p : p = <<y, x>>
      BY Zenon
    <2>2. p \in Nat \X Nat /\ p[1] < p[2]
      BY <1>1, <2>1
    <2>. QED
      BY <2>1, <2>2, Zenon DEF OpToRel
  <1>2. \E x \in S : \A y \in S : ~(<<y, x>> \in R)
    BY NatLessThanWellFounded, WFMin, Zenon
  <1> HIDE DEF R
  <1>3. \E x \in S : \A y \in S : x <= y
    <2>1. PICK x \in S : \A y \in S : ~(<<y, x>> \in R)
      BY <1>2
    <2>2. ASSUME NEW y \in S PROVE x <= y
      <3>1. x \in Nat /\ y \in Nat /\ ~(y < x)
        BY <1>1, <2>1, Zenon
      <3>. QED
        BY <3>1
    <2>. QED
      BY <2>2
  <1>. QED
    BY <1>3, Zenon DEF Min

\* FreshXid finds an id that nothing on the wire carries (dhcp_create_msg's
\* random number, as far as the client can tell).
LEMMA FreshIsNew ==
    ASSUME IsFiniteSet(replies)
    PROVE  FreshWorks
  <1> SUFFICES ASSUME NEW d, Typed(d) PROVE New(FreshXid(d), d)
    BY DEF FreshWorks
  <1> DEFINE outs == {d.out[i].xid : i \in DOMAIN d.out}
             ins == {m.xid : m \in replies}
             used == Carried(d)
             free == 0 .. Cardinality(used) \ used
  <1>1. IsFiniteSet(outs)
    <2> DEFINE f == [i \in DOMAIN d.out |-> d.out[i].xid]
    <2>1. DOMAIN d.out = 1 .. Len(d.out) /\ Len(d.out) \in Nat
      BY DEF Typed
    <2>2. IsFiniteSet(DOMAIN d.out)
      BY <2>1, FS_Interval
    <2>3. f \in Surjection(DOMAIN d.out, outs)
      BY DEF Surjection
    <2>. QED
      BY <2>2, <2>3, FS_Surjection
  <1>2. IsFiniteSet(ins)
    <2> DEFINE f == [m \in replies |-> m.xid]
    <2>1. f \in Surjection(replies, ins)
      BY DEF Surjection
    <2>. QED
      BY <2>1, FS_Surjection
  <1>3. IsFiniteSet(used) /\ Cardinality(used) \in Nat
    <2>1. used = outs \cup ins \cup {d.xid}
      BY Zenon DEF Carried
    <2> HIDE DEF used, outs, ins
    <2>2. IsFiniteSet(used)
      BY <1>1, <1>2, <2>1, FS_Union, FS_Singleton, Zenon
    <2>. QED
      BY <2>2, FS_CardinalityType, Zenon
  <1>4. free # {}
    <2>1. SUFFICES ASSUME 0 .. Cardinality(used) \subseteq used PROVE FALSE
      OBVIOUS
    <2>2. Cardinality(0 .. Cardinality(used)) <= Cardinality(used)
      BY <1>3, <2>1, FS_Subset
    <2>3. Cardinality(0 .. Cardinality(used)) = Cardinality(used) + 1
      BY <1>3, FS_Interval
    <2>. QED
      BY <1>3, <2>2, <2>3
  <1>5. free \in SUBSET Nat
    BY <1>3
  <1>6. Min(free) \in free
    BY <1>4, <1>5, LeastIsIn
  <1>7. FreshXid(d) = Min(free)
    BY FreshIsLeast
  <1> HIDE DEF used, free
  <1>8. FreshXid(d) \in Nat /\ FreshXid(d) \notin used
    <2>1. Min(free) \in Nat /\ Min(free) \notin used
      BY <1>5, <1>6, Zenon DEF free
    <2>. QED
      BY <1>7, <2>1, Zenon
  <1>. QED
    BY <1>8, Zenon DEF used, Carried, New

-----------------------------------------------------------------------------
(* Only finitely many messages and hosts are counted.                      *)

FiniteInv == IsFiniteSet(replies) /\ IsFiniteSet(others)

\* FiniteInv holds at first.
LEMMA FiniteInit ==
    Init => FiniteInv
  BY FS_EmptySet DEF Init, FiniteInv

\* FiniteInv is inductive.
LEMMA FiniteNext ==
    FiniteInv /\ [Next]_vars => FiniteInv'
  <1> SUFFICES ASSUME FiniteInv, [Next]_vars PROVE FiniteInv'
    OBVIOUS
  <1>1. ASSUME NEW m, replies' = replies \ {m} \/ replies' = replies \cup {m} \/ replies' = replies
               \/ replies' = {}
        PROVE  IsFiniteSet(replies')
    <2>1. IsFiniteSet(replies \ {m}) /\ IsFiniteSet(replies \cup {m}) /\ IsFiniteSet({})
      BY FS_AddElement, FS_RemoveElement, FS_EmptySet, Zenon DEF FiniteInv
    <2>. QED
      BY <1>1, <2>1
  <1>2. ASSUME NEW a, others' = others \/ others' = others \cup {a}
        PROVE  IsFiniteSet(others')
    BY <1>2, FS_AddElement DEF FiniteInv
  <1>3. CASE dhcp_coarse_tmr
    <2> DEFINE f == [m \in replies |-> [m EXCEPT !.late = TRUE]]
               late == {[m EXCEPT !.late = TRUE] : m \in replies}
    <2>1. f \in Surjection(replies, late)
      BY Zenon DEF Surjection
    <2>2. IsFiniteSet(late)
      BY <2>1, FS_Surjection, Zenon DEF FiniteInv
    <2>. QED
      BY <1>2, <1>3, <2>2 DEF dhcp_coarse_tmr, FiniteInv
  <1>4. CASE PollLink \/ dhcp_fine_tmr \/ Withdraw \/ Plug \/ UNCHANGED vars
    BY <1>4 DEF PollLink, dhcp_fine_tmr, Withdraw, Plug, vars, FiniteInv
  <1>5. CASE Answer
    BY <1>1, <1>5, Zenon DEF Answer, Reply, FiniteInv
  <1>6. ASSUME NEW m \in replies, NEW again \in BOOLEAN, Receive(m, again)
        PROVE  FiniteInv'
    BY <1>1, <1>6 DEF Receive, FiniteInv
  <1>7. CASE Lose
    BY <1>1, <1>7, Zenon DEF Lose, FiniteInv
  <1>8. CASE HostAppears
    BY <1>2, <1>8 DEF HostAppears, FiniteInv
  <1>9. CASE Unplug
    BY <1>1, <1>9 DEF Unplug, FiniteInv
  <1>. QED
    BY <1>3, <1>4, <1>5, <1>6, <1>7, <1>8, <1>9 DEF Next, Client

\* Sizes of finite sets.
LEMMA FiniteCounts ==
    FiniteInv => CountFacts
  <1> SUFFICES ASSUME FiniteInv PROVE CountFacts
    OBVIOUS
  <1>1. Cardinality(others) \in Nat /\ Cardinality(replies) \in Nat
    BY FS_CardinalityType, Zenon DEF FiniteInv
  <1>2. Cardinality({}) = 0 /\ (Cardinality(replies) = 0 => replies = {})
    BY FS_EmptySet, Zenon DEF FiniteInv
  <1>3. ASSUME NEW a
        PROVE  Cardinality(others \cup {a}) =
                 IF a \in others THEN Cardinality(others) ELSE Cardinality(others) + 1
    BY FS_AddElement, Zenon DEF FiniteInv
  <1>. QED
    BY <1>1, <1>2, <1>3, Zenon DEF CountFacts

ClientInv == StuckInv /\ FiniteInv

\* ClientInv is inductive, and all that the proofs about leases and addresses
\* need to know of the client's own state.
LEMMA ClientStep ==
    /\ Init => ClientInv
    /\ ClientInv /\ [Next]_vars => ClientInv'
    /\ ClientInv => StuckInv /\ FreshWorks /\ CountFacts
  <1>1. FiniteInv => FreshWorks /\ CountFacts
    BY FreshIsNew, FiniteCounts, Zenon DEF FiniteInv
  <1>2. Init => ClientInv
    BY StuckInit, FiniteInit, Zenon DEF ClientInv
  <1>3. ClientInv /\ [Next]_vars => ClientInv'
    BY <1>1, StuckNext, FiniteNext, Zenon DEF ClientInv
  <1>. QED
    BY <1>1, <1>2, <1>3, Zenon DEF ClientInv

-----------------------------------------------------------------------------
(* The theorems.                                                           *)

\* Whatever the server, the network, the other hosts and the cable do, and
\* for all leases, a timer that leads on always runs (dhcp_timeout,
\* dhcp_coarse_tmr, dhcp_recv, dhcp_arp_reply, dhcp_network_changed).
THEOREM ClientIsNeverStuck ==
    Spec => []NeverStuck
  <1>1. ClientInv => NeverStuck
    BY DEF ClientInv, StuckInv, NeverStuck, Alive, Sound, Typed, Shape, LeaseRuns
  <1>. QED
    BY ClientStep, <1>1, PTL DEF Spec

\* However many addresses there are and however many other hosts turn up,
\* while they are all that goes wrong the client never has the address of
\* one of them on its interface (dhcp_check, dhcp_arp_reply, dhcp_decline).
THEOREM TakenAddressIsDeclined ==
    Spec => []TakenIsDeclined
  <1>1. Init => ClientInv /\ HostsInv
    BY ClientStep, HostsInit, Zenon
  <1>2. ClientInv /\ HostsInv /\ [Next]_vars => ClientInv' /\ HostsInv'
    BY ClientStep, HostsNext, Zenon
  <1>3. HostsInv => TakenIsDeclined
    BY DEF HostsInv, OnlyHosts, Linked, Clear, TakenIsDeclined
  <1>. QED
    BY <1>1, <1>2, <1>3, PTL DEF Spec
=============================================================================

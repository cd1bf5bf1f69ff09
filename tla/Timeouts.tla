------------------------------ MODULE Timeouts ------------------------------
(***************************************************************************)
(* The timeouts of lwIP, core/timeouts.c: a list of timers, each with the  *)
(* time by which it fires after the one before it, the first one after     *)
(* timeouts_last_time.  The main loop calls sys_check_timeouts now and     *)
(* then; handlers set timers while it runs.                                *)
(*                                                                         *)
(* The timers are the cyclic ones of the stack, the TCP timer, which runs  *)
(* on demand, and one of an application, which sets and cancels it as it   *)
(* likes.  sys_now counts milliseconds and may advance while a handler     *)
(* runs.  It wraps around (at ClockMod, 2^32 in the code); the code uses   *)
(* only the difference of sys_now and timeouts_last_time, elapsed here.    *)
(*                                                                         *)
(* A definition Name_Fault is Name with a plausible fault in it; it takes  *)
(* no part in the specification and only serves to show that the           *)
(* properties notice the fault.                                            *)
(***************************************************************************)
EXTENDS Integers, Sequences, FiniteSets, FiniteSetsExt, Functions

CONSTANTS
  Cyclic,      \* the cyclic timers in the order of lwip_cyclic_timers
  TCP,         \* the TCP timer
  App,         \* a timer of an application
  MaxApp,      \* entries of it that the application has set at a time
  MaxCancels,  \* bound on the timers the application cancels
  Msecs,       \* interval of each timer
  PoolSize,    \* MEMP_NUM_SYS_TIMEOUT
  ClockMod,    \* values of sys_now
  MaxLag,      \* bound on the time between two calls of sys_check_timeouts
  MaxAge       \* bound on the age of a timer

Handlers == Range(Cyclic) \cup {TCP, App}

ASSUME TimeoutsConstants ==
  \* Each timer has a handler or an argument of its own.
  /\ Cyclic \in Seq(Range(Cyclic)) /\ \A i, j \in 1..Len(Cyclic) : Cyclic[i] = Cyclic[j] => i = j
  /\ {TCP, App} \cap Range(Cyclic) = {} /\ TCP # App
  /\ Msecs \in [Handlers -> Nat \ {0}]
  /\ MaxApp \in Nat
  /\ MaxCancels \in Nat
  /\ PoolSize \in Nat
  /\ ClockMod \in Nat \ {0}
  /\ MaxLag \in Nat
  /\ MaxAge \in Nat
  \* A timer's time and the lag together are less than the clock's range.
  /\ \A h \in Handlers : Msecs[h] + 2 * MaxLag + 1 < ClockMod

VARIABLES
  next_timeout,            \* the list: handler, time and age of each entry
  elapsed,                 \* sys_now() - timeouts_last_time
  tcpip_tcp_timer_active,
  pcbs,                    \* there are active or time-wait PCBs
  diff,                    \* local variable of sys_check_timeouts, -1 outside
  lag,                     \* time since the last call of sys_check_timeouts
  cancels                  \* timers cancelled so far

toVars == <<next_timeout, elapsed, tcpip_tcp_timer_active, pcbs, diff, lag, cancels>>

-----------------------------------------------------------------------------

\* The time of entry i after timeouts_last_time.
DueAt(list, i) ==
  LET due[j \in 0..i] == IF j = 0 THEN 0 ELSE due[j - 1] + list[j].time
  IN  due[i]

\* A timer set at time d.  age is the time since what was then
\* timeouts_last_time (history).
Entry(h, time, d) == [h |-> h, time |-> time, age |-> IF d < MaxAge THEN d ELSE MaxAge]

\* An entry is linked in as the i-th of the list, or the i-th is unlinked.
Link(list, i, e) == SubSeq(list, 1, i - 1) \o <<e>> \o SubSeq(list, i, Len(list))
Unlink(list, i) == SubSeq(list, 1, i - 1) \o SubSeq(list, i + 1, Len(list))

\* The new timer comes first.
InsertHead(list, h, d) ==
  <<Entry(h, Msecs[h] + d, d)>> \o [list EXCEPT ![1].time = @ - Msecs[h]]

\* The new timer comes after entry i.  At the end of the list, when every timer
\* is overdue, the code replaces the lag d by the time of the first timer.
InsertAfter(list, i, h, d) ==
  LET time == Msecs[h] + d - DueAt(list, i)
  IN  IF i < Len(list)
      THEN Link([list EXCEPT ![i + 1].time = @ - time], i + 1, Entry(h, time, d))
      ELSE Append(list,
                  Entry(h, IF time > Msecs[h] THEN Msecs[h] + list[1].time ELSE time, d))

\* The new timer fits in after entry i, and the first such entry.
Fits(list, i, h, d) ==
  i = Len(list) \/ list[i + 1].time > Msecs[h] + d - DueAt(list, i)
Place(list, h, d) == Min({i \in 1..Len(list) : Fits(list, i, h, d)})

\* sys_timeout at time d after timeouts_last_time: the new list, and the new d,
\* as an empty list resets timeouts_last_time.
sys_timeout(list, d, h) ==
  CASE Len(list) >= PoolSize -> [list |-> list, d |-> d]
    [] list = <<>> /\ PoolSize > 0 -> [list |-> <<Entry(h, Msecs[h], 0)>>, d |-> 0]
    [] OTHER ->
         [list |-> IF list[1].time > Msecs[h]
                   THEN InsertHead(list, h, d)
                   ELSE InsertAfter(list, Place(list, h, d), h, d),
          d |-> d]

\* sys_untimeout: the first entry of the handler leaves the list.
sys_untimeout(list, h) ==
  LET I == {i \in 1..Len(list) : list[i].h = h}
      i == Min(I)
  IN  CASE I = {} -> list
        [] I # {} /\ i = Len(list) -> Unlink(list, i)
        [] OTHER -> Unlink([list EXCEPT ![i + 1].time = @ + list[i].time], i)

Pending(h) == Cardinality({i \in DOMAIN next_timeout : next_timeout[i].h = h})

SetTimer(list, d, h) ==
  LET r == sys_timeout(list, d, h)
  IN  next_timeout' = r.list /\ elapsed' = r.d

\* sys_timeouts_init starts the cyclic timers but for TCP's: the list after i
\* of them.
Started[i \in 0..Len(Cyclic)] ==
  IF i = 0 THEN <<>> ELSE sys_timeout(Started[i - 1], 0, Cyclic[i]).list

TimeoutsInit ==
  /\ elapsed = 0
  /\ next_timeout = Started[Len(Cyclic)]
  /\ tcpip_tcp_timer_active = FALSE
  /\ pcbs = FALSE
  /\ diff = -1
  /\ lag = 0
  /\ cancels = 0

\* sys_now advances; the main loop does not stay away for longer than MaxLag.
Tick ==
  /\ lag < MaxLag
  /\ lag' = lag + 1
  /\ elapsed' = (elapsed + 1) % ClockMod
  /\ next_timeout' = [i \in DOMAIN next_timeout |->
                        [next_timeout[i] EXCEPT !.age = IF @ < MaxAge THEN @ + 1 ELSE @]]
  /\ UNCHANGED <<tcpip_tcp_timer_active, pcbs, diff, cancels>>

InMainLoop == diff = -1 /\ UNCHANGED <<diff, lag>>

\* A PCB is registered: tcp_timer_needed.
TcpRegister ==
  /\ InMainLoop
  /\ pcbs' = TRUE
  /\ tcpip_tcp_timer_active' = TRUE
  /\ IF tcpip_tcp_timer_active
     THEN UNCHANGED <<next_timeout, elapsed>>
     ELSE SetTimer(next_timeout, elapsed, TCP)
  /\ UNCHANGED cancels

\* The last PCB is removed; the timer runs on until it notices.
TcpRemove ==
  /\ InMainLoop
  /\ pcbs
  /\ pcbs' = FALSE
  /\ UNCHANGED <<next_timeout, elapsed, tcpip_tcp_timer_active, cancels>>

\* The application sets its timer, or cancels it.
AppTimeout ==
  /\ InMainLoop
  /\ Pending(App) < MaxApp
  /\ SetTimer(next_timeout, elapsed, App)
  /\ UNCHANGED <<tcpip_tcp_timer_active, pcbs, cancels>>

AppUntimeout ==
  /\ InMainLoop
  /\ cancels < MaxCancels
  /\ cancels' = cancels + 1
  /\ next_timeout' = sys_untimeout(next_timeout, App)
  /\ UNCHANGED <<elapsed, tcpip_tcp_timer_active, pcbs>>

-----------------------------------------------------------------------------
(* sys_check_timeouts                                                      *)

CheckBegin ==
  /\ diff = -1
  /\ next_timeout # <<>>
  /\ diff' = elapsed
  /\ lag' = 0
  /\ UNCHANGED <<next_timeout, elapsed, tcpip_tcp_timer_active, pcbs, cancels>>

Expired_KeepDiff(h) ==
  /\ diff # -1
  /\ next_timeout # <<>>
  /\ next_timeout[1].h = h
  /\ next_timeout[1].time <= diff
  /\ UNCHANGED <<lag, cancels, diff>>
\* The first timer has expired: it is taken off the list, and its handler runs.
Expired(h) ==
  /\ diff # -1
  /\ next_timeout # <<>>
  /\ next_timeout[1].h = h
  /\ next_timeout[1].time <= diff
  /\ diff' = diff - next_timeout[1].time
  /\ UNCHANGED <<lag, cancels>>

\* timeouts_last_time advances by the time of the timer that fires.
Advanced == (elapsed - next_timeout[1].time) % ClockMod

CyclicTimer_Once(h) ==
  /\ Expired(h)
  /\ next_timeout' = Tail(next_timeout) /\ elapsed' = Advanced
  /\ UNCHANGED <<tcpip_tcp_timer_active, pcbs>>
\* cyclic_timer
CyclicTimer(h) ==
  /\ Expired(h)
  /\ SetTimer(Tail(next_timeout), Advanced, h)
  /\ UNCHANGED <<tcpip_tcp_timer_active, pcbs>>

TcpTimer_StayActive ==
  /\ Expired(TCP)
  /\ pcbs' \in {pcbs, FALSE}
  /\ UNCHANGED tcpip_tcp_timer_active
  /\ IF pcbs'
     THEN SetTimer(Tail(next_timeout), Advanced, TCP)
     ELSE next_timeout' = Tail(next_timeout) /\ elapsed' = Advanced
\* tcpip_tcp_timer: tcp_tmr may remove the last PCB.
TcpTimer ==
  /\ Expired(TCP)
  /\ pcbs' \in {pcbs, FALSE}
  /\ tcpip_tcp_timer_active' = pcbs'
  /\ IF pcbs'
     THEN SetTimer(Tail(next_timeout), Advanced, TCP)
     ELSE next_timeout' = Tail(next_timeout) /\ elapsed' = Advanced

\* The application's handler may set its timer again.
AppTimer ==
  /\ Expired(App)
  /\ \/ SetTimer(Tail(next_timeout), Advanced, App)
     \/ next_timeout' = Tail(next_timeout) /\ elapsed' = Advanced
  /\ UNCHANGED <<tcpip_tcp_timer_active, pcbs>>

CheckEnd ==
  /\ diff # -1
  /\ next_timeout # <<>> => next_timeout[1].time > diff
  /\ diff' = -1
  /\ UNCHANGED <<next_timeout, elapsed, tcpip_tcp_timer_active, pcbs, lag, cancels>>

CheckTimeouts ==
  \/ CheckBegin
  \/ \E h \in Range(Cyclic) : CyclicTimer(h)
  \/ TcpTimer
  \/ AppTimer
  \/ CheckEnd

TimeoutsNext ==
  Tick \/ TcpRegister \/ TcpRemove \/ AppTimeout \/ AppUntimeout \/ CheckTimeouts

TimeoutsSpec == TimeoutsInit /\ [][TimeoutsNext]_toVars

\* Time passes, and the main loop calls enet_poll: weak fairness of both, with
\* their guards written out.
TimeoutsFairSpec ==
  /\ TimeoutsSpec
  /\ []<>(lag = MaxLag) \/ []<><<Tick>>_toVars
  /\ []<>(diff = -1 /\ next_timeout = <<>>) \/ []<><<CheckTimeouts>>_toVars

-----------------------------------------------------------------------------
(* Properties                                                              *)

\* No timer of the stack is lost or doubled: every cyclic timer is in the list
\* once at any time, and so is the TCP timer while it is active, which it is as
\* long as there are PCBs, however PCBs and the application's timers come and go.
StackTimersAreSet ==
  /\ \A h \in Range(Cyclic) : Pending(h) = 1
  /\ Pending(TCP) = IF tcpip_tcp_timer_active THEN 1 ELSE 0
  /\ pcbs => tcpip_tcp_timer_active

\* A timer fires no earlier than its time after what was timeouts_last_time when
\* it was set, so it is early by no more than the list was behind then; timers
\* that are set or cancelled around it later do not bring it forward.
NotEarly ==
  [][\A h \in Handlers : Expired(h) => next_timeout[1].age >= Msecs[h]]_toVars

\* sys_check_timeouts returns, though handlers set new timers while it runs and
\* the clock goes on.
CheckReturns == diff # -1 ~> diff = -1

\* Every cyclic timer fires again and again, whatever timers are set before it.
CyclicForEver == \A h \in Range(Cyclic) : []<><<CyclicTimer(h)>>_toVars
=============================================================================

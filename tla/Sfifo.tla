-------------------------------- MODULE Sfifo -------------------------------
(***************************************************************************)
(* The byte ring of the FTP server, lwip_ftpd-sd.cpp.                      *)
(*                                                                         *)
(* A ring is a record with the fields of sfifo_t; its buffer is a function *)
(* on 0..size-1.  The ring is empty when the two positions agree modulo    *)
(* the size, and one byte of the buffer always stays unused.  A position   *)
(* is not brought back to zero when it reaches the end of the buffer: it   *)
(* may be equal to the size until the next access wraps around.  The size  *)
(* is a power of two, so the mask of sfifo_used is a modulus.              *)
(***************************************************************************)
EXTENDS Integers, Sequences

Lesser(m, n) == IF m <= n THEN m ELSE n

\* The smallest power of two that leaves room for size bytes and the unused one.
sfifo_size(size) ==
  CHOOSE n \in {2^k : k \in 0..size} :
    n > size /\ \A m \in {2^k : k \in 0..size} : m > size => n <= m

\* An empty ring; malloc leaves an arbitrary byte in the buffer.
sfifo_init(size, byte) ==
  [size |-> sfifo_size(size), readpos |-> 0, writepos |-> 0,
   buffer |-> [i \in 0..(sfifo_size(size) - 1) |-> byte]]

sfifo_used(f) == (f.writepos - f.readpos) % f.size

sfifo_space(f) == f.size - 1 - sfifo_used(f)

\* What one call writes: the bytes that fit, in two pieces if they go past the
\* end of the buffer.
sfifo_write(f, bytes) ==
  LET len == Lesser(sfifo_space(f), Len(bytes))
      i == f.writepos
      first == f.size - i
      wraps == i + len > f.size
  IN [size |-> f.size, readpos |-> f.readpos,
      writepos |-> IF wraps THEN len - first ELSE i + len,
      buffer |-> [k \in 0..(f.size - 1) |->
                    IF i <= k /\ k < i + len THEN bytes[k - i + 1]
                    ELSE IF wraps /\ k < len - first THEN bytes[first + k + 1]
                    ELSE f.buffer[k]]]
-----------------------------------------------------------------------------
(* send_data hands the bytes to tcp_write, as many as the send buffer      *)
(* takes, in two calls if they go past the end of the buffer.  Either call *)
(* may fail: `writes' is the number of calls TCP accepts.                  *)

\* The number of bytes asked for, and of those in front of the wrap.
Wanted(f, sndbuf) == Lesser(sndbuf, sfifo_used(f))

Wraps(f, sndbuf) == f.readpos + Wanted(f, sndbuf) > f.size

\* The number of bytes that leave the ring.
SentBytes(f, sndbuf, writes) ==
  IF Wraps(f, sndbuf)
    THEN IF writes = 0 THEN 0
         ELSE IF writes = 1 THEN f.size - f.readpos ELSE Wanted(f, sndbuf)
    ELSE IF writes = 0 THEN 0 ELSE Wanted(f, sndbuf)

\* The ring afterwards.
AfterSend_KeepOnFail(f, sndbuf, writes) ==
  IF Wraps(f, sndbuf) /\ writes = 1 THEN f
  ELSE [f EXCEPT !.readpos = (f.readpos + SentBytes(f, sndbuf, writes)) % f.size]

AfterSend(f, sndbuf, writes) ==
  LET n == SentBytes(f, sndbuf, writes)
  IN [size |-> f.size, writepos |-> f.writepos, buffer |-> f.buffer,
      readpos |-> IF Wraps(f, sndbuf) /\ writes > 0 THEN n - (f.size - f.readpos)
                  ELSE f.readpos + n]

\* The bytes in the ring, the oldest first.
Contents(f) ==
  [j \in 1..sfifo_used(f) |-> f.buffer[(f.readpos + j - 1) % f.size]]

\* What every ring of the program satisfies: the one pair of positions that is
\* excluded would be a ring of size bytes, which sfifo_used takes for empty.
IsRing(f, Bytes) ==
  /\ f = [size |-> f.size, readpos |-> f.readpos, writepos |-> f.writepos,
          buffer |-> f.buffer]
  /\ f.size \in Nat \ {0}
  /\ f.buffer \in [0..(f.size - 1) -> Bytes]
  /\ f.readpos \in 0..f.size
  /\ f.writepos \in 0..f.size
  /\ ~(f.readpos = 0 /\ f.writepos = f.size)
=============================================================================

----------------------------- MODULE FtpdProofs -----------------------------
(***************************************************************************)
(* Theorems about the FTP server, for files, listings, rings and send      *)
(* buffers of any size, any number of replies that fit and any number of   *)
(* transfers that are cut off.  Before them those about its byte ring: it  *)
(* is a bounded queue of bytes, for every size and every way in which      *)
(* tcp_write may fail.                                                     *)
(***************************************************************************)
EXTENDS Ftpd, SequenceTheorems, TLAPS

\* What a modulus is for the sums and differences of two positions.
LEMMA ModSmall ==
  ASSUME NEW n \in Nat \ {0}, NEW x \in 0..(n - 1) PROVE x % n = x
  OBVIOUS

LEMMA ModLess ==
  ASSUME NEW n \in Nat \ {0}, NEW x \in (-n)..(-1) PROVE x % n = x + n
  OBVIOUS

LEMMA ModMore ==
  ASSUME NEW n \in Nat \ {0}, NEW x \in n..(2 * n - 1) PROVE x % n = x - n
  OBVIOUS

\* sfifo_used, without the mask.
LEMMA UsedBytes ==
  ASSUME NEW B, NEW f, IsRing(f, B)
  PROVE  /\ sfifo_used(f) \in 0..(f.size - 1)
         /\ f.readpos <= f.writepos => sfifo_used(f) = f.writepos - f.readpos
         /\ f.readpos > f.writepos =>
              sfifo_used(f) = f.writepos - f.readpos + f.size
  <1>1. /\ f.size \in Nat \ {0}
        /\ f.readpos \in 0..f.size
        /\ f.writepos \in 0..f.size
        /\ ~(f.readpos = 0 /\ f.writepos = f.size)
    BY DEF IsRing
  <1>2. CASE f.readpos <= f.writepos
    BY <1>1, <1>2, ModSmall DEF sfifo_used
  <1>3. CASE f.readpos > f.writepos
    <2>1. f.writepos - f.readpos \in (-f.size)..(-1)
      BY <1>1, <1>3
    <2> QED BY <1>1, <1>3, <2>1, ModLess DEF sfifo_used
  <1> QED BY <1>1, <1>2, <1>3
-----------------------------------------------------------------------------
\* The byte at each place of a ring, without the modulus.
LEMMA ByteAt ==
  ASSUME NEW B, NEW f, IsRing(f, B), NEW j \in 1..sfifo_used(f)
  PROVE  /\ (f.readpos + j - 1) % f.size =
              IF f.readpos + j - 1 < f.size THEN f.readpos + j - 1
              ELSE f.readpos + j - 1 - f.size
         /\ (f.readpos + j - 1) % f.size \in 0..(f.size - 1)
         /\ Contents(f)[j] = f.buffer[(f.readpos + j - 1) % f.size]
  <1>1. f.size \in Nat \ {0} /\ f.readpos \in 0..f.size
    BY DEF IsRing
  <1>2. sfifo_used(f) \in 0..(f.size - 1)
    BY UsedBytes
  <1>3. Contents(f)[j] = f.buffer[(f.readpos + j - 1) % f.size]
    BY DEF Contents
  <1>4. CASE f.readpos + j - 1 < f.size
    <2>1. f.readpos + j - 1 \in 0..(f.size - 1)
      BY <1>1, <1>2, <1>4
    <2> QED BY <1>1, <1>3, <1>4, <2>1, ModSmall
  <1>5. CASE f.readpos + j - 1 >= f.size
    <2>1. f.readpos + j - 1 \in f.size..(2 * f.size - 1)
      BY <1>1, <1>2, <1>5
    <2>2. (f.readpos + j - 1) % f.size = f.readpos + j - 1 - f.size
      BY <1>1, <2>1, ModMore
    <2> QED BY <1>1, <1>2, <1>3, <1>5, <2>1, <2>2
  <1> QED BY <1>1, <1>2, <1>4, <1>5

\* The contents are a sequence of bytes, as long as sfifo_used says.
LEMMA ContentsAreBytes ==
  ASSUME NEW B, NEW f, IsRing(f, B)
  PROVE  Contents(f) \in Seq(B) /\ Len(Contents(f)) = sfifo_used(f)
  <1>1. ASSUME NEW j \in 1..sfifo_used(f) PROVE Contents(f)[j] \in B
    <2>1. /\ (f.readpos + j - 1) % f.size \in 0..(f.size - 1)
          /\ Contents(f)[j] = f.buffer[(f.readpos + j - 1) % f.size]
      BY ByteAt
    <2>2. f.buffer \in [0..(f.size - 1) -> B]
      BY DEF IsRing
    <2> QED BY <2>1, <2>2, Zenon
  <1>2. Contents(f) = [j \in 1..sfifo_used(f) |-> Contents(f)[j]]
    BY DEF Contents
  <1>3. sfifo_used(f) \in Nat
    <2>1. f.size \in Nat \ {0} /\ sfifo_used(f) \in 0..(f.size - 1)
      BY UsedBytes DEF IsRing
    <2> QED BY <2>1
  <1> QED BY <1>1, <1>2, <1>3

\* A ring of n places has u bytes from r to i.
Spans(n, r, i, u) ==
  /\ r \in 0..n /\ i \in 0..n /\ ~(r = 0 /\ i = n)
  /\ r <= i => u = i - r
  /\ r > i => u = i - r + n

\* The write position i after len bytes more.
Advanced(n, i, len) == IF i + len > n THEN len - (n - i) ELSE i + len

\* The arithmetic of sfifo_write.
LEMMA Growing ==
  ASSUME NEW n \in Nat \ {0}, NEW r, NEW i, NEW u \in Nat, NEW len \in Nat,
         Spans(n, r, i, u), len <= n - 1 - u
  PROVE  Spans(n, r, Advanced(n, i, len), u + len)
  <1> DEFINE q == Advanced(n, i, len)
  <1>0. q = IF i + len > n THEN len - (n - i) ELSE i + len
    BY DEF Advanced
  <1> USE DEF Spans
  <1> HIDE DEF q
  <1> SUFFICES Spans(n, r, q, u + len)
    BY DEF q
  <1>1. CASE r <= i /\ i + len > n
    <2>1. u = i - r /\ q = len - (n - i)
      BY <1>0, <1>1
    <2>2. q \in Nat /\ q < r
      BY <1>1, <2>1
    <2> QED BY <1>1, <2>1, <2>2
  <1>2. CASE r <= i /\ ~(i + len > n)
    <2>1. u = i - r /\ q = i + len
      BY <1>0, <1>2
    <2> QED BY <1>2, <2>1
  <1>3. CASE r > i
    <2>1. u = i - r + n /\ i + len < r
      BY <1>3
    <2>2. q = i + len
      BY <1>0, <2>1
    <2> QED BY <1>3, <2>1, <2>2
  <1> QED BY <1>1, <1>2, <1>3

\* sfifo_write leaves a ring, with the bytes that fit counted in.
LEMMA WriteKeepsRing ==
  ASSUME NEW B, NEW f, IsRing(f, B), NEW s \in Seq(B)
  PROVE  LET w == sfifo_write(f, s)
             len == Lesser(sfifo_space(f), Len(s))
         IN /\ IsRing(w, B)
            /\ w.size = f.size /\ w.readpos = f.readpos
            /\ sfifo_used(w) = sfifo_used(f) + len
  <1> DEFINE len == Lesser(sfifo_space(f), Len(s))
             w == sfifo_write(f, s)
             i == f.writepos
  <1>1. /\ f.size \in Nat \ {0} /\ f.readpos \in 0..f.size /\ i \in 0..f.size
        /\ ~(f.readpos = 0 /\ i = f.size)
        /\ f.buffer \in [0..(f.size - 1) -> B]
    BY DEF IsRing
  <1>2. /\ sfifo_used(f) \in 0..(f.size - 1)
        /\ f.readpos <= i => sfifo_used(f) = i - f.readpos
        /\ f.readpos > i => sfifo_used(f) = i - f.readpos + f.size
    BY UsedBytes
  <1>3. len \in Nat /\ len <= Len(s) /\ len <= f.size - 1 - sfifo_used(f)
    BY <1>1, <1>2 DEF Lesser, sfifo_space
  <1>4. w.size = f.size /\ w.readpos = f.readpos
    BY DEF sfifo_write
  <1>5. w.writepos = IF i + len > f.size THEN len - (f.size - i) ELSE i + len
    BY DEF sfifo_write
  <1>6. w.buffer \in [0..(f.size - 1) -> B]
    <2>1. w.buffer = [k \in 0..(f.size - 1) |->
                        IF i <= k /\ k < i + len THEN s[k - i + 1]
                        ELSE IF i + len > f.size /\ k < len - (f.size - i)
                          THEN s[f.size - i + k + 1]
                        ELSE f.buffer[k]]
      BY DEF sfifo_write
    <2>2. ASSUME NEW k \in 0..(f.size - 1), i <= k, k < i + len
          PROVE s[k - i + 1] \in B
      <3>1. k - i + 1 \in 1..Len(s)
        BY <1>1, <1>3, <2>2
      <3> QED BY <3>1
    <2>3. ASSUME NEW k \in 0..(f.size - 1), k < len - (f.size - i)
          PROVE s[f.size - i + k + 1] \in B
      <3>1. f.size - i + k + 1 \in 1..Len(s)
        <4> HIDE DEF len, i
        <4>1. Len(s) \in Nat
          OBVIOUS
        <4>2. f.size - i \in Nat /\ k \in Nat
          BY <1>1
        <4>3. f.size - i + k < len
          BY <1>1, <1>3, <2>3, <4>2
        <4> QED BY <1>3, <4>1, <4>2, <4>3
      <3> QED BY <3>1
    <2> HIDE DEF w, len, i
    <2> QED BY <1>1, <2>1, <2>2, <2>3
  <1>7. Spans(f.size, f.readpos, w.writepos, sfifo_used(f) + len)
    <2>1. w.writepos = Advanced(f.size, i, len)
      BY <1>5 DEF Advanced
    <2> HIDE DEF w, len, i
    <2>2. sfifo_used(f) \in Nat /\ Spans(f.size, f.readpos, i, sfifo_used(f))
      BY <1>1, <1>2 DEF Spans
    <2> QED BY <1>1, <1>3, <2>1, <2>2, Growing
  <1>8. IsRing(w, B)
    <2>1. w = [size |-> w.size, readpos |-> w.readpos, writepos |-> w.writepos,
               buffer |-> w.buffer]
      BY DEF sfifo_write
    <2> HIDE DEF w, len, i
    <2> QED BY <1>1, <1>4, <1>6, <1>7, <2>1 DEF IsRing, Spans
  <1>9. sfifo_used(w) = sfifo_used(f) + len
    <2>1. /\ w.readpos <= w.writepos => sfifo_used(w) = w.writepos - w.readpos
          /\ w.readpos > w.writepos => sfifo_used(w) = w.writepos - w.readpos + w.size
      <3> HIDE DEF w
      <3> QED BY <1>8, UsedBytes
    <2> HIDE DEF w, len, i
    <2> QED BY <1>1, <1>4, <1>7, <2>1 DEF Spans
  <1> QED BY <1>4, <1>8, <1>9

\* A ring of n places that starts at r, has u bytes and gets len more at i; its
\* j-th byte then lies at k.
Placed(n, r, i, u, len, j, k) ==
  /\ ~(r = 0 /\ i = n)
  /\ r <= i => u = i - r
  /\ r > i => u = i - r + n
  /\ u + len <= n - 1 /\ 1 <= j /\ j <= u + len
  /\ k = IF r + j - 1 < n THEN r + j - 1 ELSE r + j - 1 - n

\* Old bytes lie outside the two pieces that sfifo_write fills, new ones inside.
Found(n, r, i, u, len, j, k) ==
  /\ j <= u => /\ ~(i <= k /\ k < i + len)
               /\ ~(i + len > n /\ k < len - (n - i))
  /\ j > u /\ i <= k /\ k < i + len => k - i + 1 = j - u
  /\ j > u /\ ~(i <= k /\ k < i + len) =>
       i + len > n /\ k < len - (n - i) /\ n - i + k + 1 = j - u

LEMMA Places ==
  ASSUME NEW n \in Nat \ {0}, NEW r \in 0..n, NEW i \in 0..n, NEW u \in Nat,
         NEW len \in Nat, NEW j \in Nat, NEW k \in Nat, Placed(n, r, i, u, len, j, k)
  PROVE  Found(n, r, i, u, len, j, k)
  <1>1. CASE r <= i /\ r + j - 1 < n
    <2>1. u = i - r /\ k = r + j - 1 BY <1>1 DEF Placed
    <2> QED BY <1>1, <2>1 DEF Placed, Found
  <1>2. CASE r <= i /\ ~(r + j - 1 < n)
    <2>1. u = i - r /\ k = r + j - 1 - n BY <1>2 DEF Placed
    <2> QED BY <1>2, <2>1 DEF Placed, Found
  <1>3. CASE r > i /\ r + j - 1 < n
    <2>1. u = i - r + n /\ k = r + j - 1 BY <1>3 DEF Placed
    <2> QED BY <1>3, <2>1 DEF Placed, Found
  <1>4. CASE r > i /\ ~(r + j - 1 < n)
    <2>1. u = i - r + n /\ k = r + j - 1 - n BY <1>4 DEF Placed
    <2> QED BY <1>4, <2>1 DEF Placed, Found
  <1> QED BY <1>1, <1>2, <1>3, <1>4

\* sfifo_write appends the bytes that fit and disturbs none of those that are
\* in the ring: the ring of the FTP server is a queue on the side of its writer.
THEOREM WriteAppends ==
  ASSUME NEW B, NEW f, IsRing(f, B), NEW s \in Seq(B)
  PROVE  /\ IsRing(sfifo_write(f, s), B)
         /\ Contents(sfifo_write(f, s)) =
              Contents(f) \o SubSeq(s, 1, Lesser(sfifo_space(f), Len(s)))
  <1> DEFINE len == Lesser(sfifo_space(f), Len(s))
             w == sfifo_write(f, s)
             i == f.writepos
             r == f.readpos
             used == sfifo_used(f)
  <1>1. /\ f.size \in Nat \ {0} /\ r \in 0..f.size /\ i \in 0..f.size
        /\ ~(r = 0 /\ i = f.size)
        /\ f.buffer \in [0..(f.size - 1) -> B]
    BY DEF IsRing
  <1>2. /\ used \in 0..(f.size - 1)
        /\ r <= i => used = i - r
        /\ r > i => used = i - r + f.size
    BY UsedBytes
  <1>3. len \in Nat /\ len <= Len(s) /\ len <= f.size - 1 - used
    BY <1>1, <1>2 DEF Lesser, sfifo_space
  <1>4. /\ IsRing(w, B) /\ w.size = f.size /\ w.readpos = r
        /\ sfifo_used(w) = used + len
    BY WriteKeepsRing
  <1>5. w.buffer = [k \in 0..(f.size - 1) |->
                      IF i <= k /\ k < i + len THEN s[k - i + 1]
                      ELSE IF i + len > f.size /\ k < len - (f.size - i)
                        THEN s[f.size - i + k + 1]
                      ELSE f.buffer[k]]
    BY DEF sfifo_write
  <1>6. ASSUME NEW j \in 1..(used + len)
        PROVE  Contents(w)[j] = IF j <= used THEN Contents(f)[j] ELSE s[j - used]
    <2> DEFINE k == IF r + j - 1 < f.size THEN r + j - 1 ELSE r + j - 1 - f.size
    <2>1. k \in 0..(f.size - 1) /\ Contents(w)[j] = w.buffer[k]
      <3>1. j \in 1..sfifo_used(w)
        BY <1>4
      <3> HIDE DEF w, used, len
      <3> QED BY <1>4, <3>1, ByteAt
    <2>2. Found(f.size, r, i, used, len, j, k)
      <3>1. k = IF r + j - 1 < f.size THEN r + j - 1 ELSE r + j - 1 - f.size
        OBVIOUS
      <3> HIDE DEF len, used, i, r, k
      <3>2. used \in Nat /\ used + len <= f.size - 1
        BY <1>1, <1>2, <1>3
      <3>3. j \in Nat /\ 1 <= j /\ j <= used + len
        BY <1>3, <3>2
      <3>4. k \in Nat
        BY <1>1, <2>1
      <3>5. Placed(f.size, r, i, used, len, j, k)
        BY <1>1, <1>2, <3>1, <3>2, <3>3 DEF Placed
      <3> QED BY <1>1, <1>3, <3>2, <3>3, <3>4, <3>5, Places, Zenon
    <2>3. j <= used => Contents(f)[j] = f.buffer[k]
      <3>1. j <= used => j \in 1..sfifo_used(f)
        BY <1>2
      <3> QED BY <3>1, ByteAt
    <2> HIDE DEF w, len, used, i, r, k
    <2> QED BY <1>2, <1>3, <1>5, <2>1, <2>2, <2>3 DEF Found
  <1>7. Contents(w) = Contents(f) \o SubSeq(s, 1, len)
    <2>1. Contents(w) = [j \in 1..(used + len) |-> Contents(w)[j]]
      BY <1>4 DEF Contents
    <2>2. /\ Contents(f) \in Seq(B) /\ Len(Contents(f)) = used
      BY ContentsAreBytes
    <2>3. /\ SubSeq(s, 1, len) \in Seq(B) /\ Len(SubSeq(s, 1, len)) = len
          /\ \A j \in 1..len : SubSeq(s, 1, len)[j] = s[j]
      <3> HIDE DEF len
      <3> QED BY <1>3
    <2> HIDE DEF w, len, used
    <2>4. \A j \in 1..(used + len) :
            Contents(w)[j] = (Contents(f) \o SubSeq(s, 1, len))[j]
      <3> SUFFICES ASSUME NEW j \in 1..(used + len)
                   PROVE  Contents(w)[j] = (Contents(f) \o SubSeq(s, 1, len))[j]
        BY Zenon
      <3>1. used \in Nat /\ j \in Nat
        BY <1>1, <1>2, <1>3
      <3>2. CASE j <= used
        BY <1>3, <1>6, <2>2, <2>3, <3>1, <3>2
      <3>3. CASE j > used
        BY <1>3, <1>6, <2>2, <2>3, <3>1, <3>3
      <3>4. j <= used \/ j > used
        BY <3>1
      <3> QED BY <3>2, <3>3, <3>4, Zenon
    <2>5. Len(Contents(f) \o SubSeq(s, 1, len)) = used + len
      BY <2>2, <2>3
    <2>6. Contents(f) \o SubSeq(s, 1, len) =
            [j \in 1..(used + len) |-> (Contents(f) \o SubSeq(s, 1, len))[j]]
      BY <2>2, <2>3, <2>5
    <2> QED BY <2>1, <2>4, <2>6, Zenon
  <1> QED BY <1>4, <1>7
-----------------------------------------------------------------------------
\* The arithmetic of send_data: a ring of n places with u bytes from r to i gives
\* sent bytes away and then starts at q.
Taken(n, r, i, u, sent, q) ==
  /\ n \in Nat \ {0} /\ u \in Nat /\ sent \in Nat /\ q \in Nat
  /\ Spans(n, r, i, u) /\ u <= n - 1 /\ sent <= u
  /\ \/ q = r + sent /\ q <= n
     \/ q = r + sent - n /\ r + u > n

\* It is a ring of the other bytes.
LEMMA Taking ==
  ASSUME NEW n, NEW r, NEW i, NEW u, NEW sent, NEW q, Taken(n, r, i, u, sent, q)
  PROVE  Spans(n, q, i, u - sent)
  <1>1. CASE r <= i
    <2>1. u = i - r BY <1>1 DEF Taken, Spans
    <2> QED BY <1>1, <2>1 DEF Taken, Spans
  <1>2. CASE r > i
    <2>1. u = i - r + n BY <1>2 DEF Taken, Spans
    <2> QED BY <1>2, <2>1 DEF Taken, Spans
  <1> QED BY <1>1, <1>2 DEF Taken, Spans

\* send_data takes bytes from the front of the ring, no more than the send buffer
\* has room for, and leaves the others as they are, whichever tcp_write fails: the
\* ring is a queue on the side of its reader.
THEOREM SendRemoves ==
  ASSUME NEW B, NEW f, IsRing(f, B), NEW sndbuf \in Nat, NEW writes \in 0..2
  PROVE  LET n == SentBytes(f, sndbuf, writes)
             a == AfterSend(f, sndbuf, writes)
         IN /\ n \in 0..sfifo_used(f) /\ n <= sndbuf
            /\ IsRing(a, B)
            /\ Contents(a) = SubSeq(Contents(f), n + 1, sfifo_used(f))
  <1> DEFINE n == SentBytes(f, sndbuf, writes)
             a == AfterSend(f, sndbuf, writes)
             want == Wanted(f, sndbuf)
             wraps == Wraps(f, sndbuf)
             r == f.readpos
             i == f.writepos
             used == sfifo_used(f)
  <1>1. /\ f.size \in Nat \ {0} /\ r \in 0..f.size /\ i \in 0..f.size
        /\ ~(r = 0 /\ i = f.size)
        /\ f.buffer \in [0..(f.size - 1) -> B]
    BY DEF IsRing
  <1>2. /\ used \in 0..(f.size - 1)
        /\ r <= i => used = i - r
        /\ r > i => used = i - r + f.size
    BY UsedBytes
  <1>3. want \in Nat /\ want <= used /\ want <= sndbuf
    BY <1>2 DEF Wanted, Lesser
  <1>4. (wraps => r + want > f.size) /\ (~wraps => r + want <= f.size)
    BY <1>1, <1>3 DEF Wraps
  <1>5. n = IF wraps THEN IF writes = 0 THEN 0 ELSE IF writes = 1 THEN f.size - r ELSE want
            ELSE IF writes = 0 THEN 0 ELSE want
    BY DEF SentBytes
  <1>6. /\ a.readpos = IF wraps /\ writes > 0 THEN n - (f.size - r) ELSE r + n
        /\ a.size = f.size /\ a.writepos = i /\ a.buffer = f.buffer
        /\ a = [size |-> a.size, readpos |-> a.readpos, writepos |-> a.writepos,
                buffer |-> a.buffer]
    BY DEF AfterSend
  <1>7. /\ n \in Nat /\ n <= want
        /\ \/ a.readpos = r + n /\ r + n <= f.size
           \/ a.readpos = r + n - f.size /\ r + n >= f.size /\ r + used > f.size
    <2> HIDE DEF n, a, want, wraps, used, r
    <2>1. CASE ~wraps
      BY <1>1, <1>3, <1>4, <1>5, <1>6, <2>1
    <2>2. CASE wraps /\ writes = 0
      BY <1>1, <1>3, <1>5, <1>6, <2>2
    <2>3. CASE wraps /\ writes = 1
      <3>1. n = f.size - r /\ a.readpos = n - (f.size - r)
        BY <1>5, <1>6, <2>3
      <3>2. r + want > f.size /\ n \in Nat /\ n <= want
        BY <1>1, <1>3, <1>4, <2>3, <3>1
      <3>3. a.readpos = r + n - f.size /\ r + n >= f.size
        BY <1>1, <3>1, <3>2
      <3>4. used \in Nat /\ r + used > f.size
        BY <1>1, <1>2, <1>3, <3>2
      <3> QED BY <3>2, <3>3, <3>4
    <2>4. CASE wraps /\ writes = 2
      <3>1. n = want /\ a.readpos = n - (f.size - r)
        BY <1>5, <1>6, <2>4
      <3> QED BY <1>1, <1>2, <1>3, <1>4, <2>4, <3>1
    <2> QED BY <2>1, <2>2, <2>3, <2>4
  <1>8. n \in 0..used /\ n <= sndbuf /\ Spans(f.size, a.readpos, i, used - n)
    <2> HIDE DEF n, a, want, wraps, used, r, i
    <2>1. a.readpos \in Nat /\ used \in Nat /\ n \in 0..used /\ n <= sndbuf
      <3>1. used \in Nat /\ n <= used /\ n <= sndbuf
        BY <1>1, <1>2, <1>3, <1>7
      <3>2. a.readpos \in Nat
        BY <1>1, <1>7
      <3> QED BY <1>7, <3>1, <3>2
    <2>2. /\ used <= f.size - 1
          /\ \/ a.readpos = r + n /\ a.readpos <= f.size
             \/ a.readpos = r + n - f.size /\ r + used > f.size
      BY <1>1, <1>2, <1>7, <2>1
    <2>3. Taken(f.size, r, i, used, n, a.readpos)
      BY <1>1, <1>2, <1>7, <2>1, <2>2 DEF Taken, Spans
    <2> QED BY <2>1, <2>3, Taking
  <1>9. IsRing(a, B)
    <2>1. a.readpos \in 0..f.size /\ ~(a.readpos = 0 /\ i = f.size)
      <3> HIDE DEF a, n, used, i
      <3> QED BY <1>8 DEF Spans
    <2> HIDE DEF a, i
    <2> QED BY <1>1, <1>6, <2>1 DEF IsRing
  <1>10. sfifo_used(a) = used - n
    <2>1. /\ a.readpos <= a.writepos => sfifo_used(a) = a.writepos - a.readpos
          /\ a.readpos > a.writepos => sfifo_used(a) = a.writepos - a.readpos + a.size
      <3> HIDE DEF a
      <3> QED BY <1>9, UsedBytes
    <2> HIDE DEF a, n, used, i
    <2>2. a.readpos \in 0..f.size
      BY <1>8 DEF Spans
    <2> QED BY <1>1, <1>6, <1>8, <2>1, <2>2 DEF Spans
  <1>11. ASSUME NEW j \in 1..(used - n)
         PROVE  Contents(a)[j] = Contents(f)[j + n]
    <2>1. j \in 1..sfifo_used(a) /\ j + n \in 1..sfifo_used(f)
      BY <1>2, <1>8, <1>10
    <2>2. /\ Contents(a)[j] = a.buffer[(a.readpos + j - 1) % a.size]
          /\ (a.readpos + j - 1) % a.size =
               IF a.readpos + j - 1 < a.size THEN a.readpos + j - 1
               ELSE a.readpos + j - 1 - a.size
      <3> HIDE DEF a
      <3> QED BY <1>9, <2>1, ByteAt
    <2>3. /\ Contents(f)[j + n] = f.buffer[(r + (j + n) - 1) % f.size]
          /\ (r + (j + n) - 1) % f.size =
               IF r + (j + n) - 1 < f.size THEN r + (j + n) - 1
               ELSE r + (j + n) - 1 - f.size
      <3> HIDE DEF n
      <3> QED BY <2>1, ByteAt
    <2> HIDE DEF a, n, used, i, r, want, wraps
    <2>4. (a.readpos + j - 1) % a.size = (r + (j + n) - 1) % f.size
      <3>1. CASE a.readpos = r + n /\ r + n <= f.size
        <4>1. a.readpos + j - 1 = r + (j + n) - 1
          BY <1>1, <1>7, <3>1
        <4> QED BY <1>6, <4>1
      <3>2. CASE a.readpos = r + n - f.size /\ r + n >= f.size
        <4>1. a.readpos + j - 1 = r + (j + n) - 1 - f.size
          BY <1>1, <1>7, <3>2
        <4>2. ~(r + (j + n) - 1 < f.size)
          BY <1>1, <1>7, <3>2
        <4>3. a.readpos + j - 1 < f.size
          BY <1>1, <1>2, <1>8, <4>1
        <4> QED BY <1>6, <2>2, <2>3, <4>1, <4>2, <4>3
      <3> QED BY <1>7, <3>1, <3>2
    <2> QED BY <1>6, <2>2, <2>3, <2>4
  <1>12. Contents(a) = SubSeq(Contents(f), n + 1, used)
    <2>1. Contents(a) = [j \in 1..(used - n) |-> Contents(a)[j]]
      BY <1>10 DEF Contents
    <2>2. Contents(f) \in Seq(B) /\ Len(Contents(f)) = used
      BY ContentsAreBytes
    <2> HIDE DEF a, n, used
    <2>3. SubSeq(Contents(f), n + 1, used) =
            [j \in 1..(used - n) |-> Contents(f)[j + n]]
      BY <1>2, <1>8, <2>2
    <2> QED BY <1>11, <2>1, <2>3
  <1> QED BY <1>8, <1>9, <1>12

-----------------------------------------------------------------------------
(* The FTP server.                                                         *)

Replies == {"ok", "fail", "150", "226"}

\* What a transfer t sends.
Data(t) == IF t = "LIST" THEN Listing ELSE File

\* An ftpd_datastate.
IsData(fs) ==
  /\ fs = [connected |-> fs.connected, file |-> fs.file, pos |-> fs.pos, fifo |-> fs.fifo]
  /\ fs.connected \in BOOLEAN /\ fs.file \in BOOLEAN /\ fs.pos \in Nat
  /\ IsRing(fs.fifo, Nat) /\ fs.fifo.size = RingSize

\* What has been read of the data d has left the ring or is in it.
InRing(got, fs, d) == got \o Contents(fs.fifo) = SubSeq(d, 1, fs.pos)

\* Where the bytes of transfer t are when `got' of them have left the ring: before
\* the command there are none, a download is in the ring as far as it has been
\* read, and an upload leaves the ring alone.
Carries(t, got, fs) ==
  /\ t \in {"RETR", "LIST"} => /\ fs.pos \in 0..Len(Data(t))
                               /\ InRing(got, fs, Data(t))
  /\ t = "RETR" => (~fs.file => fs.pos = FileLen)
  /\ t = "LIST" => fs.file /\ fs.pos \in {0, ListLen}
  /\ t \in {"none", "STOR"} => /\ got = <<>> /\ fs.pos = 0
                               /\ Contents(fs.fifo) = <<>>
                               /\ fs.file <=> (t = "STOR")

ControlTypes ==
  /\ ctl \in {"none", "open"} /\ mode \in {"PASV", "PORT"}
  /\ state \in {"IDLE", "PASS", "QUIT"} \cup Transfers
  /\ op \in {"none"} \cup Transfers
  /\ datapcb \in {"NULL", "listen", "syn", "conn", "gone"}
  /\ conn \in {"none", "open", "shut"}
  /\ files \in Int /\ aborts \in Nat
  /\ passive \in BOOLEAN /\ ready \in BOOLEAN /\ waiting \in BOOLEAN /\ eof \in BOOLEAN

QueueTypes ==
  /\ wire \in Seq(Nat) /\ Len(wire) <= SND_BUF
  /\ rcvd \in Seq(Nat) /\ stored \in Seq(Nat)
  /\ replies \in Seq(Replies)

\* While there is a data state.
DataOpen ==
  /\ IsData(datafs)
  /\ ctl = "open" /\ ready /\ ~eof
  /\ datapcb \in {"listen", "syn", "conn"}
  /\ datafs.connected <=> (datapcb = "conn")
  /\ datafs.connected <=> (conn = "open")
  /\ conn # "shut"
  /\ op = "none" => passive /\ state \notin Transfers
  /\ op # "none" => state = op
  /\ Carries(op, rcvd \o wire, datafs)

\* While there is none: a transfer that has not been cut off is complete.
DataClosed ==
  /\ datapcb \in {"NULL", "gone"}
  /\ state \notin Transfers
  /\ conn = "none" <=> op = "none"
  /\ conn # "open"
  /\ op = "none" /\ ready => ~passive
  /\ op \in {"RETR", "LIST"} => rcvd \o wire = Data(op)
  /\ op = "STOR" => stored = File /\ rcvd = <<>> /\ wire = <<>>

\* What the client and the server agree on.
SessionInv ==
  /\ op = "none" => rcvd = <<>> /\ wire = <<>> /\ stored = <<>> /\ ~eof
  /\ op = "STOR" => Len(stored) <= FileLen /\ stored = SubSeq(File, 1, Len(stored))
  /\ eof => wire = <<>>
  /\ ctl = "none" => datafs = NULL /\ op = "none" /\ state = "IDLE" /\ ~ready /\ replies = <<>>
  /\ mode = "PORT" => ~passive
  /\ mode = "PASV" /\ ready => passive

\* 226 is sent once, at the end of a transfer.
RepliesInv ==
  \A i \in 1..Len(replies) :
    replies[i] = "226" => i = Len(replies) /\ op # "none" /\ datafs = NULL

\* Each open file belongs to the transfer or to one that was cut off.
FilesInv ==
  files <= aborts + (IF state \in Transfers /\ datafs.file THEN 1 ELSE 0)

FtpdInv ==
  /\ ControlTypes /\ QueueTypes
  /\ datafs # NULL => DataOpen
  /\ datafs = NULL => DataClosed
  /\ SessionInv /\ RepliesInv /\ FilesInv
-----------------------------------------------------------------------------
(* Sequences and data states.                                              *)

LEMMA Longer ==
  ASSUME NEW s \in Seq(Nat), NEW m \in Nat, NEW n \in Nat, m <= n, n <= Len(s)
  PROVE  /\ SubSeq(s, 1, m) \in Seq(Nat) /\ Len(SubSeq(s, 1, m)) = m
         /\ SubSeq(s, m + 1, n) \in Seq(Nat) /\ Len(SubSeq(s, m + 1, n)) = n - m
         /\ SubSeq(s, 1, m) \o SubSeq(s, m + 1, n) = SubSeq(s, 1, n)
  <1> DEFINE a == SubSeq(s, 1, m)
             b == SubSeq(s, m + 1, n)
             c == SubSeq(s, 1, n)
  <1>1. a \in Seq(Nat) /\ Len(a) = m /\ \A i \in 1..m : a[i] = s[i]
    OBVIOUS
  <1>2. b \in Seq(Nat) /\ Len(b) = n - m /\ \A i \in 1..(n - m) : b[i] = s[m + i]
    <2>1. PICK k \in Int : k = m + 1
      OBVIOUS
    <2>2. n \in Int /\ \A i \in k..n : s[i] \in Nat
      BY <2>1
    <2>3. PICK t : t = SubSeq(s, k, n)
      BY Zenon
    <2>4. /\ t \in Seq(Nat) /\ Len(t) = IF k <= n THEN n - k + 1 ELSE 0
          /\ \A i \in 1..(n - k + 1) : t[i] = s[k + i - 1]
      BY <2>2, <2>3, SubSeqProperties
    <2>5. n - k + 1 = n - m /\ (~(k <= n) => n - m = 0) /\ \A i \in 1..(n - m) : k + i - 1 = m + i
      BY <2>1
    <2>6. Len(t) = n - m /\ \A i \in 1..(n - m) : t[i] = s[m + i]
      BY <2>4, <2>5, Zenon
    <2>7. b = t
      BY <2>1, <2>3
    <2> QED BY <2>4, <2>6, <2>7, Zenon
  <1>3. c \in Seq(Nat) /\ Len(c) = n /\ \A i \in 1..n : c[i] = s[i]
    OBVIOUS
  <1> HIDE DEF a, b, c
  <1>4. /\ a \o b \in Seq(Nat) /\ Len(a \o b) = Len(a) + Len(b)
        /\ \A i \in 1..Len(a) + Len(b) :
             (a \o b)[i] = IF i <= Len(a) THEN a[i] ELSE b[i - Len(a)]
    <2>1. a \in Seq(Nat) /\ b \in Seq(Nat)
      BY <1>1, <1>2
    <2> QED BY <2>1, ConcatProperties, Zenon
  <1>5. Len(a \o b) = Len(c) /\ \A i \in 1..Len(a \o b) : (a \o b)[i] = c[i]
    <2>1. Len(a) + Len(b) = n
      BY <1>1, <1>2
    <2> SUFFICES ASSUME NEW i \in 1..n PROVE (a \o b)[i] = c[i]
      BY <1>3, <1>4, <2>1, Zenon
    <2>2. (a \o b)[i] = IF i <= m THEN a[i] ELSE b[i - m]
      BY <1>1, <1>4, <2>1, Zenon
    <2>3. CASE i <= m
      <3>1. i \in 1..m
        BY <2>3
      <3>2. a[i] = c[i]
        BY <1>1, <1>3, <3>1, Zenon
      <3> QED BY <2>2, <2>3, <3>2, Zenon
    <2>4. CASE i > m
      <3>1. i - m \in 1..(n - m) /\ m + (i - m) = i
        BY <2>4
      <3>2. b[i - m] = s[i] /\ c[i] = s[i]
        <4>1. b[i - m] = s[m + (i - m)]
          BY <1>2, <3>1, Zenon
        <4> QED BY <1>3, <3>1, <4>1, Zenon
      <3>3. ~(i <= m)
        BY <2>4
      <3> QED BY <2>2, <3>2, <3>3, Zenon
    <2>5. i <= m \/ i > m
      OBVIOUS
    <2> QED BY <2>3, <2>4, <2>5, Zenon
  <1>6. a \o b = c
    BY <1>3, <1>4, <1>5, SeqEqual, Zenon
  <1> QED BY <1>1, <1>2, <1>6, Zenon DEF a, b, c

LEMMA Rejoined ==
  ASSUME NEW s \in Seq(Nat), NEW n \in 0..Len(s)
  PROVE  /\ SubSeq(s, 1, n) \in Seq(Nat) /\ Len(SubSeq(s, 1, n)) = n
         /\ SubSeq(s, n + 1, Len(s)) \in Seq(Nat) /\ Len(SubSeq(s, n + 1, Len(s))) = Len(s) - n
         /\ SubSeq(s, 1, n) \o SubSeq(s, n + 1, Len(s)) = s
  <1>1. n \in Nat /\ Len(s) \in Nat /\ n <= Len(s) /\ Len(s) <= Len(s)
    OBVIOUS
  <1>2. SubSeq(s, 1, Len(s)) = s
    BY SubSeqFull
  <1>3. /\ SubSeq(s, 1, n) \in Seq(Nat) /\ Len(SubSeq(s, 1, n)) = n
        /\ SubSeq(s, n + 1, Len(s)) \in Seq(Nat) /\ Len(SubSeq(s, n + 1, Len(s))) = Len(s) - n
        /\ SubSeq(s, 1, n) \o SubSeq(s, n + 1, Len(s)) = SubSeq(s, 1, Len(s))
    BY <1>1, Longer, Zenon
  <1> QED BY <1>2, <1>3, Zenon

LEMMA Joined ==
  ASSUME NEW a \in Seq(Nat), NEW b \in Seq(Nat)
  PROVE  a \o b \in Seq(Nat) /\ Len(a \o b) = Len(a) + Len(b)
  BY ConcatProperties, Zenon

LEMMA JoinedThree ==
  ASSUME NEW a \in Seq(Nat), NEW b \in Seq(Nat), NEW c \in Seq(Nat)
  PROVE  (a \o b) \o c = a \o (b \o c)
  BY ConcatAssociative, SMTT(30)

LEMMA JoinedNone ==
  ASSUME NEW a \in Seq(Nat) PROVE a \o <<>> = a /\ <<>> \o a = a
  BY ConcatEmptySeq

LEMMA JoinedEmpty ==
  ASSUME NEW a \in Seq(Nat), NEW b \in Seq(Nat), a \o b = <<>>
  PROVE  a = <<>> /\ b = <<>>
  BY ConcatEqualIffEmpty

LEMMA FilesAreBytes ==
  /\ File \in Seq(Nat) /\ Len(File) = FileLen
  /\ Listing \in Seq(Nat) /\ Len(Listing) = ListLen
  BY FtpdAssumption DEF File, Listing

LEMMA DataIsNotNull ==
  ASSUME NEW fs, IsData(fs) PROVE fs # NULL
  <1>1. fs.fifo \in Rings
    <2>1. /\ fs.fifo = [size |-> fs.fifo.size, readpos |-> fs.fifo.readpos,
                        writepos |-> fs.fifo.writepos, buffer |-> fs.fifo.buffer]
          /\ fs.fifo.readpos \in Nat /\ fs.fifo.writepos \in Nat
          /\ fs.fifo.buffer \in [0..(RingSize - 1) -> Nat]
          /\ fs.fifo.size = RingSize
      BY FtpdAssumption DEF IsData, IsRing
    <2> QED BY <2>1 DEF Rings
  <1> QED BY <1>1, NullIsNoData DEF IsData

LEMMA DataExcept ==
  ASSUME NEW fs, IsData(fs), NEW p, NEW f
  PROVE  [fs EXCEPT !.pos = p, !.fifo = f] =
           [connected |-> fs.connected, file |-> fs.file, pos |-> p, fifo |-> f]
  <1> DEFINE r == [connected |-> fs.connected, file |-> fs.file, pos |-> fs.pos,
                   fifo |-> fs.fifo]
  <1>1. fs = r
    BY DEF IsData
  <1> DEFINE q == [connected |-> fs.connected, file |-> fs.file, pos |-> p,
                   fifo |-> fs.fifo]
  <1>2. [r EXCEPT !.pos = p] = q
    OBVIOUS
  <1>3. [q EXCEPT !.fifo = f] =
          [connected |-> fs.connected, file |-> fs.file, pos |-> p, fifo |-> f]
    OBVIOUS
  <1> HIDE DEF r, q
  <1>4. [r EXCEPT !.pos = p, !.fifo = f] = [[r EXCEPT !.pos = p] EXCEPT !.fifo = f]
    OBVIOUS
  <1> QED BY <1>1, <1>2, <1>3, <1>4, Zenon

LEMMA DataWith ==
  ASSUME NEW fs, IsData(fs), NEW x
  PROVE  /\ [fs EXCEPT !.connected = x] =
              [connected |-> x, file |-> fs.file, pos |-> fs.pos, fifo |-> fs.fifo]
         /\ [fs EXCEPT !.file = x] =
              [connected |-> fs.connected, file |-> x, pos |-> fs.pos, fifo |-> fs.fifo]
  <1> DEFINE r == [connected |-> fs.connected, file |-> fs.file, pos |-> fs.pos,
                   fifo |-> fs.fifo]
  <1>1. fs = r
    BY DEF IsData
  <1>2. [r EXCEPT !.connected = x] =
          [connected |-> x, file |-> fs.file, pos |-> fs.pos, fifo |-> fs.fifo]
    OBVIOUS
  <1>3. [r EXCEPT !.file = x] =
          [connected |-> fs.connected, file |-> x, pos |-> fs.pos, fifo |-> fs.fifo]
    OBVIOUS
  <1> HIDE DEF r
  <1> QED BY <1>1, <1>2, <1>3, Zenon

LEMMA NewDataIsEmpty ==
  /\ IsData(NewData) /\ Contents(NewData.fifo) = <<>>
  /\ NewData.pos = 0 /\ ~NewData.file /\ ~NewData.connected
  <1> DEFINE f == sfifo_init(FifoBytes, 0)
  <1>1. /\ f = [size |-> f.size, readpos |-> f.readpos, writepos |-> f.writepos,
                buffer |-> f.buffer]
        /\ f.size = RingSize /\ f.readpos = 0 /\ f.writepos = 0
        /\ f.buffer = [i \in 0..(RingSize - 1) |-> 0]
    BY DEF sfifo_init, RingSize
  <1>2. RingSize \in Nat \ {0}
    BY FtpdAssumption
  <1> HIDE DEF f
  <1>3. IsRing(f, Nat)
    BY <1>1, <1>2 DEF IsRing
  <1>4. sfifo_used(f) = 0
    BY <1>1, <1>3, UsedBytes
  <1>5. Contents(f) = <<>>
    <2>1. Contents(f) \in Seq(Nat) /\ Len(Contents(f)) = 0
      BY <1>3, <1>4, ContentsAreBytes
    <2> QED BY <2>1, EmptySeq
  <1>6. NewData = [connected |-> FALSE, file |-> FALSE, pos |-> 0, fifo |-> f]
    BY DEF NewData, f
  <1> QED BY <1>1, <1>3, <1>5, <1>6 DEF IsData

\* send_msg adds a reply at the end, or drops it.
LEMMA RepliesFit ==
  ASSUME replies \in Seq(Replies), NEW rs \in Seq(Replies)
  PROVE  /\ Fitting(rs) \in Seq(Replies)
         /\ Len(Fitting(rs)) <= Len(replies) + Len(rs)
         /\ \A i \in 1..Len(Fitting(rs)) :
              /\ i <= Len(replies) => Fitting(rs)[i] = replies[i]
              /\ i > Len(replies) => Fitting(rs)[i] = rs[i - Len(replies)]
  <1> DEFINE all == replies \o rs
             n == Lesser(MsgSlots, Len(all))
  <1>1. /\ all \in Seq(Replies) /\ Len(all) = Len(replies) + Len(rs)
        /\ \A i \in 1..Len(all) : all[i] = IF i <= Len(replies) THEN replies[i]
                                           ELSE rs[i - Len(replies)]
    BY ConcatProperties
  <1>2. Fitting(rs) = SubSeq(all, 1, n)
    BY DEF Fitting
  <1> HIDE DEF all
  <1>3. n \in 0..Len(all)
    BY <1>1, FtpdAssumption DEF Lesser
  <1> HIDE DEF n
  <1>4. /\ SubSeq(all, 1, n) \in Seq(Replies) /\ Len(SubSeq(all, 1, n)) = n
        /\ \A i \in 1..n : SubSeq(all, 1, n)[i] = all[i]
    BY <1>1, <1>3
  <1> QED BY <1>1, <1>2, <1>3, <1>4
-----------------------------------------------------------------------------
(* Sending.                                                                *)

\* send_data moves bytes from the ring to TCP.
LEMMA DataMoves ==
  ASSUME NEW fs, IsData(fs), NEW got \in Seq(Nat), NEW out \in Seq(Nat),
         Len(out) <= SND_BUF, NEW w \in 0..2, send_data(fs, out, w)
  PROVE  /\ IsData(datafs')
         /\ datafs'.connected = fs.connected
         /\ datafs'.file = fs.file /\ datafs'.pos = fs.pos
         /\ wire' \in Seq(Nat) /\ Len(wire') <= SND_BUF
         /\ (got \o wire') \o Contents(datafs'.fifo) = (got \o out) \o Contents(fs.fifo)
  <1> DEFINE room == SND_BUF - Len(out)
             n == SentBytes(fs.fifo, room, w)
             a == AfterSend(fs.fifo, room, w)
             c == Contents(fs.fifo)
  <1>1. room \in Nat
    BY FtpdAssumption
  <1>2. IsRing(fs.fifo, Nat) /\ fs.fifo.size = RingSize
    BY DEF IsData
  <1>3. /\ n \in 0..sfifo_used(fs.fifo) /\ n <= room
        /\ IsRing(a, Nat)
        /\ Contents(a) = SubSeq(c, n + 1, sfifo_used(fs.fifo))
    BY <1>1, <1>2, SendRemoves, Zenon
  <1>4. a.size = RingSize
    BY <1>2 DEF AfterSend
  <1>5. /\ wire' = out \o SubSeq(c, 1, n)
        /\ datafs' = [fs EXCEPT !.fifo = a]
    BY DEF send_data
  <1>6. c \in Seq(Nat) /\ Len(c) = sfifo_used(fs.fifo)
    BY <1>2, ContentsAreBytes
  <1> HIDE DEF room, n, a, c
  <1>7. /\ datafs' = [connected |-> fs.connected, file |-> fs.file, pos |-> fs.pos,
                      fifo |-> a]
    BY <1>5, SMTT(30) DEF IsData
  <1>8. IsData(datafs') /\ datafs'.connected = fs.connected
        /\ datafs'.file = fs.file /\ datafs'.pos = fs.pos /\ datafs'.fifo = a
    BY <1>3, <1>4, <1>7 DEF IsData
  <1> DEFINE x == SubSeq(c, 1, n)
             y == SubSeq(c, n + 1, Len(c))
  <1>9. x \in Seq(Nat) /\ Len(x) = n /\ y \in Seq(Nat) /\ x \o y = c
    <2>1. n \in 0..Len(c)
      BY <1>3, <1>6
    <2> QED BY <1>6, <2>1, Rejoined, Zenon
  <1>10. wire' = out \o x /\ Contents(datafs'.fifo) = y
    BY <1>3, <1>5, <1>6, <1>8
  <1> HIDE DEF x, y
  <1>11. out \o x \in Seq(Nat) /\ Len(out \o x) = Len(out) + Len(x)
    <2>1. x \in Seq(Nat)
      BY <1>9
    <2> QED BY <2>1, Joined, Zenon
  <1>12. Len(wire') <= SND_BUF
    <2>1. Len(wire') = Len(out) + n
      BY <1>9, <1>10, <1>11, Zenon
    <2>2. n \in Nat /\ n <= SND_BUF - Len(out)
      BY <1>3, <1>6 DEF room
    <2> QED BY <2>1, <2>2, FtpdAssumption
  <1>13. (got \o (out \o x)) \o y = (got \o out) \o c
    <2>1. (got \o out) \o x = got \o (out \o x)
      BY <1>9, JoinedThree, Zenon
    <2>2. got \o out \in Seq(Nat)
      BY Joined, Zenon
    <2>3. ((got \o out) \o x) \o y = (got \o out) \o (x \o y)
      BY <1>9, <2>2, JoinedThree, Zenon
    <2> QED BY <1>9, <2>1, <2>3, Zenon
  <1> QED BY <1>8, <1>10, <1>11, <1>12, <1>13 DEF c

\* One if a file is open.
Held(fs) == IF fs.file THEN 1 ELSE 0

\* The transfer t goes on after a callback that found `fs', the client having `got'.
Sending(t, got, fs) ==
  /\ IsData(datafs') /\ datafs'.connected
  /\ wire' \in Seq(Nat) /\ Len(wire') <= SND_BUF
  /\ Carries(t, got \o wire', datafs')
  /\ GoOn
  /\ files' = files - Held(fs) + Held(datafs')

\* The callback has ended it, and all the data are with TCP or the client.
Ended(t, got, out, fs) ==
  /\ Finish /\ wire' = out
  /\ got \o out = Data(t)
  /\ files' = files - Held(fs)

\* The n next bytes of the data d are put into the ring.
Refilled(fs, g, n, sent, d) ==
  /\ IsData(g)
  /\ g.connected = fs.connected /\ g.file = fs.file /\ g.pos = fs.pos + n
  /\ InRing(sent, g, d)
  /\ sfifo_used(g.fifo) = sfifo_used(fs.fifo) + n

LEMMA Refill ==
  ASSUME NEW fs, IsData(fs), NEW sent \in Seq(Nat), NEW d \in Seq(Nat), NEW n \in Nat,
         fs.pos + n <= Len(d), n <= sfifo_space(fs.fifo),
         InRing(sent, fs, d), NEW g,
         g = [connected |-> fs.connected, file |-> fs.file, pos |-> fs.pos + n,
              fifo |-> sfifo_write(fs.fifo, SubSeq(d, fs.pos + 1, fs.pos + n))]
  PROVE  Refilled(fs, g, n, sent, d)
  <1> DEFINE p == fs.pos
             c == Contents(fs.fifo)
             s == SubSeq(d, p + 1, p + n)
             f == sfifo_write(fs.fifo, s)
  <1>1. IsRing(fs.fifo, Nat) /\ fs.fifo.size = RingSize /\ p \in Nat
        /\ fs.connected \in BOOLEAN /\ fs.file \in BOOLEAN
    BY DEF IsData
  <1>2. /\ p + n \in Nat /\ p <= p + n
        /\ (p + n) - p = n
    BY <1>1
  <1>3. /\ s \in Seq(Nat) /\ Len(s) = (p + n) - p
        /\ SubSeq(d, 1, p) \o s = SubSeq(d, 1, p + n)
    <2> HIDE DEF p
    <2>1. p + n <= Len(d)
      BY DEF p
    <2>2. p \in Nat
      BY <1>1
    <2> QED BY <1>2, <2>1, <2>2, Longer, ZenonT(30)
  <1>4. Lesser(sfifo_space(fs.fifo), Len(s)) = n
    <2>1. Len(s) = n
      BY <1>2, <1>3, SMTT(30)
    <2>2. sfifo_space(fs.fifo) \in Int
      <3>1. fs.fifo.size \in Nat /\ sfifo_used(fs.fifo) \in 0..(fs.fifo.size - 1)
        BY <1>1, UsedBytes, Zenon DEF IsRing
      <3> QED BY <3>1 DEF sfifo_space
    <2> HIDE DEF s
    <2> QED BY <2>1, <2>2 DEF Lesser
  <1>5. IsRing(f, Nat) /\ f.size = RingSize /\ sfifo_used(f) = sfifo_used(fs.fifo) + n
    <2> HIDE DEF s
    <2> QED BY <1>1, <1>3, <1>4, WriteKeepsRing, Zenon
  <1>6. Contents(f) = c \o SubSeq(s, 1, n)
    <2> HIDE DEF s
    <2> QED BY <1>1, <1>3, <1>4, WriteAppends, Zenon
  <1>7. SubSeq(s, 1, n) = s
    <2> HIDE DEF s
    <2> QED BY <1>2, <1>3, SubSeqFull
  <1>8. c \in Seq(Nat)
    BY <1>1, ContentsAreBytes
  <1>9. sent \o c = SubSeq(d, 1, p)
    BY DEF InRing
  <1>10. g = [connected |-> fs.connected, file |-> fs.file, pos |-> p + n, fifo |-> f]
    OBVIOUS
  <1> HIDE DEF p, c, s, f
  <1>11. /\ IsData(g) /\ g.connected = fs.connected /\ g.file = fs.file
         /\ g.pos = p + n /\ g.fifo = f
    BY <1>1, <1>2, <1>5, <1>10, SMTT(30) DEF IsData
  <1>12. sent \o Contents(f) = SubSeq(d, 1, p + n)
    <2>1. (sent \o c) \o s = sent \o (c \o s)
      BY <1>3, <1>8, JoinedThree, Zenon
    <2> QED BY <1>3, <1>6, <1>7, <1>9, <2>1, Zenon
  <1>13. InRing(sent, g, d)
    BY <1>11, <1>12, Zenon DEF InRing
  <1> QED BY <1>5, <1>11, <1>13, Zenon DEF p, Refilled

LEMMA SpaceIsLeft ==
  ASSUME NEW fs, IsData(fs)
  PROVE  /\ sfifo_used(fs.fifo) \in Nat /\ sfifo_space(fs.fifo) \in Nat
         /\ sfifo_space(fs.fifo) = RingSize - 1 - sfifo_used(fs.fifo)
         /\ sfifo_used(fs.fifo) = 0 => Contents(fs.fifo) = <<>>
         /\ Contents(fs.fifo) = <<>> => sfifo_used(fs.fifo) = 0
  <1>1. IsRing(fs.fifo, Nat) /\ fs.fifo.size = RingSize /\ fs.fifo.size \in Nat
    BY DEF IsData, IsRing
  <1>2. sfifo_used(fs.fifo) \in 0..(RingSize - 1)
    BY <1>1, UsedBytes
  <1>3. Contents(fs.fifo) \in Seq(Nat) /\ Len(Contents(fs.fifo)) = sfifo_used(fs.fifo)
    BY <1>1, ContentsAreBytes
  <1>4. sfifo_used(fs.fifo) = 0 <=> Contents(fs.fifo) = <<>>
    BY <1>3, EmptySeq
  <1> QED BY <1>1, <1>2, <1>4 DEF sfifo_space

\* When the whole of d has been read and the ring is empty, all of it has left.
LEMMA AllHasLeft ==
  ASSUME NEW fs, NEW sent \in Seq(Nat), NEW d \in Seq(Nat), InRing(sent, fs, d),
         fs.pos = Len(d), Contents(fs.fifo) = <<>>
  PROVE  sent = d
  <1>1. sent \o <<>> = SubSeq(d, 1, Len(d))
    BY Zenon DEF InRing
  <1>2. sent \o <<>> = sent
    BY JoinedNone, Zenon
  <1>3. SubSeq(d, 1, Len(d)) = d
    BY SubSeqFull, Zenon
  <1> QED BY <1>1, <1>2, <1>3, Zenon

\* What send_data does to a download of d.
LEMMA RingMoves ==
  ASSUME NEW fs, IsData(fs), NEW got \in Seq(Nat), NEW out \in Seq(Nat),
         Len(out) <= SND_BUF, NEW w \in 0..2, send_data(fs, out, w), NEW d,
         InRing(got \o out, fs, d)
  PROVE  /\ IsData(datafs') /\ datafs'.connected = fs.connected
         /\ datafs'.file = fs.file /\ datafs'.pos = fs.pos
         /\ wire' \in Seq(Nat) /\ Len(wire') <= SND_BUF
         /\ InRing(got \o wire', datafs', d)
  <1>1. /\ IsData(datafs') /\ datafs'.connected = fs.connected
        /\ datafs'.file = fs.file /\ datafs'.pos = fs.pos
        /\ wire' \in Seq(Nat) /\ Len(wire') <= SND_BUF
        /\ (got \o wire') \o Contents(datafs'.fifo) = (got \o out) \o Contents(fs.fifo)
    BY DataMoves, Zenon
  <1> QED BY <1>1, Zenon DEF InRing

\* send_file reads on, closes the file at its end, or ends the transfer with
\* the whole file sent.
LEMMA FileIsSent ==
  ASSUME NEW fs, IsData(fs), fs.connected, NEW got \in Seq(Nat), NEW out \in Seq(Nat),
         Len(out) <= SND_BUF, NEW w \in 0..2, files \in Int,
         Carries("RETR", got \o out, fs), send_file(fs, out, w)
  PROVE  Sending("RETR", got, fs) \/ Ended("RETR", got, out, fs)
  <1> DEFINE n == Lesser(sfifo_space(fs.fifo), FileLen - fs.pos)
  <1>1. File \in Seq(Nat) /\ Len(File) = FileLen /\ Data("RETR") = File /\ FileLen \in Nat
    BY FilesAreBytes, FtpdAssumption DEF Data
  <1>2. /\ fs.pos \in Nat /\ fs.pos <= FileLen /\ InRing(got \o out, fs, File)
        /\ ~fs.file => fs.pos = FileLen
    BY <1>1 DEF Carries
  <1>3. /\ sfifo_used(fs.fifo) \in Nat /\ sfifo_space(fs.fifo) \in Nat
        /\ sfifo_used(fs.fifo) = 0 => Contents(fs.fifo) = <<>>
    BY SpaceIsLeft
  <1>4. n \in Nat /\ n <= sfifo_space(fs.fifo) /\ fs.pos + n <= FileLen
        /\ (n = 0 /\ sfifo_space(fs.fifo) > 0 => fs.pos = FileLen)
    BY <1>1, <1>2, <1>3, SMTT(30) DEF Lesser
  <1>5. fs.connected \in BOOLEAN /\ fs.file \in BOOLEAN
        /\ fs = [connected |-> fs.connected, file |-> fs.file, pos |-> fs.pos,
                 fifo |-> fs.fifo]
    BY DEF IsData
  <1>6. got \o out \in Seq(Nat)
    BY Joined, Zenon
  <1>7. ASSUME fs.file, n = 0, sfifo_space(fs.fifo) > 0,
               datafs' = [fs EXCEPT !.file = FALSE], CloseFile, GoOn, wire' = out
        PROVE  Sending("RETR", got, fs)
    <2> HIDE DEF n
    <2>1. datafs' = [connected |-> fs.connected, file |-> FALSE, pos |-> fs.pos,
                     fifo |-> fs.fifo]
      BY <1>5, <1>7, Zenon
    <2>2. IsData(datafs') /\ datafs'.connected /\ ~datafs'.file /\ datafs'.pos = fs.pos
          /\ datafs'.fifo = fs.fifo
      BY <2>1 DEF IsData
    <2>3. InRing(got \o wire', datafs', File)
      BY <1>2, <1>7, <2>2, Zenon DEF InRing
    <2>4. Carries("RETR", got \o wire', datafs')
      BY <1>1, <1>2, <1>4, <1>7, <2>2, <2>3 DEF Carries
    <2>5. files' = files - Held(fs) + Held(datafs')
      BY <1>7, <2>2 DEF Held, CloseFile
    <2> QED BY <1>7, <2>2, <2>4, <2>5 DEF Sending
  <1>8. ASSUME fs.file, FileRead(fs, out, w, n)
        PROVE  Sending("RETR", got, fs)
    <2> DEFINE g == [fs EXCEPT !.pos = @ + n,
                               !.fifo = sfifo_write(@, SubSeq(File, fs.pos + 1, fs.pos + n))]
    <2>1. send_data(g, out, w) /\ GoOn /\ files' = files
      BY <1>8 DEF FileRead
    <2>2. g = [connected |-> fs.connected, file |-> fs.file, pos |-> fs.pos + n,
               fifo |-> sfifo_write(fs.fifo, SubSeq(File, fs.pos + 1, fs.pos + n))]
      BY DataExcept, Zenon
    <2> HIDE DEF n, g
    <2>3. /\ IsData(g) /\ g.connected = fs.connected /\ g.file = fs.file
          /\ g.pos = fs.pos + n /\ InRing(got \o out, g, File)
      <3>1. n \in Nat /\ fs.pos + n <= Len(File) /\ n <= sfifo_space(fs.fifo)
        BY <1>1, <1>4
      <3>2. File \in Seq(Nat) /\ InRing(got \o out, fs, File)
        BY <1>1, <1>2
      <3>3. Refilled(fs, g, n, got \o out, File)
        BY <1>6, <2>2, <3>1, <3>2, Refill, Zenon
      <3> QED BY <3>3, Zenon DEF Refilled
    <2>4. /\ IsData(datafs') /\ datafs'.connected = g.connected
          /\ datafs'.file = g.file /\ datafs'.pos = g.pos
          /\ wire' \in Seq(Nat) /\ Len(wire') <= SND_BUF
          /\ InRing(got \o wire', datafs', File)
      BY <2>1, <2>3, RingMoves, Zenon
    <2>5. Carries("RETR", got \o wire', datafs')
      BY <1>1, <1>2, <1>4, <1>8, <2>3, <2>4 DEF Carries
    <2>6. files' = files - Held(fs) + Held(datafs')
      BY <2>1, <2>3, <2>4 DEF Held
    <2> QED BY <2>1, <2>3, <2>4, <2>5, <2>6 DEF Sending
  <1>9. ASSUME ~fs.file, send_data(fs, out, w), GoOn, UNCHANGED files
        PROVE  Sending("RETR", got, fs)
    <2>1. /\ IsData(datafs') /\ datafs'.connected = fs.connected
          /\ datafs'.file = fs.file /\ datafs'.pos = fs.pos
          /\ wire' \in Seq(Nat) /\ Len(wire') <= SND_BUF
          /\ InRing(got \o wire', datafs', File)
      BY <1>2, <1>9, RingMoves, Zenon
    <2>2. Carries("RETR", got \o wire', datafs')
      BY <1>1, <1>2, <1>9, <2>1 DEF Carries
    <2>3. files' = files - Held(fs) + Held(datafs')
      BY <1>9, <2>1 DEF Held
    <2> QED BY <1>9, <2>1, <2>2, <2>3 DEF Sending
  <1>10. ASSUME ~fs.file, sfifo_used(fs.fifo) = 0, Finish, wire' = out, UNCHANGED files
         PROVE  Ended("RETR", got, out, fs)
    <2>1. got \o out = File
      BY <1>1, <1>2, <1>3, <1>6, <1>10, AllHasLeft, Zenon
    <2>2. files' = files - Held(fs)
      BY <1>10 DEF Held
    <2> QED BY <1>1, <1>10, <2>1, <2>2, Zenon DEF Ended
  <1> QED BY <1>7, <1>8, <1>9, <1>10, Zenon DEF send_file

\* send_next_directory puts the whole listing into the ring, or ends the
\* transfer with all of it sent.
LEMMA ListingIsSent ==
  ASSUME NEW fs, IsData(fs), fs.connected, NEW got \in Seq(Nat), NEW out \in Seq(Nat),
         Len(out) <= SND_BUF, NEW w \in 0..2, files \in Int,
         Carries("LIST", got \o out, fs), send_next_directory(fs, out, w)
  PROVE  Sending("LIST", got, fs) \/ Ended("LIST", got, out, fs)
  <1> DEFINE n == ListLen - fs.pos
             full == sfifo_write(fs.fifo, SubSeq(Listing, fs.pos + 1, ListLen))
             g == [fs EXCEPT !.pos = ListLen, !.fifo = full]
  <1>1. /\ Listing \in Seq(Nat) /\ Len(Listing) = ListLen /\ Data("LIST") = Listing
        /\ ListLen \in Nat /\ ListLen < RingSize /\ RingSize \in Nat
    BY FilesAreBytes, FtpdAssumption DEF Data
  <1>2. /\ fs.pos \in {0, ListLen} /\ InRing(got \o out, fs, Listing) /\ fs.file
    BY <1>1, SMTT(30) DEF Carries
  <1>3. /\ sfifo_used(fs.fifo) \in Nat /\ sfifo_space(fs.fifo) \in Nat
        /\ sfifo_space(fs.fifo) = RingSize - 1 - sfifo_used(fs.fifo)
        /\ sfifo_used(fs.fifo) = 0 => Contents(fs.fifo) = <<>>
        /\ Contents(fs.fifo) = <<>> => sfifo_used(fs.fifo) = 0
    BY SpaceIsLeft
  <1>4. got \o out \in Seq(Nat)
    BY Joined, Zenon
  <1>5. n \in Nat /\ fs.pos + n = ListLen /\ fs.pos + n <= Len(Listing)
    BY <1>1, <1>2
  <1>6. n <= sfifo_space(fs.fifo)
    <2>1. CASE fs.pos = 0
      <3>1. (got \o out) \o Contents(fs.fifo) = <<>>
        <4>1. SubSeq(Listing, 1, 0) = <<>>
          BY SubSeqEmpty
        <4> QED BY <1>2, <2>1, <4>1, Zenon DEF InRing
      <3>2. Contents(fs.fifo) \in Seq(Nat)
        BY ContentsAreBytes DEF IsData
      <3>3. Contents(fs.fifo) = <<>>
        BY <1>4, <3>1, <3>2, JoinedEmpty, Zenon
      <3> QED BY <1>1, <1>3, <2>1, <3>3
    <2>2. CASE fs.pos = ListLen
      BY <1>1, <1>3, <2>2
    <2> QED BY <1>2, <2>1, <2>2
  <1>7. g = [connected |-> fs.connected, file |-> fs.file, pos |-> fs.pos + n,
             fifo |-> sfifo_write(fs.fifo, SubSeq(Listing, fs.pos + 1, fs.pos + n))]
    <2>1. g = [connected |-> fs.connected, file |-> fs.file, pos |-> ListLen, fifo |-> full]
      BY DataExcept, Zenon
    <2> HIDE DEF n, g
    <2> QED BY <1>5, <2>1, Zenon
  <1>8. \/ sfifo_used(full) > 0 /\ send_data(g, out, w) /\ GoOn /\ files' = files
        \/ sfifo_used(full) = 0 /\ Finish /\ CloseFile /\ wire' = out
    <2> HIDE DEF full, g
    <2> QED BY ZenonT(30) DEF send_next_directory, full, g
  <1>9. g.fifo = full
    <2> HIDE DEF full
    <2> QED BY DataExcept, Zenon
  <1> HIDE DEF n, full, g
  <1>10. /\ IsData(g) /\ g.connected = fs.connected /\ g.file = fs.file
         /\ g.pos = fs.pos + n /\ InRing(got \o out, g, Listing)
         /\ sfifo_used(g.fifo) = sfifo_used(fs.fifo) + n
    <2>1. n \in Nat /\ fs.pos + n <= Len(Listing)
      BY <1>5
    <2>2. Listing \in Seq(Nat) /\ InRing(got \o out, fs, Listing)
      BY <1>1, <1>2
    <2>3. Refilled(fs, g, n, got \o out, Listing)
      BY <1>4, <1>6, <1>7, <2>1, <2>2, Refill, Zenon
    <2> QED BY <2>3, Zenon DEF Refilled
  <1>11. ASSUME send_data(g, out, w), GoOn, files' = files
         PROVE  Sending("LIST", got, fs)
    <2>1. /\ IsData(datafs') /\ datafs'.connected = g.connected
          /\ datafs'.file = g.file /\ datafs'.pos = g.pos
          /\ wire' \in Seq(Nat) /\ Len(wire') <= SND_BUF
          /\ InRing(got \o wire', datafs', Listing)
      BY <1>10, <1>11, RingMoves, Zenon
    <2>2. Carries("LIST", got \o wire', datafs')
      BY <1>1, <1>2, <1>5, <1>10, <2>1 DEF Carries
    <2>3. files' = files - Held(fs) + Held(datafs')
      BY <1>10, <1>11, <2>1 DEF Held
    <2> QED BY <1>10, <1>11, <2>1, <2>2, <2>3 DEF Sending
  <1>12. ASSUME sfifo_used(full) = 0, Finish, CloseFile, wire' = out
         PROVE  Ended("LIST", got, out, fs)
    <2>1. sfifo_used(fs.fifo) = 0 /\ fs.pos = Len(Listing)
      <3>1. sfifo_used(fs.fifo) + n = 0
        BY <1>9, <1>10, <1>12, Zenon
      <3>2. n = 0 /\ sfifo_used(fs.fifo) = 0
        BY <1>3, <1>5, <3>1
      <3>3. fs.pos \in Nat
        BY DEF IsData
      <3> QED BY <1>1, <1>5, <3>2, <3>3
    <2>2. got \o out = Listing
      BY <1>1, <1>2, <1>3, <1>4, <2>1, AllHasLeft, Zenon
    <2>3. files' = files - Held(fs)
      BY <1>2, <1>12 DEF Held, CloseFile
    <2> QED BY <1>1, <1>12, <2>2, <2>3, Zenon DEF Ended
  <1> QED BY <1>8, <1>11, <1>12, Zenon

\* The server works on the transfer that the client has asked for.
Working(s, t) ==
  /\ s \in {"IDLE", "PASS", "QUIT"} \cup Transfers /\ t \in {"none"} \cup Transfers
  /\ t = "none" => s \notin Transfers
  /\ t # "none" => s = t

\* What a callback that may send leaves behind.
LEMMA MoreIsSent ==
  ASSUME NEW fs, IsData(fs), fs.connected, NEW got \in Seq(Nat), NEW out \in Seq(Nat),
         Len(out) <= SND_BUF, NEW w \in 0..2, files \in Int,
         Working(state, op), Carries(op, got \o out, fs), SendMore(fs, out, w)
  PROVE  \/ Sending(op, got, fs)
         \/ op \in {"RETR", "LIST"} /\ Ended(op, got, out, fs)
  <1>1. CASE state \in {"LIST", "NLST"} /\ send_next_directory(fs, out, w)
    <2>1. op = "LIST"
      BY <1>1 DEF Transfers, Working
    <2>2. Carries("LIST", got \o out, fs)
      BY <2>1
    <2> QED BY <1>1, <2>1, <2>2, ListingIsSent, Zenon
  <1>2. CASE state = "RETR" /\ send_file(fs, out, w)
    <2>1. op = "RETR"
      BY <1>2 DEF Transfers, Working
    <2>2. Carries("RETR", got \o out, fs)
      BY <2>1
    <2> QED BY <1>2, <2>1, <2>2, FileIsSent, Zenon
  <1>3. CASE datafs' = fs /\ wire' = out /\ GoOn /\ files' = files
    <2>1. files' = files - Held(fs) + Held(datafs')
      BY <1>3 DEF Held
    <2> QED BY <1>3, <2>1, Zenon DEF Sending
  <1> QED BY <1>1, <1>2, <1>3, Zenon DEF SendMore
-----------------------------------------------------------------------------
(* The invariant.                                                          *)

LEMMA InvAtStart == FtpdInit => FtpdInv
  <1> SUFFICES ASSUME FtpdInit PROVE FtpdInv
    OBVIOUS
  <1> USE DEF FtpdInit
  <1>1. QueueTypes
    <2>1. <<>> \in Seq(Nat) /\ <<>> \in Seq(Replies) /\ Len(<<>>) = 0
      OBVIOUS
    <2> QED BY <2>1, FtpdAssumption DEF QueueTypes
  <1>6. ControlTypes
    <2>1. passive \in BOOLEAN /\ ready \in BOOLEAN /\ waiting \in BOOLEAN /\ eof \in BOOLEAN
      BY Zenon
    <2> QED BY <2>1 DEF ControlTypes
  <1>2. DataClosed
    BY DEF DataClosed, Transfers
  <1>3. SessionInv
    BY DEF SessionInv
  <1>4. RepliesInv
    BY DEF RepliesInv
  <1>5. FilesInv
    BY DEF FilesInv, Transfers
  <1> QED BY <1>1, <1>2, <1>3, <1>4, <1>5, <1>6 DEF FtpdInv

\* A 226 that is not there.
NoEnd(q) == \A i \in 1..Len(q) : q[i] # "226"

LEMMA NoEndYet ==
  ASSUME FtpdInv, op = "none" \/ datafs # NULL
  PROVE  NoEnd(replies)
  BY DEF FtpdInv, RepliesInv, NoEnd

\* The answer to a command is no 226.
LEMMA AnswerIsNoEnd ==
  ASSUME replies \in Seq(Replies), NoEnd(replies), NEW rs \in Seq(Replies), NoEnd(rs),
         replies' = Fitting(rs)
  PROVE  replies' \in Seq(Replies) /\ NoEnd(replies')
  <1> DEFINE q == Fitting(rs)
  <1>1. /\ q \in Seq(Replies) /\ Len(q) <= Len(replies) + Len(rs)
        /\ \A i \in 1..Len(q) : /\ i <= Len(replies) => q[i] = replies[i]
                                /\ i > Len(replies) => q[i] = rs[i - Len(replies)]
    BY RepliesFit
  <1> HIDE DEF q
  <1>2. ASSUME NEW i \in 1..Len(q) PROVE q[i] # "226"
    <2>1. CASE i <= Len(replies)
      <3>1. i \in 1..Len(replies)
        BY <2>1
      <3> QED BY <1>1, <2>1, <3>1 DEF NoEnd
    <2>2. CASE i > Len(replies)
      <3>1. Len(q) \in Nat /\ Len(replies) \in Nat /\ Len(rs) \in Nat
        BY <1>1
      <3>2. i - Len(replies) \in 1..Len(rs)
        BY <1>1, <2>2, <3>1
      <3> QED BY <1>1, <2>2, <3>2 DEF NoEnd
    <2> QED BY <2>1, <2>2
  <1> QED BY <1>1, <1>2 DEF q, NoEnd

LEMMA AnswersAreNoEnds ==
  ASSUME FtpdInv, op = "none"
  PROVE  /\ \A r \in {"ok", "fail", "150"} :
              send_msg(r) => replies' \in Seq(Replies) /\ NoEnd(replies')
         /\ replies' = Fitting(<<"150">> \o <<"fail">>) \/ replies' = Fitting(<<>> \o <<"fail">>)
              => replies' \in Seq(Replies) /\ NoEnd(replies')
  <1>1. replies \in Seq(Replies) /\ NoEnd(replies)
    BY NoEndYet DEF FtpdInv, QueueTypes
  <1>2. ASSUME NEW r \in {"ok", "fail", "150"}, send_msg(r)
        PROVE  replies' \in Seq(Replies) /\ NoEnd(replies')
    <2>1. <<r>> \in Seq(Replies) /\ NoEnd(<<r>>)
      BY DEF Replies, NoEnd
    <2> QED BY <1>1, <1>2, <2>1, AnswerIsNoEnd, Zenon DEF send_msg
  <1>3. ASSUME replies' = Fitting(<<"150">> \o <<"fail">>)
        PROVE  replies' \in Seq(Replies) /\ NoEnd(replies')
    <2> DEFINE a == <<"150">>
               b == <<"fail">>
    <2>1. /\ a \in Seq(Replies) /\ Len(a) = 1 /\ a[1] = "150"
          /\ b \in Seq(Replies) /\ Len(b) = 1 /\ b[1] = "fail"
      BY DEF Replies
    <2> HIDE DEF a, b
    <2>2. /\ a \o b \in Seq(Replies) /\ Len(a \o b) = Len(a) + Len(b)
          /\ \A i \in 1..Len(a) + Len(b) :
               (a \o b)[i] = IF i <= Len(a) THEN a[i] ELSE b[i - Len(a)]
      BY <2>1, ConcatProperties, Zenon
    <2>3. NoEnd(a \o b)
      BY <2>1, <2>2 DEF NoEnd
    <2> QED BY <1>1, <1>3, <2>2, <2>3, AnswerIsNoEnd, Zenon DEF a, b
  <1>4. ASSUME replies' = Fitting(<<>> \o <<"fail">>)
        PROVE  replies' \in Seq(Replies) /\ NoEnd(replies')
    <2>1. <<"fail">> \in Seq(Replies) /\ NoEnd(<<"fail">>)
      BY DEF Replies, NoEnd
    <2>2. <<>> \o <<"fail">> = <<"fail">>
      BY <2>1, ConcatEmptySeq, Zenon
    <2> QED BY <1>1, <1>4, <2>1, <2>2, AnswerIsNoEnd, Zenon
  <1> QED BY <1>2, <1>3, <1>4, Zenon

\* 226 is the last reply.
LEMMA EndIsLast ==
  ASSUME replies \in Seq(Replies), NoEnd(replies), replies' = Fitting(<<"226">>),
         op' # "none", datafs' = NULL
  PROVE  replies' \in Seq(Replies) /\ RepliesInv'
  <1>1. <<"226">> \in Seq(Replies) /\ Len(<<"226">>) = 1
    BY DEF Replies
  <1>2. /\ replies' \in Seq(Replies) /\ Len(replies') <= Len(replies) + 1
        /\ \A i \in 1..Len(replies') : i <= Len(replies) => replies'[i] = replies[i]
    BY <1>1, RepliesFit, Zenon
  <1>3. ASSUME NEW i \in 1..Len(replies'), replies'[i] = "226"
        PROVE  i = Len(replies')
    <2>1. Len(replies) \in Nat /\ Len(replies') \in Nat
      BY <1>2
    <2>2. i <= Len(replies) => FALSE
      <3>1. i <= Len(replies) => i \in 1..Len(replies)
        BY <2>1
      <3> QED BY <1>2, <1>3, <3>1, Zenon DEF NoEnd
    <2> QED BY <1>2, <2>1, <2>2
  <1> QED BY <1>2, <1>3 DEF RepliesInv

\* A callback of the data connection that may send keeps the invariant.
LEMMA CallbackKeepsInv ==
  ASSUME FtpdInv, datafs # NULL, NEW fs, IsData(fs), fs.connected, fs.file = datafs.file,
         NEW out \in Seq(Nat), Len(out) <= SND_BUF, rcvd' \in Seq(Nat),
         Carries(op, rcvd' \o out, fs), NEW w \in 0..2, SendMore(fs, out, w),
         UNCHANGED <<ctl, passive, mode, ready, op, waiting, eof, stored, aborts>>
  PROVE  FtpdInv'
  <1>1. ControlTypes /\ QueueTypes /\ DataOpen /\ SessionInv /\ RepliesInv /\ FilesInv
    BY DEF FtpdInv
  <1>2. /\ files \in Int /\ aborts \in Nat /\ replies \in Seq(Replies)
        /\ state \in {"IDLE", "PASS", "QUIT"} \cup Transfers
        /\ op \in {"none"} \cup Transfers
        /\ op = "none" => state \notin Transfers
        /\ op # "none" => state = op
    BY <1>1, SMTT(30) DEF ControlTypes, QueueTypes, DataOpen
  <1>3. \/ Sending(op, rcvd', fs)
        \/ op \in {"RETR", "LIST"} /\ Ended(op, rcvd', out, fs)
    <2>1. PICK got \in Seq(Nat) : got = rcvd'
      OBVIOUS
    <2>2. Carries(op, got \o out, fs)
      BY <2>1
    <2>3. \/ Sending(op, got, fs)
          \/ op \in {"RETR", "LIST"} /\ Ended(op, got, out, fs)
      <3>1. files \in Int /\ Working(state, op)
        BY <1>2 DEF Working
      <3> QED BY <2>2, <3>1, MoreIsSent, Zenon
    <2> QED BY <2>1, <2>3
  <1>4. NoEnd(replies)
    BY NoEndYet
  <1>5. Held(fs) = Held(datafs) /\ Held(fs) \in {0, 1}
    BY DEF Held
  <1>6. files <= aborts + IF state \in Transfers THEN Held(fs) ELSE 0
    BY <1>1, <1>5 DEF FilesInv, Held
  <1>7. CASE Sending(op, rcvd', fs)
    <2>1. /\ IsData(datafs') /\ datafs'.connected
          /\ wire' \in Seq(Nat) /\ Len(wire') <= SND_BUF
          /\ Carries(op, rcvd' \o wire', datafs')
          /\ datapcb' = "conn" /\ conn' = "open" /\ state' = state /\ replies' = replies
          /\ files' = files - Held(fs) + Held(datafs')
      BY <1>7, Zenon DEF Sending, GoOn
    <2>2. datafs' # NULL
      BY <2>1, DataIsNotNull
    <2>3. ControlTypes'
      <3>1. files' \in Int
        BY <1>2, <2>1 DEF Held
      <3> QED BY <1>1, <2>1, <3>1 DEF ControlTypes
    <2>4. QueueTypes'
      BY <1>1, <2>1 DEF QueueTypes
    <2>5. DataOpen'
      BY <1>1, <2>1, SMTT(30) DEF DataOpen
    <2>6. SessionInv'
      <3>1. op = "none" => rcvd' = <<>> /\ wire' = <<>>
        <4>1. op = "none" => rcvd' \o wire' = <<>>
          BY <2>1 DEF Carries
        <4> QED BY <2>1, <4>1, JoinedEmpty, Zenon
      <3> QED BY <1>1, <2>1, <2>2, <3>1 DEF SessionInv, DataOpen
    <2>7. RepliesInv'
      BY <1>4, <2>1 DEF RepliesInv, NoEnd
    <2>8. FilesInv'
      <3>1. CASE state \in Transfers
        BY <1>2, <1>5, <1>6, <2>1, <3>1, SMTT(30) DEF FilesInv, Held
      <3>2. CASE state \notin Transfers
        <4>1. ~fs.file /\ ~datafs'.file
          BY <1>2, <2>1, <3>2 DEF Carries
        <4> QED BY <1>2, <1>6, <2>1, <3>2, <4>1, SMTT(30) DEF FilesInv, Held
      <3> QED BY <3>1, <3>2
    <2> QED BY <2>2, <2>3, <2>4, <2>5, <2>6, <2>7, <2>8, Zenon DEF FtpdInv
  <1>8. CASE op \in {"RETR", "LIST"} /\ Ended(op, rcvd', out, fs)
    <2>1. /\ datafs' = NULL /\ datapcb' = "NULL" /\ conn' = "shut" /\ state' = "IDLE"
          /\ replies' = Fitting(<<"226">>) /\ wire' = out
          /\ rcvd' \o out = Data(op)
          /\ files' = files - Held(fs)
      BY <1>8, Zenon DEF Ended, Finish, send_msg
    <2>2. ControlTypes'
      <3>1. files' \in Int
        BY <1>2, <1>5, <2>1
      <3> QED BY <1>1, <2>1, <3>1 DEF ControlTypes
    <2>3. replies' \in Seq(Replies) /\ RepliesInv'
      BY <1>2, <1>4, <1>8, <2>1, EndIsLast, SMTT(30)
    <2>4. QueueTypes'
      BY <1>1, <2>1, <2>3 DEF QueueTypes
    <2>5. DataClosed'
      BY <1>1, <1>8, <2>1 DEF DataClosed, DataOpen, Transfers
    <2>6. SessionInv'
      BY <1>1, <1>8, <2>1 DEF SessionInv, DataOpen
    <2>7. FilesInv'
      <3>1. state \in Transfers
        BY <1>2, <1>8
      <3> QED BY <1>2, <1>5, <1>6, <2>1, <3>1 DEF FilesInv, Transfers
    <2> QED BY <2>1, <2>2, <2>3, <2>4, <2>5, <2>6, <2>7, Zenon DEF FtpdInv
  <1> QED BY <1>3, <1>7, <1>8, Zenon

\* A data state that becomes connected carries what it carried.
LEMMA ConnectedCarries ==
  ASSUME NEW fs, IsData(fs), NEW t, NEW got, Carries(t, got, fs)
  PROVE  LET g == [fs EXCEPT !.connected = TRUE]
         IN IsData(g) /\ g.connected /\ g.file = fs.file /\ Carries(t, got, g)
  <1> DEFINE g == [fs EXCEPT !.connected = TRUE]
  <1>1. g = [connected |-> TRUE, file |-> fs.file, pos |-> fs.pos, fifo |-> fs.fifo]
    BY DataWith, Zenon
  <1> HIDE DEF g
  <1>2. /\ IsData(g) /\ g.connected
        /\ g.file = fs.file /\ g.pos = fs.pos /\ g.fifo = fs.fifo
    BY <1>1 DEF IsData
  <1>3. Carries(t, got, g)
    <2>1. \A d : InRing(got, fs, d) => InRing(got, g, d)
      BY <1>2, Zenon DEF InRing
    <2> QED BY <1>2, <2>1, Zenon DEF Carries
  <1> QED BY <1>2, <1>3 DEF g

LEMMA SendersKeepInv ==
  ASSUME FtpdInv, NEW w \in Writes,
         ftpd_dataconnected(w) \/ ftpd_dataaccept(w) \/ ftpd_msgpoll(w)
  PROVE  FtpdInv'
  <1>1. datafs # NULL
    <2>1. CASE datapcb \in {"syn", "listen"}
      BY <2>1 DEF FtpdInv, DataClosed
    <2>2. CASE ftpd_msgpoll(w)
      BY <2>2 DEF ftpd_msgpoll
    <2> QED BY <2>1, <2>2 DEF ftpd_dataconnected, ftpd_dataaccept
  <1>2. /\ IsData(datafs) /\ Carries(op, rcvd \o wire, datafs)
        /\ wire \in Seq(Nat) /\ Len(wire) <= SND_BUF /\ rcvd \in Seq(Nat)
    BY <1>1 DEF FtpdInv, DataOpen, QueueTypes
  <1>3. /\ rcvd' = rcvd
        /\ UNCHANGED <<ctl, passive, mode, ready, op, waiting, eof, stored, aborts>>
    BY DEF ftpd_dataconnected, ftpd_dataaccept, ftpd_msgpoll, client
  <1>4. rcvd' \in Seq(Nat) /\ Carries(op, rcvd' \o wire, datafs)
    BY <1>2, <1>3
  <1>5. w \in 0..2
    BY DEF Writes
  <1>6. CASE SendMore(datafs, wire, w) /\ datafs.connected
    BY <1>1, <1>2, <1>3, <1>4, <1>5, <1>6, CallbackKeepsInv, Zenon
  <1>7. CASE SendMore([datafs EXCEPT !.connected = TRUE], wire, w)
    <2> DEFINE g == [datafs EXCEPT !.connected = TRUE]
    <2>1. IsData(g) /\ g.connected /\ g.file = datafs.file
      BY <1>2, ConnectedCarries, Zenon
    <2>2. Carries(op, rcvd \o wire, g)
      BY <1>2, ConnectedCarries, Zenon
    <2>3. SendMore(g, wire, w)
      BY <1>7
    <2> HIDE DEF g
    <2>4. Carries(op, rcvd' \o wire, g)
      BY <1>3, <2>2
    <2> QED BY <1>1, <1>2, <1>3, <1>4, <1>5, <2>1, <2>3, <2>4, CallbackKeepsInv, Zenon
  <1> QED BY <1>6, <1>7, Zenon DEF ftpd_dataconnected, ftpd_dataaccept, ftpd_msgpoll

\* ftpd_datasent: what is acknowledged goes from TCP to the client.
LEMMA SentKeepsInv ==
  ASSUME FtpdInv, NEW n \in Bytes, NEW w \in Writes, ftpd_datasent(n, w)
  PROVE  FtpdInv'
  <1> DEFINE a == SubSeq(wire, 1, n)
             b == SubSeq(wire, n + 1, Len(wire))
  <1>1. datafs # NULL
    BY DEF FtpdInv, DataClosed, ftpd_datasent
  <1>2. /\ IsData(datafs) /\ Carries(op, rcvd \o wire, datafs) /\ datafs.connected
        /\ wire \in Seq(Nat) /\ Len(wire) <= SND_BUF /\ rcvd \in Seq(Nat)
    BY <1>1 DEF FtpdInv, DataOpen, QueueTypes, ftpd_datasent
  <1>3. /\ rcvd' = rcvd \o a /\ SendMore(datafs, b, w) /\ n <= Len(wire)
        /\ UNCHANGED <<ctl, passive, mode, ready, op, waiting, eof, stored, aborts>>
    BY DEF ftpd_datasent
  <1>4. n \in 0..Len(wire) /\ n \in Nat
    BY <1>2, <1>3 DEF Bytes
  <1>5. a \in Seq(Nat) /\ b \in Seq(Nat) /\ Len(b) = Len(wire) - n /\ a \o b = wire
    BY <1>2, <1>4, Rejoined, Zenon
  <1> HIDE DEF a, b
  <1>6. rcvd \o a \in Seq(Nat) /\ (rcvd \o a) \o b = rcvd \o wire
    <2>1. a \in Seq(Nat) /\ b \in Seq(Nat) /\ rcvd \in Seq(Nat)
      BY <1>2, <1>5
    <2>2. rcvd \o a \in Seq(Nat)
      BY <2>1, Joined, Zenon
    <2>3. (rcvd \o a) \o b = rcvd \o (a \o b)
      BY <2>1, JoinedThree, Zenon
    <2> QED BY <1>5, <2>2, <2>3, Zenon
  <1>7. rcvd' \in Seq(Nat) /\ Carries(op, rcvd' \o b, datafs)
    BY <1>2, <1>3, <1>6, Zenon
  <1>8. w \in 0..2 /\ Len(b) <= SND_BUF /\ b \in Seq(Nat)
    <2>1. Len(wire) \in Nat
      BY <1>2
    <2>2. Len(b) <= Len(wire)
      BY <1>4, <1>5, <2>1
    <2> QED BY <1>2, <1>5, <2>1, <2>2, FtpdAssumption, SMTT(30) DEF Writes
  <1> QED BY <1>1, <1>2, <1>3, <1>7, <1>8, CallbackKeepsInv, Zenon

\* A command that leaves the data connection alone.
LEMMA AnswerKeepsInv ==
  ASSUME FtpdInv, ctl = "open", op = "none",
         replies' \in Seq(Replies), NoEnd(replies'),
         state' \in {"IDLE", "PASS", "QUIT"}, waiting' \in BOOLEAN,
         ready' = ready \/ (ready' = TRUE /\ mode = "PORT"),
         UNCHANGED <<ctl, passive, datafs, datapcb, files, wire, conn, mode, op, rcvd,
                     eof, stored, aborts>>
  PROVE  FtpdInv'
  <1>1. /\ ControlTypes /\ QueueTypes /\ SessionInv /\ RepliesInv /\ FilesInv
        /\ datafs # NULL => DataOpen
        /\ datafs = NULL => DataClosed
    BY DEF FtpdInv
  <1>2. state \notin Transfers /\ state' \notin Transfers
    BY <1>1 DEF DataOpen, DataClosed, Transfers
  <1>3. ready' \in BOOLEAN
    BY <1>1, Zenon DEF ControlTypes
  <1>4. ControlTypes'
    BY <1>1, <1>3 DEF ControlTypes
  <1>5. QueueTypes'
    BY <1>1 DEF QueueTypes
  <1>6. ASSUME datafs' # NULL PROVE DataOpen'
    <2>1. DataOpen
      BY <1>1, <1>6
    <2>2. ready'
      BY <2>1, Zenon DEF DataOpen
    <2>3. Carries(op, rcvd \o wire, datafs)'
      BY <2>1 DEF DataOpen
    <2> QED BY <1>2, <2>1, <2>2, <2>3 DEF DataOpen
  <1>7. ASSUME datafs' = NULL PROVE DataClosed'
    <2>1. DataClosed
      BY <1>1, <1>7
    <2>2. ready' => ~passive
      BY <1>1, <2>1, Zenon DEF DataClosed, SessionInv
    <2> QED BY <1>2, <2>1, <2>2 DEF DataClosed
  <1>8. SessionInv'
    <2>1. mode = "PASV" => ready' = ready
      OBVIOUS
    <2> QED BY <1>1, <2>1 DEF SessionInv
  <1>9. RepliesInv'
    BY DEF RepliesInv, NoEnd
  <1>10. FilesInv'
    BY <1>1, <1>2 DEF FilesInv
  <1> QED BY <1>4, <1>5, <1>6, <1>7, <1>8, <1>9, <1>10, Zenon DEF FtpdInv

\* There is nothing on the data connection before a command.
LEMMA BeforeCommand ==
  ASSUME FtpdInv, op = "none"
  PROVE  /\ state \in {"IDLE", "PASS", "QUIT"}
         /\ rcvd = <<>> /\ wire = <<>> /\ stored = <<>> /\ ~eof
         /\ files <= aborts
         /\ datafs # NULL => /\ IsData(datafs) /\ Contents(datafs.fifo) = <<>>
                             /\ datafs.pos = 0 /\ ~datafs.file
                             /\ passive /\ ready
         /\ datafs = NULL => conn = "none" /\ datapcb \in {"NULL", "gone"} /\ (ready => ~passive)
  <1>1. /\ ControlTypes /\ SessionInv /\ FilesInv
        /\ datafs # NULL => DataOpen
        /\ datafs = NULL => DataClosed
    BY DEF FtpdInv
  <1>2. state \notin Transfers
    BY <1>1 DEF DataOpen, DataClosed
  <1>3. state \in {"IDLE", "PASS", "QUIT"}
    BY <1>1, <1>2 DEF ControlTypes
  <1>4. rcvd = <<>> /\ wire = <<>> /\ stored = <<>> /\ ~eof
    BY <1>1 DEF SessionInv
  <1>5. files <= aborts
    BY <1>1, <1>2 DEF FilesInv, ControlTypes
  <1>6. datafs # NULL => /\ IsData(datafs) /\ Contents(datafs.fifo) = <<>>
                         /\ datafs.pos = 0 /\ ~datafs.file /\ passive /\ ready
    BY <1>1 DEF DataOpen, Carries
  <1>7. datafs = NULL => conn = "none" /\ datapcb \in {"NULL", "gone"} /\ (ready => ~passive)
    BY <1>1 DEF DataClosed
  <1> QED BY <1>3, <1>4, <1>5, <1>6, <1>7

\* A transfer that begins with an empty ring.
LEMMA FreshCarries ==
  ASSUME NEW t \in Transfers, NEW fs, Contents(fs.fifo) = <<>>, fs.pos = 0, fs.file = TRUE
  PROVE  Carries(t, <<>>, fs)
  <1>1. <<>> \o <<>> = <<>>
    <2>1. <<>> \in Seq(Nat)
      OBVIOUS
    <2> QED BY <2>1, JoinedNone, Zenon
  <1>2. \A d : SubSeq(d, 1, 0) = <<>>
    BY SubSeqEmpty
  <1>3. InRing(<<>>, fs, Data(t))
    BY <1>1, <1>2, Zenon DEF InRing
  <1>4. Len(Data(t)) \in Nat
    BY FilesAreBytes, FtpdAssumption DEF Data
  <1>5. fs.pos \in 0..Len(Data(t))
    BY <1>4
  <1>6. t # "none"
    BY DEF Transfers
  <1> QED BY <1>3, <1>5, <1>6 DEF Carries

LEMMA TransferKeepsInv ==
  ASSUME FtpdInv, NEW t \in Transfers, NEW prelim, prelim = <<>> \/ prelim = <<"150">>,
         Transfer(t, prelim)
  PROVE  FtpdInv'
  <1>1. /\ ctl = "open" /\ op = "none" /\ ready /\ waiting' = TRUE
        /\ UNCHANGED <<ctl, passive, wire, conn, mode, ready, rcvd, eof, stored, aborts>>
    BY DEF Transfer, Command
  <1>2. /\ ControlTypes /\ QueueTypes /\ SessionInv /\ RepliesInv /\ FilesInv
        /\ datafs # NULL => DataOpen
        /\ datafs = NULL => DataClosed
    BY DEF FtpdInv
  <1>3. /\ state \in {"IDLE", "PASS", "QUIT"}
        /\ rcvd = <<>> /\ wire = <<>> /\ stored = <<>> /\ ~eof /\ files <= aborts
        /\ datafs # NULL => /\ IsData(datafs) /\ Contents(datafs.fifo) = <<>>
                            /\ datafs.pos = 0 /\ ~datafs.file /\ passive
        /\ datafs = NULL => conn = "none" /\ datapcb \in {"NULL", "gone"} /\ ~passive
    BY <1>1, BeforeCommand
  <1>4. CASE /\ send_msg("fail") \/ (~passive /\ datafs' = NULL
                                      /\ replies' = Fitting(prelim \o <<"fail">>))
             /\ datafs' = datafs \/ (~passive /\ datafs' = NULL)
             /\ UNCHANGED <<state, datapcb, files, op>>
    <2>1. replies' \in Seq(Replies) /\ NoEnd(replies')
      BY <1>1, <1>4, AnswersAreNoEnds, Zenon
    <2>2. datafs' = datafs
      BY <1>3, <1>4
    <2>3. state' \in {"IDLE", "PASS", "QUIT"} /\ waiting' \in BOOLEAN
      BY <1>1, <1>3, <1>4
    <2> QED BY <1>1, <1>4, <2>1, <2>2, <2>3, AnswerKeepsInv, Zenon
  <1>5. ASSUME state' = t, op' = t, files' = files + 1, send_msg("150"),
               NEW fs, IsData(fs), Contents(fs.fifo) = <<>>, fs.pos = 0,
               datafs' = [fs EXCEPT !.file = TRUE],
               datapcb' \in {"listen", "syn", "conn"},
               fs.connected <=> (datapcb' = "conn"),
               fs.connected <=> (conn = "open")
        PROVE  FtpdInv'
    <2>1. datafs' = [connected |-> fs.connected, file |-> TRUE, pos |-> fs.pos,
                     fifo |-> fs.fifo]
      BY <1>5, DataWith, Zenon
    <2>2. /\ IsData(datafs') /\ datafs'.connected = fs.connected /\ datafs'.file = TRUE
          /\ datafs'.pos = 0 /\ Contents(datafs'.fifo) = <<>>
      BY <1>5, <2>1, Zenon DEF IsData
    <2>3. PICK g : g = datafs'
      OBVIOUS
    <2>4. Carries(t, <<>>, datafs')
      <3>1. Carries(t, <<>>, g)
        BY <2>2, <2>3, FreshCarries, Zenon
      <3> QED BY <2>3, <3>1
    <2>5. datafs' # NULL
      <3>1. g # NULL
        BY <2>2, <2>3, DataIsNotNull, Zenon
      <3> QED BY <2>3, <3>1
    <2>6. replies' \in Seq(Replies) /\ NoEnd(replies')
      BY <1>1, <1>5, AnswersAreNoEnds
    <2>7. t # "none" /\ (t \in {"LIST", "RETR", "STOR"})
      BY DEF Transfers
    <2>8. ControlTypes'
      BY <1>1, <1>2, <1>5 DEF ControlTypes
    <2>9. QueueTypes'
      BY <1>1, <1>2, <2>6 DEF QueueTypes
    <2>10. DataOpen'
      <3>1. Carries(op, rcvd \o wire, datafs)'
        <4>1. <<>> \o <<>> = <<>>
          BY JoinedNone
        <4>2. rcvd' \o wire' = <<>>
          BY <1>1, <1>3, <4>1, Zenon
        <4> QED BY <1>5, <2>4, <4>2, Zenon
      <3>2. conn # "shut"
        BY <1>2, <1>3 DEF DataOpen
      <3> QED BY <1>1, <1>3, <1>5, <2>2, <2>7, <3>1, <3>2 DEF DataOpen
    <2>11. SessionInv'
      <3>1. stored' = <<>> /\ Len(<<>>) <= FileLen /\ <<>> = SubSeq(File, 1, Len(<<>>))
        BY <1>1, <1>3, FtpdAssumption, SubSeqEmpty
      <3> QED BY <1>1, <1>2, <1>5, <2>7, <3>1, SMTT(30) DEF SessionInv
    <2>12. RepliesInv'
      BY <2>6 DEF RepliesInv, NoEnd
    <2>13. FilesInv'
      BY <1>1, <1>2, <1>3, <1>5, <2>2 DEF FilesInv, ControlTypes
    <2> QED BY <2>5, <2>8, <2>9, <2>10, <2>11, <2>12, <2>13, Zenon DEF FtpdInv
  <1>6. CASE /\ state' = t /\ op' = t /\ files' = files + 1 /\ send_msg("150")
             /\ passive /\ datafs' = [datafs EXCEPT !.file = TRUE] /\ datapcb' = datapcb
    <2>1. datafs # NULL
      BY <1>3, <1>6
    <2>2. /\ datapcb \in {"listen", "syn", "conn"}
          /\ datafs.connected <=> (datapcb = "conn")
          /\ datafs.connected <=> (conn = "open")
      BY <1>2, <2>1 DEF DataOpen
    <2> QED BY <1>3, <1>5, <1>6, <2>1, <2>2
  <1>7. CASE /\ state' = t /\ op' = t /\ files' = files + 1 /\ send_msg("150")
             /\ ~passive /\ datafs' = [NewData EXCEPT !.file = TRUE] /\ datapcb' = "syn"
    <2>1. datafs = NULL
      BY <1>3, <1>7
    <2>2. conn = "none"
      BY <1>3, <2>1
    <2> QED BY <1>5, <1>7, <2>2, NewDataIsEmpty
  <1> QED BY <1>4, <1>6, <1>7, Zenon DEF Transfer

LEMMA PasvKeepsInv ==
  ASSUME FtpdInv, cmd_pasv PROVE FtpdInv'
  <1>1. /\ ctl = "open" /\ op = "none" /\ ~ready /\ mode = "PASV" /\ waiting' = TRUE
        /\ UNCHANGED <<ctl, state, files, wire, conn, mode, op, rcvd, eof, stored, aborts>>
    BY DEF cmd_pasv, Command
  <1>2. /\ ControlTypes /\ QueueTypes /\ SessionInv /\ RepliesInv /\ FilesInv
        /\ datafs # NULL => DataOpen
        /\ datafs = NULL => DataClosed
    BY DEF FtpdInv
  <1>3. datafs = NULL
    BY <1>1, <1>2 DEF DataOpen
  <1>4. DataClosed
    BY <1>2, <1>3
  <1>5. CASE /\ datafs' = NULL /\ (send_msg("fail") \/ replies' = replies)
             /\ datapcb' = datapcb \/ datapcb' = "NULL"
             /\ UNCHANGED <<passive, ready>>
    <2>1. replies' \in Seq(Replies) /\ NoEnd(replies')
      <3>1. replies \in Seq(Replies) /\ NoEnd(replies)
        BY <1>1, <1>2, NoEndYet DEF QueueTypes
      <3> QED BY <1>1, <1>5, <3>1, AnswersAreNoEnds
    <2>2. ControlTypes'
      BY <1>1, <1>2, <1>5 DEF ControlTypes
    <2>3. QueueTypes'
      BY <1>1, <1>2, <2>1 DEF QueueTypes
    <2>4. DataClosed'
      BY <1>1, <1>4, <1>5 DEF DataClosed
    <2>5. SessionInv'
      BY <1>1, <1>2, <1>5 DEF SessionInv
    <2>6. RepliesInv'
      BY <2>1 DEF RepliesInv, NoEnd
    <2>7. FilesInv'
      BY <1>1, <1>2, <1>4 DEF FilesInv, DataClosed
    <2> QED BY <1>5, <2>2, <2>3, <2>4, <2>5, <2>6, <2>7, Zenon DEF FtpdInv
  <1>6. CASE /\ datafs' = NewData /\ datapcb' = "listen" /\ send_msg("ok")
             /\ passive' = TRUE /\ ready' = TRUE
    <2>1. replies' \in Seq(Replies) /\ NoEnd(replies')
      BY <1>1, <1>6, AnswersAreNoEnds
    <2>2. /\ IsData(NewData) /\ Contents(NewData.fifo) = <<>>
          /\ NewData.pos = 0 /\ ~NewData.file /\ ~NewData.connected
      BY NewDataIsEmpty
    <2>3. datafs' # NULL
      BY <1>6, <2>2, DataIsNotNull
    <2>4. ControlTypes'
      BY <1>1, <1>2, <1>6 DEF ControlTypes
    <2>5. QueueTypes'
      BY <1>1, <1>2, <2>1 DEF QueueTypes
    <2>6. DataOpen'
      <3>1. rcvd = <<>> /\ wire = <<>> /\ ~eof /\ conn = "none" /\ state \notin Transfers
        BY <1>1, <1>2, <1>4 DEF SessionInv, DataClosed
      <3>2. Carries(op, rcvd \o wire, datafs)'
        <4>1. <<>> \o <<>> = <<>>
          BY JoinedNone
        <4>2. rcvd' \o wire' = <<>>
          BY <1>1, <3>1, <4>1, Zenon
        <4>3. Carries("none", <<>>, NewData)
          BY <2>2 DEF Carries
        <4> QED BY <1>1, <1>6, <4>2, <4>3, Zenon
      <3> QED BY <1>1, <1>6, <2>2, <3>1, <3>2, SMTT(30) DEF DataOpen
    <2>7. SessionInv'
      BY <1>1, <1>2, <1>6 DEF SessionInv
    <2>8. RepliesInv'
      BY <2>1 DEF RepliesInv, NoEnd
    <2>9. FilesInv'
      BY <1>1, <1>2, <1>4 DEF FilesInv, DataClosed
    <2> QED BY <2>3, <2>4, <2>5, <2>6, <2>7, <2>8, <2>9, Zenon DEF FtpdInv
  <1> QED BY <1>5, <1>6, Zenon DEF cmd_pasv

LEMMA AcceptKeepsInv ==
  ASSUME FtpdInv, ftpd_msgaccept PROVE FtpdInv'
  <1>1. /\ ControlTypes /\ QueueTypes /\ SessionInv /\ RepliesInv /\ FilesInv
        /\ datafs = NULL => DataClosed
    BY DEF FtpdInv
  <1>2. /\ datafs = NULL /\ op = "none" /\ state = "IDLE" /\ ~ready
    BY <1>1 DEF SessionInv, ftpd_msgaccept
  <1>3. DataClosed
    BY <1>1, <1>2
  <1>4. replies' \in Seq(Replies) /\ NoEnd(replies')
    <2>1. send_msg("ok")
      BY DEF ftpd_msgaccept
    <2> QED BY <1>2, <2>1, AnswersAreNoEnds
  <1> USE DEF ftpd_msgaccept
  <1>5. ControlTypes'
    BY <1>1, Zenon DEF ControlTypes
  <1>6. QueueTypes'
    BY <1>1, <1>4 DEF QueueTypes
  <1>7. DataClosed'
    BY <1>2, <1>3 DEF DataClosed
  <1>8. SessionInv'
    <2>1. rcvd = <<>> /\ wire = <<>> /\ stored = <<>> /\ ~eof
      BY <1>1, <1>2 DEF SessionInv
    <2>2. /\ ctl' = "open" /\ op' = "none" /\ ~ready' /\ ~passive'
          /\ rcvd' = <<>> /\ wire' = <<>> /\ stored' = <<>> /\ ~eof'
      BY <1>2, <2>1
    <2> QED BY <2>2 DEF SessionInv
  <1>9. RepliesInv'
    BY <1>4 DEF RepliesInv, NoEnd
  <1>10. FilesInv'
    BY <1>1, <1>2 DEF FilesInv, Transfers
  <1> QED BY <1>5, <1>6, <1>7, <1>8, <1>9, <1>10 DEF FtpdInv

LEMMA CloseKeepsInv ==
  ASSUME FtpdInv, ftpd_msgclose,
         \/ state \notin Transfers /\ aborts' = aborts
         \/ aborts' = aborts + 1
  PROVE  FtpdInv'
  <1>1. ControlTypes /\ QueueTypes /\ SessionInv /\ FilesInv
    BY DEF FtpdInv
  <1> USE DEF ftpd_msgclose
  <1>2. ControlTypes'
    <2>1. /\ passive' \in BOOLEAN /\ ready' \in BOOLEAN
          /\ waiting' \in BOOLEAN /\ eof' \in BOOLEAN
      BY Zenon
    <2>2. aborts' \in Nat
      BY <1>1 DEF ControlTypes
    <2>3. files' \in Int /\ mode' \in {"PASV", "PORT"}
      BY <1>1 DEF ControlTypes
    <2> QED BY <2>1, <2>2, <2>3 DEF ControlTypes
  <1>3. QueueTypes'
    BY <1>1, FtpdAssumption, SMTT(30) DEF QueueTypes
  <1>4. DataClosed'
    BY DEF DataClosed, Transfers
  <1>5. SessionInv'
    BY DEF SessionInv
  <1>6. RepliesInv'
    BY DEF RepliesInv
  <1>7. FilesInv'
    BY <1>1 DEF FilesInv, ControlTypes, Transfers
  <1> QED BY <1>2, <1>3, <1>4, <1>5, <1>6, <1>7 DEF FtpdInv

\* ftpd_datarecv with data: a longer part of the file is stored.
LEMMA RecvKeepsInv ==
  ASSUME FtpdInv, NEW n \in Bytes, ftpd_datarecv(n) PROVE FtpdInv'
  <1>1. /\ ControlTypes /\ QueueTypes /\ SessionInv /\ RepliesInv /\ FilesInv
        /\ datafs # NULL => DataOpen
        /\ datafs = NULL => DataClosed
    BY DEF FtpdInv
  <1>2. /\ datapcb = "conn" /\ op = "STOR" /\ Len(stored) + n <= FileLen
        /\ stored' = stored \o SubSeq(File, Len(stored) + 1, Len(stored) + n)
        /\ UNCHANGED <<server, tcp, mode, ready, op, waiting, rcvd, eof, aborts>>
    BY DEF ftpd_datarecv
  <1>3. datafs # NULL /\ DataOpen
    BY <1>1, <1>2 DEF DataClosed
  <1>4. /\ stored' \in Seq(Nat) /\ Len(stored') <= FileLen
        /\ stored' = SubSeq(File, 1, Len(stored'))
    <2> DEFINE m == Len(stored)
    <2>1. stored \in Seq(Nat) /\ m \in Nat /\ stored = SubSeq(File, 1, m)
      BY <1>1, <1>2 DEF QueueTypes, SessionInv
    <2>2. n \in Nat /\ m + n \in Nat /\ m <= m + n /\ File \in Seq(Nat) /\ m + n <= Len(File)
      BY <1>2, <2>1, FilesAreBytes DEF Bytes
    <2>3. stored' = stored \o SubSeq(File, m + 1, m + n)
      BY <1>2
    <2> HIDE DEF m
    <2>4. SubSeq(File, 1, m) \o SubSeq(File, m + 1, m + n) = SubSeq(File, 1, m + n)
      BY <2>1, <2>2, Longer, Zenon
    <2>5. stored' = SubSeq(File, 1, m + n)
      BY <2>1, <2>3, <2>4, Zenon
    <2>6. SubSeq(File, 1, m + n) \in Seq(Nat) /\ Len(SubSeq(File, 1, m + n)) = m + n
      BY <2>2
    <2>7. m + n <= FileLen
      BY <1>2 DEF m
    <2> QED BY <2>5, <2>6, <2>7, Zenon
  <1>5. ControlTypes'
    BY <1>1, <1>2 DEF ControlTypes, server, tcp
  <1>6. QueueTypes'
    BY <1>1, <1>2, <1>4 DEF QueueTypes, tcp
  <1>7. DataOpen'
    BY <1>2, <1>3 DEF DataOpen, server, tcp
  <1>8. SessionInv'
    BY <1>1, <1>2, <1>4 DEF SessionInv, server, tcp
  <1>9. RepliesInv'
    BY <1>1, <1>2 DEF RepliesInv, server, tcp
  <1>10. FilesInv'
    BY <1>1, <1>2 DEF FilesInv, server, tcp
  <1>11. datafs' # NULL
    BY <1>2, <1>3 DEF server
  <1> QED BY <1>5, <1>6, <1>7, <1>8, <1>9, <1>10, <1>11, Zenon DEF FtpdInv

\* ftpd_dataerr: the transfer is cut off, and its file counts as one that is left.
LEMMA ErrKeepsInv ==
  ASSUME FtpdInv, ftpd_dataerr PROVE FtpdInv'
  <1>1. /\ ControlTypes /\ QueueTypes /\ SessionInv /\ FilesInv
        /\ datafs # NULL => DataOpen
        /\ datafs = NULL => DataClosed
    BY DEF FtpdInv
  <1> USE DEF ftpd_dataerr, ClientResets
  <1>2. DataOpen
    BY <1>1 DEF DataClosed
  <1>3. ControlTypes'
    <2>1. /\ passive' \in BOOLEAN /\ ready' \in BOOLEAN
          /\ waiting' \in BOOLEAN /\ eof' \in BOOLEAN
      BY <1>1, Zenon DEF ControlTypes
    <2>2. aborts' \in Nat /\ files' \in Int
      BY <1>1 DEF ControlTypes
    <2>3. ctl' \in {"none", "open"} /\ mode' \in {"PASV", "PORT"}
      BY <1>1 DEF ControlTypes
    <2> QED BY <2>1, <2>2, <2>3 DEF ControlTypes
  <1>4. QueueTypes'
    BY <1>1, FtpdAssumption DEF QueueTypes
  <1>5. DataClosed'
    BY DEF DataClosed, Transfers
  <1>6. SessionInv'
    <2>1. /\ ctl = "open" /\ ~eof /\ op' = "none" /\ ~ready'
          /\ rcvd' = <<>> /\ wire' = <<>> /\ stored' = <<>>
          /\ ctl' = ctl /\ eof' = eof /\ mode' = mode /\ passive' = passive
      BY <1>2 DEF DataOpen
    <2> QED BY <1>1, <2>1 DEF SessionInv
  <1>7. RepliesInv'
    BY DEF RepliesInv
  <1>8. FilesInv'
    BY <1>1 DEF FilesInv, ControlTypes, Transfers
  <1> QED BY <1>3, <1>4, <1>5, <1>6, <1>7, <1>8 DEF FtpdInv

LEMMA EofKeepsInv ==
  ASSUME FtpdInv, ClientEof PROVE FtpdInv'
  <1>1. /\ ControlTypes /\ QueueTypes /\ SessionInv /\ RepliesInv /\ FilesInv
        /\ datafs # NULL => DataOpen
        /\ datafs = NULL => DataClosed
    BY DEF FtpdInv
  <1>2. /\ conn = "shut" /\ rcvd' = rcvd \o wire /\ wire' = <<>> /\ eof' = TRUE
        /\ UNCHANGED <<server, conn, replies, mode, ready, op, waiting, stored, aborts>>
    BY DEF ClientEof
  <1>3. datafs = NULL /\ DataClosed /\ op # "none"
    BY <1>1, <1>2 DEF DataOpen, DataClosed
  <1>4. rcvd' \in Seq(Nat) /\ rcvd' \o wire' = rcvd \o wire
    <2>1. rcvd \in Seq(Nat) /\ wire \in Seq(Nat)
      BY <1>1 DEF QueueTypes
    <2>2. rcvd \o wire \in Seq(Nat)
      BY <2>1, Joined, Zenon
    <2>3. (rcvd \o wire) \o <<>> = rcvd \o wire
      BY <2>2, JoinedNone, Zenon
    <2> QED BY <1>2, <2>2, <2>3, Zenon
  <1>5. ControlTypes'
    BY <1>1, <1>2 DEF ControlTypes, server
  <1>6. QueueTypes'
    BY <1>1, <1>2, <1>4, FtpdAssumption DEF QueueTypes
  <1>7. DataClosed'
    <2>1. op = "STOR" => rcvd' = <<>>
      <3>1. <<>> \o <<>> = <<>>
        BY JoinedNone
      <3> QED BY <1>2, <1>3, <3>1, Zenon DEF DataClosed
    <2>2. op \in {"RETR", "LIST"} => rcvd' \o wire' = Data(op)
      BY <1>3, <1>4, Zenon DEF DataClosed
    <2> QED BY <1>2, <1>3, <2>1, <2>2 DEF DataClosed, server
  <1>8. SessionInv'
    BY <1>1, <1>2, <1>3 DEF SessionInv, server
  <1>9. RepliesInv'
    BY <1>1, <1>2 DEF RepliesInv, server
  <1>10. FilesInv'
    BY <1>1, <1>2 DEF FilesInv, server
  <1>11. datafs' = NULL
    BY <1>2, <1>3 DEF server
  <1> QED BY <1>5, <1>6, <1>7, <1>8, <1>9, <1>10, <1>11, Zenon DEF FtpdInv

\* The client reads a reply; 226 is the last one.
LEMMA ReadKeepsInv ==
  ASSUME FtpdInv, ClientReads PROVE FtpdInv'
  <1>1. /\ ControlTypes /\ QueueTypes /\ SessionInv /\ RepliesInv /\ FilesInv
        /\ datafs # NULL => DataOpen
        /\ datafs = NULL => DataClosed
    BY DEF FtpdInv
  <1>2. /\ replies # <<>> /\ replies' = Tail(replies) /\ waiting' = (Head(replies) = "150")
        /\ UNCHANGED <<server, wire, mode, aborts>>
    BY DEF ClientReads
  <1>3. /\ replies' \in Seq(Replies) /\ Len(replies') = Len(replies) - 1
        /\ Len(replies) \in Nat \ {0} /\ replies[1] = Head(replies)
        /\ \A i \in 1..Len(replies') : replies'[i] = replies[i + 1]
    <2>1. replies \in Seq(Replies)
      BY <1>1 DEF QueueTypes
    <2>2. /\ Tail(replies) \in Seq(Replies) /\ Len(Tail(replies)) = Len(replies) - 1
          /\ \A i \in 1..Len(Tail(replies)) : Tail(replies)[i] = replies[i + 1]
      BY <1>2, <2>1, HeadTailProperties
    <2>3. Len(replies) \in Nat \ {0} /\ replies[1] = Head(replies)
      BY <1>2, <2>1
    <2> QED BY <1>2, <2>2, <2>3, Zenon
  <1>4. waiting' \in BOOLEAN
    BY <1>2, Zenon
  <1>5. CASE /\ Head(replies) # "226"
             /\ UNCHANGED <<op, ready, eof, conn, rcvd, stored>>
    <2>1. ControlTypes'
      BY <1>1, <1>2, <1>4, <1>5, SMTT(30) DEF ControlTypes, server
    <2>2. QueueTypes'
      BY <1>1, <1>2, <1>3, <1>5, SMTT(30) DEF QueueTypes
    <2>3. ASSUME datafs' # NULL PROVE DataOpen'
      BY <1>1, <1>2, <1>5, <2>3, SMTT(30) DEF DataOpen, server
    <2>4. ASSUME datafs' = NULL PROVE DataClosed'
      BY <1>1, <1>2, <1>5, <2>4, SMTT(30) DEF DataClosed, server
    <2>5. SessionInv'
      <3>1. ctl # "none"
        BY <1>1, <1>2 DEF SessionInv
      <3> QED BY <1>1, <1>2, <1>5, <3>1 DEF SessionInv, server
    <2>6. RepliesInv'
      <3> SUFFICES ASSUME NEW i \in 1..Len(replies'), replies'[i] = "226"
                   PROVE  i = Len(replies') /\ op' # "none" /\ datafs' = NULL
        BY DEF RepliesInv
      <3>1. i + 1 \in 1..Len(replies) /\ replies[i + 1] = "226"
        BY <1>3
      <3>2. i + 1 = Len(replies) /\ op # "none" /\ datafs = NULL
        BY <1>1, <3>1 DEF RepliesInv
      <3>3. i = Len(replies')
        BY <1>3, <3>2
      <3>4. op' = op /\ datafs' = datafs
        BY <1>2, <1>5 DEF server
      <3> QED BY <3>2, <3>3, <3>4, Zenon
    <2>7. FilesInv'
      BY <1>1, <1>2 DEF FilesInv, server
    <2> QED BY <2>1, <2>2, <2>3, <2>4, <2>5, <2>6, <2>7, Zenon DEF FtpdInv
  <1>6. CASE /\ Head(replies) = "226" /\ eof
             /\ op' = "none" /\ ready' = FALSE /\ eof' = FALSE /\ conn' = "none"
             /\ rcvd' = <<>> /\ stored' = <<>>
    <2>1. Len(replies) = 1 /\ datafs = NULL
      <3>1. 1 \in 1..Len(replies) /\ replies[1] = "226"
        BY <1>3, <1>6
      <3> QED BY <1>1, <3>1 DEF RepliesInv
    <2>2. Len(replies') = 0
      BY <1>3, <2>1
    <2>3. ctl # "none" /\ wire = <<>> /\ DataClosed
      BY <1>1, <1>2, <1>6, <2>1, SMTT(30) DEF SessionInv
    <2>4. ControlTypes'
      <3>1. ready' \in BOOLEAN /\ eof' \in BOOLEAN
        BY <1>6, Zenon
      <3> QED BY <1>1, <1>2, <1>4, <1>6, <3>1 DEF ControlTypes, server
    <2>5. QueueTypes'
      BY <1>1, <1>2, <1>3, <1>6, SMTT(30) DEF QueueTypes
    <2>6. DataClosed'
      BY <1>2, <1>6, <2>3, SMTT(30) DEF DataClosed, server
    <2>7. SessionInv'
      BY <1>1, <1>2, <1>6, <2>3 DEF SessionInv, server
    <2>8. RepliesInv'
      BY <2>2 DEF RepliesInv
    <2>9. FilesInv'
      BY <1>1, <1>2 DEF FilesInv, server
    <2>10. datafs' = NULL
      BY <1>2, <2>1 DEF server
    <2> QED BY <2>4, <2>5, <2>6, <2>7, <2>8, <2>9, <2>10, Zenon DEF FtpdInv
  <1> QED BY <1>5, <1>6, Zenon DEF ClientReads

\* ftpd_datarecv without data: the whole file is stored.
LEMMA FinKeepsInv ==
  ASSUME FtpdInv, ftpd_datarecv_fin PROVE FtpdInv'
  <1>1. /\ ControlTypes /\ QueueTypes /\ SessionInv /\ RepliesInv /\ FilesInv
        /\ datafs # NULL => DataOpen
        /\ datafs = NULL => DataClosed
    BY DEF FtpdInv
  <1>2. /\ datapcb = "conn" /\ op = "STOR" /\ state = "STOR" /\ Len(stored) = FileLen
        /\ datafs' = NULL /\ datapcb' = "NULL" /\ conn' = "shut" /\ state' = "IDLE"
        /\ replies' = Fitting(<<"226">>) /\ files' = files - 1 /\ eof' = TRUE
        /\ UNCHANGED <<ctl, passive, wire, mode, ready, op, waiting, rcvd, stored, aborts>>
    BY DEF ftpd_datarecv_fin, Finish, CloseFile, send_msg
  <1>3. datafs # NULL /\ DataOpen
    BY <1>1, <1>2 DEF DataClosed
  <1>4. rcvd = <<>> /\ wire = <<>> /\ datafs.file
    <2>1. rcvd \o wire = <<>> /\ datafs.file
      BY <1>2, <1>3 DEF DataOpen, Carries
    <2>2. rcvd \in Seq(Nat) /\ wire \in Seq(Nat)
      BY <1>1 DEF QueueTypes
    <2> QED BY <2>1, <2>2, JoinedEmpty, Zenon
  <1>5. stored = File
    <2>1. stored = SubSeq(File, 1, Len(File))
      BY <1>1, <1>2, FilesAreBytes DEF SessionInv
    <2>2. SubSeq(File, 1, Len(File)) = File
      BY FilesAreBytes, SubSeqFull
    <2> QED BY <2>1, <2>2, Zenon
  <1>6. NoEnd(replies) /\ replies \in Seq(Replies)
    BY <1>1, <1>3, NoEndYet DEF QueueTypes
  <1>7. replies' \in Seq(Replies) /\ RepliesInv'
    BY <1>2, <1>6, EndIsLast
  <1>8. ControlTypes'
    <2>1. eof' \in BOOLEAN
      BY <1>2, Zenon
    <2>2. files' \in Int
      BY <1>1, <1>2 DEF ControlTypes
    <2> QED BY <1>1, <1>2, <2>1, <2>2 DEF ControlTypes
  <1>9. QueueTypes'
    BY <1>1, <1>2, <1>7 DEF QueueTypes
  <1>10. DataClosed'
    BY <1>2, <1>4, <1>5, SMTT(30) DEF DataClosed, Transfers
  <1>11. SessionInv'
    BY <1>1, <1>2, <1>3, <1>4, SMTT(30) DEF SessionInv, DataOpen
  <1>12. FilesInv'
    BY <1>1, <1>2, <1>4 DEF FilesInv, ControlTypes, Transfers
  <1> QED BY <1>2, <1>7, <1>8, <1>9, <1>10, <1>11, <1>12, Zenon DEF FtpdInv

LEMMA SimpleKeepsInv ==
  ASSUME FtpdInv, NEW r \in {"ok", "fail"}, NEW s \in {"IDLE", "PASS", "QUIT"},
         cmd_simple(r, s)
  PROVE  FtpdInv'
  <1>1. /\ ctl = "open" /\ op = "none" /\ send_msg(r) /\ state' = s /\ waiting' = TRUE
        /\ UNCHANGED <<ctl, passive, datafs, datapcb, files, wire, conn, mode, ready, op,
                       rcvd, eof, stored, aborts>>
    BY DEF cmd_simple, Command
  <1>2. replies' \in Seq(Replies) /\ NoEnd(replies')
    BY <1>1, AnswersAreNoEnds
  <1>3. waiting' \in BOOLEAN /\ state' \in {"IDLE", "PASS", "QUIT"} /\ ready' = ready
    BY <1>1
  <1> QED BY <1>1, <1>2, <1>3, AnswerKeepsInv, Zenon

LEMMA StutterKeepsInv ==
  ASSUME FtpdInv, UNCHANGED vars PROVE FtpdInv'
  <1> USE DEF vars, server, tcp, client
  <1>1. ControlTypes /\ QueueTypes => ControlTypes' /\ QueueTypes'
    BY DEF ControlTypes, QueueTypes
  <1>2. DataOpen => DataOpen'
    BY DEF DataOpen
  <1>3. DataClosed => DataClosed'
    BY DEF DataClosed
  <1>4. SessionInv /\ RepliesInv /\ FilesInv => SessionInv' /\ RepliesInv' /\ FilesInv'
    BY DEF SessionInv, RepliesInv, FilesInv
  <1>5. datafs' = datafs
    OBVIOUS
  <1> QED BY <1>1, <1>2, <1>3, <1>4, <1>5, SMTT(30) DEF FtpdInv

LEMMA StepKeepsInv ==
  ASSUME FtpdInv, [FtpdNext]_vars PROVE FtpdInv'
  <1>1. CASE ftpd_msgaccept
    BY <1>1, AcceptKeepsInv
  <1>2. CASE cmd_user \/ cmd_pass \/ cmd_noop \/ cmd_quit
    <2>1. ASSUME cmd_noop PROVE FtpdInv'
      <3>1. PICK r \in {"ok", "fail"} : cmd_simple(r, state)
        BY <2>1 DEF cmd_noop
      <3>2. op = "none"
        BY <3>1 DEF cmd_simple, Command
      <3>3. state \in {"IDLE", "PASS", "QUIT"}
        BY <3>2, BeforeCommand
      <3>4. PICK s \in {"IDLE", "PASS", "QUIT"} : s = state
        BY <3>3
      <3>5. cmd_simple(r, s)
        BY <3>1, <3>4
      <3> QED BY <3>5, SimpleKeepsInv, Zenon
    <2>2. "ok" \in {"ok", "fail"} /\ "PASS" \in {"IDLE", "PASS", "QUIT"}
          /\ "IDLE" \in {"IDLE", "PASS", "QUIT"} /\ "QUIT" \in {"IDLE", "PASS", "QUIT"}
      OBVIOUS
    <2> QED BY <1>2, <2>1, <2>2, SimpleKeepsInv, Zenon DEF cmd_user, cmd_pass, cmd_quit
  <1>3. CASE cmd_port
    <2>1. /\ ctl = "open" /\ op = "none" /\ send_msg("ok") /\ mode = "PORT"
          /\ waiting' = TRUE /\ ready' = TRUE
          /\ UNCHANGED <<ctl, state, passive, datafs, datapcb, files, wire, conn, mode,
                         op, rcvd, eof, stored, aborts>>
      BY <1>3 DEF cmd_port, Command, server
    <2>2. replies' \in Seq(Replies) /\ NoEnd(replies')
      BY <2>1, AnswersAreNoEnds
    <2>3. waiting' \in BOOLEAN /\ state' \in {"IDLE", "PASS", "QUIT"}
      BY <2>1, BeforeCommand
    <2> QED BY <2>1, <2>2, <2>3, AnswerKeepsInv, Zenon
  <1>4. CASE cmd_pasv
    BY <1>4, PasvKeepsInv
  <1>5. CASE cmd_retr \/ cmd_stor \/ cmd_list_common
    <2>1. "RETR" \in Transfers /\ "STOR" \in Transfers /\ "LIST" \in Transfers
      BY DEF Transfers
    <2> QED BY <1>5, <2>1, TransferKeepsInv, Zenon DEF cmd_retr, cmd_stor, cmd_list_common
  <1>6. CASE cmd_abrt
    <2>1. /\ ctl = "open" /\ op = "none" /\ state' = "IDLE" /\ replies' = replies
          /\ waiting' = waiting /\ ready' = ready
          /\ UNCHANGED <<ctl, passive, datafs, datapcb, files, wire, conn, mode, op, rcvd,
                         eof, stored, aborts>>
      BY <1>6 DEF cmd_abrt, Command, tcp, client
    <2>2. replies' \in Seq(Replies) /\ NoEnd(replies')
      BY <2>1, NoEndYet DEF FtpdInv, QueueTypes
    <2>3. waiting' \in BOOLEAN /\ state' \in {"IDLE", "PASS", "QUIT"}
      BY <2>1 DEF FtpdInv, ControlTypes
    <2> QED BY <2>1, <2>2, <2>3, AnswerKeepsInv, Zenon
  <1>7. CASE ftpd_msgsent
    <2>1. ftpd_msgclose /\ aborts' = aborts /\ state \notin Transfers
      BY <1>7 DEF ftpd_msgsent, Transfers
    <2> QED BY <2>1, CloseKeepsInv, Zenon
  <1>8. CASE ftpd_msgrecv_fin
    <2>1. ftpd_msgclose
      BY <1>8 DEF ftpd_msgrecv_fin
    <2>2. \/ op = "none" /\ aborts' = aborts
          \/ aborts' = aborts + 1
      BY <1>8 DEF ftpd_msgrecv_fin
    <2>3. op = "none" => state \notin Transfers
      BY BeforeCommand DEF Transfers
    <2> QED BY <2>1, <2>2, <2>3, CloseKeepsInv, Zenon
  <1>9. CASE \E w \in Writes : ftpd_dataconnected(w) \/ ftpd_dataaccept(w) \/ ftpd_msgpoll(w)
    BY <1>9, SendersKeepInv, Zenon
  <1>10. CASE DataSent
    BY <1>10, SentKeepsInv, Zenon DEF DataSent
  <1>11. CASE \E n \in Bytes : ftpd_datarecv(n)
    BY <1>11, RecvKeepsInv, Zenon
  <1>12. CASE ftpd_datarecv_fin
    BY <1>12, FinKeepsInv
  <1>13. CASE ftpd_dataerr
    BY <1>13, ErrKeepsInv
  <1>14. CASE ClientReads
    BY <1>14, ReadKeepsInv
  <1>15. CASE ClientEof
    BY <1>15, EofKeepsInv
  <1>16. CASE UNCHANGED vars
    BY <1>16, StutterKeepsInv
  <1> QED BY <1>1, <1>2, <1>3, <1>4, <1>5, <1>6, <1>7, <1>8, <1>9, <1>10, <1>11, <1>12,
             <1>13, <1>14, <1>15, <1>16, Zenon DEF FtpdNext

LEMMA InvAlways == FtpdSpec => []FtpdInv
  BY InvAtStart, StepKeepsInv, PTL DEF FtpdSpec
-----------------------------------------------------------------------------
(* Theorems.                                                               *)

\* The pointers of a control connection agree with TCP, whatever callbacks and
\* commands come in whatever order: ftpd_msgpoll, ftpd_msgclose and cmd_abrt
\* never use a data PCB that is gone, and a transfer always has a data state.
THEOREM DataPointersAgree == FtpdSpec => []DataStateIsLive
  <1>1. FtpdInv => DataStateIsLive
    BY DEF FtpdInv, DataOpen, DataClosed, DataStateIsLive
  <1> QED BY <1>1, InvAlways, PTL

\* For every ring, file and send buffer and every failure of tcp_write, what a
\* client receives of a file is a part of it from its start, and the rest of what
\* send_file has read is in TCP or in the ring.
THEOREM FileInOrder == FtpdSpec => []FileArrivesInOrder
  <1>1. FtpdInv => FileArrivesInOrder
    <2> SUFFICES ASSUME FtpdInv, op = "RETR" PROVE FileArrivesInOrder
      BY Zenon DEF FileArrivesInOrder
    <2>1. CASE datafs # NULL
      <3>1. (rcvd \o wire) \o Contents(datafs.fifo) = SubSeq(File, 1, datafs.pos)
        BY <2>1 DEF FtpdInv, DataOpen, Carries, InRing, Data
      <3> QED BY <2>1, <3>1, Zenon DEF FileArrivesInOrder
    <2>2. CASE datafs = NULL
      <3>1. rcvd \o wire = File
        BY <2>2 DEF FtpdInv, DataClosed, Data
      <3>2. File \o <<>> = File
        BY FilesAreBytes, JoinedNone, Zenon
      <3>3. SubSeq(File, 1, Len(File)) = File
        BY FilesAreBytes, SubSeqFull, Zenon
      <3> QED BY <2>2, <3>1, <3>2, <3>3, Zenon DEF FileArrivesInOrder
    <2> QED BY <2>1, <2>2, Zenon
  <1> QED BY <1>1, InvAlways, PTL

\* A 226 that a client reads is true: its file or listing is complete.
THEOREM TransfersAreComplete == FtpdSpec => []CompleteAt226
  <1>1. FtpdInv => CompleteAt226
    <2> SUFFICES ASSUME FtpdInv, eof, replies # <<>>, Head(replies) = "226"
                 PROVE  CompleteAt226
      BY Zenon DEF CompleteAt226
    <2>1. replies \in Seq(Replies)
      BY DEF FtpdInv, QueueTypes
    <2>2. 1 \in 1..Len(replies) /\ replies[1] = "226"
      BY <2>1
    <2>3. op # "none" /\ datafs = NULL
      BY <2>2 DEF FtpdInv, RepliesInv
    <2>4. wire = <<>> /\ rcvd \in Seq(Nat) /\ op \in Transfers
      BY <2>3 DEF FtpdInv, SessionInv, QueueTypes, ControlTypes
    <2>5. rcvd \o wire = rcvd
      BY <2>4, JoinedNone, Zenon
    <2>6. /\ op \in {"RETR", "LIST"} => rcvd = Data(op)
          /\ op = "STOR" => stored = File
      BY <2>3, <2>5, Zenon DEF FtpdInv, DataClosed
    <2> QED BY <2>4, <2>6, Zenon DEF CompleteAt226, Data, Transfers
  <1> QED BY <1>1, InvAlways, PTL

\* Between transfers at most one file is open for each transfer that was cut off.
THEOREM FilesAreClosed == FtpdSpec => []OnlyAbortsLeak
  <1>1. FtpdInv => OnlyAbortsLeak
    BY DEF FtpdInv, FilesInv, ControlTypes, OnlyAbortsLeak
  <1> QED BY <1>1, InvAlways, PTL
=============================================================================

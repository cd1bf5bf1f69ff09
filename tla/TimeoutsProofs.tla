--------------------------- MODULE TimeoutsProofs ---------------------------
(***************************************************************************)
(* Theorems about the timeouts of lwIP, for any timers and intervals, any  *)
(* lag of the main loop and any number of timers of the application that   *)
(* the pool has room for.                                                  *)
(***************************************************************************)
EXTENDS Timeouts, FiniteSetTheorems, TLAPS

\* Every non-empty set of natural numbers has a least element: the form in
\* which induction is used below.
LEMMA LeastNumber ==
  ASSUME NEW T \in SUBSET Nat, T # {}
  PROVE  \E x \in T : \A y \in T : x <= y
<1> DEFINE R == OpToRel(<, Nat)
<1>1. IsWellFoundedOn(R, Nat)
  BY NatLessThanWellFounded, Zenon
<1>2. \A x, y \in Nat : <<y, x>> \in R <=> y < x
  BY DEF OpToRel
<1> HIDE DEF R
<1>3. PICK x \in T : \A y \in T : ~ (<<y, x>> \in R)
  BY <1>1, WFMin, Zenon
<1>4. \A y \in T : ~(y < x)
  BY <1>2, <1>3, Zenon
<1> QED
  BY <1>4

-----------------------------------------------------------------------------
(* Entries of the list and how many a handler has.                         *)

IsEntry(e) == e = [h |-> e.h, time |-> e.time, age |-> e.age]
IsList(list) ==
  /\ list \in Seq(Range(list))
  /\ \A i \in 1..Len(list) : IsEntry(list[i]) /\ list[i].h \in Handlers
Of(list, h) == {i \in 1..Len(list) : list[i].h = h}
Count(list, h) == Cardinality(Of(list, h))

\* m is list with an entry of h inserted as its k-th.
Inserted(list, m, k, h) ==
  /\ Len(m) = Len(list) + 1 /\ k \in 1..Len(m)
  /\ \A i \in 1..(k - 1) : m[i].h = list[i].h
  /\ m[k].h = h
  /\ \A i \in k..Len(list) : m[i + 1].h = list[i].h

\* m is list with the entry e inserted as its k-th.
Placed(list, m, k, e) ==
  /\ Len(m) = Len(list) + 1 /\ k \in 1..Len(m)
  /\ \A i \in 1..(k - 1) : m[i] = list[i]
  /\ m[k] = e
  /\ \A i \in k..Len(list) : m[i + 1] = list[i]

\* f is the entry e with another time, or another age.
HasTime(f, e, t) == f.h = e.h /\ f.time = t /\ f.age = e.age
HasAge(f, e, t) == f.h = e.h /\ f.time = e.time /\ f.age = t

\* l is list with another time in its k-th entry, or other ages.
Changed(list, l, k, t) ==
  /\ Len(l) = Len(list)
  /\ \A i \in 1..Len(list) : i # k => l[i] = list[i]
  /\ HasTime(l[k], list[k], t)

Aged(list, l, a) == Len(l) = Len(list) /\ \A i \in 1..Len(list) : HasAge(l[i], list[i], a[i])

LEMMA PlacedInserted ==
  ASSUME NEW list, NEW m, NEW k, NEW e, Placed(list, m, k, e)
  PROVE  Inserted(list, m, k, e.h)
BY Zenon DEF Placed, Inserted

\* Time and age are all that changes in an entry.
LEMMA Retimed ==
  ASSUME NEW e, IsEntry(e), NEW t, NEW f,
         f = [e EXCEPT !.time = t] \/ f = [e EXCEPT !.age = t]
  PROVE  IsEntry(f) /\ f.h = e.h
<1>1. PICK h, u, a : e = [h |-> h, time |-> u, age |-> a]
  BY DEF IsEntry
<1>2. \/ f = [h |-> h, time |-> t, age |-> a]
      \/ f = [h |-> h, time |-> u, age |-> t]
  BY <1>1
<1> QED
  BY <1>1, <1>2 DEF IsEntry

LEMMA NewTime ==
  ASSUME NEW e, IsEntry(e), NEW t, NEW f, f = [e EXCEPT !.time = t]
  PROVE  HasTime(f, e, t)
<1>1. PICK h, u, a : e = [h |-> h, time |-> u, age |-> a]
  BY DEF IsEntry
<1>2. f = [h |-> h, time |-> t, age |-> a]
  BY <1>1
<1> QED
  BY <1>1, <1>2 DEF HasTime

LEMMA NewAge ==
  ASSUME NEW e, IsEntry(e), NEW t, NEW f, f = [e EXCEPT !.age = t]
  PROVE  HasAge(f, e, t)
<1>1. PICK h, u, a : e = [h |-> h, time |-> u, age |-> a]
  BY DEF IsEntry
<1>2. f = [h |-> h, time |-> u, age |-> t]
  BY <1>1
<1> QED
  BY <1>1, <1>2 DEF HasAge

\* The entries of a handler are finitely many.
LEMMA CountFinite ==
  ASSUME NEW list, Len(list) \in Nat, NEW h
  PROVE  IsFiniteSet(Of(list, h)) /\ Count(list, h) \in Nat
<1>1. Of(list, h) \in SUBSET (1..Len(list)) /\ IsFiniteSet(1..Len(list))
  BY FS_Interval DEF Of
<1>2. IsFiniteSet(Of(list, h))
  BY <1>1, FS_Subset
<1> QED
  BY <1>2, FS_CardinalityType DEF Count

\* The new entry is counted, and the others as before.
LEMMA InsertedCount ==
  ASSUME NEW list, Len(list) \in Nat, NEW m, NEW k, NEW h, Inserted(list, m, k, h), NEW g
  PROVE  Count(m, g) = Count(list, g) + (IF g = h THEN 1 ELSE 0)
<1> DEFINE n == Len(list)
           S == Of(list, g)
           T == Of(m, g) \ {k}
           f == [i \in S |-> IF i < k THEN i ELSE i + 1]
<1>1. n \in Nat /\ Len(m) = n + 1 /\ k \in 1..(n + 1)
  BY DEF Inserted
<1>2. \A i \in 1..n : m[IF i < k THEN i ELSE i + 1].h = list[i].h
  BY <1>1 DEF Inserted
<1>3. f \in [S -> T]
  BY <1>1, <1>2 DEF Of
<1>4. \A i, j \in S : f[i] = f[j] => i = j
  BY <1>1 DEF Of
<1>5. ASSUME NEW j \in T PROVE \E i \in S : f[i] = j
  <2>1. j \in 1..(n + 1) /\ j # k /\ m[j].h = g
    BY <1>1 DEF Of
  <2>2. CASE j < k
    <3>1. j \in 1..n
      BY <1>1, <2>1, <2>2
    <3>2. j \in S
      BY <1>2, <2>1, <2>2, <3>1 DEF Of
    <3> QED
      BY <2>2, <3>2
  <2>3. CASE j > k
    <3>1. j - 1 \in 1..n /\ ~(j - 1 < k) /\ (j - 1) + 1 = j
      BY <1>1, <2>1, <2>3
    <3>2. j - 1 \in S
      BY <1>2, <2>1, <3>1 DEF Of
    <3> QED
      BY <3>1, <3>2
  <2> QED
    BY <1>1, <2>1, <2>2, <2>3
<1>6. ExistsBijection(S, T)
  <2> HIDE DEF f, S, T
  <2>1. f \in Injection(S, T) /\ f \in Surjection(S, T)
    BY <1>3, <1>4, <1>5 DEF Injection, IsInjective, Surjection
  <2> QED
    BY <2>1 DEF ExistsBijection, Bijection
<1>7. IsFiniteSet(S) /\ Cardinality(S) = Count(list, g) /\ Count(list, g) \in Nat
  BY CountFinite DEF Count
<1>8. IsFiniteSet(T) /\ Cardinality(T) = Count(list, g)
  BY <1>6, <1>7, FS_Bijection
<1>9. Of(m, g) = IF g = h THEN T \cup {k} ELSE T
  BY <1>1 DEF Of, Inserted
<1>10. k \notin T
  OBVIOUS
<1> HIDE DEF S, T, f
<1>11. Cardinality(T \cup {k}) = Cardinality(T) + 1
  BY <1>8, <1>10, FS_AddElement
<1> QED
  BY <1>7, <1>8, <1>9, <1>11 DEF Count

-----------------------------------------------------------------------------
(* The operations on the list.                                             *)

\* A sequence of entries is a list.
LEMMA ListOf ==
  ASSUME NEW S, NEW list \in Seq(S),
         \A i \in 1..Len(list) : IsEntry(list[i]) /\ list[i].h \in Handlers
  PROVE  IsList(list)
<1>1. list \in [1..Len(list) -> Range(list)] /\ Len(list) \in Nat
  BY DEF Range
<1>2. list \in Seq(Range(list))
  BY <1>1
<1> QED
  BY <1>2 DEF IsList

LEMMA ListLen ==
  ASSUME NEW list, IsList(list)
  PROVE  Len(list) \in Nat /\ DOMAIN list = 1..Len(list)
BY DEF IsList

\* Two sequences joined.
Joins(c, a, b) ==
  /\ Len(c) = Len(a) + Len(b)
  /\ \A i \in 1..Len(a) : c[i] = a[i]
  /\ \A i \in 1..Len(b) : c[Len(a) + i] = b[i]

LEMMA Joined ==
  ASSUME NEW S, NEW a \in Seq(S), NEW b \in Seq(S), NEW c, c = a \o b
  PROVE  c \in Seq(S) /\ Joins(c, a, b)
<1>1. PICK n, k \in Nat : n = Len(a) /\ k = Len(b)
  OBVIOUS
<1>2. /\ c \in Seq(S) /\ Len(c) = n + k
      /\ \A i \in 1..(n + k) : c[i] = IF i <= n THEN a[i] ELSE b[i - n]
  BY <1>1
<1>3. \A i \in 1..k : n + i \in 1..(n + k) /\ ~(n + i <= n) /\ n + i - n = i
  OBVIOUS
<1>4. \A i \in 1..n : i \in 1..(n + k) /\ i <= n
  OBVIOUS
<1> QED
  BY <1>1, <1>2, <1>3, <1>4 DEF Joins

\* Lists with the same handlers.
SameHandlers(list, l) == Len(l) = Len(list) /\ \A i \in 1..Len(list) : l[i].h = list[i].h

LEMMA SameCount ==
  ASSUME NEW list, NEW l, SameHandlers(list, l), NEW h
  PROVE  Count(l, h) = Count(list, h)
<1>1. Of(l, h) = Of(list, h)
  BY DEF SameHandlers, Of
<1> QED
  BY <1>1 DEF Count

LEMMA SameInserted ==
  ASSUME NEW list, Len(list) \in Nat, NEW l, SameHandlers(list, l), NEW m, NEW k, NEW h
  PROVE  /\ Inserted(l, m, k, h) => Inserted(list, m, k, h)
         /\ Inserted(m, l, k, h) => Inserted(m, list, k, h)
BY DEF SameHandlers, Inserted

\* A new time for one entry.
LEMMA SetTime ==
  ASSUME NEW list, IsList(list), NEW k \in 1..Len(list), NEW t,
         NEW l, l = [list EXCEPT ![k].time = t]
  PROVE  IsList(l) /\ SameHandlers(list, l) /\ Changed(list, l, k, t)
<1>1. PICK e : e = [list[k] EXCEPT !.time = t]
  BY Zenon
<1>2. IsEntry(e) /\ e.h = list[k].h
  BY <1>1, Retimed, Zenon DEF IsList
<1>3. l = [list EXCEPT ![k] = e]
  BY <1>1
<1>4. PICK S : list \in Seq(S) /\ e \in S
  <2>1. list \in Seq(Range(list) \cup {e}) /\ e \in Range(list) \cup {e}
    BY DEF IsList
  <2> QED
    BY <2>1
<1>5. l \in Seq(S) /\ Len(l) = Len(list) /\ \A i \in 1..Len(list) : l[i] = IF i = k THEN e ELSE list[i]
  BY <1>3, <1>4
<1>6. \A i \in 1..Len(l) : IsEntry(l[i]) /\ l[i].h \in Handlers /\ l[i].h = list[i].h
  BY <1>2, <1>5 DEF IsList
<1>7. IsEntry(list[k]) /\ l[k] = e
  BY <1>5 DEF IsList
<1>8. HasTime(e, list[k], t)
  BY <1>1, <1>7, NewTime, Zenon
<1>9. Changed(list, l, k, t)
  BY <1>5, <1>7, <1>8, Zenon DEF Changed
<1> QED
  BY <1>5, <1>6, <1>9, ListOf, Zenon DEF SameHandlers

\* New ages for all entries.
LEMMA SetAges ==
  ASSUME NEW list, IsList(list), NEW a, NEW l,
         l = [i \in DOMAIN list |-> [list[i] EXCEPT !.age = a[i]]]
  PROVE  /\ IsList(l) /\ SameHandlers(list, l)
         /\ Aged(list, l, a)
<1>1. DOMAIN list = 1..Len(list) /\ Len(list) \in Nat
  BY ListLen
<1>2. PICK n \in Nat : n = Len(list)
  BY <1>1
<1>3. \A i \in 1..n : l[i] = [list[i] EXCEPT !.age = a[i]]
  BY <1>1, <1>2
<1>4. ASSUME NEW i \in 1..n
      PROVE  /\ IsEntry(l[i]) /\ l[i].h = list[i].h /\ list[i].h \in Handlers
             /\ HasAge(l[i], list[i], a[i])
  <2>1. PICK e, t : e = list[i] /\ t = a[i]
    BY Zenon
  <2>2. IsEntry(e) /\ e.h \in Handlers /\ l[i] = [e EXCEPT !.age = t]
    BY <1>2, <1>3, <2>1 DEF IsList
  <2>3. PICK f : f = [e EXCEPT !.age = t]
    BY Zenon
  <2>4. IsEntry(f) /\ f.h = e.h
    BY <2>2, <2>3, Retimed, Zenon
  <2>5. HasAge(f, e, t)
    BY <2>2, <2>3, NewAge, Zenon
  <2> QED
    BY <2>1, <2>2, <2>3, <2>4, <2>5, Zenon
<1>5. l = [i \in 1..n |-> l[i]]
  BY <1>1, <1>2
<1>6. l \in Seq({l[i] : i \in 1..n}) /\ Len(l) = n
  BY <1>5
<1> QED
  BY <1>2, <1>4, <1>6, ListOf, Zenon DEF SameHandlers, Aged

\* An entry comes first, after the k-th, or last.
LEMMA NewEntry ==
  ASSUME NEW list, IsList(list), NEW e, IsEntry(e), e.h \in Handlers
  PROVE  /\ IsList(<<e>> \o list) /\ Placed(list, <<e>> \o list, 1, e)
         /\ IsList(Append(list, e)) /\ Placed(list, Append(list, e), Len(list) + 1, e)
         /\ \A k \in 1..Len(list) :
              IsList(Link(list, k, e)) /\ Placed(list, Link(list, k, e), k, e)
<1> DEFINE S == Range(list) \cup {e}
<1>1. list \in Seq(S) /\ e \in S /\ Len(list) \in Nat
      /\ \A i \in 1..Len(list) : IsEntry(list[i]) /\ list[i].h \in Handlers
  BY DEF IsList
<1> HIDE DEF S
<1>2. IsList(<<e>> \o list) /\ Placed(list, <<e>> \o list, 1, e)
  <2>1. PICK m : m = <<e>> \o list
    BY Zenon
  <2>2. m \in Seq(S) /\ Len(m) = Len(list) + 1 /\ m[1] = e /\ \A i \in 1..Len(list) : m[i + 1] = list[i]
    BY <1>1, <2>1
  <2>3. \A i \in 1..Len(m) : IsEntry(m[i]) /\ m[i].h \in Handlers
    <3>1. \A i \in 1..Len(m) : i = 1 \/ (i - 1 \in 1..Len(list) /\ (i - 1) + 1 = i)
      BY <1>1, <2>2
    <3> QED
      BY <1>1, <2>2, <3>1, Zenon
  <2>4. IsList(m)
    BY <2>2, <2>3, ListOf
  <2>5. Placed(list, m, 1, e)
    BY <1>1, <2>2 DEF Placed
  <2> QED
    BY <2>1, <2>4, <2>5
<1>3. IsList(Append(list, e)) /\ Placed(list, Append(list, e), Len(list) + 1, e)
  <2>1. PICK m : m = Append(list, e)
    BY Zenon
  <2>2. m \in Seq(S) /\ Len(m) = Len(list) + 1 /\ m[Len(list) + 1] = e /\ \A i \in 1..Len(list) : m[i] = list[i]
    BY <1>1, <2>1
  <2>3. \A i \in 1..Len(m) : IsEntry(m[i]) /\ m[i].h \in Handlers
    BY <1>1, <2>2
  <2>4. IsList(m)
    BY <2>2, <2>3, ListOf
  <2>5. Placed(list, m, Len(list) + 1, e)
    BY <1>1, <2>2 DEF Placed
  <2> QED
    BY <2>1, <2>4, <2>5
<1>4. ASSUME NEW k \in 1..Len(list)
      PROVE  IsList(Link(list, k, e)) /\ Placed(list, Link(list, k, e), k, e)
  <2>1. PICK m, a, b : m = (a \o <<e>>) \o b /\ a = SubSeq(list, 1, k - 1) /\ b = SubSeq(list, k, Len(list))
    BY Zenon
  <2>2. /\ a \in Seq(S) /\ Len(a) = k - 1 /\ \A i \in 1..(k - 1) : a[i] = list[i]
        /\ b \in Seq(S) /\ Len(b) = Len(list) - k + 1 /\ \A i \in 1..Len(b) : b[i] = list[k + i - 1]
    BY <1>1, <2>1
  <2>3. /\ m \in Seq(S) /\ Len(m) = Len(list) + 1 /\ m[k] = e
        /\ \A i \in 1..(k - 1) : m[i] = a[i]
        /\ \A i \in 1..Len(b) : m[k + i] = b[i]
    <3>1. PICK c : c = a \o <<e>>
      BY Zenon
    <3>2. /\ c \in Seq(S) /\ Len(c) = k /\ c[k] = e
          /\ \A i \in 1..(k - 1) : c[i] = a[i]
      BY <1>1, <2>2, <3>1, SMTT(30)
    <3>3. m = c \o b
      BY <2>1, <3>1, Zenon
    <3> QED
      <4>1. m \in Seq(S) /\ Joins(m, c, b)
        BY <2>2, <3>2, <3>3, Joined, Zenon
      <4> QED
        BY <1>1, <2>2, <3>2, <4>1 DEF Joins
  <2>4. /\ \A i \in 1..(k - 1) : m[i] = list[i]
        /\ \A i \in k..Len(list) : m[i + 1] = list[i]
    <3>1. ASSUME NEW i \in k..Len(list) PROVE m[i + 1] = list[i]
      <4>1. PICK j \in 1..Len(b) : k + j = i + 1 /\ k + j - 1 = i
        <5>1. i - k + 1 \in 1..Len(b) /\ k + (i - k + 1) = i + 1 /\ k + (i - k + 1) - 1 = i
          BY <1>1, <2>2, SMTT(30)
        <5> QED
          BY <5>1
      <4> QED
        BY <2>2, <2>3, <4>1, Zenon
    <3> QED
      BY <2>2, <2>3, <3>1
  <2>5. \A i \in 1..Len(m) : IsEntry(m[i]) /\ m[i].h \in Handlers
    <3>1. \A i \in 1..Len(m) : \/ i \in 1..(k - 1) /\ i \in 1..Len(list)
                               \/ i = k
                               \/ i - 1 \in k..Len(list) /\ i - 1 \in 1..Len(list) /\ (i - 1) + 1 = i
      BY <1>1, <2>3
    <3> QED
      BY <1>1, <2>3, <2>4, <3>1, Zenon
  <2>6. IsList(m)
    BY <2>3, <2>5, ListOf
  <2>7. Placed(list, m, k, e)
    BY <1>1, <2>3, <2>4 DEF Placed
  <2> QED
    BY <2>1, <2>6, <2>7 DEF Link
<1> QED
  BY <1>2, <1>3, <1>4

\* The list without its k-th entry.
LEMMA OldEntry ==
  ASSUME NEW list, IsList(list), NEW k \in 1..Len(list), NEW m, m = Unlink(list, k)
  PROVE  IsList(m) /\ Placed(m, list, k, list[k]) /\ Inserted(m, list, k, list[k].h)
<1> DEFINE S == Range(list)
<1>1. list \in Seq(S) /\ Len(list) \in Nat
      /\ \A i \in 1..Len(list) : IsEntry(list[i]) /\ list[i].h \in Handlers
  BY DEF IsList
<1> HIDE DEF S
<1>2. PICK a, b : m = a \o b /\ a = SubSeq(list, 1, k - 1) /\ b = SubSeq(list, k + 1, Len(list))
  BY Zenon DEF Unlink
<1>3. /\ a \in Seq(S) /\ Len(a) = k - 1 /\ \A i \in 1..(k - 1) : a[i] = list[i]
      /\ b \in Seq(S) /\ Len(b) = Len(list) - k /\ \A i \in 1..Len(b) : b[i] = list[k + i]
  BY <1>1, <1>2
<1>4. /\ m \in Seq(S) /\ Len(m) = Len(list) - 1
      /\ \A i \in 1..(k - 1) : m[i] = a[i]
      /\ \A i \in 1..Len(b) : m[k - 1 + i] = b[i]
  <2>1. m \in Seq(S) /\ Joins(m, a, b)
    BY <1>2, <1>3, Joined, Zenon
  <2> QED
    BY <1>1, <1>3, <2>1 DEF Joins
<1>5. ASSUME NEW i \in k..Len(m) PROVE m[i] = list[i + 1]
  <2>1. PICK j \in 1..Len(b) : k - 1 + j = i /\ k + j = i + 1
    <3>1. i - k + 1 \in 1..Len(b) /\ k - 1 + (i - k + 1) = i /\ k + (i - k + 1) = i + 1
      BY <1>1, <1>3, <1>4
    <3> QED
      BY <3>1
  <2> QED
    BY <1>3, <1>4, <2>1, Zenon
<1>6. \A i \in 1..Len(m) : IsEntry(m[i]) /\ m[i].h \in Handlers
  <2>1. \A i \in 1..Len(m) : \/ i \in 1..(k - 1) /\ i \in 1..Len(list)
                             \/ i \in k..Len(m) /\ i + 1 \in 1..Len(list)
    BY <1>1, <1>4
  <2> QED
    BY <1>1, <1>3, <1>4, <1>5, <2>1, Zenon
<1>7. IsList(m)
  BY <1>4, <1>6, ListOf
<1>8. Placed(m, list, k, list[k])
  BY <1>1, <1>3, <1>4, <1>5 DEF Placed
<1> QED
  BY <1>7, <1>8, PlacedInserted, Zenon

\* The rest of a list.
LEMMA TailEntry ==
  ASSUME NEW list, IsList(list), list # <<>>
  PROVE  /\ IsList(Tail(list)) /\ Placed(Tail(list), list, 1, list[1])
         /\ Inserted(Tail(list), list, 1, list[1].h)
         /\ list[1].h \in Handlers /\ 1 \in 1..Len(list)
<1> DEFINE S == Range(list)
<1>1. list \in Seq(S) /\ Len(list) \in Nat
      /\ \A i \in 1..Len(list) : IsEntry(list[i]) /\ list[i].h \in Handlers
  BY DEF IsList
<1> HIDE DEF S
<1>2. PICK m : m = Tail(list)
  BY Zenon
<1>3. m \in Seq(S) /\ Len(m) = Len(list) - 1 /\ 1 \in 1..Len(list) /\ \A i \in 1..Len(m) : m[i] = list[i + 1]
  BY <1>1, <1>2
<1>4. \A i \in 1..Len(m) : IsEntry(m[i]) /\ m[i].h \in Handlers
  <2>1. \A i \in 1..Len(m) : i + 1 \in 1..Len(list)
    BY <1>1, <1>3
  <2> QED
    BY <1>1, <1>3, <2>1, Zenon
<1>5. IsList(m)
  BY <1>3, <1>4, ListOf
<1>6. Placed(m, list, 1, list[1])
  BY <1>1, <1>3 DEF Placed
<1>7. Inserted(m, list, 1, list[1].h)
  BY <1>6, PlacedInserted, Zenon
<1> QED
  BY <1>1, <1>2, <1>3, <1>5, <1>6, <1>7

\* The new timer has a place in the list.
LEMMA PlaceExists ==
  ASSUME NEW list, IsList(list), list # <<>>, NEW h, NEW d
  PROVE  Place(list, h, d) \in 1..Len(list)
<1>1. Len(list) \in Nat /\ Len(list) \in 1..Len(list)
  BY DEF IsList
<1>2. PICK T : T = {i \in 1..Len(list) : Fits(list, i, h, d)}
  BY Zenon
<1>3. T \in SUBSET Nat /\ T \subseteq 1..Len(list) /\ Len(list) \in T
  BY <1>1, <1>2 DEF Fits
<1>4. Min(T) \in T
  BY <1>3, LeastNumber, Zenon DEF Min
<1> QED
  BY <1>2, <1>3, <1>4 DEF Place

\* A new entry.
LEMMA EntryOf ==
  ASSUME NEW h \in Handlers, NEW t, NEW d
  PROVE  IsEntry(Entry(h, t, d)) /\ Entry(h, t, d).h = h
BY DEF IsEntry, Entry

\* sys_timeout sets one timer, if the pool has an entry for it.
LEMMA TimeoutInserts ==
  ASSUME NEW list, IsList(list), Len(list) < PoolSize, NEW d, NEW h \in Handlers,
         NEW m, m = sys_timeout(list, d, h).list
  PROVE  IsList(m) /\ \E k : Inserted(list, m, k, h)
<1>0. PICK n \in Nat : n = Len(list)
  BY ListLen
<1>1. Len(list) \in Nat /\ PoolSize \in Nat /\ DOMAIN list = 1..Len(list)
  BY ListLen, TimeoutsConstants
<1>2. CASE list = <<>>
  <2>1. PICK e : e = Entry(h, Msecs[h], 0)
    BY Zenon
  <2>2. IsEntry(e) /\ e.h = h
    BY <2>1, EntryOf
  <2>3. m = <<e>>
    BY <1>1, <1>2, <2>1 DEF sys_timeout
  <2>4. m \in Seq({e}) /\ Len(m) = 1 /\ m[1] = e
    BY <2>3
  <2>5. IsList(m)
    BY <2>2, <2>4, ListOf
  <2>6. Inserted(list, m, 1, h)
    BY <1>2, <2>2, <2>4 DEF Inserted
  <2> QED
    BY <2>5, <2>6
<1>3. CASE list # <<>> /\ list[1].time > Msecs[h]
  <2>1. PICK e : e = Entry(h, Msecs[h] + d, d)
    BY Zenon
  <2>2. IsEntry(e) /\ e.h = h
    BY <2>1, EntryOf
  <2>3. PICK l : l = [list EXCEPT ![1].time = @ - Msecs[h]]
    BY Zenon
  <2>4. IsList(l) /\ SameHandlers(list, l)
    <3>1. 1 \in 1..Len(list)
      BY <1>3 DEF IsList
    <3>2. PICK t : t = list[1].time - Msecs[h]
      BY Zenon
    <3>3. l = [list EXCEPT ![1].time = t]
      BY <2>3, <3>2
    <3> QED
      BY <3>1, <3>3, SetTime, Zenon
  <2>5. m = <<e>> \o l
    BY <1>1, <1>3, <2>1, <2>3 DEF sys_timeout, InsertHead
  <2>6. IsList(<<e>> \o l) /\ Inserted(l, <<e>> \o l, 1, h)
    BY <2>2, <2>4, NewEntry, PlacedInserted, Zenon
  <2> QED
    BY <1>1, <2>4, <2>5, <2>6, SameInserted
<1>4. CASE list # <<>> /\ ~(list[1].time > Msecs[h])
  <2>1. PICK i : i = Place(list, h, d)
    BY Zenon
  <2>2. i \in 1..Len(list)
    BY <1>4, <2>1, PlaceExists
  <2>3. m = InsertAfter(list, i, h, d)
    BY <1>1, <1>4, <2>1 DEF sys_timeout
  <2>4. PICK time : time = Msecs[h] + d - DueAt(list, i)
    BY Zenon
  <2>5. CASE i < Len(list)
    <3>1. PICK e, l : e = Entry(h, time, d) /\ l = [list EXCEPT ![i + 1].time = @ - time]
      BY Zenon
    <3>2. IsEntry(e) /\ e.h = h
      BY <3>1, EntryOf
    <3>3. i + 1 \in 1..Len(list)
      BY <1>1, <2>2, <2>5
    <3>4. IsList(l) /\ SameHandlers(list, l)
      <4>1. PICK t : t = list[i + 1].time - time
        BY Zenon
      <4>2. l = [list EXCEPT ![i + 1].time = t]
        BY <3>1, <4>1
      <4> QED
        BY <3>3, <4>2, SetTime, Zenon
    <3>5. m = Link(l, i + 1, e)
      BY <2>3, <2>4, <2>5, <3>1 DEF InsertAfter
    <3>6. IsList(Link(l, i + 1, e)) /\ Inserted(l, Link(l, i + 1, e), i + 1, h)
      BY <3>2, <3>3, <3>4, NewEntry, PlacedInserted, Zenon DEF SameHandlers
    <3> QED
      BY <1>1, <3>4, <3>5, <3>6, SameInserted
  <2>6. CASE i = Len(list)
    <3>1. PICK u : u = IF time > Msecs[h] THEN Msecs[h] + list[1].time ELSE time
      BY Zenon
    <3>2. PICK e : e = Entry(h, u, d)
      BY Zenon
    <3>3. IsEntry(e) /\ e.h = h
      BY <3>2, EntryOf
    <3>4. m = Append(list, e)
      BY <1>1, <2>3, <2>4, <2>6, <3>1, <3>2 DEF InsertAfter
    <3> QED
      BY <3>3, <3>4, NewEntry, PlacedInserted, Zenon
  <2> QED
    <3>1. i < Len(list) \/ i = Len(list)
      <4>1. i \in 1..n
        BY <1>0, <2>2
      <4>2. i < n \/ i = n
        BY <4>1
      <4> QED
        BY <1>0, <4>2
    <3> QED
      BY <2>5, <2>6, <3>1, Zenon
<1> QED
  BY <1>2, <1>3, <1>4

\* sys_untimeout removes one timer of the handler, if there is one.
LEMMA UntimeoutRemoves ==
  ASSUME NEW list, IsList(list), NEW h \in Handlers, NEW m, m = sys_untimeout(list, h)
  PROVE  IsList(m) /\ (m = list \/ \E k : Inserted(m, list, k, h))
<1>0. PICK n \in Nat : n = Len(list)
  BY ListLen
<1>1. Len(list) \in Nat /\ DOMAIN list = 1..Len(list)
  BY ListLen
<1>2. PICK I : I = Of(list, h)
  BY Zenon
<1>3. PICK i : i = Min(I)
  BY Zenon
<1>5. m =
        CASE I = {} -> list
          [] I # {} /\ i = Len(list) -> Unlink(list, i)
          [] OTHER -> Unlink([list EXCEPT ![i + 1].time = @ + list[i].time], i)
  BY <1>2, <1>3, Zenon DEF sys_untimeout, Of
<1>6. CASE I = {}
  <2>1. m = list
    BY <1>5, <1>6
  <2> QED
    BY <2>1, Zenon
<1>7. CASE I # {}
  <2>1. I \in SUBSET Nat
    BY <1>1, <1>2 DEF Of
  <2>2. i \in I
    BY <1>3, <1>7, <2>1, LeastNumber, Zenon DEF Min
  <2>3. i \in 1..Len(list) /\ list[i].h = h
    BY <1>2, <2>2 DEF Of
  <2>4. CASE i = Len(list)
    <3>1. m = Unlink(list, i)
      BY <1>5, <1>7, <2>4
    <3> QED
      BY <2>3, <3>1, OldEntry
  <2>5. CASE i # Len(list)
    <3>0. i + 1 \in 1..Len(list)
      <4>1. i \in 1..n /\ i # n
        BY <1>0, <2>3, <2>5
      <4>2. i + 1 \in 1..n
        BY <4>1
      <4> QED
        BY <1>0, <4>2
    <3>1. PICK l : l = [list EXCEPT ![i + 1].time = @ + list[i].time]
      BY Zenon
    <3>3. IsList(l) /\ SameHandlers(list, l)
      <4>1. PICK t : t = list[i + 1].time + list[i].time
        BY Zenon
      <4>2. l = [list EXCEPT ![i + 1].time = t]
        BY <3>1, <4>1
      <4> QED
        BY <3>0, <4>2, SetTime, Zenon
    <3>4. m = Unlink(l, i)
      BY <1>5, <1>7, <2>5, <3>1
    <3>5. i \in 1..Len(l) /\ l[i].h = h
      BY <2>3, <3>3 DEF SameHandlers
    <3>6. IsList(m) /\ Inserted(m, l, i, h)
      BY <3>3, <3>4, <3>5, OldEntry
    <3> QED
      BY <1>1, <3>3, <3>6, SameInserted
  <2> QED
    BY <2>4, <2>5
<1> QED
  BY <1>6, <1>7

-----------------------------------------------------------------------------
(* The pool is large enough.                                               *)

\* The handlers of the stack's timers, and a pool with room for their timers
\* and for those of the application.
Stack == Range(Cyclic) \cup {TCP}
PoolSuffices == Len(Cyclic) + 1 + MaxApp <= PoolSize

LEMMA StackFinite ==
  IsFiniteSet(Stack) /\ Cardinality(Stack) \in Nat /\ Cardinality(Stack) <= Len(Cyclic) + 1
<1>1. PICK n \in Nat : n = Len(Cyclic)
  BY TimeoutsConstants
<1>2. Range(Cyclic) = {Cyclic[i] : i \in 1..n}
  BY <1>1, TimeoutsConstants DEF Range
<1> DEFINE f == [i \in 1..(n + 1) |-> IF i = n + 1 THEN TCP ELSE Cyclic[i]]
<1>3. \A i \in 1..(n + 1) : i = n + 1 \/ i \in 1..n
  OBVIOUS
<1>4. f \in [1..(n + 1) -> Stack]
  BY <1>2, <1>3 DEF Stack
<1>5. ASSUME NEW h \in Stack PROVE \E i \in 1..(n + 1) : f[i] = h
  <2>1. CASE h = TCP
    <3>1. n + 1 \in 1..(n + 1) /\ f[n + 1] = h
      BY <2>1
    <3> QED
      BY <3>1, Zenon
  <2>2. CASE \E i \in 1..n : h = Cyclic[i]
    <3>1. PICK i \in 1..n : h = Cyclic[i]
      BY <2>2
    <3>2. i \in 1..(n + 1) /\ i # n + 1
      OBVIOUS
    <3> QED
      BY <3>1, <3>2
  <2> QED
    BY <1>2, <2>1, <2>2 DEF Stack
<1>6. f \in Surjection(1..(n + 1), Stack)
  <2> HIDE DEF f
  <2> QED
    BY <1>4, <1>5 DEF Surjection
<1> HIDE DEF f
<1>7. IsFiniteSet(1..(n + 1)) /\ Cardinality(1..(n + 1)) = n + 1
  BY FS_Interval
<1>8. IsFiniteSet(Stack) /\ Cardinality(Stack) <= n + 1
  BY <1>6, <1>7, FS_Surjection
<1> QED
  BY <1>1, <1>8, FS_CardinalityType

\* A set with at most one element.
LEMMA OnlyOne ==
  ASSUME NEW S, IsFiniteSet(S), Cardinality(S) <= 1, NEW i \in S, NEW j \in S
  PROVE  i = j
<1>1. Cardinality(S) \in Nat /\ Cardinality(S \ {i}) \in Nat
  BY FS_CardinalityType, FS_RemoveElement
<1>2. Cardinality(S \ {i}) = Cardinality(S) - 1 /\ IsFiniteSet(S \ {i})
  BY FS_RemoveElement
<1>3. Cardinality(S \ {i}) = 0
  BY <1>1, <1>2
<1>4. S \ {i} = {}
  BY <1>2, <1>3, FS_EmptySet, Zenon
<1> QED
  BY <1>4

\* When no timer of the stack is doubled, the list is no longer than there are
\* handlers in it and timers of the application.
LEMMA ListBound ==
  ASSUME NEW list, IsList(list), NEW U \in SUBSET Stack,
         \A i \in 1..Len(list) : list[i].h # App => list[i].h \in U,
         \A g \in Stack : Count(list, g) <= 1
  PROVE  Len(list) <= Cardinality(U) + Count(list, App)
<1>1. PICK n \in Nat : n = Len(list)
  BY ListLen
<1> DEFINE N == {i \in 1..n : list[i].h # App}
           f == [i \in N |-> list[i].h]
<1>2. IsFiniteSet(U) /\ Cardinality(U) \in Nat
  BY StackFinite, FS_Subset, FS_CardinalityType
<1>3. f \in [N -> U]
  BY <1>1
<1>4. ASSUME NEW i \in N, NEW j \in N, f[i] = f[j] PROVE i = j
  <2>1. PICK g : g = list[i].h
    BY Zenon
  <2>2. g \in Stack /\ i \in Of(list, g) /\ j \in Of(list, g)
    BY <1>1, <1>4, <2>1 DEF Of
  <2>3. IsFiniteSet(Of(list, g)) /\ Cardinality(Of(list, g)) <= 1
    BY <1>1, <2>2, CountFinite DEF Count
  <2> QED
    BY <2>2, <2>3, OnlyOne, Zenon
<1>5. f \in Injection(N, U)
  <2> HIDE DEF f, N
  <2> QED
    BY <1>3, <1>4 DEF Injection, IsInjective
<1>6. 1..n = N \cup Of(list, App) /\ N \cap Of(list, App) = {}
  BY <1>1 DEF Of
<1>7. IsFiniteSet(Of(list, App)) /\ Count(list, App) \in Nat
  BY <1>1, CountFinite
<1> HIDE DEF f, N
<1>8. IsFiniteSet(N) /\ Cardinality(N) <= Cardinality(U)
  BY <1>2, <1>5, FS_Injection
<1>9. Cardinality(1..n) = Cardinality(N) + Cardinality(Of(list, App)) - Cardinality({})
  BY <1>6, <1>7, <1>8, FS_Union
<1>10. Cardinality(1..n) = n /\ Cardinality({}) = 0 /\ Cardinality(N) \in Nat
  BY <1>8, FS_Interval, FS_EmptySet, FS_CardinalityType
<1> QED
  BY <1>1, <1>2, <1>7, <1>8, <1>9, <1>10 DEF Count

\* A list to which a timer of h may be added.
Ready(list, h) ==
  /\ IsList(list) /\ h \in Handlers
  /\ \A g \in Stack : Count(list, g) <= 1
  /\ Count(list, App) <= MaxApp
  /\ IF h = App THEN Count(list, App) < MaxApp ELSE Count(list, h) = 0

LEMMA PoolHasRoom ==
  ASSUME PoolSuffices, NEW list, NEW h, Ready(list, h)
  PROVE  Len(list) < PoolSize
<1>1. PICK n, k, p \in Nat : n = Len(list) /\ k = Len(Cyclic) /\ p = Count(list, App)
  BY ListLen, CountFinite, TimeoutsConstants DEF Ready
<1>2. MaxApp \in Nat /\ PoolSize \in Nat /\ k + 1 + MaxApp <= PoolSize
  BY <1>1, TimeoutsConstants DEF PoolSuffices
<1>3. \A i \in 1..Len(list) : list[i].h # App => list[i].h \in Stack
  BY DEF Ready, IsList, Handlers, Stack
<1>4. PICK c \in Nat : c = Cardinality(Stack) /\ c <= k + 1
  BY <1>1, StackFinite
<1>5. CASE h = App
  <2>1. n <= c + p
    BY <1>1, <1>3, <1>4, ListBound DEF Ready
  <2>2. p < MaxApp
    BY <1>1, <1>5 DEF Ready
  <2> QED
    BY <1>1, <1>2, <1>4, <2>1, <2>2
<1>6. CASE h # App
  <2>1. h \in Stack /\ Count(list, h) = 0 /\ p <= MaxApp
    BY <1>1, <1>6 DEF Ready, Handlers, Stack
  <2>2. Cardinality(Stack \ {h}) = c - 1
    BY <1>4, <2>1, StackFinite, FS_RemoveElement
  <2>3. Of(list, h) = {}
    BY <1>1, <2>1, CountFinite, FS_EmptySet DEF Count
  <2>4. \A i \in 1..Len(list) : list[i].h # App => list[i].h \in Stack \ {h}
    BY <1>3, <2>3 DEF Of
  <2>5. n <= c - 1 + p
    BY <1>1, <2>2, <2>4, ListBound DEF Ready
  <2> QED
    BY <1>1, <1>2, <1>4, <2>1, <2>5
<1> QED
  BY <1>5, <1>6

\* Setting a timer adds one, and leaves the others.
Adds(list, m, h) ==
  IsList(m) /\ \A g : Count(m, g) = Count(list, g) + (IF g = h THEN 1 ELSE 0)

LEMMA InsertedAdds ==
  ASSUME NEW list, IsList(list), NEW m, IsList(m), NEW k, NEW h, Inserted(list, m, k, h)
  PROVE  Adds(list, m, h)
<1>1. Len(list) \in Nat
  BY ListLen
<1>2. \A g : Count(m, g) = Count(list, g) + (IF g = h THEN 1 ELSE 0)
  BY <1>1, InsertedCount
<1> QED
  BY <1>2, Zenon DEF Adds

LEMMA SetOne ==
  ASSUME PoolSuffices, NEW list, NEW h, Ready(list, h), NEW d, NEW m,
         m = sys_timeout(list, d, h).list
  PROVE  Adds(list, m, h)
<1>1. Len(list) < PoolSize /\ IsList(list) /\ h \in Handlers
  BY PoolHasRoom DEF Ready
<1>2. PICK k : IsList(m) /\ Inserted(list, m, k, h)
  BY <1>1, TimeoutInserts, Zenon
<1> QED
  BY <1>1, <1>2, InsertedAdds, Zenon

-----------------------------------------------------------------------------
(* sys_timeouts_init.                                                      *)

\* The defining equation of Started, up to k.
Step(list, i) == sys_timeout(list, 0, Cyclic[i]).list
Unfolds(f, k) == f = [i \in 0..k |-> IF i = 0 THEN <<>> ELSE Step(f[i - 1], i)]

LEMMA UnfoldExists ==
  ASSUME NEW n \in Nat
  PROVE  \E f : Unfolds(f, n)
<1> DEFINE T == {k \in Nat : ~ \E f : Unfolds(f, k)}
<1>1. SUFFICES ASSUME T # {} PROVE FALSE
  OBVIOUS
<1>2. PICK x \in T : \A y \in T : x <= y
  <2>1. T \in SUBSET Nat
    OBVIOUS
  <2> HIDE DEF T
  <2> QED
    BY <1>1, <2>1, LeastNumber, Zenon
<1>3. CASE x = 0
  <2>1. PICK f : f = [i \in 0..0 |-> <<>>]
    BY Zenon
  <2>2. Unfolds(f, 0)
    BY <2>1 DEF Unfolds
  <2> QED
    BY <1>3, <2>2
<1>4. CASE x # 0
  <2>1. x - 1 \in Nat /\ ~(x <= x - 1)
    BY <1>4
  <2>2. PICK f : Unfolds(f, x - 1)
    BY <1>2, <2>1
  <2>3. \A i \in 0..(x - 1) : f[i] = IF i = 0 THEN <<>> ELSE Step(f[i - 1], i)
    BY <2>2, Zenon DEF Unfolds
  <2>4. PICK g : g = [i \in 0..x |-> IF i = x THEN Step(f[x - 1], x) ELSE f[i]]
    BY Zenon
  <2>5. \A i \in 0..x : g[i] = IF i = 0 THEN <<>> ELSE Step(g[i - 1], i)
    <3>1. SUFFICES ASSUME NEW i \in 0..x
                   PROVE  g[i] = IF i = 0 THEN <<>> ELSE Step(g[i - 1], i)
      OBVIOUS
    <3>2. CASE i = x
      <4>1. i - 1 \in 0..x /\ i - 1 # x /\ i # 0
        BY <1>4, <3>2
      <4>2. g[i - 1] = f[x - 1]
        BY <2>4, <3>2, <4>1
      <4> QED
        BY <2>4, <3>2, <4>1, <4>2
    <3>3. CASE i # x
      <4>1. i \in 0..(x - 1) /\ (i # 0 => i - 1 \in 0..x /\ i - 1 # x)
        BY <3>3
      <4>2. g[i] = f[i] /\ (i # 0 => g[i - 1] = f[i - 1])
        BY <2>4, <3>3, <4>1
      <4> QED
        BY <2>3, <4>1, <4>2
    <3> QED
      BY <3>2, <3>3
  <2>6. Unfolds(g, x)
    <3>1. g = [i \in 0..x |-> g[i]]
      BY <2>4
    <3> QED
      BY <2>5, <3>1, Zenon DEF Unfolds
  <2> QED
    BY <2>6
<1> QED
  BY <1>3, <1>4

LEMMA StartedStep ==
  \A i \in 0..Len(Cyclic) : Started[i] = IF i = 0 THEN <<>> ELSE Step(Started[i - 1], i)
<1>1. PICK n \in Nat : n = Len(Cyclic)
  BY TimeoutsConstants
<1>2. \E f : Unfolds(f, n)
  BY UnfoldExists
<1>3. Started = CHOOSE f : Unfolds(f, n)
  BY <1>1, Zenon DEF Started, Unfolds, Step
<1>4. Unfolds(Started, n)
  BY <1>2, <1>3, Zenon
<1> QED
  BY <1>1, <1>4, Zenon DEF Unfolds

\* No timers.
LEMMA NoTimers ==
  IsList(<<>>) /\ \A g : Count(<<>>, g) = 0
<1>1. IsList(<<>>)
  BY DEF IsList
<1>2. \A g : Of(<<>>, g) = {}
  BY DEF Of
<1> QED
  BY <1>1, <1>2, FS_EmptySet DEF Count

\* After k calls of sys_timeout the first k timers are set, each of them once.
StartedUpTo(k) ==
  /\ IsList(Started[k])
  /\ \A g : Count(Started[k], g) = IF \E i \in 1..k : Cyclic[i] = g THEN 1 ELSE 0

\* The next timer has not been set yet.
LEMMA StartedReady ==
  ASSUME NEW n, n = Len(Cyclic), NEW x \in 1..n, StartedUpTo(x - 1),
         NEW l, l = Started[x - 1], NEW h, h = Cyclic[x]
  PROVE  /\ Ready(l, h) /\ Count(l, h) = 0 /\ \A g : Count(l, g) \in {0, 1}
<1>1. n \in Nat
  BY TimeoutsConstants
<1>2. h \in Range(Cyclic) /\ h \in Stack /\ h \in Handlers /\ h # App /\ App \notin Range(Cyclic)
  BY <1>1, TimeoutsConstants DEF Stack, Handlers, Range
<1>3. \A i \in 1..(x - 1) : Cyclic[i] # h /\ Cyclic[i] \in Range(Cyclic)
  <2>1. \A i \in 1..(x - 1) : i \in 1..n /\ i # x
    BY <1>1
  <2> QED
    BY <1>1, <2>1, TimeoutsConstants DEF Range
<1>4. IsList(l) /\ \A g : Count(l, g) = IF \E i \in 1..(x - 1) : Cyclic[i] = g THEN 1 ELSE 0
  BY DEF StartedUpTo
<1>5. Count(l, h) = 0 /\ Count(l, App) = 0
  BY <1>2, <1>3, <1>4
<1>6. \A g : Count(l, g) \in {0, 1}
  BY <1>4
<1>7. MaxApp \in Nat
  BY TimeoutsConstants
<1>8. Count(l, App) <= MaxApp /\ \A g \in Stack : Count(l, g) <= 1
  BY <1>5, <1>6, <1>7
<1> QED
  BY <1>2, <1>4, <1>5, <1>6, <1>8, Zenon DEF Ready

LEMMA StartedTimers ==
  ASSUME PoolSuffices
  PROVE  \A k \in 0..Len(Cyclic) : StartedUpTo(k)
<1>1. PICK n \in Nat : n = Len(Cyclic)
  BY TimeoutsConstants
<1> DEFINE T == {k \in 0..n : ~ StartedUpTo(k)}
<1>2. SUFFICES ASSUME T # {} PROVE FALSE
  BY <1>1
<1>3. PICK x \in T : \A y \in T : x <= y
  <2>1. T \in SUBSET Nat
    OBVIOUS
  <2> HIDE DEF T
  <2> QED
    BY <1>2, <2>1, LeastNumber, Zenon
<1>4. x \in 0..n /\ ~ StartedUpTo(x)
  OBVIOUS
<1>5. CASE x = 0
  <2>1. Started[x] = <<>>
    BY <1>1, <1>4, <1>5, StartedStep
  <2>2. ~ \E i \in 1..x : TRUE
    BY <1>5
  <2>3. StartedUpTo(x)
    BY <2>1, <2>2, NoTimers, Zenon DEF StartedUpTo
  <2> QED
    BY <1>4, <2>3
<1>6. CASE x # 0
  <2>1. x - 1 \in 0..n /\ ~(x <= x - 1) /\ x \in 1..n
    BY <1>4, <1>6
  <2>2. StartedUpTo(x - 1)
    BY <1>3, <2>1
  <2>3. PICK l, m, h : l = Started[x - 1] /\ m = Started[x] /\ h = Cyclic[x]
    BY Zenon
  <2>4. m = sys_timeout(l, 0, h).list
    BY <1>1, <1>4, <1>6, <2>3, StartedStep DEF Step
  <2>7. IsList(l) /\ \A g : Count(l, g) = IF \E i \in 1..(x - 1) : Cyclic[i] = g THEN 1 ELSE 0
    BY <2>2, <2>3 DEF StartedUpTo
  <2>8. Ready(l, h) /\ Count(l, h) = 0 /\ \A g : Count(l, g) \in {0, 1}
    BY <1>1, <2>1, <2>2, <2>3, StartedReady, Zenon
  <2>11. Adds(l, m, h)
    BY <2>4, <2>8, SetOne, Zenon
  <2>12. \A i \in 1..x : i = x \/ i \in 1..(x - 1)
    BY <2>1
  <2>13. \A i \in 1..(x - 1) : i \in 1..x
    BY <2>1
  <2>14. ASSUME NEW g PROVE Count(m, g) = IF \E i \in 1..x : Cyclic[i] = g THEN 1 ELSE 0
    <3>1. Count(m, g) = Count(l, g) + (IF g = h THEN 1 ELSE 0)
      BY <2>11, Zenon DEF Adds
    <3>2. CASE g = h
      <4>1. \E i \in 1..x : Cyclic[i] = g
        BY <2>1, <2>3, <3>2
      <4> QED
        BY <2>8, <3>1, <3>2, <4>1
    <3>3. CASE g # h
      <4>1. (\E i \in 1..x : Cyclic[i] = g) <=> \E i \in 1..(x - 1) : Cyclic[i] = g
        BY <2>3, <2>12, <2>13, <3>3, Zenon
      <4>2. Count(m, g) = Count(l, g)
        BY <2>8, <3>1, <3>3
      <4> QED
        BY <2>7, <4>1, <4>2, Zenon
    <3> QED
      BY <3>2, <3>3
  <2>15. StartedUpTo(x)
    BY <2>3, <2>11, <2>14, Zenon DEF StartedUpTo, Adds
  <2> QED
    BY <1>4, <2>15
<1> QED
  BY <1>5, <1>6

-----------------------------------------------------------------------------
(* The inductive invariant: besides StackTimersAreSet, the application has *)
(* set no more timers than it may, so that the pool is never empty when a  *)
(* timer of the stack is set.                                              *)

Timers(list, active, p) ==
  /\ IsList(list)
  /\ \A h \in Range(Cyclic) : Count(list, h) = 1
  /\ Count(list, TCP) = IF active THEN 1 ELSE 0
  /\ Count(list, App) <= MaxApp
  /\ active \in BOOLEAN /\ p \in BOOLEAN /\ (p => active)

TimersInv == Timers(next_timeout, tcpip_tcp_timer_active, pcbs)

LEMMA Counts ==
  ASSUME NEW list, IsList(list), NEW h
  PROVE  Count(list, h) \in Nat
BY ListLen, CountFinite

LEMMA AtMostOne ==
  ASSUME NEW list, NEW active, NEW p, Timers(list, active, p)
  PROVE  \A g \in Stack : Count(list, g) <= 1
BY DEF Timers, Stack

\* The same number of timers of each handler.
SameCounts(list, m) == IsList(m) /\ \A g : Count(m, g) = Count(list, g)

LEMMA SameTimers ==
  ASSUME NEW list, NEW active, NEW p, Timers(list, active, p), NEW m, SameCounts(list, m)
  PROVE  Timers(m, active, p)
BY Zenon DEF Timers, SameCounts

\* The timer of h is the first of the list.
Fires(list, h) == list # <<>> /\ list[1].h = h

\* A timer that fires is taken off the list, to which it may be added again.
LEMMA FiredReady ==
  ASSUME NEW list, NEW active, NEW p, Timers(list, active, p),
         NEW h, Fires(list, h), NEW t, t = Tail(list)
  PROVE  Adds(t, list, h) /\ Ready(t, h)
<1>1. IsList(list) /\ IsList(t) /\ h \in Handlers /\ Inserted(t, list, 1, h)
  <2>1. IsList(list) /\ list # <<>> /\ list[1].h = h
    BY Zenon DEF Timers, Fires
  <2>2. /\ IsList(Tail(list)) /\ Inserted(Tail(list), list, 1, list[1].h)
        /\ list[1].h \in Handlers
    BY <2>1, TailEntry, Zenon
  <2> QED
    BY <2>1, <2>2
<1>2. Adds(t, list, h)
  BY <1>1, InsertedAdds, Zenon
<1>3. \A g : Count(list, g) = Count(t, g) + (IF g = h THEN 1 ELSE 0)
  BY <1>2, Zenon DEF Adds
<1>4. \A g : Count(t, g) \in Nat
  BY <1>1, Counts, Zenon
<1>5. \A g \in Stack : Count(list, g) <= 1
  BY AtMostOne
<1>6. \A g : Count(t, g) <= Count(list, g)
  BY <1>3, <1>4
<1>7. \A g \in Stack : Count(t, g) <= 1
  BY <1>4, <1>3, <1>5
<1>8. MaxApp \in Nat /\ Count(list, App) <= MaxApp
  BY TimeoutsConstants DEF Timers
<1>9. Count(list, h) = Count(t, h) + 1
  BY <1>3
<1>10. Count(t, App) <= MaxApp
  BY <1>3, <1>4, <1>8
<1>11. h = App => Count(t, App) < MaxApp
  BY <1>4, <1>8, <1>9
<1>12. h # App => Count(t, h) = 0
  <2>1. h # App => h \in Stack
    BY <1>1 DEF Handlers, Stack
  <2> QED
    BY <1>4, <1>5, <1>9, <2>1
<1> QED
  BY <1>1, <1>2, <1>7, <1>10, <1>11, <1>12, Zenon DEF Ready

\* A timer that fires and is set again.
LEMMA FiredAgain ==
  ASSUME PoolSuffices, NEW list, NEW active, NEW p, Timers(list, active, p),
         NEW h, Fires(list, h), NEW d, NEW m, m = sys_timeout(Tail(list), d, h).list
  PROVE  SameCounts(list, m)
<1>1. PICK t : t = Tail(list)
  BY Zenon
<1>2. Adds(t, list, h) /\ Ready(t, h)
  BY <1>1, FiredReady, Zenon
<1>3. Adds(t, m, h)
  BY <1>1, <1>2, SetOne, Zenon
<1> QED
  BY <1>2, <1>3, Zenon DEF Adds, SameCounts

LEMMA TimersStart ==
  ASSUME PoolSuffices, TimeoutsInit
  PROVE  TimersInv
<1>1. next_timeout = Started[Len(Cyclic)] /\ tcpip_tcp_timer_active = FALSE /\ pcbs = FALSE
  BY DEF TimeoutsInit
<1>2. /\ IsList(next_timeout)
      /\ \A g : Count(next_timeout, g) = IF \E i \in 1..Len(Cyclic) : Cyclic[i] = g THEN 1 ELSE 0
  <2>1. Len(Cyclic) \in 0..Len(Cyclic)
    BY TimeoutsConstants
  <2> QED
    BY <1>1, <2>1, StartedTimers, Zenon DEF StartedUpTo
<1>3. \A g : g \in Range(Cyclic) <=> \E i \in 1..Len(Cyclic) : Cyclic[i] = g
  BY TimeoutsConstants DEF Range
<1>4. TCP \notin Range(Cyclic) /\ App \notin Range(Cyclic) /\ MaxApp \in Nat
  BY TimeoutsConstants
<1>5. /\ \A h \in Range(Cyclic) : Count(next_timeout, h) = 1
      /\ Count(next_timeout, TCP) = 0 /\ Count(next_timeout, App) = 0
  BY <1>2, <1>3, <1>4, Zenon
<1>6. Count(next_timeout, App) <= MaxApp
  BY <1>4, <1>5
<1> QED
  BY <1>1, <1>2, <1>5, <1>6, Zenon DEF TimersInv, Timers

LEMMA Adding ==
  ASSUME PoolSuffices, NEW list, NEW active, NEW p, Timers(list, active, p),
         NEW h, h \in Handlers, IF h = App THEN Count(list, App) < MaxApp ELSE Count(list, h) = 0,
         NEW d, NEW m, m = sys_timeout(list, d, h).list
  PROVE  Adds(list, m, h)
<1>1. \A g \in Stack : Count(list, g) <= 1
  BY AtMostOne, Zenon
<1>2. Ready(list, h)
  BY <1>1, Zenon DEF Ready, Timers
<1> QED
  BY <1>2, SetOne, Zenon

LEMMA Names ==
  /\ TCP # App /\ TCP \notin Range(Cyclic) /\ App \notin Range(Cyclic)
  /\ TCP \in Handlers /\ App \in Handlers /\ MaxApp \in Nat
BY TimeoutsConstants DEF Handlers

\* tcp_timer_needed.
LEMMA TcpTimerSet ==
  ASSUME PoolSuffices, NEW list, NEW p, Timers(list, FALSE, p),
         NEW d, NEW m, m = sys_timeout(list, d, TCP).list
  PROVE  Timers(m, TRUE, TRUE)
<1>1. Count(list, TCP) = 0
  BY DEF Timers
<1>2. Adds(list, m, TCP)
  BY <1>1, Adding, Names, Zenon
<1>3. IsList(m) /\ Count(m, TCP) = 1 /\ \A g : g # TCP => Count(m, g) = Count(list, g) + 0
  BY <1>1, <1>2 DEF Adds
<1>4. \A g : Count(list, g) \in Nat
  BY Counts DEF Timers
<1>5. \A g : g # TCP => Count(m, g) = Count(list, g)
  BY <1>3, <1>4
<1> QED
  BY <1>3, <1>5, Names, Zenon DEF Timers

\* The application sets its timer.
LEMMA AppTimerSet ==
  ASSUME PoolSuffices, NEW list, NEW active, NEW p, Timers(list, active, p),
         Count(list, App) < MaxApp, NEW d, NEW m, m = sys_timeout(list, d, App).list
  PROVE  Timers(m, active, p)
<1>1. Adds(list, m, App)
  BY Adding, Names, Zenon
<1>2. \A g : Count(list, g) \in Nat
  BY Counts DEF Timers
<1>3. IsList(m) /\ Count(m, App) <= MaxApp /\ \A g : g # App => Count(m, g) = Count(list, g)
  BY <1>1, <1>2, Names DEF Adds
<1> QED
  BY <1>3, Names, Zenon DEF Timers

\* The application has one timer less.
LEMMA AppTimerGone ==
  ASSUME NEW list, NEW active, NEW p, Timers(list, active, p), NEW m, IsList(m),
         Adds(m, list, App)
  PROVE  Timers(m, active, p)
<1>1. \A g : Count(m, g) \in Nat
  BY Counts
<1>2. Count(list, App) = Count(m, App) + 1 /\ \A g : g # App => Count(m, g) = Count(list, g)
  BY <1>1 DEF Adds
<1>3. Count(m, App) <= MaxApp
  BY <1>1, <1>2, Names DEF Timers
<1> QED
  BY <1>2, <1>3, Names, Zenon DEF Timers

LEMMA AppTimerCancelled ==
  ASSUME NEW list, NEW active, NEW p, Timers(list, active, p), NEW m, m = sys_untimeout(list, App)
  PROVE  Timers(m, active, p)
<1>1. IsList(list)
  BY Zenon DEF Timers
<1>2. IsList(m) /\ (m = list \/ \E k : Inserted(m, list, k, App))
  BY <1>1, UntimeoutRemoves, Names, Zenon
<1>3. CASE m = list
  BY <1>3, Zenon
<1>4. CASE \E k : Inserted(m, list, k, App)
  <2>1. Adds(m, list, App)
    BY <1>1, <1>2, <1>4, InsertedAdds, Zenon
  <2> QED
    BY <1>2, <2>1, AppTimerGone, Zenon
<1> QED
  BY <1>2, <1>3, <1>4

\* The TCP timer fires and is not set again.
LEMMA TcpTimerGone ==
  ASSUME NEW list, NEW active, NEW p, Timers(list, active, p), Fires(list, TCP),
         NEW m, m = Tail(list)
  PROVE  active = TRUE /\ Timers(m, FALSE, FALSE)
<1>1. Adds(m, list, TCP) /\ IsList(m)
  BY FiredReady, Zenon DEF Ready
<1>2. \A g : Count(m, g) \in Nat
  BY <1>1, Counts, Zenon
<1>3. Count(list, TCP) = Count(m, TCP) + 1 /\ \A g : g # TCP => Count(m, g) = Count(list, g)
  BY <1>1, <1>2 DEF Adds
<1>4. active \in BOOLEAN /\ Count(list, TCP) = IF active THEN 1 ELSE 0
  BY Zenon DEF Timers
<1>5. active = TRUE /\ Count(m, TCP) = 0
  BY <1>2, <1>3, <1>4
<1> QED
  BY <1>1, <1>3, <1>5, Names, Zenon DEF Timers

\* Tick.
OlderAge(e) == IF e.age < MaxAge THEN e.age + 1 ELSE e.age
Older(list, m) == Len(m) = Len(list) /\ \A i \in 1..Len(list) : HasAge(m[i], list[i], OlderAge(list[i]))

LEMMA AllAge ==
  ASSUME NEW list, IsList(list), NEW m,
         m = [i \in DOMAIN list |-> [list[i] EXCEPT !.age = IF @ < MaxAge THEN @ + 1 ELSE @]]
  PROVE  IsList(m) /\ SameHandlers(list, m) /\ Older(list, m)
<1>1. PICK a : a = [i \in DOMAIN list |-> OlderAge(list[i])]
  BY Zenon
<1>2. m = [i \in DOMAIN list |-> [list[i] EXCEPT !.age = a[i]]]
  BY <1>1 DEF OlderAge
<1>3. IsList(m) /\ SameHandlers(list, m) /\ Aged(list, m, a)
  BY <1>2, SetAges, Zenon
<1>4. \A i \in 1..Len(list) : a[i] = OlderAge(list[i])
  BY <1>1, ListLen
<1> QED
  BY <1>3, <1>4, Zenon DEF Aged, Older

LEMMA TimersAge ==
  ASSUME NEW list, NEW active, NEW p, Timers(list, active, p), NEW m,
         m = [i \in DOMAIN list |-> [list[i] EXCEPT !.age = IF @ < MaxAge THEN @ + 1 ELSE @]]
  PROVE  Timers(m, active, p)
<1>1. IsList(list)
  BY Zenon DEF Timers
<1>2. IsList(m) /\ SameHandlers(list, m) /\ Older(list, m)
  BY <1>1, AllAge, Zenon
<1>3. SameCounts(list, m)
  BY <1>2, SameCount, Zenon DEF SameCounts
<1> QED
  BY <1>3, SameTimers, Zenon

LEMMA PendingIsCount ==
  ASSUME IsList(next_timeout), NEW h
  PROVE  Pending(h) = Count(next_timeout, h)
<1>1. {i \in DOMAIN next_timeout : next_timeout[i].h = h} = Of(next_timeout, h)
  BY ListLen DEF Of
<1> QED
  BY <1>1, Zenon DEF Pending, Count

LEMMA TcpSteps ==
  ASSUME PoolSuffices, TimersInv, TcpRegister \/ TcpRemove \/ TcpTimer
  PROVE  TimersInv'
<1>1. PICK list, active, p, m, act, q :
        /\ list = next_timeout /\ active = tcpip_tcp_timer_active /\ p = pcbs
        /\ m = next_timeout' /\ act = tcpip_tcp_timer_active' /\ q = pcbs'
  BY Zenon
<1>2. Timers(list, active, p) /\ active \in BOOLEAN /\ p \in BOOLEAN
  BY <1>1, Zenon DEF TimersInv, Timers
<1>3. SUFFICES Timers(m, act, q)
  BY <1>1, Zenon DEF TimersInv
<1>4. CASE TcpRegister
  <2>1. q = TRUE /\ act = TRUE
    BY <1>1, <1>4, Zenon DEF TcpRegister
  <2>2. CASE active
    <3>1. m = list
      BY <1>1, <1>4, <2>2, Zenon DEF TcpRegister
    <3> QED
      BY <1>2, <2>1, <2>2, <3>1, Zenon DEF Timers
  <2>3. CASE ~active
    <3>1. PICK d : m = sys_timeout(list, d, TCP).list
      BY <1>1, <1>4, <2>3, Zenon DEF TcpRegister, SetTimer
    <3>2. active = FALSE
      BY <1>2, <2>3, Zenon
    <3> QED
      BY <1>2, <2>1, <3>1, <3>2, TcpTimerSet, Zenon
  <2> QED
    BY <2>2, <2>3, Zenon
<1>5. CASE TcpRemove
  <2>1. m = list /\ act = active /\ q = FALSE
    BY <1>1, <1>5, Zenon DEF TcpRemove
  <2> QED
    BY <1>2, <2>1, Zenon DEF Timers
<1>6. CASE TcpTimer
  <2>1. Fires(list, TCP) /\ q \in {p, FALSE} /\ act = q
    BY <1>1, <1>6, Zenon DEF TcpTimer, Expired, Fires
  <2>2. PICK t : t = Tail(list)
    BY Zenon
  <2>3. active = TRUE /\ Timers(t, FALSE, FALSE)
    BY <1>2, <2>1, <2>2, TcpTimerGone, Zenon
  <2>4. CASE q
    <3>1. PICK d : m = sys_timeout(Tail(list), d, TCP).list
      BY <1>1, <1>6, <2>4, Zenon DEF TcpTimer, SetTimer
    <3>2. SameCounts(list, m)
      BY <1>2, <2>1, <3>1, FiredAgain, Zenon
    <3>3. act = active /\ q = p
      BY <1>2, <2>1, <2>3, <2>4, Zenon
    <3> QED
      BY <1>2, <3>2, <3>3, SameTimers, Zenon
  <2>5. CASE ~q
    <3>1. m = t
      BY <1>1, <1>6, <2>2, <2>5, Zenon DEF TcpTimer
    <3>2. q = FALSE
      <4>1. q \in BOOLEAN
        BY <1>2, <2>1
      <4> QED
        BY <2>5, <4>1, Zenon
    <3> QED
      BY <2>1, <2>3, <3>1, <3>2, Zenon
  <2> QED
    BY <2>4, <2>5, Zenon
<1> QED
  BY <1>4, <1>5, <1>6

LEMMA AppSteps ==
  ASSUME PoolSuffices, TimersInv, AppTimeout \/ AppUntimeout \/ AppTimer
  PROVE  TimersInv'
<1>1. PICK list, active, p, m, act, q :
        /\ list = next_timeout /\ active = tcpip_tcp_timer_active /\ p = pcbs
        /\ m = next_timeout' /\ act = tcpip_tcp_timer_active' /\ q = pcbs'
  BY Zenon
<1>2. Timers(list, active, p) /\ IsList(list)
  BY <1>1, Zenon DEF TimersInv, Timers
<1>3. SUFFICES Timers(m, act, q)
  BY <1>1, Zenon DEF TimersInv
<1>4. act = active /\ q = p
  BY <1>1, Zenon DEF AppTimeout, AppUntimeout, AppTimer
<1>5. CASE AppTimeout
  <2>1. PICK d : m = sys_timeout(list, d, App).list
    BY <1>1, <1>5, Zenon DEF AppTimeout, SetTimer
  <2>2. Count(list, App) < MaxApp
    BY <1>1, <1>2, <1>5, PendingIsCount, Zenon DEF AppTimeout
  <2> QED
    BY <1>2, <1>4, <2>1, <2>2, AppTimerSet, Zenon
<1>6. CASE AppUntimeout
  <2>1. m = sys_untimeout(list, App)
    BY <1>1, <1>6, Zenon DEF AppUntimeout
  <2> QED
    BY <1>2, <1>4, <2>1, AppTimerCancelled, Zenon
<1>7. CASE AppTimer
  <2>1. Fires(list, App)
    BY <1>1, <1>7, Zenon DEF AppTimer, Expired, Fires
  <2>2. (\E d : m = sys_timeout(Tail(list), d, App).list) \/ m = Tail(list)
    BY <1>1, <1>7, Zenon DEF AppTimer, SetTimer
  <2>3. CASE \E d : m = sys_timeout(Tail(list), d, App).list
    <3>1. SameCounts(list, m)
      BY <1>2, <2>1, <2>3, FiredAgain, Zenon
    <3> QED
      BY <1>2, <1>4, <3>1, SameTimers, Zenon
  <2>4. CASE m = Tail(list)
    <3>1. Adds(m, list, App) /\ IsList(m)
      BY <1>2, <2>1, <2>4, FiredReady, Zenon DEF Ready
    <3> QED
      BY <1>2, <1>4, <3>1, AppTimerGone, Zenon
  <2> QED
    BY <2>2, <2>3, <2>4
<1> QED
  BY <1>5, <1>6, <1>7

LEMMA OtherSteps ==
  ASSUME PoolSuffices, TimersInv,
         \/ Tick \/ CheckBegin \/ CheckEnd \/ UNCHANGED toVars
         \/ \E h \in Range(Cyclic) : CyclicTimer(h)
  PROVE  TimersInv'
<1>1. PICK list, active, p, m, act, q :
        /\ list = next_timeout /\ active = tcpip_tcp_timer_active /\ p = pcbs
        /\ m = next_timeout' /\ act = tcpip_tcp_timer_active' /\ q = pcbs'
  BY Zenon
<1>2. Timers(list, active, p)
  BY <1>1, Zenon DEF TimersInv
<1>3. SUFFICES Timers(m, act, q)
  BY <1>1, Zenon DEF TimersInv
<1>4. CASE CheckBegin \/ CheckEnd \/ UNCHANGED toVars
  <2>1. m = list /\ act = active /\ q = p
    BY <1>1, <1>4, Zenon DEF CheckBegin, CheckEnd, toVars
  <2> QED
    BY <1>2, <2>1, Zenon
<1>5. CASE Tick
  <2>1. /\ m = [i \in DOMAIN list |-> [list[i] EXCEPT !.age = IF @ < MaxAge THEN @ + 1 ELSE @]]
        /\ act = active /\ q = p
    BY <1>1, <1>5 DEF Tick
  <2> QED
    BY <1>2, <2>1, TimersAge, Zenon
<1>6. ASSUME NEW h, CyclicTimer(h)
      PROVE  Timers(m, act, q)
  <2>1. PICK d : m = sys_timeout(Tail(list), d, h).list
    BY <1>1, <1>6, Zenon DEF CyclicTimer, SetTimer
  <2>2. act = active /\ q = p /\ Fires(list, h)
    BY <1>1, <1>6, Zenon DEF CyclicTimer, Expired, Fires
  <2>3. SameCounts(list, m)
    BY <1>2, <2>1, <2>2, FiredAgain, Zenon
  <2> QED
    BY <1>2, <2>2, <2>3, SameTimers, Zenon
<1> QED
  BY <1>4, <1>5, <1>6, Zenon

LEMMA TimersStep ==
  TimersInv /\ PoolSuffices /\ [TimeoutsNext]_toVars => TimersInv'
BY TcpSteps, AppSteps, OtherSteps, Zenon DEF TimeoutsNext, CheckTimeouts

\* No timer of the stack is lost or doubled, for any timers, intervals and lag,
\* as long as the pool has an entry for each timer of the stack and for each that
\* the application may have set.  init.c requires no more of the pool than room for
\* the stack's own timers; the rest is up to the application.
THEOREM TimersStaySet ==
  ASSUME PoolSuffices
  PROVE  TimeoutsSpec => []StackTimersAreSet
<1>1. TimeoutsInit => TimersInv
  BY TimersStart
<1>2. TimersInv /\ [TimeoutsNext]_toVars => TimersInv'
  BY TimersStep
<1>3. TimersInv => StackTimersAreSet
  <2>1. SUFFICES ASSUME TimersInv PROVE StackTimersAreSet
    OBVIOUS
  <2>2. IsList(next_timeout)
    BY <2>1, Zenon DEF TimersInv, Timers
  <2>3. \A h : Pending(h) = Count(next_timeout, h)
    BY <2>2, PendingIsCount, Zenon
  <2> QED
    BY <2>1, <2>3, Zenon DEF StackTimersAreSet, TimersInv, Timers
<1> QED
  BY <1>1, <1>2, <1>3, PTL DEF TimeoutsSpec

-----------------------------------------------------------------------------
(* When the timers of a list are due.                                      *)

\* An entry that is due at time due does not fire early.
NotBefore(e, due, now) ==
  /\ e.age \in Nat
  /\ e.age >= Msecs[e.h] \/ e.age + due - now >= Msecs[e.h]

\* D[i] is the time of entry i after timeouts_last_time.
DueEntry(e, before, due, now) ==
  e.time \in Nat /\ before \in Int /\ due = before + e.time /\ NotBefore(e, due, now)
Due(list, n, D, now) ==
  /\ Len(list) = n /\ DOMAIN D = 0..n /\ D[0] = 0
  /\ \A i \in 1..n : DueEntry(list[i], D[i - 1], D[i], now)
InTime(list, now) == \E D : Due(list, Len(list), D, now)

LEMMA DueTypes ==
  ASSUME NEW list, NEW n \in Nat, NEW D, NEW now, Due(list, n, D, now)
  PROVE  /\ \A i \in 0..n : D[i] \in Int
         /\ \A i \in 1..n : list[i].time \in Nat /\ D[i] = D[i - 1] + list[i].time
<1>1. ASSUME NEW i \in 1..n
      PROVE  list[i].time \in Nat /\ D[i] = D[i - 1] + list[i].time /\ D[i - 1] \in Int /\ D[i] \in Int
  <2>1. DueEntry(list[i], D[i - 1], D[i], now)
    BY DEF Due
  <2> QED
    BY <2>1 DEF DueEntry
<1>2. D[0] \in Int
  BY DEF Due
<1>3. \A i \in 0..n : i = 0 \/ i \in 1..n
  OBVIOUS
<1> QED
  BY <1>1, <1>2, <1>3, Zenon

\* The first entry is due first.
LEMMA FirstIsFirst ==
  ASSUME NEW list, IsList(list), NEW D, NEW now, Due(list, Len(list), D, now), NEW i \in 1..Len(list)
  PROVE  D[1] = list[1].time /\ D[1] \in Nat /\ D[i] \in Int /\ D[1] <= D[i]
<1>1. PICK n \in Nat : n = Len(list)
  BY ListLen
<1>2. /\ \A j \in 0..n : D[j] \in Int
      /\ \A j \in 1..n : list[j].time \in Nat /\ D[j] = D[j - 1] + list[j].time
      /\ D[0] = 0 /\ 1 \in 1..n /\ i \in 1..n
  <2>1. D[0] = 0 /\ 1 \in 1..n /\ i \in 1..n /\ Due(list, n, D, now)
    BY <1>1 DEF Due
  <2> QED
    BY <2>1, DueTypes, Zenon
<1>3. D[1] = list[1].time /\ D[1] \in Nat
  BY <1>2
<1> DEFINE T == {j \in 1..n : ~(D[1] <= D[j])}
<1>4. ASSUME T # {} PROVE FALSE
  <2>1. PICK x \in T : \A y \in T : x <= y
    <3>1. T \in SUBSET Nat
      OBVIOUS
    <3> HIDE DEF T
    <3> QED
      BY <1>4, <3>1, LeastNumber, Zenon
  <2>2. x \in 1..n /\ x # 1
    BY <1>3
  <2>3. x - 1 \in 1..n /\ ~(x <= x - 1)
    BY <2>2
  <2>4. D[1] <= D[x - 1]
    BY <2>1, <2>3
  <2>5. D[x] = D[x - 1] + list[x].time /\ list[x].time \in Nat /\ D[x - 1] \in Int
    BY <1>2, <2>2, <2>3
  <2> QED
    BY <1>3, <2>1, <2>4, <2>5
<1>5. D[1] <= D[i]
  <2>1. SUFFICES ASSUME ~(D[1] <= D[i]) PROVE FALSE
    OBVIOUS
  <2>2. i \in T
    BY <1>2, <2>1
  <2> QED
    BY <1>4, <2>2
<1> QED
  BY <1>1, <1>2, <1>3, <1>5

\* The sum that sys_timeout builds up as it goes along the list.
SumUp(f, list, i) == f = [j \in 0..i |-> IF j = 0 THEN 0 ELSE f[j - 1] + list[j].time]

LEMMA DueAtIs ==
  ASSUME NEW list, IsList(list), NEW D, NEW now, Due(list, Len(list), D, now), NEW i \in 0..Len(list)
  PROVE  DueAt(list, i) = D[i]
<1>1. PICK n \in Nat : n = Len(list)
  BY ListLen
<1>2. /\ D[0] = 0 /\ i \in 0..n
      /\ \A j \in 1..n : D[j] = D[j - 1] + list[j].time
  <2>1. D[0] = 0 /\ i \in 0..n /\ Due(list, n, D, now)
    BY <1>1 DEF Due
  <2> QED
    BY <2>1, DueTypes, Zenon
<1>3. PICK f : f = CHOOSE g : SumUp(g, list, i)
  BY Zenon
<1>4. DueAt(list, i) = f[i]
  BY <1>3, Zenon DEF DueAt, SumUp
<1>5. \E g : SumUp(g, list, i)
  <2>1. PICK g : g = [j \in 0..i |-> D[j]]
    BY Zenon
  <2>2. \A j \in 0..i : j # 0 => j - 1 \in 0..i /\ j \in 1..n
    BY <1>2
  <2>3. \A j \in 0..i : g[j] = IF j = 0 THEN 0 ELSE g[j - 1] + list[j].time
    BY <1>2, <2>1, <2>2
  <2>4. g = [j \in 0..i |-> g[j]]
    BY <2>1
  <2>5. SumUp(g, list, i)
    BY <2>3, <2>4, Zenon DEF SumUp
  <2> QED
    BY <2>5
<1>6. SumUp(f, list, i)
  BY <1>3, <1>5, Zenon
<1>7. \A j \in 0..i : f[j] = IF j = 0 THEN 0 ELSE f[j - 1] + list[j].time
  BY <1>6, Zenon DEF SumUp
<1> DEFINE T == {j \in 0..i : f[j] # D[j]}
<1>8. ASSUME T # {} PROVE FALSE
  <2>1. PICK x \in T : \A y \in T : x <= y
    <3>1. T \in SUBSET Nat
      BY <1>2
    <3> HIDE DEF T
    <3> QED
      BY <1>8, <3>1, LeastNumber, Zenon
  <2>2. x \in 0..i /\ f[x] # D[x]
    OBVIOUS
  <2>3. x # 0
    BY <1>2, <1>7, <2>2
  <2>4. x - 1 \in 0..i /\ ~(x <= x - 1) /\ x \in 1..n
    BY <1>2, <2>2, <2>3
  <2>5. f[x - 1] = D[x - 1]
    BY <2>1, <2>4
  <2> QED
    BY <1>2, <1>7, <2>2, <2>3, <2>4, <2>5
<1>9. i \in 0..i
  BY <1>2
<1> QED
  BY <1>4, <1>8, <1>9

\* A new entry at the head, which moves the others back by the lag d.
LEMMA HeadInTime ==
  ASSUME NEW list, IsList(list), list # <<>>, NEW d \in Nat, InTime(list, d),
         NEW h \in Handlers, list[1].time > Msecs[h],
         NEW l, Changed(list, l, 1, list[1].time - Msecs[h]),
         NEW m, Placed(l, m, 1, Entry(h, Msecs[h] + d, d))
  PROVE  InTime(m, d)
<1>1. PICK n \in Nat \ {0} : n = Len(list)
  BY ListLen DEF IsList
<1>2. PICK D : Due(list, n, D, d)
  BY <1>1, Zenon DEF InTime
<1>3. /\ \A j \in 0..n : D[j] \in Int
      /\ \A j \in 1..n : list[j].time \in Nat /\ D[j] = D[j - 1] + list[j].time
      /\ D[0] = 0
      /\ \A j \in 1..n : NotBefore(list[j], D[j], d)
  <2>1. D[0] = 0 /\ \A j \in 1..n : NotBefore(list[j], D[j], d)
    BY <1>2, Zenon DEF Due, DueEntry
  <2> QED
    BY <1>2, <2>1, DueTypes, Zenon
<1>4. PICK s \in Nat : s = Msecs[h]
  BY TimeoutsConstants
<1>5. /\ Len(m) = n + 1 /\ m[1] = Entry(h, s + d, d)
      /\ \A j \in 1..n : m[j + 1] = l[j]
      /\ HasTime(l[1], list[1], list[1].time - s) /\ list[1].time > s
      /\ \A j \in 1..n : j # 1 => l[j] = list[j]
  BY <1>1, <1>4 DEF Placed, Changed
<1>6. PICK F : F = [j \in 0..(n + 1) |-> IF j = 0 THEN 0 ELSE IF j = 1 THEN s + d ELSE D[j - 1] + d]
  BY Zenon
<1>7. \A j \in 1..(n + 1) : j = 1 \/ (j - 1 \in 1..n /\ (j - 1) + 1 = j /\ j \in 0..(n + 1))
  OBVIOUS
<1>8. F \in [0..(n + 1) -> Int] /\ F[0] = 0 /\ F[1] = s + d /\ \A j \in 1..n : F[j + 1] = D[j] + d
  BY <1>3, <1>6
<1>9. ASSUME NEW j \in 1..n
      PROVE  DueEntry(m[j + 1], F[j], F[j + 1], d)
  <2>1. PICK e, M : e = list[j] /\ M = Msecs[e.h]
    BY Zenon
  <2>2. e.age \in Nat /\ (e.age >= M \/ e.age + D[j] - d >= M) /\ e.time \in Nat
    BY <1>3, <2>1, Zenon DEF NotBefore
  <2>3. m[j + 1].h = e.h /\ m[j + 1].age = e.age
    BY <1>5, <2>1, Zenon DEF HasTime
  <2>4. D[j] \in Int /\ D[j - 1] \in Int /\ F[j + 1] = D[j] + d /\ D[j] = D[j - 1] + e.time
    <3>1. j \in 0..n /\ j - 1 \in 0..n
      OBVIOUS
    <3> QED
      BY <1>3, <1>8, <2>1, <3>1
  <2>5. NotBefore(m[j + 1], F[j + 1], d)
    <3>1. M \in Nat
      <4>1. e.h \in Handlers
        BY <1>1, <2>1 DEF IsList
      <4> QED
        BY <2>1, <4>1, TimeoutsConstants
    <3>2. e.age >= M \/ e.age + F[j + 1] - d >= M
      BY <2>2, <2>4, <3>1, SMTT(30)
    <3> QED
      BY <2>1, <2>2, <2>3, <3>2, Zenon DEF NotBefore
  <2>6. CASE j = 1
    <3>1. m[j + 1].time = D[1] - s /\ D[1] = list[1].time /\ D[1] \in Nat /\ D[1] > s
      BY <1>3, <1>5, <2>6, SMTT(30) DEF HasTime
    <3>2. F[j + 1] = D[1] + d /\ F[j] = s + d
      BY <1>8, <2>6, SMTT(30)
    <3> QED
      BY <2>5, <3>1, <3>2 DEF DueEntry
  <2>7. CASE j # 1
    <3>3. m[j + 1].time = e.time
      BY <1>5, <2>1, <2>7, Zenon
    <3>1. m[j + 1].time = e.time /\ j - 1 \in 1..n /\ (j - 1) + 1 = j
      BY <2>7, <3>3
    <3>2. F[j] = D[j - 1] + d
      BY <1>8, <3>1
    <3> QED
      BY <2>2, <2>4, <2>5, <3>1, <3>2 DEF DueEntry
  <2> QED
    BY <2>6, <2>7
<1>10. DueEntry(m[1], F[0], F[1], d)
  <2>1. m[1].time = s + d /\ m[1].h = h /\ m[1].age = IF d < MaxAge THEN d ELSE MaxAge
    BY <1>5 DEF Entry
  <2>2. m[1].age \in Nat
    BY <2>1, TimeoutsConstants
  <2> QED
    BY <1>4, <1>8, <2>1, <2>2, SMTT(30) DEF DueEntry, NotBefore
<1>11. ASSUME NEW j \in 1..(n + 1)
       PROVE  DueEntry(m[j], F[j - 1], F[j], d)
  <2>1. CASE j = 1
    BY <1>10, <2>1
  <2>2. CASE j # 1
    <3>1. PICK k \in 1..n : j = k + 1 /\ j - 1 = k
      BY <1>7, <2>2
    <3> QED
      BY <1>9, <3>1, Zenon
  <2> QED
    BY <2>1, <2>2
<1>12. DOMAIN F = 0..(n + 1)
  BY <1>6
<1>13. Due(m, n + 1, F, d)
  BY <1>5, <1>8, <1>11, <1>12, Zenon DEF Due
<1> QED
  BY <1>5, <1>13, Zenon DEF InTime

\* Where the code puts an entry that does not come first: it is due no earlier
\* than the one before it.
LEMMA PlaceIsLate ==
  ASSUME NEW list, IsList(list), list # <<>>, NEW d \in Nat, NEW n \in Nat, NEW D,
         Due(list, n, D, d), NEW h \in Handlers, ~(list[1].time > Msecs[h]),
         NEW i, i = Place(list, h, d)
  PROVE  /\ i \in 1..n /\ D[i] <= Msecs[h] + d
         /\ i < n => list[i + 1].time > Msecs[h] + d - D[i]
<1>1. n = Len(list) /\ 1 \in 1..n
  BY ListLen DEF Due, IsList
<1>2. PICK s \in Nat : s = Msecs[h]
  BY TimeoutsConstants
<1>3. /\ \A j \in 0..n : D[j] \in Int
      /\ \A j \in 1..n : list[j].time \in Nat /\ D[j] = D[j - 1] + list[j].time
      /\ D[0] = 0
  <2>1. D[0] = 0
    BY DEF Due
  <2> QED
    BY <2>1, DueTypes, Zenon
<1>4. PICK T : T = {j \in 1..n : Fits(list, j, h, d)}
  BY Zenon
<1>5. T \in SUBSET Nat /\ n \in T
  BY <1>1, <1>4 DEF Fits
<1>6. i \in T /\ \A j \in T : i <= j
  <2>1. i = Min(T)
    BY <1>1, <1>4, Zenon DEF Place
  <2> QED
    BY <1>5, <2>1, LeastNumber, Zenon DEF Min
<1>7. i \in 1..n /\ Fits(list, i, h, d)
  BY <1>4, <1>6
<1>8. \A j \in 0..n : DueAt(list, j) = D[j]
  BY <1>1, DueAtIs, Zenon
<1>9. i < n => list[i + 1].time > s + d - D[i]
  BY <1>1, <1>2, <1>7, <1>8 DEF Fits
<1>10. CASE i = 1
  BY <1>1, <1>2, <1>3, <1>7, <1>9, <1>10
<1>11. CASE i # 1
  <2>1. i - 1 \in 1..n /\ ~(i <= i - 1) /\ (i - 1) + 1 = i /\ i - 1 \in 0..n /\ i - 1 # n
    BY <1>7, <1>11
  <2>2. ~Fits(list, i - 1, h, d)
    BY <1>4, <1>6, <2>1
  <2>3. ~(list[(i - 1) + 1].time > Msecs[h] + d - DueAt(list, i - 1))
    BY <1>1, <2>1, <2>2 DEF Fits
  <2>4. ~(list[i].time > s + d - D[i - 1])
    BY <1>2, <1>8, <2>1, <2>3
  <2>5. D[i] = D[i - 1] + list[i].time /\ D[i - 1] \in Int /\ list[i].time \in Nat
    BY <1>3, <1>7, <2>1
  <2>6. D[i] <= s + d
    BY <2>4, <2>5
  <2> QED
    BY <1>2, <1>7, <1>9, <2>6
<1> QED
  BY <1>10, <1>11

\* An entry that is not due earlier than before.
LEMMA StaysDue ==
  ASSUME NEW e, NEW f, e.h \in Handlers, f.h = e.h, f.age = e.age,
         NEW due \in Int, NEW now \in Int, NEW later \in Int, NEW then \in Int,
         NotBefore(e, due, now), later - then >= due - now
  PROVE  NotBefore(f, later, then)
<1>1. PICK M : M = Msecs[e.h]
  BY Zenon
<1>2. M \in Nat
  BY <1>1, TimeoutsConstants
<1>3. e.age \in Nat /\ (e.age >= M \/ e.age + due - now >= M)
  BY <1>1, Zenon DEF NotBefore
<1>4. e.age >= M \/ e.age + later - then >= M
  BY <1>2, <1>3
<1> QED
  BY <1>1, <1>3, <1>4, Zenon DEF NotBefore

\* A new entry behind the i-th.
LEMMA MiddleInTime ==
  ASSUME NEW list, IsList(list), NEW d \in Nat, NEW n \in Nat, NEW D, Due(list, n, D, d),
         NEW h \in Handlers, NEW i \in 1..n, i < n, D[i] <= Msecs[h] + d,
         list[i + 1].time > Msecs[h] + d - D[i],
         NEW l, Changed(list, l, i + 1, list[i + 1].time - (Msecs[h] + d - D[i])),
         NEW m, Placed(l, m, i + 1, Entry(h, Msecs[h] + d - D[i], d))
  PROVE  InTime(m, d)
<1>1. n = Len(list)
  BY DEF Due
<1>2. PICK s \in Nat : s = Msecs[h]
  BY TimeoutsConstants
<1>3. /\ \A j \in 0..n : D[j] \in Int
      /\ \A j \in 1..n : list[j].time \in Nat /\ D[j] = D[j - 1] + list[j].time
      /\ D[0] = 0
      /\ \A j \in 1..n : NotBefore(list[j], D[j], d) /\ list[j].h \in Handlers
  <2>1. D[0] = 0 /\ \A j \in 1..n : NotBefore(list[j], D[j], d)
    BY Zenon DEF Due, DueEntry
  <2>2. \A j \in 1..n : list[j].h \in Handlers
    BY <1>1 DEF IsList
  <2> QED
    BY <2>1, <2>2, DueTypes, Zenon
<1>4. /\ Len(m) = n + 1 /\ m[i + 1] = Entry(h, s + d - D[i], d)
      /\ \A j \in 1..i : m[j] = l[j]
      /\ \A j \in (i + 1)..n : m[j + 1] = l[j]
      /\ HasTime(l[i + 1], list[i + 1], list[i + 1].time - (s + d - D[i]))
      /\ \A j \in 1..n : j # i + 1 => l[j] = list[j]
  BY <1>1, <1>2, SMTT(30) DEF Placed, Changed
<1>5. PICK F : F = [j \in 0..(n + 1) |-> IF j <= i THEN D[j] ELSE IF j = i + 1 THEN s + d ELSE D[j - 1]]
  BY Zenon
<1>6. /\ \A j \in 0..i : F[j] = D[j]
      /\ F[i + 1] = s + d
      /\ \A j \in (i + 1)..n : F[j + 1] = D[j]
  <2>1. ASSUME NEW j \in (i + 1)..n PROVE F[j + 1] = D[j]
    <3>1. j + 1 \in 0..(n + 1) /\ ~(j + 1 <= i) /\ j + 1 # i + 1 /\ (j + 1) - 1 = j
      OBVIOUS
    <3> QED
      BY <1>5, <3>1
  <2>2. \A j \in 0..i : j \in 0..(n + 1) /\ j <= i
    OBVIOUS
  <2>3. i + 1 \in 0..(n + 1) /\ ~(i + 1 <= i)
    OBVIOUS
  <2> QED
    BY <1>5, <2>1, <2>2, <2>3
<1>7. ASSUME NEW j \in 1..i PROVE DueEntry(m[j], F[j - 1], F[j], d)
  <2>1. j \in 0..i /\ j - 1 \in 0..i /\ j \in 1..n /\ j # i + 1
    BY SMTT(30)
  <2>2. m[j] = list[j] /\ F[j] = D[j] /\ F[j - 1] = D[j - 1]
    BY <1>4, <1>6, <2>1, SMTT(30)
  <2>3. DueEntry(list[j], D[j - 1], D[j], d)
    BY <2>1, Zenon DEF Due
  <2> QED
    BY <2>2, <2>3
<1>8. DueEntry(m[i + 1], F[i], F[i + 1], d)
  <2>1. /\ m[i + 1].time = s + d - D[i] /\ m[i + 1].h = h
        /\ m[i + 1].age = IF d < MaxAge THEN d ELSE MaxAge
    BY <1>4, SMTT(30) DEF Entry
  <2>2. m[i + 1].age \in Nat
    BY <2>1, TimeoutsConstants
  <2>3. D[i] \in Int /\ D[i] <= s + d /\ F[i] = D[i]
    BY <1>2, <1>3, <1>6, SMTT(30)
  <2>4. s + d - D[i] \in Nat /\ s + d = D[i] + (s + d - D[i])
    BY <2>3
  <2> QED
    BY <1>2, <1>6, <2>1, <2>2, <2>3, <2>4, SMTT(30) DEF DueEntry, NotBefore
<1>9. ASSUME NEW j \in (i + 1)..n PROVE DueEntry(m[j + 1], F[j], F[j + 1], d)
  <2>1. j \in 1..n /\ j \in 0..n /\ j - 1 \in 0..n
    BY SMTT(30)
  <2>2. D[j] \in Int /\ D[j - 1] \in Int /\ list[j].time \in Nat /\ D[j] = D[j - 1] + list[j].time
    BY <1>3, <2>1, SMTT(30)
  <2>3. m[j + 1] = l[j] /\ F[j + 1] = D[j]
    BY <1>4, <1>6
  <2>4. l[j].h = list[j].h /\ l[j].age = list[j].age
    BY <1>4, <2>1, ZenonT(30) DEF HasTime
  <2>5. NotBefore(m[j + 1], F[j + 1], d)
    <3>1. NotBefore(list[j], D[j], d) /\ list[j].h \in Handlers
      BY <1>3, <2>1, Zenon
    <3>2. D[j] \in Int /\ d \in Int /\ D[j] - d >= D[j] - d
      BY <2>2
    <3>3. NotBefore(l[j], D[j], d)
      BY <2>4, <3>1, <3>2, StaysDue, Zenon
    <3> QED
      BY <2>3, <3>3, Zenon
  <2>6. CASE j = i + 1
    <3>1. l[j].time = list[j].time - (s + d - D[i]) /\ F[j] = s + d /\ j - 1 = i
      BY <1>4, <1>6, <2>6, SMTT(30) DEF HasTime
    <3>2. list[j].time > s + d - D[i]
      BY <1>2, <2>6
    <3> QED
      <4>1. s + d \in Int /\ D[i] \in Int /\ D[j] = D[i] + list[j].time
        BY <2>2, <3>1
      <4>2. l[j].time \in Nat /\ D[j] = s + d + l[j].time
        BY <2>2, <3>1, <3>2, <4>1
      <4> QED
        BY <2>3, <2>5, <3>1, <4>1, <4>2, Zenon DEF DueEntry
  <2>7. CASE j # i + 1
    <3>1. j - 1 \in (i + 1)..n /\ (j - 1) + 1 = j
      BY <2>7
    <3>2. l[j].time = list[j].time
      BY <1>4, <2>1, <2>7, Zenon
    <3>3. F[j] = D[j - 1]
      BY <1>6, <3>1, SMTT(30)
    <3> QED
      BY <2>2, <2>3, <2>5, <3>2, <3>3 DEF DueEntry
  <2> QED
    BY <2>6, <2>7
<1>10. ASSUME NEW j \in 1..(n + 1) PROVE DueEntry(m[j], F[j - 1], F[j], d)
  <2>1. CASE j \in 1..i
    BY <1>7, <2>1, SMTT(30)
  <2>2. CASE j = i + 1
    <3>1. j - 1 = i
      BY <2>2
    <3> QED
      BY <1>8, <2>2, <3>1, SMTT(30)
  <2>3. CASE j > i + 1
    <3>1. j - 1 \in (i + 1)..n /\ (j - 1) + 1 = j
      BY <2>3, SMTT(30)
    <3>2. PICK k \in (i + 1)..n : k = j - 1 /\ k + 1 = j
      BY <3>1, SMTT(30)
    <3> QED
      BY <1>9, <3>2, Zenon
  <2> QED
    BY <2>1, <2>2, <2>3, SMTT(30)
<1>11. DOMAIN F = 0..(n + 1) /\ F[0] = 0
  BY <1>3, <1>5, <1>6
<1>12. Due(m, n + 1, F, d)
  BY <1>4, <1>10, <1>11, Zenon DEF Due
<1> QED
  BY <1>4, <1>12, Zenon DEF InTime

\* The ages of the model are counted far enough to tell a timer that is early.
AgesSuffice == \A h \in Handlers : Msecs[h] <= MaxAge

\* A new entry at the end.
LEMMA EndInTime ==
  ASSUME AgesSuffice,
         NEW list, IsList(list), list # <<>>, NEW d \in Nat, NEW n \in Nat, NEW D, Due(list, n, D, d),
         NEW h \in Handlers, D[n] <= Msecs[h] + d, NEW u,
         u = IF Msecs[h] + d - D[n] > Msecs[h] THEN Msecs[h] + list[1].time ELSE Msecs[h] + d - D[n],
         NEW m, Placed(list, m, n + 1, Entry(h, u, d))
  PROVE  InTime(m, d)
<1>1. n = Len(list) /\ n # 0
  BY ListLen, SMTT(30) DEF Due, IsList
<1>2. PICK s \in Nat : s = Msecs[h] /\ s <= MaxAge
  BY TimeoutsConstants DEF AgesSuffice
<1>3. D[0] = 0 /\ \A j \in 0..n : D[j] \in Int
  <2>1. D[0] = 0
    BY DEF Due
  <2> QED
    BY <2>1, DueTypes, Zenon
<1>4. /\ Len(m) = n + 1 /\ m[n + 1] = Entry(h, u, d)
      /\ \A j \in 1..n : m[j] = list[j]
  BY <1>1 DEF Placed
<1>5. D[1] = list[1].time /\ D[1] \in Nat /\ D[n] \in Int /\ D[1] <= D[n]
  <2>1. n \in 1..n
    BY <1>1
  <2>2. Due(list, Len(list), D, d) /\ n \in 1..Len(list)
    BY <1>1, <2>1
  <2> QED
    BY <2>2, FirstIsFirst, Zenon
<1>6. PICK x, y \in Int :
        /\ x = D[n] /\ y \in Nat /\ y <= x
        /\ u \in Nat /\ (u = s + d - x \/ (u = s + y /\ x < d))
  <2>1. PICK x, y : x = D[n] /\ y = D[1]
    BY Zenon
  <2>2. x \in Int /\ y \in Nat /\ y <= x /\ y = list[1].time /\ x <= s + d
    BY <1>2, <1>5, <2>1
  <2>3. u = IF s + d - x > s THEN s + y ELSE s + d - x
    BY <1>2, <2>1, <2>2, Zenon
  <2>4. y \in Int /\ u \in Nat /\ (u = s + d - x \/ (u = s + y /\ x < d))
    BY <2>2, <2>3, SMTT(30)
  <2> QED
    BY <2>1, <2>2, <2>4, Zenon
<1>7. PICK F : F = [j \in 0..(n + 1) |-> IF j = n + 1 THEN D[n] + u ELSE D[j]]
  BY Zenon
<1>8. /\ \A j \in 0..n : F[j] = D[j]
      /\ F[n + 1] = D[n] + u
  <2>1. \A j \in 0..n : j \in 0..(n + 1) /\ j # n + 1
    OBVIOUS
  <2>2. n + 1 \in 0..(n + 1)
    OBVIOUS
  <2> QED
    BY <1>7, <2>1, <2>2
<1>9. ASSUME NEW j \in 1..n PROVE DueEntry(m[j], F[j - 1], F[j], d)
  <2>1. j \in 0..n /\ j - 1 \in 0..n
    OBVIOUS
  <2>2. m[j] = list[j] /\ F[j] = D[j] /\ F[j - 1] = D[j - 1]
    BY <1>4, <1>8, <2>1
  <2>3. DueEntry(list[j], D[j - 1], D[j], d)
    BY Zenon DEF Due
  <2> QED
    BY <2>2, <2>3
<1>10. DueEntry(m[n + 1], F[n], F[n + 1], d)
  <2>1. PICK a : a = IF d < MaxAge THEN d ELSE MaxAge
    BY Zenon
  <2>2. m[n + 1].time = u /\ m[n + 1].h = h /\ m[n + 1].age = a
    BY <1>4, <2>1, SMTT(30) DEF Entry
  <2>3. a \in Nat /\ (a >= s \/ a = d)
    BY <1>2, <2>1, TimeoutsConstants, SMTT(30)
  <2>4. a >= s \/ a + (x + u) - d >= s
    BY <1>6, <2>3
  <2>5. F[n] = x /\ F[n + 1] = x + u
    BY <1>6, <1>8, SMTT(30)
  <2>6. NotBefore(m[n + 1], F[n + 1], d)
    BY <1>2, <2>2, <2>3, <2>4, <2>5, SMTT(30) DEF NotBefore
  <2> QED
    BY <1>6, <2>2, <2>5, <2>6 DEF DueEntry
<1>11. ASSUME NEW j \in 1..(n + 1) PROVE DueEntry(m[j], F[j - 1], F[j], d)
  <2>1. CASE j \in 1..n
    BY <1>9, <2>1
  <2>2. CASE j = n + 1
    <3>1. j - 1 = n
      BY <2>2
    <3> QED
      BY <1>10, <2>2, <3>1
  <2> QED
    BY <2>1, <2>2, SMTT(30)
<1>12. DOMAIN F = 0..(n + 1) /\ F[0] = 0
  BY <1>3, <1>7, <1>8
<1>13. Due(m, n + 1, F, d)
  BY <1>4, <1>11, <1>12, Zenon DEF Due
<1> QED
  BY <1>4, <1>13, ZenonT(30) DEF InTime

\* An entry leaves the list; the time of the one behind it has been changed
\* so that the others stay where they are.
LEMMA CancelInTime ==
  ASSUME NEW list, IsList(list), NEW d \in Nat, InTime(list, d),
         NEW k \in 1..Len(list), NEW l,
         \/ k = Len(list) /\ l = list
         \/ k < Len(list) /\ Changed(list, l, k + 1, list[k + 1].time + list[k].time),
         NEW m, Placed(m, l, k, l[k]), Len(m) \in Nat
  PROVE  InTime(m, d)
<1>1. PICK n \in Nat : n + 1 = Len(list)
  <2>1. PICK x : x = Len(list) - 1
    BY Zenon
  <2>2. x \in Nat /\ x + 1 = Len(list)
    BY <2>1, ListLen
  <2> QED
    BY <2>2
<1>2. PICK D : Due(list, n + 1, D, d)
  BY <1>1, Zenon DEF InTime
<1>3. /\ \A j \in 0..(n + 1) : D[j] \in Int
      /\ \A j \in 1..(n + 1) : list[j].time \in Nat /\ D[j] = D[j - 1] + list[j].time
      /\ D[0] = 0
      /\ \A j \in 1..(n + 1) : NotBefore(list[j], D[j], d) /\ list[j].h \in Handlers
  <2>1. D[0] = 0 /\ \A j \in 1..(n + 1) : NotBefore(list[j], D[j], d)
    BY <1>2, Zenon DEF Due, DueEntry
  <2>2. \A j \in 1..(n + 1) : list[j].h \in Handlers
    BY <1>1 DEF IsList
  <2>3. n + 1 \in Nat
    OBVIOUS
  <2> QED
    BY <1>2, <2>1, <2>2, <2>3, DueTypes, Zenon
<1>4. Len(l) = n + 1 /\ \A j \in 1..(n + 1) : j # k + 1 => l[j] = list[j]
  BY <1>1 DEF Changed
<1>5. /\ Len(m) = n /\ k \in 1..(n + 1)
      /\ \A j \in 1..(k - 1) : m[j] = l[j]
      /\ \A j \in k..n : m[j] = l[j + 1]
  BY <1>1, <1>4 DEF Placed
<1>6. k < n + 1 => HasTime(l[k + 1], list[k + 1], list[k + 1].time + list[k].time)
  BY <1>1 DEF Changed
<1>7. PICK F : F = [j \in 0..n |-> IF j < k THEN D[j] ELSE D[j + 1]]
  BY Zenon
<1>8. /\ \A j \in 0..(k - 1) : F[j] = D[j]
      /\ \A j \in k..n : F[j] = D[j + 1]
  <2>1. ASSUME NEW j \in 0..(k - 1) PROVE F[j] = D[j]
    <3>1. j \in 0..n /\ j < k
      BY <1>5
    <3> QED
      BY <1>7, <3>1
  <2>2. ASSUME NEW j \in k..n PROVE F[j] = D[j + 1]
    <3>1. j \in 0..n /\ ~(j < k)
      BY <1>5
    <3> QED
      BY <1>7, <3>1
  <2> QED
    BY <2>1, <2>2
<1>9. ASSUME NEW j \in 1..n, j < k PROVE DueEntry(m[j], F[j - 1], F[j], d)
  <2>1. j \in 1..(k - 1) /\ j \in 0..(k - 1) /\ j - 1 \in 0..(k - 1) /\ j \in 1..(n + 1) /\ j # k + 1
    BY <1>5, <1>9
  <2>2. m[j] = list[j] /\ F[j] = D[j] /\ F[j - 1] = D[j - 1]
    BY <1>4, <1>5, <1>8, <2>1
  <2>3. DueEntry(list[j], D[j - 1], D[j], d)
    BY <1>2, <2>1, Zenon DEF Due
  <2> QED
    BY <2>2, <2>3
<1>10. ASSUME NEW j \in 1..n, j >= k PROVE DueEntry(m[j], F[j - 1], F[j], d)
  <2>1. /\ j \in k..n /\ j \in 1..(n + 1) /\ j + 1 \in 1..(n + 1) /\ (j + 1) - 1 = j
        /\ j \in 0..(n + 1) /\ j + 1 \in 0..(n + 1) /\ j - 1 \in 0..(n + 1)
    BY <1>5, <1>10, SMTT(30)
  <2>2. /\ D[j - 1] \in Int /\ D[j] \in Int /\ D[j + 1] \in Int
        /\ list[j].time \in Nat /\ list[j + 1].time \in Nat
        /\ D[j] = D[j - 1] + list[j].time
        /\ D[j + 1] = D[j] + list[j + 1].time
    BY <1>3, <2>1
  <2>3. m[j] = l[j + 1] /\ F[j] = D[j + 1]
    BY <1>5, <1>8, <2>1
  <2>4. CASE j = k
    <3>1. k < n + 1 /\ k \in 1..n /\ k - 1 \in 0..(k - 1)
      BY <1>5, <2>1, <2>4, SMTT(30)
    <3>2. HasTime(l[j + 1], list[j + 1], list[j + 1].time + list[j].time) /\ F[j - 1] = D[j - 1]
      BY <1>6, <1>8, <2>4, <3>1, SMTT(30)
    <3>3. NotBefore(list[j + 1], D[j + 1], d) /\ list[j + 1].h \in Handlers
      BY <1>3, <2>1
    <3>4. NotBefore(m[j], F[j], d)
      <4>1. m[j].h = list[j + 1].h /\ m[j].age = list[j + 1].age
        BY <2>3, <3>2, Zenon DEF HasTime
      <4>2. PICK e, f, y : y \in Int /\ e = list[j + 1] /\ f = m[j] /\ y = D[j + 1] /\ y = F[j]
        BY <2>2, <2>3, Zenon
      <4>3. e.h \in Handlers /\ f.h = e.h /\ f.age = e.age /\ NotBefore(e, y, d)
        BY <3>3, <4>1, <4>2, Zenon
      <4>4. d \in Int /\ y \in Int /\ y - d >= y - d
        BY <4>2
      <4>5. NotBefore(f, y, d)
        BY <4>3, <4>4, StaysDue, Zenon
      <4> QED
        BY <4>2, <4>5, Zenon
    <3>5. m[j].time = list[j + 1].time + list[j].time
      BY <2>3, <3>2, Zenon DEF HasTime
    <3>6. m[j].time \in Nat /\ F[j - 1] \in Int /\ F[j] = F[j - 1] + m[j].time
      <4>1. PICK t \in Nat, u \in Nat, x \in Int : t = list[j].time /\ u = list[j + 1].time /\ x = D[j - 1]
        BY <2>2, Zenon
      <4>2. m[j].time = u + t /\ F[j - 1] = x
        BY <3>2, <3>5, <4>1, Zenon
      <4>3. F[j] = (x + t) + u
        BY <2>2, <2>3, <4>1, Zenon
      <4>4. u + t \in Nat /\ (x + t) + u = x + (u + t)
        OBVIOUS
      <4> QED
        BY <4>2, <4>3, <4>4, Zenon
    <3> QED
      BY <3>4, <3>6, Zenon DEF DueEntry
  <2>5. CASE j # k
    <3>1. j - 1 \in k..n /\ (j - 1) + 1 = j /\ j + 1 # k + 1
      BY <1>10, <2>5
    <3>2. F[j - 1] = D[j] /\ l[j + 1] = list[j + 1]
      BY <1>4, <1>8, <2>1, <3>1
    <3>3. DueEntry(list[j + 1], D[(j + 1) - 1], D[j + 1], d)
      BY <1>2, <2>1, Zenon DEF Due
    <3> QED
      BY <2>1, <2>3, <3>2, <3>3
  <2> QED
    BY <2>4, <2>5
<1>11. DOMAIN F = 0..n /\ F[0] = 0
  BY <1>3, <1>5, <1>7, SMTT(30)
<1>12. \A j \in 1..n : j < k \/ j >= k
  BY <1>5
<1>13. Due(m, n, F, d)
  BY <1>5, <1>9, <1>10, <1>11, <1>12, Zenon DEF Due
<1> QED
  BY <1>5, <1>13, Zenon DEF InTime

\* The first timer is taken off the list, and timeouts_last_time is advanced.
LEMMA TailInTime ==
  ASSUME NEW list, IsList(list), list # <<>>, NEW now \in Nat, InTime(list, now),
         NEW m, m = Tail(list)
  PROVE  list[1].time \in Nat /\ InTime(m, now - list[1].time)
<1>1. /\ IsList(m) /\ Placed(m, list, 1, list[1])
  BY TailEntry
<1>2. PICK n \in Nat : n = Len(m) /\ Len(list) = n + 1
  <2>1. Len(m) \in Nat /\ Len(list) = Len(m) + 1
    BY <1>1, ListLen, Zenon DEF Placed
  <2> QED
    BY <2>1, Zenon
<1>3. PICK D : Due(list, n + 1, D, now)
  BY <1>2, Zenon DEF InTime
<1>4. \A j \in 1..n : m[j] = list[j + 1]
  BY <1>1, <1>2 DEF Placed
<1>5. /\ \A j \in 0..(n + 1) : D[j] \in Int
      /\ \A j \in 1..(n + 1) : list[j].time \in Nat /\ D[j] = D[j - 1] + list[j].time
  <2>1. n + 1 \in Nat
    OBVIOUS
  <2> QED
    BY <1>3, <2>1, DueTypes, Zenon
<1>6. PICK t \in Nat : t = list[1].time
  BY <1>5
<1>7. D[1] = t
  <2>1. D[0] = 0 /\ 1 \in 1..(n + 1) /\ 1 - 1 = 0
    BY <1>3 DEF Due
  <2> QED
    BY <1>5, <1>6, <2>1
<1>8. PICK F : F = [j \in 0..n |-> D[j + 1] - t]
  BY Zenon
<1>9. ASSUME NEW j \in 1..n PROVE DueEntry(m[j], F[j - 1], F[j], now - t)
  <2>1. /\ j \in 0..n /\ j - 1 \in 0..n /\ (j - 1) + 1 = j /\ (j + 1) - 1 = j
        /\ j + 1 \in 1..(n + 1) /\ j \in 0..(n + 1) /\ j + 1 \in 0..(n + 1)
    OBVIOUS
  <2>2. F[j - 1] = D[j] - t /\ F[j] = D[j + 1] - t
    BY <1>8, <2>1
  <2>3. DueEntry(list[j + 1], D[j], D[j + 1], now)
    BY <1>3, <2>1 DEF Due
  <2>4. D[j] \in Int /\ D[j + 1] \in Int
    BY <1>5, <2>1
  <2>5. PICK x \in Int, y \in Int : x = D[j] /\ y = D[j + 1]
    BY <2>4
  <2>0. PICK e : e = list[j + 1]
    BY Zenon
  <2>6. e.time \in Nat /\ y = x + e.time /\ NotBefore(e, y, now)
    BY <2>3, <2>0, <2>5, Zenon DEF DueEntry
  <2>7. e.h \in Handlers
    BY <1>2, <2>1, <2>0, <2>5 DEF IsList
  <2>8. /\ x - t \in Int /\ y - t \in Int /\ now - t \in Int /\ now \in Int
        /\ (y - t) - (now - t) >= y - now
    OBVIOUS
  <2>9. NotBefore(e, y - t, now - t)
    BY <2>6, <2>7, <2>8, StaysDue, Zenon
  <2>10. y - t = (x - t) + e.time
    BY <2>6
  <2>11. DueEntry(e, x - t, y - t, now - t)
    BY <2>6, <2>8, <2>9, <2>10, Zenon DEF DueEntry
  <2> QED
    BY <1>4, <2>2, <2>0, <2>5, <2>11, Zenon
<1>10. DOMAIN F = 0..n /\ F[0] = 0
  <2>1. 0 \in 0..n /\ 0 + 1 = 1
    OBVIOUS
  <2> QED
    BY <1>7, <1>8, <2>1
<1>11. Due(m, n, F, now - t)
  BY <1>2, <1>9, <1>10, Zenon DEF Due
<1> QED
  BY <1>2, <1>6, <1>11, Zenon DEF InTime

\* Time goes on, and the timers age.
LEMMA TickInTime ==
  ASSUME AgesSuffice, NEW list, IsList(list), NEW now \in Nat, InTime(list, now),
         NEW m, Older(list, m)
  PROVE  InTime(m, now + 1)
<1>1. PICK n \in Nat : n = Len(list)
  BY ListLen
<1>2. PICK D : Due(list, n, D, now)
  BY <1>1, Zenon DEF InTime
<1>3. Len(m) = n /\ \A j \in 1..n : HasAge(m[j], list[j], OlderAge(list[j]))
  BY <1>1, Zenon DEF Older
<1>4. ASSUME NEW j \in 1..n PROVE DueEntry(m[j], D[j - 1], D[j], now + 1)
  <2>1. PICK e, f, x, y, M : e = list[j] /\ f = m[j] /\ x = D[j - 1] /\ y = D[j] /\ M = Msecs[e.h]
    BY Zenon
  <2>2. e.time \in Nat /\ x \in Int /\ y = x + e.time /\ NotBefore(e, y, now)
    BY <1>2, <2>1, Zenon DEF Due, DueEntry
  <2>3. f.h = e.h /\ f.time = e.time /\ f.age = OlderAge(e)
    BY <1>3, <2>1, Zenon DEF HasAge
  <2>4. e.h \in Handlers
    BY <1>1, <2>1 DEF IsList
  <2>5. M \in Nat /\ M <= MaxAge /\ MaxAge \in Nat
    BY <2>1, <2>4, TimeoutsConstants DEF AgesSuffice
  <2>6. PICK a \in Nat : a = e.age /\ (a >= M \/ a + y - now >= M)
    BY <2>1, <2>2, Zenon DEF NotBefore
  <2>7. PICK b : b = f.age
    BY Zenon
  <2>8. b = IF a < MaxAge THEN a + 1 ELSE a
    BY <2>3, <2>6, <2>7, Zenon DEF OlderAge
  <2>9. b \in Nat /\ (b >= M \/ b + y - (now + 1) >= M)
    BY <2>2, <2>5, <2>6, <2>8
  <2>10. NotBefore(f, y, now + 1)
    BY <2>1, <2>3, <2>7, <2>9, Zenon DEF NotBefore
  <2>11. DueEntry(f, x, y, now + 1)
    BY <2>2, <2>3, <2>10, Zenon DEF DueEntry
  <2> QED
    BY <2>1, <2>11, Zenon
<1>5. DOMAIN D = 0..n /\ D[0] = 0
  BY <1>2 DEF Due
<1>6. Due(m, n, D, now + 1)
  BY <1>3, <1>4, <1>5, Zenon DEF Due
<1> QED
  BY <1>3, <1>6, Zenon DEF InTime

\* A timer set when there is none.
LEMMA OnlyInTime ==
  ASSUME NEW h \in Handlers, NEW m, m = <<Entry(h, Msecs[h], 0)>>
  PROVE  InTime(m, 0)
<1>1. PICK s \in Nat : s = Msecs[h]
  BY TimeoutsConstants
<1>2. PICK e : e = Entry(h, s, 0)
  BY Zenon
<1>3. e.h = h /\ e.time = s /\ e.age = 0
  BY <1>2, TimeoutsConstants DEF Entry
<1>4. Len(m) = 1 /\ m[1] = e
  BY <1>1, <1>2
<1>5. PICK D : D = [j \in 0..1 |-> IF j = 0 THEN 0 ELSE s]
  BY Zenon
<1>6. DOMAIN D = 0..1 /\ D[0] = 0 /\ D[1] = s
  BY <1>5
<1>7. NotBefore(e, s, 0)
  BY <1>1, <1>3 DEF NotBefore
<1>8. DueEntry(e, 0, s, 0)
  BY <1>3, <1>7 DEF DueEntry
<1>9. ASSUME NEW j \in 1..1 PROVE DueEntry(m[j], D[j - 1], D[j], 0)
  <2>1. j = 1 /\ j - 1 = 0
    OBVIOUS
  <2> QED
    BY <1>4, <1>6, <1>8, <2>1, Zenon
<1>10. Due(m, 1, D, 0)
  BY <1>4, <1>6, <1>9, Zenon DEF Due
<1> QED
  BY <1>4, <1>10, Zenon DEF InTime

\* sys_timeout, with an entry left in the pool.
LEMMA TimeoutInTime ==
  ASSUME AgesSuffice, NEW list, IsList(list), Len(list) < PoolSize, NEW d \in Nat, InTime(list, d),
         NEW h \in Handlers, NEW m, m = sys_timeout(list, d, h).list
  PROVE  IF list = <<>> THEN InTime(m, 0) ELSE InTime(m, d)
<1>1. Len(list) \in Nat /\ PoolSize \in Nat /\ DOMAIN list = 1..Len(list)
  BY ListLen, TimeoutsConstants
<1>2. CASE list = <<>>
  <2>1. m = <<Entry(h, Msecs[h], 0)>>
    BY <1>1, <1>2 DEF sys_timeout
  <2> QED
    BY <1>2, <2>1, OnlyInTime, Zenon
<1>3. CASE list # <<>> /\ list[1].time > Msecs[h]
  <2>1. PICK e : e = Entry(h, Msecs[h] + d, d)
    BY Zenon
  <2>2. IsEntry(e) /\ e.h = h
    BY <2>1, EntryOf
  <2>3. PICK l, t : t = list[1].time - Msecs[h] /\ l = [list EXCEPT ![1].time = @ - Msecs[h]]
    BY Zenon
  <2>4. IsList(l) /\ Changed(list, l, 1, t)
    <3>1. 1 \in 1..Len(list)
      BY <1>3 DEF IsList
    <3>2. l = [list EXCEPT ![1].time = t]
      BY <2>3
    <3> QED
      BY <3>1, <3>2, SetTime, Zenon
  <2>5. m = <<e>> \o l
    BY <1>1, <1>3, <2>1, <2>3 DEF sys_timeout, InsertHead
  <2>6. Placed(l, m, 1, e)
    BY <2>2, <2>4, <2>5, NewEntry, Zenon
  <2>7. InTime(m, d)
    BY <1>3, <2>1, <2>3, <2>4, <2>6, HeadInTime, Zenon
  <2> QED
    BY <1>3, <2>7, Zenon
<1>4. CASE list # <<>> /\ ~(list[1].time > Msecs[h])
  <2>1. PICK i, n : i = Place(list, h, d) /\ n = Len(list)
    BY Zenon
  <2>2. PICK D : Due(list, n, D, d) /\ n \in Nat
    BY <1>1, <2>1, Zenon DEF InTime
  <2>3. i \in 1..n /\ D[i] <= Msecs[h] + d /\ (i < n => list[i + 1].time > Msecs[h] + d - D[i])
    BY <1>4, <2>1, <2>2, PlaceIsLate, Zenon
  <2>4. m = InsertAfter(list, i, h, d)
    BY <1>1, <1>4, <2>1 DEF sys_timeout
  <2>5. DueAt(list, i) = D[i]
    <3>1. i \in 0..Len(list)
      BY <1>1, <2>1, <2>3
    <3> QED
      BY <2>1, <2>2, <3>1, DueAtIs, Zenon
  <2>6. PICK time : time = Msecs[h] + d - D[i]
    BY Zenon
  <2>7. CASE i < n
    <3>0. PICK t : t = list[i + 1].time - time
      BY Zenon
    <3>1. PICK e, l : e = Entry(h, time, d) /\ l = [list EXCEPT ![i + 1].time = @ - time]
      BY Zenon
    <3>2. IsEntry(e) /\ e.h = h
      BY <3>1, EntryOf
    <3>3. i + 1 \in 1..n
      BY <2>2, <2>3, <2>7
    <3>4. IsList(l) /\ Changed(list, l, i + 1, t) /\ i + 1 \in 1..Len(l)
      <4>1. l = [list EXCEPT ![i + 1].time = t]
        BY <3>0, <3>1
      <4>2. IsList(l) /\ SameHandlers(list, l) /\ Changed(list, l, i + 1, t)
        BY <2>1, <3>3, <4>1, SetTime, Zenon
      <4> QED
        BY <2>1, <3>3, <4>2, Zenon DEF SameHandlers
    <3>5. m = Link(l, i + 1, e)
      BY <2>1, <2>4, <2>5, <2>6, <2>7, <3>1 DEF InsertAfter
    <3>6. Placed(l, m, i + 1, e)
      BY <3>2, <3>4, <3>5, NewEntry, Zenon
    <3>7. InTime(m, d)
      BY <2>2, <2>3, <2>6, <2>7, <3>0, <3>1, <3>4, <3>6, MiddleInTime, Zenon
    <3> QED
      BY <1>4, <3>7, Zenon
  <2>8. CASE i = n
    <3>1. PICK u : u = IF time > Msecs[h] THEN Msecs[h] + list[1].time ELSE time
      BY Zenon
    <3>2. PICK e : e = Entry(h, u, d)
      BY Zenon
    <3>3. IsEntry(e) /\ e.h = h
      BY <3>2, EntryOf
    <3>4. m = Append(list, e)
      <4>1. ~(i < Len(list))
        BY <1>1, <2>1, <2>8
      <4> QED
        BY <2>4, <2>5, <2>6, <3>1, <3>2, <4>1, Zenon DEF InsertAfter
    <3>5. Placed(list, m, n + 1, e)
      BY <2>1, <3>3, <3>4, NewEntry, Zenon
    <3>6. D[n] <= Msecs[h] + d
      BY <2>3, <2>8, Zenon
    <3>7. u = IF Msecs[h] + d - D[n] > Msecs[h] THEN Msecs[h] + list[1].time ELSE Msecs[h] + d - D[n]
      BY <2>6, <2>8, <3>1, Zenon
    <3>8. InTime(m, d)
      BY <1>4, <2>2, <3>2, <3>5, <3>6, <3>7, EndInTime, Zenon
    <3> QED
      BY <1>4, <3>8, Zenon
  <2> QED
    <3>1. i < n \/ i = n
      BY <2>2, <2>3
    <3> QED
      BY <2>7, <2>8, <3>1, Zenon
<1> QED
  BY <1>2, <1>3, <1>4

\* sys_untimeout.
LEMMA UntimeoutInTime ==
  ASSUME NEW list, IsList(list), NEW d \in Nat, InTime(list, d), NEW h,
         NEW m, m = sys_untimeout(list, h)
  PROVE  InTime(m, d)
<1>0. PICK n \in Nat : n = Len(list)
  BY ListLen
<1>2. PICK I, i : I = Of(list, h) /\ i = Min(I)
  BY Zenon
<1>5. m =
        CASE I = {} -> list
          [] I # {} /\ i = Len(list) -> Unlink(list, i)
          [] OTHER -> Unlink([list EXCEPT ![i + 1].time = @ + list[i].time], i)
  BY <1>2, Zenon DEF sys_untimeout, Of
<1>6. CASE I = {}
  <2>1. m = list
    BY <1>5, <1>6
  <2> QED
    BY <2>1, Zenon
<1>7. CASE I # {}
  <2>1. I \in SUBSET Nat /\ I \in SUBSET (1..n)
    BY <1>0, <1>2 DEF Of
  <2>2. i \in I
    BY <1>2, <1>7, <2>1, LeastNumber, Zenon DEF Min
  <2>3. i \in 1..n /\ i \in 1..Len(list)
    BY <1>0, <2>1, <2>2
  <2>4. CASE i = Len(list)
    <3>1. m = Unlink(list, i)
      BY <1>5, <1>7, <2>4
    <3>2. Placed(m, list, i, list[i]) /\ Len(m) \in Nat
      BY <2>3, <3>1, OldEntry, ListLen, Zenon
    <3> QED
      BY <2>3, <2>4, <3>2, CancelInTime, Zenon
  <2>5. CASE i # Len(list)
    <3>1. i + 1 \in 1..Len(list) /\ i < Len(list)
      BY <1>0, <2>3, <2>5
    <3>2. PICK l, t : /\ t = list[i + 1].time + list[i].time
                      /\ l = [list EXCEPT ![i + 1].time = @ + list[i].time]
      BY Zenon
    <3>3. l = [list EXCEPT ![i + 1].time = t]
      BY <3>2
    <3>4. IsList(l) /\ Changed(list, l, i + 1, t)
      BY <3>1, <3>3, SetTime, Zenon
    <3>5. m = Unlink(l, i)
      BY <1>5, <1>7, <2>5, <3>2
    <3>6. i \in 1..Len(l)
      BY <2>3, <3>4, Zenon DEF Changed
    <3>7. Placed(m, l, i, l[i]) /\ Len(m) \in Nat
      BY <3>4, <3>5, <3>6, OldEntry, ListLen, Zenon
    <3> QED
      BY <2>3, <3>1, <3>2, <3>4, <3>7, CancelInTime, Zenon
  <2> QED
    BY <2>4, <2>5
<1> QED
  BY <1>6, <1>7

\* No timers.
LEMMA NoneInTime ==
  InTime(<<>>, 0)
<1>1. PICK D : D = [j \in 0..0 |-> 0]
  BY Zenon
<1>2. Len(<<>>) = 0 /\ DOMAIN D = 0..0 /\ D[0] = 0 /\ ~ \E j \in 1..0 : TRUE
  BY <1>1
<1>3. Due(<<>>, 0, D, 0)
  BY <1>2, Zenon DEF Due
<1> QED
  BY <1>2, <1>3, Zenon DEF InTime

\* sys_timeouts_init.
LEMMA StartedInTime ==
  ASSUME PoolSuffices, AgesSuffice
  PROVE  InTime(Started[Len(Cyclic)], 0)
<1>1. PICK n \in Nat : n = Len(Cyclic)
  BY TimeoutsConstants
<1> DEFINE T == {k \in 0..n : ~ InTime(Started[k], 0)}
<1>2. SUFFICES ASSUME T # {} PROVE FALSE
  <2>1. n \in 0..n
    OBVIOUS
  <2> QED
    BY <1>1, <2>1
<1>3. PICK x \in T : \A y \in T : x <= y
  <2>1. T \in SUBSET Nat
    OBVIOUS
  <2> HIDE DEF T
  <2> QED
    BY <1>2, <2>1, LeastNumber, Zenon
<1>4. x \in 0..n /\ ~ InTime(Started[x], 0)
  OBVIOUS
<1>5. CASE x = 0
  <2>1. Started[x] = <<>>
    BY <1>1, <1>4, <1>5, StartedStep
  <2> QED
    BY <1>4, <2>1, NoneInTime, Zenon
<1>6. CASE x # 0
  <2>1. x - 1 \in 0..n /\ ~(x <= x - 1) /\ x \in 1..n
    BY <1>4, <1>6
  <2>2. InTime(Started[x - 1], 0)
    BY <1>3, <2>1
  <2>3. PICK l, m, h : l = Started[x - 1] /\ m = Started[x] /\ h = Cyclic[x]
    BY Zenon
  <2>4. m = sys_timeout(l, 0, h).list
    BY <1>1, <1>4, <1>6, <2>3, StartedStep DEF Step
  <2>5. StartedUpTo(x - 1)
    BY <1>1, <2>1, StartedTimers, Zenon
  <2>6. Ready(l, h)
    BY <1>1, <2>1, <2>3, <2>5, StartedReady, Zenon
  <2>7. IsList(l) /\ h \in Handlers /\ Len(l) < PoolSize
    BY <2>6, PoolHasRoom, Zenon DEF Ready
  <2>8. 0 \in Nat
    OBVIOUS
  <2>9. IF l = <<>> THEN InTime(m, 0) ELSE InTime(m, 0)
    BY <2>2, <2>3, <2>4, <2>7, <2>8, TimeoutInTime, Zenon
  <2> QED
    BY <1>4, <2>3, <2>9, Zenon
<1> QED
  BY <1>5, <1>6

-----------------------------------------------------------------------------
(* No timer is early.  While sys_check_timeouts runs, the time it has left *)
(* is no more than has passed, so what it lets fire is due.                *)

\* There are other timers than one that fires: sys_timeout does not find the
\* list empty, which would make it reset timeouts_last_time.
SeveralTimers == Len(Cyclic) >= 2

LEMMA OthersStay ==
  ASSUME SeveralTimers, NEW list, NEW active, NEW p, Timers(list, active, p), NEW h, Fires(list, h)
  PROVE  Tail(list) # <<>>
<1>1. PICK n \in Nat : n = Len(Cyclic) /\ n >= 2
  BY TimeoutsConstants DEF SeveralTimers
<1>2. PICK f, g : f = Cyclic[1] /\ g = Cyclic[2]
  BY Zenon
<1>3. f \in Range(Cyclic) /\ g \in Range(Cyclic) /\ f # g
  BY <1>1, <1>2, TimeoutsConstants DEF Range
<1>4. IsList(list) /\ Count(list, f) = 1 /\ Count(list, g) = 1 /\ list # <<>>
  BY <1>3, Zenon DEF Timers, Fires
<1>5. ASSUME NEW c, Count(list, c) = 1 PROVE \E i \in 1..Len(list) : list[i].h = c
  <2>1. Of(list, c) # {}
    BY <1>5, FS_EmptySet DEF Count
  <2> QED
    BY <2>1 DEF Of
<1>6. SUFFICES ASSUME Tail(list) = <<>> PROVE FALSE
  OBVIOUS
<1>7. Len(list) = 1
  <2>1. Placed(Tail(list), list, 1, list[1])
    BY <1>4, TailEntry, Zenon
  <2>2. Len(list) = Len(Tail(list)) + 1
    BY <2>1, Zenon DEF Placed
  <2>3. Len(Tail(list)) = Len(<<>>)
    BY <1>6, Zenon
  <2>4. Len(<<>>) = 0 /\ 0 + 1 = 1
    OBVIOUS
  <2> QED
    BY <2>2, <2>3, <2>4, Zenon
<1>8. \A i \in 1..Len(list) : i = 1
  BY <1>7
<1>9. list[1].h = f /\ list[1].h = g
  BY <1>4, <1>5, <1>8, Zenon
<1> QED
  BY <1>3, <1>9

Punctual(list, now, left) ==
  now \in Nat /\ left \in Int /\ left <= now /\ InTime(list, now)
PunctualInv == Punctual(next_timeout, elapsed, diff)

\* The clock does not get a whole range ahead of timeouts_last_time.
InRange == elapsed + 1 < ClockMod

\* sys_timeout.
LEMMA SetPunctual ==
  ASSUME PoolSuffices, AgesSuffice, NEW list, NEW h, Ready(list, h),
         NEW now, NEW left, Punctual(list, now, left), list # <<>> \/ left = -1,
         NEW m, NEW then, m = sys_timeout(list, now, h).list, then = sys_timeout(list, now, h).d
  PROVE  Punctual(m, then, left)
<1>1. IsList(list) /\ h \in Handlers /\ Len(list) < PoolSize
  BY PoolHasRoom, Zenon DEF Ready
<1>2. now \in Nat /\ left \in Int /\ left <= now /\ InTime(list, now)
  BY Zenon DEF Punctual
<1>3. IF list = <<>> THEN InTime(m, 0) ELSE InTime(m, now)
  BY <1>1, <1>2, TimeoutInTime, Zenon
<1>4. ~(Len(list) >= PoolSize) /\ PoolSize > 0
  BY <1>1, ListLen, TimeoutsConstants
<1>5. CASE list = <<>>
  <2>1. then = 0
    BY <1>4, <1>5 DEF sys_timeout
  <2>2. left <= 0 /\ 0 \in Nat
    BY <1>5
  <2> QED
    BY <1>2, <1>3, <1>5, <2>1, <2>2, Zenon DEF Punctual
<1>6. CASE list # <<>>
  <2>1. then = now
    BY <1>4, <1>6 DEF sys_timeout
  <2> QED
    BY <1>2, <1>3, <1>6, <2>1, Zenon DEF Punctual
<1> QED
  BY <1>5, <1>6

\* The first timer expires.
Expires(list, now, left, h, rest, then) ==
  /\ Fires(list, h) /\ list[1].time <= left
  /\ rest = left - list[1].time /\ then = (now - list[1].time) % ClockMod

LEMMA TailPunctual ==
  ASSUME NEW list, IsList(list), NEW now, NEW left, Punctual(list, now, left), now + 1 < ClockMod,
         NEW h, NEW rest, NEW then, Expires(list, now, left, h, rest, then)
  PROVE  Punctual(Tail(list), then, rest)
<1>1. now \in Nat /\ left \in Int /\ left <= now /\ InTime(list, now)
  BY Zenon DEF Punctual
<1>2. list # <<>>
  BY Zenon DEF Expires, Fires
<1>3. PICK t, l : t = list[1].time /\ l = Tail(list)
  BY Zenon
<1>4. t \in Nat /\ InTime(l, now - t)
  BY <1>1, <1>2, <1>3, TailInTime, Zenon
<1>5. t <= left /\ rest = left - t /\ then = (now - t) % ClockMod
  BY <1>3, Zenon DEF Expires
<1>6. ClockMod \in Nat /\ ClockMod > 0
  BY TimeoutsConstants
<1>7. now - t \in Nat /\ now - t < ClockMod
  BY <1>1, <1>4, <1>5, <1>6
<1>8. then = now - t
  BY <1>5, <1>6, <1>7
<1>9. then \in Nat /\ rest \in Int /\ rest <= then
  BY <1>1, <1>4, <1>5, <1>7, <1>8
<1> QED
  BY <1>3, <1>4, <1>8, <1>9, Zenon DEF Punctual

\* The timer is set again, or not.
LEMMA FiredPunctual ==
  ASSUME PoolSuffices, AgesSuffice, SeveralTimers,
         NEW list, NEW active, NEW p, Timers(list, active, p),
         NEW now, NEW left, Punctual(list, now, left), now + 1 < ClockMod,
         NEW h, NEW rest, NEW then, Expires(list, now, left, h, rest, then),
         NEW m, NEW later,
         \/ m = Tail(list) /\ later = then
         \/ /\ m = sys_timeout(Tail(list), then, h).list
            /\ later = sys_timeout(Tail(list), then, h).d
  PROVE  Punctual(m, later, rest)
<1>1. IsList(list) /\ Fires(list, h)
  BY Zenon DEF Timers, Expires
<1>2. PICK t : t = Tail(list)
  BY Zenon
<1>3. Punctual(t, then, rest)
  BY <1>1, <1>2, TailPunctual, Zenon
<1>4. Ready(t, h)
  BY <1>1, <1>2, FiredReady, Zenon
<1>5. t # <<>>
  BY <1>1, <1>2, OthersStay, Zenon
<1>6. CASE m = t /\ later = then
  BY <1>3, <1>6, Zenon
<1>7. CASE m = sys_timeout(t, then, h).list /\ later = sys_timeout(t, then, h).d
  BY <1>3, <1>4, <1>5, <1>7, SetPunctual, Zenon
<1> QED
  BY <1>2, <1>6, <1>7, Zenon

LEMMA PunctualStart ==
  ASSUME PoolSuffices, AgesSuffice, TimeoutsInit
  PROVE  PunctualInv
<1>1. next_timeout = Started[Len(Cyclic)] /\ elapsed = 0 /\ diff = -1
  BY Zenon DEF TimeoutsInit
<1>2. 0 \in Nat /\ -1 \in Int /\ -1 <= 0
  OBVIOUS
<1>3. InTime(next_timeout, 0)
  BY <1>1, StartedInTime, Zenon
<1> QED
  BY <1>1, <1>2, <1>3, Zenon DEF PunctualInv, Punctual

\* A timer of h can be set when there is none of the stack's, or few enough of the
\* application's.
LEMMA ReadyToSet ==
  ASSUME NEW list, NEW active, NEW p, Timers(list, active, p), NEW h \in Handlers,
         IF h = App THEN Count(list, App) < MaxApp ELSE Count(list, h) = 0
  PROVE  Ready(list, h)
<1>1. \A g \in Stack : Count(list, g) <= 1
  BY AtMostOne, Zenon
<1> QED
  BY <1>1, Zenon DEF Ready, Timers

\* Outside of sys_check_timeouts.
LEMMA PunctualOutside ==
  ASSUME PoolSuffices, AgesSuffice, TimersInv, PunctualInv,
         TcpRegister \/ TcpRemove \/ AppTimeout \/ AppUntimeout
  PROVE  PunctualInv'
<1>1. PICK list, now, left, active, p, m, then :
        /\ list = next_timeout /\ now = elapsed /\ left = diff
        /\ active = tcpip_tcp_timer_active /\ p = pcbs
        /\ m = next_timeout' /\ then = elapsed'
  BY Zenon
<1>2. Timers(list, active, p) /\ IsList(list) /\ Punctual(list, now, left)
  BY <1>1, Zenon DEF TimersInv, PunctualInv, Timers
<1>3. left = -1 /\ diff' = left
  BY <1>1, Zenon DEF TcpRegister, TcpRemove, AppTimeout, AppUntimeout, InMainLoop
<1>4. SUFFICES Punctual(m, then, left)
  BY <1>1, <1>3, Zenon DEF PunctualInv
<1>5. CASE TcpRegister /\ ~active
  <2>1. m = sys_timeout(list, now, TCP).list /\ then = sys_timeout(list, now, TCP).d
    BY <1>1, <1>5, Zenon DEF TcpRegister, SetTimer
  <2>2. Count(list, TCP) = 0
    BY <1>2, <1>5, Zenon DEF Timers
  <2>3. Ready(list, TCP)
    BY <1>2, <2>2, ReadyToSet, Names, Zenon
  <2> QED
    BY <1>2, <1>3, <2>1, <2>3, SetPunctual, Zenon
<1>6. CASE (TcpRegister /\ active) \/ TcpRemove
  <2>1. m = list /\ then = now
    BY <1>1, <1>6, Zenon DEF TcpRegister, TcpRemove
  <2> QED
    BY <1>2, <2>1, Zenon
<1>7. CASE AppTimeout
  <2>1. m = sys_timeout(list, now, App).list /\ then = sys_timeout(list, now, App).d
    BY <1>1, <1>7, Zenon DEF AppTimeout, SetTimer
  <2>2. Count(list, App) < MaxApp
    BY <1>1, <1>2, <1>7, PendingIsCount, Zenon DEF AppTimeout
  <2>3. Ready(list, App)
    BY <1>2, <2>2, ReadyToSet, Names, Zenon
  <2> QED
    BY <1>2, <1>3, <2>1, <2>3, SetPunctual, Zenon
<1>8. CASE AppUntimeout
  <2>1. m = sys_untimeout(list, App) /\ then = now
    BY <1>1, <1>8, Zenon DEF AppUntimeout
  <2>2. now \in Nat /\ left \in Int /\ left <= now /\ InTime(list, now)
    BY <1>2, Zenon DEF Punctual
  <2>3. InTime(m, now)
    BY <1>2, <2>1, <2>2, UntimeoutInTime, Zenon
  <2> QED
    BY <2>1, <2>2, <2>3, Zenon DEF Punctual
<1> QED
  BY <1>5, <1>6, <1>7, <1>8, Zenon

\* In sys_check_timeouts, and as time goes on.
LEMMA PunctualInside ==
  ASSUME PoolSuffices, AgesSuffice, SeveralTimers, TimersInv, PunctualInv, InRange,
         Tick \/ CheckTimeouts
  PROVE  PunctualInv'
<1>1. PICK list, now, left, active, p, m, then, rest :
        /\ list = next_timeout /\ now = elapsed /\ left = diff
        /\ active = tcpip_tcp_timer_active /\ p = pcbs
        /\ m = next_timeout' /\ then = elapsed' /\ rest = diff'
  BY Zenon
<1>2. Timers(list, active, p) /\ IsList(list) /\ Punctual(list, now, left) /\ now + 1 < ClockMod
  BY <1>1, Zenon DEF TimersInv, PunctualInv, Timers, InRange
<1>3. now \in Nat /\ left \in Int /\ left <= now /\ InTime(list, now)
  BY <1>2, Zenon DEF Punctual
<1>4. SUFFICES Punctual(m, then, rest)
  BY <1>1, Zenon DEF PunctualInv
<1>5. CASE Tick
  <2>1. /\ m = [i \in DOMAIN list |-> [list[i] EXCEPT !.age = IF @ < MaxAge THEN @ + 1 ELSE @]]
        /\ then = (now + 1) % ClockMod /\ rest = left
    BY <1>1, <1>5 DEF Tick
  <2>2. Older(list, m)
    BY <1>2, <2>1, AllAge, Zenon
  <2>3. InTime(m, now + 1)
    BY <1>2, <1>3, <2>2, TickInTime, Zenon
  <2>4. ClockMod \in Nat /\ ClockMod > 0
    BY TimeoutsConstants
  <2>5. then = now + 1 /\ then \in Nat /\ left <= then
    BY <1>2, <1>3, <2>1, <2>4
  <2> QED
    BY <1>3, <2>1, <2>3, <2>5, Zenon DEF Punctual
<1>6. CASE CheckBegin
  <2>1. m = list /\ then = now /\ rest = now
    BY <1>1, <1>6, Zenon DEF CheckBegin
  <2>2. now \in Int /\ now <= now
    BY <1>3
  <2> QED
    BY <1>3, <2>1, <2>2, Zenon DEF Punctual
<1>7. CASE CheckEnd
  <2>1. m = list /\ then = now /\ rest = -1
    BY <1>1, <1>7, Zenon DEF CheckEnd
  <2>2. -1 \in Int /\ -1 <= now
    BY <1>3
  <2> QED
    BY <1>3, <2>1, <2>2, Zenon DEF Punctual
<1>8. ASSUME NEW h, CyclicTimer(h) \/ (h = TCP /\ TcpTimer) \/ (h = App /\ AppTimer)
      PROVE  Punctual(m, then, rest)
  <2>1. PICK q : q = (now - list[1].time) % ClockMod
    BY Zenon
  <2>2. Expires(list, now, left, h, rest, q)
    BY <1>1, <1>8, <2>1, Zenon DEF CyclicTimer, TcpTimer, AppTimer, Expired, Expires, Fires
  <2>3. \/ m = Tail(list) /\ then = q
        \/ m = sys_timeout(Tail(list), q, h).list /\ then = sys_timeout(Tail(list), q, h).d
    BY <1>1, <1>8, <2>1, Zenon DEF CyclicTimer, TcpTimer, AppTimer, SetTimer, Advanced
  <2> QED
    BY <1>2, <2>2, <2>3, FiredPunctual, Zenon
<1> QED
  BY <1>5, <1>6, <1>7, <1>8, Zenon DEF CheckTimeouts

LEMMA PunctualStep ==
  PoolSuffices /\ AgesSuffice /\ SeveralTimers /\ TimersInv /\ PunctualInv /\ InRange
    /\ [TimeoutsNext]_toVars => PunctualInv'
<1>1. SUFFICES ASSUME PoolSuffices, AgesSuffice, SeveralTimers, TimersInv, PunctualInv, InRange,
                      [TimeoutsNext]_toVars
               PROVE  PunctualInv'
  OBVIOUS
<1>2. CASE UNCHANGED toVars
  <2>1. next_timeout' = next_timeout /\ elapsed' = elapsed /\ diff' = diff
    BY <1>2, Zenon DEF toVars
  <2> QED
    BY <1>1, <2>1, Zenon DEF PunctualInv, Punctual, InTime, Due, DueEntry, NotBefore
<1> QED
  BY <1>1, <1>2, PunctualOutside, PunctualInside, Zenon DEF TimeoutsNext

\* What expires is due.
LEMMA ExpiredIsDue ==
  ASSUME TimersInv, PunctualInv, NEW h \in Handlers, Expired(h)
  PROVE  next_timeout[1].age >= Msecs[h]
<1>1. PICK list, now, left, e : list = next_timeout /\ now = elapsed /\ left = diff /\ e = list[1]
  BY Zenon
<1>2. IsList(list) /\ Punctual(list, now, left)
  BY <1>1, Zenon DEF TimersInv, Timers, PunctualInv
<1>3. e.h = h /\ e.time <= left /\ list # <<>>
  BY <1>1, Zenon DEF Expired
<1>4. now \in Nat /\ left \in Int /\ left <= now /\ InTime(list, now)
  BY <1>2, Zenon DEF Punctual
<1>5. PICK D : Due(list, Len(list), D, now)
  BY <1>4, Zenon DEF InTime
<1>6. 1 \in 1..Len(list)
  BY <1>2, <1>3, TailEntry, Zenon
<1>7. D[1] = e.time /\ D[1] \in Nat
  BY <1>1, <1>2, <1>5, <1>6, FirstIsFirst, Zenon
<1>8. NotBefore(e, D[1], now)
  BY <1>1, <1>5, <1>6, Zenon DEF Due, DueEntry
<1>9. PICK t \in Nat : t = e.time
  BY <1>7
<1>10. PICK a \in Nat, s \in Nat : a = e.age /\ s = Msecs[h]
  <2>1. e.age \in Nat
    BY <1>8, Zenon DEF NotBefore
  <2>2. Msecs[h] \in Nat
    BY TimeoutsConstants
  <2> QED
    BY <2>1, <2>2, Zenon
<1>11. a >= s \/ a + t - now >= s
  BY <1>3, <1>7, <1>8, <1>9, <1>10, Zenon DEF NotBefore
<1>12. t <= left
  BY <1>3, <1>9, Zenon
<1>13. a >= s
  BY <1>4, <1>11, <1>12
<1> QED
  BY <1>1, <1>10, <1>13, Zenon

\* No timer fires before its time, for any timers, intervals and lag, however many
\* timers are set and cancelled around it, while handlers run or between two calls
\* of sys_check_timeouts.  There are at least two cyclic timers, the pool has
\* room for all timers, and sys_now does not get a whole range of the clock, 49
\* days, ahead of timeouts_last_time.
THEOREM TimersAreNotEarly ==
  ASSUME PoolSuffices, AgesSuffice, SeveralTimers
  PROVE  TimeoutsSpec /\ []InRange => NotEarly
<1>1. TimeoutsInit => TimersInv /\ PunctualInv
  BY TimersStart, PunctualStart
<1>2. TimersInv /\ PunctualInv /\ InRange /\ [TimeoutsNext]_toVars => TimersInv' /\ PunctualInv'
  BY TimersStep, PunctualStep
<1>3. /\ TimersInv /\ PunctualInv
      => [\A h \in Handlers : Expired(h) => next_timeout[1].age >= Msecs[h]]_toVars
  BY ExpiredIsDue
<1> QED
  BY <1>1, <1>2, <1>3, PTL DEF TimeoutsSpec, NotEarly
=============================================================================

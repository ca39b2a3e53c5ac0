--------------------------- MODULE LogFile_proofs ---------------------------
(***************************************************************************)
(* Proofs about LogFile, for groups, hashes and logs of any length.         *)
(*                                                                         *)
(* The n-th status of a log has the time n and the first one the id, so     *)
(* that everything the writer has is determined by how many statuses and    *)
(* groups there are: where each byte, time and group lies is part of the    *)
(* invariant.                                                               *)
(***************************************************************************)
EXTENDS LogFile, FiniteSetTheorems, TLAPS

\* The first package of a group, and the place of its first time.
First(k) == k * Group
Base(k) == k * (Group + 1)

LEMMA Sizes == Group \in Nat /\ Hashed \in Nat /\ MaxTime \in Nat /\ MaxTime > 0
               /\ Hashed > 2 /\ Group >= Hashed
BY WriterAssumption

\* A product of a sum.
LEMMA Distributes ==
    ASSUME NEW a \in Int, NEW b \in Int, NEW c \in Int
    PROVE  (a + b) * c = a * c + b * c /\ a * c \in Int
OBVIOUS

LEMMA Grows ==
    ASSUME NEW a \in Nat, NEW b \in Nat, NEW c \in Nat, a < b
    PROVE  a * c + c <= b * c
<1> DEFINE d == b - a - 1
<1>1. d \in Nat /\ b = (a + 1) + d
  OBVIOUS
<1> HIDE DEF d
<1>2. d * c \in Nat
  BY <1>1
<1>3. b * c = (a + 1) * c + d * c /\ (a + 1) * c = a * c + c /\ a * c \in Int
  BY <1>1, Distributes
<1> QED BY <1>2, <1>3

\* Where groups start.
LEMMA Places ==
    ASSUME NEW k \in Nat
    PROVE  /\ First(k) \in Nat /\ Base(k) \in Nat /\ Base(k) >= First(k)
           /\ First(k + 1) = First(k) + Group /\ Base(k + 1) = Base(k) + Group + 1
           /\ First(0) = 0 /\ Base(0) = 0 /\ First(1) = Group /\ Base(1) = Group + 1
           /\ k <= First(k)
<1>1. k * Group \in Nat /\ k * (Group + 1) \in Nat
  BY Sizes
<1>2. (k + 1) * Group = k * Group + Group
  BY Sizes, Distributes
<1>3. k * (Group + 1) = k * Group + k
  BY Sizes
<1>4. (k + 1) * (Group + 1) = k * (Group + 1) + (Group + 1)
  <2> DEFINE c == Group + 1
  <2>1. c \in Int
    BY Sizes
  <2> HIDE DEF c
  <2>2. (k + 1) * c = k * c + c
    BY <2>1, Distributes
  <2> QED BY <2>2 DEF c
<1>5. k <= k * Group
  <2> DEFINE c == Group - 1
  <2>1. c \in Nat /\ Group = c + 1
    BY Sizes
  <2> HIDE DEF c
  <2>2. k * Group = k * c + k /\ k * c \in Nat
    BY <2>1
  <2> QED BY <2>2
<1>6. k * (Group + 1) \in Nat /\ k * (Group + 1) >= k * Group
  BY <1>1, <1>3
<1> QED BY <1>1, <1>2, <1>4, <1>5, <1>6, Sizes DEF First, Base

LEMMA Ordered ==
    ASSUME NEW j \in Nat, NEW k \in Nat, j < k
    PROVE  First(j) + Group <= First(k) /\ Base(j) + Group + 1 <= Base(k)
<1>1. j * Group + Group <= k * Group
  BY Sizes, Grows
<1>2. j * (Group + 1) + (Group + 1) <= k * (Group + 1)
  <2> DEFINE c == Group + 1
  <2>1. c \in Nat
    BY Sizes
  <2> HIDE DEF c
  <2>2. j * c + c <= k * c
    BY <2>1, Grows
  <2> QED BY <2>2 DEF c
<1>3. j * (Group + 1) \in Nat /\ k * (Group + 1) \in Nat
  BY Sizes
<1> QED BY <1>1, <1>2, <1>3, Sizes DEF First, Base

\* A number has one quotient and one remainder.
LEMMA Quotient ==
    ASSUME NEW c \in Nat, c > 0, NEW k \in Nat, NEW i \in 0..(c - 1)
    PROVE  (k * c + i) \div c = k /\ (k * c + i) % c = i
<1> DEFINE n == k * c + i
           q == n \div c
           r == n % c
<1>1. n \in Nat
  OBVIOUS
<1>2. q \in Int /\ r \in 0..(c - 1) /\ n = c * q + r
  BY <1>1
<1> HIDE DEF q, r
<1>3. q >= 0
  <2> SUFFICES ASSUME q < 0 PROVE FALSE
    BY <1>2
  <2> DEFINE p == -q
  <2>1. p \in Nat /\ p > 0 /\ c * q = -(c * p) /\ c * p \in Nat
    BY <1>2
  <2> HIDE DEF p
  <2>2. c * p >= c
    BY <2>1
  <2> QED BY <1>1, <1>2, <2>1, <2>2
<1>4. q = k
  <2>1. CASE q < k
    <3>1. q * c + c <= k * c
      BY <1>2, <1>3, <2>1, Grows
    <3>2. q * c \in Int /\ k * c \in Int /\ c * q = q * c
      BY <1>2
    <3> QED BY <1>2, <3>1, <3>2
  <2>2. CASE k < q
    <3>1. k * c + c <= q * c
      BY <1>2, <1>3, <2>2, Grows
    <3>2. q * c \in Int /\ k * c \in Int /\ c * q = q * c
      BY <1>2
    <3> QED BY <1>2, <3>1, <3>2
  <2> QED BY <1>2, <2>1, <2>2
<1>5. r = i
  <2>1. c * q = k * c /\ k * c \in Int
    BY <1>4
  <2> QED BY <1>2, <2>1
<1> QED BY <1>4, <1>5 DEF q, r

LEMMA InGroup ==
    ASSUME NEW k \in Nat, NEW i \in 0..(Group - 1)
    PROVE  (First(k) + i) \div Group = k /\ (First(k) + i) % Group = i
BY Sizes, Quotient DEF First

LEMMA InItems ==
    ASSUME NEW k \in Nat, NEW i \in 0..Group
    PROVE  (Base(k) + i) \div (Group + 1) = k
<1> DEFINE c == Group + 1
<1>1. c \in Nat /\ c > 0 /\ i \in 0..(c - 1)
  BY Sizes
<1> HIDE DEF c
<1>2. (k * c + i) \div c = k
  BY <1>1, Quotient
<1> QED BY <1>2 DEF c, Base

\* Every package is in a group.
LEMMA Grouped ==
    ASSUME NEW n \in Nat
    PROVE  \E k \in Nat, i \in 0..(Group - 1) : n = First(k) + i
<1> DEFINE q == n \div Group
           r == n % Group
<1>1. q \in Int /\ r \in 0..(Group - 1) /\ n = Group * q + r
  BY Sizes
<1> HIDE DEF q, r
<1>2. q >= 0
  <2> SUFFICES ASSUME q < 0 PROVE FALSE
    BY <1>1
  <2> DEFINE p == -q
  <2>1. p \in Nat /\ p > 0 /\ Group * q = -(Group * p) /\ Group * p \in Nat
    BY <1>1, Sizes
  <2> HIDE DEF p
  <2>2. Group * p >= Group
    BY <2>1, Sizes
  <2> QED BY <1>1, <2>1, <2>2, Sizes
<1>3. n = First(q) + r
  BY <1>1, Sizes DEF First
<1> QED BY <1>1, <1>2, <1>3
-----------------------------------------------------------------------------
(* Packages and buffers.                                                     *)

\* The n-th status of a log, and the n-th package, from 0 on, of one of T statuses.
Nth(n) == [time |-> n, id |-> n = 1]
Pack(n, T) == IF n < T THEN Nth(n + 1) ELSE Padding
Packs == Statuses \cup {Padding}

LEMMA PackIs ==
    ASSUME NEW n \in Nat, NEW T \in 0..MaxTime
    PROVE  /\ Pack(n, T) \in Packs
           /\ n < T => Pack(n, T) = Nth(n + 1) /\ Pack(n, T) \in Statuses /\ Pack(n, T) # Padding
                       /\ Pack(n, T).time = n + 1
           /\ n >= T => Pack(n, T) = Padding /\ Pack(n, T).time = 0
BY Sizes DEF Pack, Packs, Nth, Statuses, Padding

LEMMA SizeIs ==
    ASSUME NEW s \in Packs
    PROVE  /\ Size(s) \in Nat /\ (Size(s) = 0 <=> s = Padding)
           /\ s.time \in 0..MaxTime /\ (s.time = 0 <=> s = Padding)
           /\ Serialized(s) \in Seq(Statuses) /\ Len(Serialized(s)) = Size(s)
           /\ \A i \in 1..Size(s) : Serialized(s)[i] = s
<1>1. Size(s) \in Nat /\ (Size(s) = 0 <=> s = Padding)
  <2>1. CASE s = Padding
    BY <2>1 DEF Size
  <2>2. CASE s \in Statuses /\ s # Padding
    BY <2>2 DEF Size, Statuses
  <2> QED BY <2>1, <2>2 DEF Packs
<1>2. s # Padding => s \in Statuses
  BY DEF Packs
<1>3. s.time \in 0..MaxTime /\ (s.time = 0 <=> s = Padding)
  BY Sizes DEF Packs, Statuses, Padding
<1> DEFINE n == Size(s)
<1> HIDE DEF n
<1>4. n \in Nat /\ Serialized(s) = [i \in 1..n |-> s] /\ (n # 0 => s \in Statuses)
  BY <1>1, <1>2 DEF Serialized, n
<1>5. /\ Serialized(s) \in Seq(Statuses) /\ Len(Serialized(s)) = n
      /\ \A i \in 1..n : Serialized(s)[i] = s
  BY <1>4
<1> QED BY <1>1, <1>3, <1>5 DEF n

LEMMA ParsedIs ==
    ASSUME NEW s \in Packs, NEW bytes \in Seq(Statuses), Len(bytes) = Size(s),
           \A i \in 1..Len(bytes) : bytes[i] = s
    PROVE  Parsed(bytes) = s
<1>1. CASE s = Padding
  <2>1. Len(bytes) = 0
    BY <1>1, SizeIs
  <2>2. bytes = <<>>
    BY <2>1
  <2> QED BY <1>1, <2>2 DEF Parsed
<1>2. CASE s # Padding
  <2>1. Len(bytes) > 0 /\ bytes # <<>> /\ bytes[1] = s
    BY <1>2, SizeIs
  <2>2. bytes = Serialized(s)
    BY SizeIs
  <2> QED BY <2>1, <2>2 DEF Parsed
<1> QED BY <1>1, <1>2

\* The first c packages of the buffer b are those of the log from number m on, each
\* where its offset says and without gaps.
EndOf(b, o, i, c) == IF i + 1 < c THEN o[i + 1] ELSE Len(b)
Lies(b, o, i, c, s) ==
    /\ o[i] + Size(s) = EndOf(b, o, i, c) /\ o[i] + Size(s) <= Len(b)
    /\ \A j \in 1..Size(s) : b[o[i] + j] = s
Packed(b, o, c, m, T) ==
    /\ b \in Seq(Statuses) /\ o \in [0..Group - 1 -> Nat]
    /\ c \in 0..Group /\ m \in Nat /\ T \in 0..MaxTime
    /\ IF c = 0 THEN Len(b) = 0 ELSE o[0] = 0
    /\ \A i \in 0..c - 1 : Lies(b, o, i, c, Pack(m + i, T))

LEMMA PartOf ==
    ASSUME NEW S, NEW b \in Seq(S), NEW x \in Nat, NEW n \in Nat, x + n <= Len(b)
    PROVE  /\ SubSeq(b, x + 1, x + n) \in Seq(S)
           /\ Len(SubSeq(b, x + 1, x + n)) = n
           /\ \A j \in 1..n : SubSeq(b, x + 1, x + n)[j] = b[x + j]
<1>1. Len(b) \in Nat /\ \A j \in 1..Len(b) : b[j] \in S
  OBVIOUS
<1>2. SubSeq(b, x + 1, x + n) = [j \in 1..n |-> b[x + j]]
  BY <1>1
<1>3. \A j \in 1..n : b[x + j] \in S
  BY <1>1
<1> DEFINE f == [j \in 1..n |-> b[x + j]]
<1>4. f \in Seq(S) /\ Len(f) = n
  BY <1>3
<1> QED BY <1>2, <1>4

LEMMA UnpackedIs ==
    ASSUME NEW b, NEW o, NEW c, NEW m, NEW T, Packed(b, o, c, m, T), NEW i \in 0..c - 1
    PROVE  Unpacked(b, o, i, c) = Pack(m + i, T)
<1> DEFINE s == Pack(m + i, T)
           x == o[i]
           e == EndOf(b, o, i, c)
           bytes == SubSeq(b, x + 1, e)
<1>1. /\ b \in Seq(Statuses) /\ o \in [0..Group - 1 -> Nat] /\ c \in 0..Group
      /\ m \in Nat /\ T \in 0..MaxTime /\ Lies(b, o, i, c, s)
  BY DEF Packed
<1>2. s \in Packs
  BY <1>1, PackIs
<1>3. x \in Nat
  BY <1>1, Sizes
<1>4. Unpacked(b, o, i, c) = Parsed(bytes)
  BY DEF Unpacked, EndOf
<1> HIDE DEF s, x, e
<1>5. /\ Size(s) \in Nat /\ e = x + Size(s) /\ e <= Len(b)
      /\ \A j \in 1..Size(s) : b[x + j] = s
  BY <1>1, <1>2, SizeIs DEF Lies, x, e
<1> DEFINE n == Size(s)
<1> HIDE DEF n
<1>6. /\ bytes \in Seq(Statuses) /\ Len(bytes) = n
      /\ \A j \in 1..n : bytes[j] = b[x + j]
  <2>1. n \in Nat /\ e = x + n /\ x + n <= Len(b)
    BY <1>5 DEF n
  <2>2. bytes = SubSeq(b, x + 1, x + n)
    BY <2>1
  <2> HIDE DEF bytes
  <2> QED BY <1>1, <1>3, <2>1, <2>2, PartOf
<1> HIDE DEF bytes
<1>7. Parsed(bytes) = s
  BY <1>2, <1>5, <1>6, ParsedIs DEF n
<1> QED BY <1>4, <1>7 DEF s
-----------------------------------------------------------------------------
(* The fields of a writer after each of its operations.                       *)

Times == {Time(t) : t \in 0..MaxTime}
Groups == [kind : {"group"}, buffer : Seq(Statuses), offsets : [0..Group - 1 -> Nat]]
Items == Times \cup Groups
Writers == [open : BOOLEAN, hash : {"uninitialized", "needs", "has"},
            collected : 0..Hashed, first : Packs, count : 0..Group,
            buffer : Seq(Statuses), offsets : [0..Group - 1 -> Nat],
            times : [0..Hashed - 3 -> 0..MaxTime], stamps : Seq(0..MaxTime),
            positions : Seq(Nat), written : Nat, file : Seq(Items)]

LEMMA WriterIs ==
    ASSUME NEW w \in Writers
    PROVE  /\ w.open \in BOOLEAN /\ w.hash \in {"uninitialized", "needs", "has"}
           /\ w.collected \in 0..Hashed /\ w.first \in Packs /\ w.count \in 0..Group
           /\ w.buffer \in Seq(Statuses) /\ w.offsets \in [0..Group - 1 -> Nat]
           /\ w.times \in [0..Hashed - 3 -> 0..MaxTime] /\ w.stamps \in Seq(0..MaxTime)
           /\ w.positions \in Seq(Nat) /\ w.written \in Nat /\ w.file \in Seq(Items)
           /\ Group \in Nat /\ w.count \in Nat /\ Hashed \in Nat
<1>1. /\ w.open \in BOOLEAN /\ w.hash \in {"uninitialized", "needs", "has"}
      /\ w.collected \in 0..Hashed /\ w.first \in Packs /\ w.count \in 0..Group
      /\ w.buffer \in Seq(Statuses) /\ w.offsets \in [0..Group - 1 -> Nat]
  BY DEF Writers
<1>2. /\ w.times \in [0..Hashed - 3 -> 0..MaxTime] /\ w.stamps \in Seq(0..MaxTime)
      /\ w.positions \in Seq(Nat) /\ w.written \in Nat /\ w.file \in Seq(Items)
  BY DEF Writers
<1>3. w.count \in Nat
  BY <1>1, Sizes
<1> QED BY <1>1, <1>2, <1>3, Sizes

LEMMA FlushedIs ==
    ASSUME NEW w \in Writers
    PROVE  LET f == Flushed(w)
               full == w.count = Group
           IN  /\ f.open = w.open /\ f.hash = w.hash /\ f.collected = w.collected
               /\ f.first = w.first /\ f.offsets = w.offsets /\ f.times = w.times
               /\ f.stamps = w.stamps /\ f.positions = w.positions
               /\ f.count = (IF full THEN 0 ELSE w.count)
               /\ f.buffer = (IF full THEN <<>> ELSE w.buffer)
               /\ f.written = (IF full THEN w.written + Group ELSE w.written)
               /\ f.file = (IF full THEN Append(w.file, Packages(w.buffer, w.offsets))
                            ELSE w.file)
               /\ f \in Writers
<1>1. CASE w.count = Group
  <2>1. ~(w.count < Group)
    BY <1>1, Sizes
  <2>2. Packages(w.buffer, w.offsets) \in Items
    BY DEF Packages, Items, Groups, Writers
  <2>3. Append(w.file, Packages(w.buffer, w.offsets)) \in Seq(Items)
    BY <2>2 DEF Writers
  <2>4. w.written + Group \in Nat /\ <<>> \in Seq(Statuses) /\ 0 \in 0..Group
    BY WriterIs
  <2> DEFINE g == Packages(w.buffer, w.offsets)
  <2> HIDE DEF g
  <2>5. Flushed(w) = [w EXCEPT !.file = Append(@, g), !.count = 0, !.buffer = <<>>,
                               !.written = @ + Group]
    BY <2>1 DEF Flushed, g
  <2>6. Append(w.file, g) \in Seq(Items)
    BY <2>3 DEF g
  <2>7. /\ Flushed(w).file = Append(w.file, g)
        /\ Flushed(w) \in Writers
    BY <2>4, <2>5, <2>6 DEF Writers
  <2>8. /\ Flushed(w).count = 0 /\ Flushed(w).buffer = <<>>
        /\ Flushed(w).written = w.written + Group
        /\ Flushed(w).open = w.open /\ Flushed(w).hash = w.hash
        /\ Flushed(w).collected = w.collected /\ Flushed(w).first = w.first
        /\ Flushed(w).offsets = w.offsets /\ Flushed(w).times = w.times
        /\ Flushed(w).stamps = w.stamps /\ Flushed(w).positions = w.positions
    BY <2>5 DEF Writers
  <2> QED BY <1>1, <2>7, <2>8 DEF g
<1>2. CASE w.count < Group
  <2>1. Flushed(w) = w
    BY <1>2 DEF Flushed
  <2>2. w.count # Group
    BY <1>2, Sizes DEF Writers
  <2> QED BY <2>1, <2>2
<1>3. w.count = Group \/ w.count < Group
  BY Sizes DEF Writers
<1> QED BY <1>1, <1>2, <1>3

\* writePackageEntry, before the buffer is flushed.
Entered(w, s) ==
    [w EXCEPT
        !.stamps = Append(@, s.time),
        !.offsets[w.count] = Len(w.buffer),
        !.buffer = @ \o Serialized(s),
        !.times = IF w.hash = "needs" THEN [@ EXCEPT ![w.count] = s.time] ELSE @,
        !.positions = IF w.hash = "needs" THEN @ ELSE Append(@, Len(w.file)),
        !.file = IF w.hash = "needs" THEN @ ELSE Append(@, Time(s.time)),
        !.count = @ + 1]

LEMMA EnteredIs ==
    ASSUME NEW w \in Writers, NEW s \in Packs, w.count < Group,
           w.hash = "needs" => w.count < Hashed - 2
    PROVE  LET e == Entered(w, s)
               needs == w.hash = "needs"
           IN  /\ e.open = w.open /\ e.hash = w.hash /\ e.collected = w.collected
               /\ e.first = w.first /\ e.written = w.written
               /\ e.stamps = Append(w.stamps, s.time)
               /\ e.offsets = [w.offsets EXCEPT ![w.count] = Len(w.buffer)]
               /\ e.buffer = w.buffer \o Serialized(s)
               /\ e.times = (IF needs THEN [w.times EXCEPT ![w.count] = s.time] ELSE w.times)
               /\ e.positions = (IF needs THEN w.positions
                                 ELSE Append(w.positions, Len(w.file)))
               /\ e.file = (IF needs THEN w.file ELSE Append(w.file, Time(s.time)))
               /\ e.count = w.count + 1
               /\ e \in Writers
<1> DEFINE t == s.time
           p == Serialized(s)
           A == Append(w.stamps, t)
           B == [w.offsets EXCEPT ![w.count] = Len(w.buffer)]
           C == w.buffer \o p
           D == IF w.hash = "needs" THEN [w.times EXCEPT ![w.count] = t] ELSE w.times
           E == IF w.hash = "needs" THEN w.positions ELSE Append(w.positions, Len(w.file))
           F == IF w.hash = "needs" THEN w.file ELSE Append(w.file, Time(t))
           G == w.count + 1
<1>1. t \in 0..MaxTime /\ p \in Seq(Statuses)
  BY SizeIs
<1> HIDE DEF t, p
<1>2. A \in Seq(0..MaxTime)
  BY <1>1 DEF Writers
<1>3. B \in [0..Group - 1 -> Nat]
  BY Sizes DEF Writers
<1>4. C \in Seq(Statuses)
  BY <1>1 DEF Writers
<1>5. D \in [0..Hashed - 3 -> 0..MaxTime]
  BY <1>1, Sizes DEF Writers
<1>6. E \in Seq(Nat)
  BY DEF Writers
<1>7. F \in Seq(Items)
  <2>1. Time(t) \in Items
    BY <1>1 DEF Items, Times
  <2> QED BY <2>1 DEF Writers
<1>8. G \in 0..Group
  BY WriterIs
<1>9. Entered(w, s) = [w EXCEPT !.stamps = A, !.offsets = B, !.buffer = C, !.times = D,
                                !.positions = E, !.file = F, !.count = G]
  BY DEF Entered, Writers, t, p
<1> HIDE DEF A, B, C, D, E, F, G
<1>10. Entered(w, s) \in Writers
  BY <1>2, <1>3, <1>4, <1>5, <1>6, <1>7, <1>8, <1>9 DEF Writers
<1>11. /\ Entered(w, s).open = w.open /\ Entered(w, s).hash = w.hash
       /\ Entered(w, s).collected = w.collected
       /\ Entered(w, s).first = w.first /\ Entered(w, s).written = w.written
       /\ Entered(w, s).stamps = A /\ Entered(w, s).offsets = B
       /\ Entered(w, s).buffer = C /\ Entered(w, s).times = D
       /\ Entered(w, s).positions = E /\ Entered(w, s).file = F
       /\ Entered(w, s).count = G
  BY <1>9 DEF Writers
<1> QED BY <1>10, <1>11 DEF A, B, C, D, E, F, G, t, p

LEMMA FirstIs ==
    ASSUME NEW w \in Writers, NEW s \in Packs, w.count < Group
    PROVE  LET f == WithFirst(w, s)
           IN  /\ f.open = w.open /\ f.hash = "has" /\ f.collected = w.collected
               /\ f.first = w.first /\ f.written = w.written /\ f.times = w.times
               /\ f.stamps = <<s.time>> \o w.stamps
               /\ f.offsets = Moved(w, s)
               /\ f.buffer = Serialized(s) \o w.buffer
               /\ f.positions = w.positions
                                  \o [i \in 1..Hashed - 1 |-> Len(w.file) + i - 1]
               /\ f.file = w.file \o <<Time(s.time)>>
                                  \o [i \in 1..Hashed - 2 |-> Time(w.times[i - 1])]
               /\ f.count = w.count + 1
               /\ f \in Writers
<1> DEFINE t == s.time
           p == Serialized(s)
           n == Size(s)
           A == <<t>> \o w.stamps
           B == Moved(w, s)
           C == p \o w.buffer
           E == w.positions \o [i \in 1..Hashed - 1 |-> Len(w.file) + i - 1]
           F == w.file \o <<Time(t)>> \o [i \in 1..Hashed - 2 |-> Time(w.times[i - 1])]
           G == w.count + 1
<1>1. t \in 0..MaxTime /\ p \in Seq(Statuses) /\ n \in Nat
  BY SizeIs
<1>2. B = [i \in 0..Group - 1 |-> IF i = 0 THEN 0
                                  ELSE IF i <= w.count THEN w.offsets[i - 1] + n
                                  ELSE w.offsets[i]]
  BY DEF Moved
<1>3. WithFirst(w, s) = [w EXCEPT !.stamps = A, !.offsets = B, !.buffer = C,
                                  !.positions = E, !.file = F, !.count = G, !.hash = "has"]
  BY DEF WithFirst, InFront, Writers
<1> HIDE DEF t, p, n, B
<1>4. A \in Seq(0..MaxTime)
  BY <1>1 DEF Writers
<1>5. B \in [0..Group - 1 -> Nat]
  <2>1. /\ w.offsets \in [0..Group - 1 -> Nat] /\ w.count \in Nat /\ w.count <= Group - 1
    BY Sizes DEF Writers
  <2>2. ASSUME NEW i \in 0..Group - 1 PROVE B[i] \in Nat
    <3>1. CASE i = 0
      BY <1>2, <3>1
    <3>2. CASE i # 0 /\ i <= w.count
      <4>1. i - 1 \in 0..Group - 1
        BY <2>1, <3>2, Sizes
      <4>2. w.offsets[i - 1] \in Nat
        BY <2>1, <4>1
      <4> QED BY <1>1, <1>2, <3>2, <4>2
    <3>3. CASE i # 0 /\ ~(i <= w.count)
      BY <1>2, <2>1, <3>3
    <3> QED BY <3>1, <3>2, <3>3
  <2> QED BY <1>2, <2>2
<1>6. C \in Seq(Statuses)
  BY <1>1 DEF Writers
<1>7. E \in Seq(Nat)
  <2> DEFINE y == [i \in 1..Hashed - 1 |-> Len(w.file) + i - 1]
  <2>1. y \in Seq(Nat)
    <3> DEFINE h == Hashed - 1
    <3>1. h \in Nat /\ Len(w.file) \in Nat
      BY Sizes, WriterIs
    <3> HIDE DEF h
    <3>2. [i \in 1..h |-> Len(w.file) + i - 1] \in Seq(Nat)
      BY <3>1
    <3> QED BY <3>2 DEF h
  <2>2. w.positions \in Seq(Nat)
    BY WriterIs
  <2> HIDE DEF y
  <2>3. w.positions \o y \in Seq(Nat)
    BY <2>1, <2>2
  <2> QED BY <2>3 DEF y
<1>8. F \in Seq(Items)
  <2>1. Time(t) \in Items
    BY <1>1 DEF Items, Times
  <2>2. [i \in 1..Hashed - 2 |-> Time(w.times[i - 1])] \in Seq(Items)
    <3> DEFINE h == Hashed - 2
    <3>1. h \in Nat
      BY Sizes
    <3>2. ASSUME NEW i \in 1..h PROVE Time(w.times[i - 1]) \in Items
      <4>1. w.times[i - 1] \in 0..MaxTime
        BY <3>1, Sizes DEF Writers
      <4> QED BY <4>1 DEF Items, Times
    <3> HIDE DEF h
    <3>3. [i \in 1..h |-> Time(w.times[i - 1])] \in Seq(Items)
      BY <3>1, <3>2
    <3> QED BY <3>3 DEF h
  <2> DEFINE x == <<Time(t)>>
             y == [i \in 1..Hashed - 2 |-> Time(w.times[i - 1])]
  <2>3. x \in Seq(Items) /\ w.file \in Seq(Items)
    BY <2>1, WriterIs
  <2> HIDE DEF x, y
  <2>4. w.file \o x \o y \in Seq(Items)
    BY <2>2, <2>3 DEF y
  <2> QED BY <2>4 DEF x, y
<1>9. G \in 0..Group
  <2>1. w.count \in Nat /\ Group \in Nat
    BY WriterIs
  <2> QED BY <2>1
<1> HIDE DEF A, C, E, F, G
<1>10. WithFirst(w, s) \in Writers
  BY <1>3, <1>4, <1>5, <1>6, <1>7, <1>8, <1>9 DEF Writers
<1>11. LET f == WithFirst(w, s)
       IN  /\ f.open = w.open /\ f.hash = "has" /\ f.collected = w.collected
           /\ f.first = w.first /\ f.written = w.written /\ f.times = w.times
           /\ f.stamps = A /\ f.offsets = B /\ f.buffer = C /\ f.positions = E
           /\ f.file = F /\ f.count = G
  BY <1>3 DEF Writers
<1> QED BY <1>10, <1>11 DEF A, B, C, E, F, G, t, p
-----------------------------------------------------------------------------
(* What a buffer, the times and the file hold, and how they grow.             *)

LEMMA PackedEmpty ==
    ASSUME NEW o \in [0..Group - 1 -> Nat], NEW m \in Nat, NEW T \in 0..MaxTime
    PROVE  Packed(<<>>, o, 0, m, T)
BY Sizes DEF Packed

LEMMA PackedAppend ==
    ASSUME NEW b, NEW o, NEW c, NEW m, NEW T, Packed(b, o, c, m, T), c < Group
    PROVE  Packed(b \o Serialized(Pack(m + c, T)), [o EXCEPT ![c] = Len(b)], c + 1, m, T)
<1> DEFINE s == Pack(m + c, T)
           p == Serialized(s)
           n == Size(s)
           b2 == b \o p
           o2 == [o EXCEPT ![c] = Len(b)]
<1>1. /\ b \in Seq(Statuses) /\ o \in [0..Group - 1 -> Nat] /\ c \in Nat
      /\ m \in Nat /\ T \in 0..MaxTime /\ c \in 0..Group - 1 /\ Len(b) \in Nat
  BY Sizes DEF Packed
<1>2. s \in Packs
  BY <1>1, PackIs
<1>3. /\ n \in Nat /\ p \in Seq(Statuses) /\ Len(p) = n /\ \A j \in 1..n : p[j] = s
  BY <1>2, SizeIs
<1> HIDE DEF s, p, n
<1>4. b2 \in Seq(Statuses) /\ Len(b2) = Len(b) + n
  BY <1>1, <1>3
<1>5. \A j \in 1..Len(b) : b2[j] = b[j]
  BY <1>1, <1>3
<1>6. \A j \in 1..n : b2[Len(b) + j] = s
  BY <1>1, <1>3
<1>7. o2 \in [0..Group - 1 -> Nat] /\ o2[c] = Len(b)
      /\ \A i \in 0..Group - 1 : i # c => o2[i] = o[i]
  BY <1>1
<1> HIDE DEF b2, o2
<1>8. Lies(b2, o2, c, c + 1, s)
  BY <1>1, <1>3, <1>4, <1>6, <1>7 DEF Lies, EndOf, n
<1>9. ASSUME NEW i \in 0..c - 1 PROVE Lies(b2, o2, i, c + 1, Pack(m + i, T))
  <2> DEFINE r == Pack(m + i, T)
             k == Size(r)
  <2>1. Lies(b, o, i, c, r) /\ r \in Packs
    BY <1>1, PackIs DEF Packed
  <2>2. k \in Nat
    BY <2>1, SizeIs
  <2> HIDE DEF r
  <2>3. o[i] + k = EndOf(b, o, i, c) /\ o[i] + k <= Len(b) /\ \A j \in 1..k : b[o[i] + j] = r
    BY <2>1 DEF Lies
  <2> HIDE DEF k
  <2>4. i \in 0..Group - 1 /\ i # c /\ o2[i] = o[i] /\ o[i] \in Nat
    BY <1>1, <1>7, Sizes
  <2>5. o2[i] + k = EndOf(b2, o2, i, c + 1)
    <3>1. CASE i + 1 < c
      <4>1. i + 1 \in 0..Group - 1 /\ o2[i + 1] = o[i + 1]
        BY <1>1, <1>7, <3>1, Sizes
      <4> QED BY <1>1, <2>3, <2>4, <3>1, <4>1 DEF EndOf
    <3>2. CASE i + 1 = c
      BY <1>1, <1>7, <2>3, <2>4, <3>2 DEF EndOf
    <3> QED BY <1>1, <3>1, <3>2
  <2>6. o2[i] + k <= Len(b2)
    BY <1>1, <1>3, <1>4, <2>2, <2>3, <2>4 DEF k
  <2>7. \A j \in 1..k : b2[o2[i] + j] = r
    <3>1. ASSUME NEW j \in 1..k PROVE b2[o2[i] + j] = r
      <4>1. o[i] + j \in 1..Len(b)
        BY <1>1, <2>2, <2>3, <2>4 DEF k
      <4> QED BY <1>5, <2>3, <2>4, <4>1
    <3> QED BY <3>1
  <2> QED BY <2>5, <2>6, <2>7 DEF Lies, k, r
<1>10. o2[0] = 0
  <2>1. CASE c = 0
    BY <1>1, <1>7, <2>1, Sizes DEF Packed
  <2>2. CASE c # 0
    BY <1>1, <1>7, <2>2, Sizes DEF Packed
  <2> QED BY <2>1, <2>2
<1>11. ASSUME NEW i \in 0..(c + 1) - 1 PROVE Lies(b2, o2, i, c + 1, Pack(m + i, T))
  BY <1>1, <1>8, <1>9 DEF s
<1>12. Packed(b2, o2, c + 1, m, T)
  <2>1. c + 1 \in 0..Group /\ c + 1 # 0
    BY <1>1, Sizes
  <2> QED BY <1>1, <1>4, <1>7, <1>10, <1>11, <2>1 DEF Packed
<1> QED BY <1>12 DEF b2, o2, p, s

\* addFirstPackage: the first status goes before the others.
LEMMA PackedMoved ==
    ASSUME NEW w \in Writers, NEW T, Packed(w.buffer, w.offsets, w.count, 1, T),
           w.count < Group
    PROVE  Packed(Serialized(Pack(0, T)) \o w.buffer, Moved(w, Pack(0, T)),
                  w.count + 1, 0, T)
<1> DEFINE s == Pack(0, T)
           p == Serialized(s)
           n == Size(s)
           b == w.buffer
           o == w.offsets
           c == w.count
           b2 == p \o b
           o2 == Moved(w, s)
<1>1. /\ b \in Seq(Statuses) /\ o \in [0..Group - 1 -> Nat] /\ c \in Nat
      /\ T \in 0..MaxTime /\ c \in 0..Group - 1 /\ Len(b) \in Nat
  BY Sizes DEF Packed
<1>2. s \in Packs
  BY <1>1, PackIs
<1>3. /\ n \in Nat /\ p \in Seq(Statuses) /\ Len(p) = n /\ \A j \in 1..n : p[j] = s
  BY <1>2, SizeIs
<1>4. o2 = [i \in 0..Group - 1 |-> IF i = 0 THEN 0
                                   ELSE IF i <= c THEN o[i - 1] + n ELSE o[i]]
  BY DEF Moved
<1>5. Packed(b, o, c, 1, T)
  OBVIOUS
<1> HIDE DEF s, p, n, b, o, c, o2
<1>6. b2 \in Seq(Statuses) /\ Len(b2) = Len(b) + n
  BY <1>1, <1>3
<1>7. \A j \in 1..n : b2[j] = s
  BY <1>1, <1>3
<1>8. \A j \in 1..Len(b) : b2[n + j] = b[j]
  BY <1>1, <1>3
<1> HIDE DEF b2
<1>9. o2[0] = 0 /\ \A i \in 1..c : i \in 0..Group - 1 /\ i - 1 \in 0..Group - 1
                                    /\ o2[i] = o[i - 1] + n /\ o[i - 1] \in Nat
  <2>1. 0 \in 0..Group - 1
    BY Sizes
  <2>2. o2[0] = 0
    BY <1>4, <2>1
  <2>3. ASSUME NEW i \in 1..c
        PROVE  i \in 0..Group - 1 /\ i - 1 \in 0..Group - 1 /\ i # 0 /\ i <= c
    BY <1>1, Sizes
  <2>4. ASSUME NEW i \in 1..c PROVE o2[i] = o[i - 1] + n /\ o[i - 1] \in Nat
    BY <1>1, <1>4, <2>3
  <2> QED BY <2>2, <2>3, <2>4
<1>10. o2 \in [0..Group - 1 -> Nat]
  <2>1. ASSUME NEW i \in 0..Group - 1
        PROVE  (IF i = 0 THEN 0 ELSE IF i <= c THEN o[i - 1] + n ELSE o[i]) \in Nat
    <3>1. CASE i = 0
      BY <3>1
    <3>2. CASE i # 0 /\ i <= c
      <4>1. o[i - 1] \in Nat
        BY <1>1, <1>9, <3>2
      <4> QED BY <1>3, <3>2, <4>1
    <3>3. CASE i # 0 /\ ~(i <= c)
      BY <1>1, <3>3
    <3> QED BY <3>1, <3>2, <3>3
  <2> QED BY <1>4, <2>1
<1>11. Lies(b2, o2, 0, c + 1, s)
  <2>1. CASE c = 0
    <3>1. Len(b) = 0
      BY <1>5, <2>1 DEF Packed
    <3> QED BY <1>3, <1>6, <1>7, <1>9, <2>1, <3>1 DEF Lies, EndOf, n
  <2>2. CASE c # 0
    <3>1. o[0] = 0 /\ o2[1] = n
      BY <1>1, <1>3, <1>5, <1>9, <2>2 DEF Packed
    <3> QED BY <1>1, <1>3, <1>6, <1>7, <1>9, <2>2, <3>1 DEF Lies, EndOf, n
  <2> QED BY <2>1, <2>2
<1>12. ASSUME NEW i \in 0..c - 1 PROVE Lies(b2, o2, i + 1, c + 1, Pack(1 + i, T))
  <2> DEFINE r == Pack(1 + i, T)
             k == Size(r)
  <2>1. Lies(b, o, i, c, r) /\ r \in Packs
    BY <1>1, <1>5, PackIs DEF Packed
  <2>2. k \in Nat
    BY <2>1, SizeIs
  <2> HIDE DEF r
  <2>3. o[i] + k = EndOf(b, o, i, c) /\ o[i] + k <= Len(b) /\ \A j \in 1..k : b[o[i] + j] = r
    BY <2>1 DEF Lies
  <2> HIDE DEF k
  <2>4. o2[i + 1] = o[i] + n /\ o[i] \in Nat
    <3>1. i + 1 \in 1..c
      BY <1>1
    <3>2. o2[i + 1] = o[(i + 1) - 1] + n /\ o[(i + 1) - 1] \in Nat
      BY <1>9, <3>1
    <3> QED BY <3>2
  <2>5. o2[i + 1] + k = EndOf(b2, o2, i + 1, c + 1)
    <3>1. CASE i + 1 < c
      <4>1. i + 2 \in 1..c /\ (i + 2) - 1 = i + 1 /\ (i + 1) + 1 = i + 2
        BY <1>1, <3>1
      <4>2. o2[i + 2] = o[i + 1] + n
        BY <1>9, <4>1
      <4>3. i + 2 < c + 1 /\ o[i] + k = o[i + 1] /\ o[i + 1] \in Nat
        <5>1. i + 2 < c + 1 /\ o[i] + k = o[i + 1]
          BY <1>1, <2>3, <3>1 DEF EndOf
        <5>2. o[(i + 2) - 1] \in Nat
          BY <1>9, <4>1
        <5> QED BY <4>1, <5>1, <5>2
      <4>4. EndOf(b2, o2, i + 1, c + 1) = o2[i + 2]
        BY <4>1, <4>3 DEF EndOf
      <4>5. n \in Nat /\ k \in Nat
        BY <1>3, <2>2 DEF k
      <4>6. o2[i + 2] = o[i] + k + n
        BY <2>4, <4>2, <4>3, <4>5
      <4> QED BY <2>4, <4>4, <4>5, <4>6
    <3>2. CASE i + 1 = c
      <4>1. EndOf(b2, o2, i + 1, c + 1) = Len(b2) /\ EndOf(b, o, i, c) = Len(b)
        BY <1>1, <3>2 DEF EndOf
      <4>2. n \in Nat /\ k \in Nat /\ Len(b) \in Nat
        BY <1>1, <1>3, <2>2 DEF k
      <4>3. o[i] + k = Len(b)
        BY <2>3, <4>1
      <4>4. o2[i + 1] + k = Len(b2)
        <5> DEFINE u == o[i]
                   x == o2[i + 1]
                   y == Len(b2)
                   z == Len(b)
        <5>1. u \in Nat /\ x = u + n /\ u + k = z /\ y = z + n /\ n \in Nat /\ k \in Nat
          BY <1>6, <2>4, <4>2, <4>3
        <5> HIDE DEF u, x, y, z
        <5>2. x + k = y
          BY <5>1
        <5> QED BY <5>2 DEF x, y
      <4> QED BY <4>1, <4>4
    <3> QED BY <1>1, <3>1, <3>2
  <2>6. o2[i + 1] + k <= Len(b2)
    BY <1>1, <1>3, <1>6, <2>2, <2>3, <2>4 DEF k
  <2>7. \A j \in 1..k : b2[o2[i + 1] + j] = r
    <3>1. ASSUME NEW j \in 1..k PROVE b2[o2[i + 1] + j] = r
      <4>1. o[i] + j \in 1..Len(b) /\ n + (o[i] + j) = o2[i + 1] + j
        BY <1>1, <1>3, <2>2, <2>3, <2>4 DEF k
      <4> QED BY <1>8, <2>3, <4>1
    <3> QED BY <3>1
  <2> QED BY <2>5, <2>6, <2>7 DEF Lies, k, r
<1>13. ASSUME NEW i \in 0..(c + 1) - 1 PROVE Lies(b2, o2, i, c + 1, Pack(0 + i, T))
  <2>1. CASE i = 0
    BY <1>11, <2>1 DEF s
  <2>2. CASE i # 0
    <3> DEFINE h == i - 1
    <3>1. h \in 0..c - 1 /\ i = h + 1 /\ 0 + i = 1 + h
      BY <1>1, <2>2
    <3> HIDE DEF h
    <3>2. Lies(b2, o2, h + 1, c + 1, Pack(1 + h, T))
      BY <1>12, <3>1
    <3> QED BY <3>1, <3>2
  <2> QED BY <2>1, <2>2
<1>14. Packed(b2, o2, c + 1, 0, T)
  <2>1. c + 1 \in 0..Group /\ c + 1 # 0 /\ 0 \in Nat
    BY <1>1, Sizes
  <2> QED BY <1>1, <1>6, <1>9, <1>10, <1>13, <2>1 DEF Packed
<1> QED BY <1>14 DEF b2, o2, c, p, s, b, o

\* Packages of an unfinished log stay what they are when it ends.
LEMMA PackedGrow ==
    ASSUME NEW b, NEW o, NEW c, NEW m, NEW T \in 0..MaxTime,
           Packed(b, o, c, m, MaxTime), m + c <= T
    PROVE  Packed(b, o, c, m, T)
<1>1. c \in Nat /\ m \in Nat
  BY Sizes DEF Packed
<1>2. ASSUME NEW i \in 0..c - 1 PROVE Pack(m + i, T) = Pack(m + i, MaxTime)
  BY <1>1, Sizes DEF Pack
<1> QED BY <1>2 DEF Packed
-----------------------------------------------------------------------------
(* The invariant of the writer.                                               *)

\* The times of n statuses from number m on.
StampsAre(st, n, m, T) ==
    /\ st \in Seq(0..MaxTime) /\ Len(st) = n
    /\ \A i \in 1..n : st[i] = Pack(m + i - 1, T).time

\* Package i of group k is there when g groups are full and the next has c packages.
There(k, i, g, c) == k < g \/ (k = g /\ i < c)

PositionsAre(p, g, c) ==
    /\ p \in Seq(Nat) /\ Len(p) = First(g) + c
    /\ \A k \in 0..g, i \in 0..Group - 1 :
        There(k, i, g, c) => p[First(k) + i + 1] = Base(k) + i

GroupIs(item, k, T) ==
    /\ item.kind = "group" /\ item # NoGroup
    /\ item \in Groups
    /\ Packed(item.buffer, item.offsets, Group, First(k), T)

FileIs(f, g, c, T) ==
    /\ f \in Seq(Items) /\ Len(f) = Base(g) + c
    /\ \A k \in 0..g, i \in 0..Group - 1 :
        There(k, i, g, c) => f[Base(k) + i + 1] = Time(Pack(First(k) + i, T).time)
    /\ \A k \in 0..g - 1 : GroupIs(f[Base(k) + Group + 1], k, T)

\* The statuses so far.
Total(g, c) == First(g) + c

\* A log of T statuses or more with its id, or without any status.
Whole(w, g, T) ==
    /\ w \in Writers /\ g \in Nat /\ T \in 0..MaxTime
    /\ w.hash # "needs"
    /\ w.written = First(g) /\ w.count < Group
    /\ StampsAre(w.stamps, Total(g, w.count), 0, T)
    /\ PositionsAre(w.positions, g, w.count)
    /\ FileIs(w.file, g, w.count, T)
    /\ Packed(w.buffer, w.offsets, w.count, First(g), T)

\* A log whose first status is kept back until its id is known.
Kept(w, T) ==
    /\ w \in Writers /\ T \in 1..MaxTime
    /\ w.hash = "needs" /\ w.first = [time |-> 1, id |-> FALSE]
    /\ w.count <= Hashed - 2
    /\ w.written = 0 /\ w.file = <<>> /\ w.positions = <<>>
    /\ StampsAre(w.stamps, w.count, 1, T)
    /\ \A i \in 0..w.count - 1 : w.times[i] = Pack(i + 1, T).time
    /\ Packed(w.buffer, w.offsets, w.count, 1, T)

LEMMA StampsAppend ==
    ASSUME NEW T \in 0..MaxTime, NEW n \in Nat, NEW m \in Nat, NEW st,
           StampsAre(st, n, m, T)
    PROVE  StampsAre(Append(st, Pack(m + n, T).time), n + 1, m, T)
<1> DEFINE t == Pack(m + n, T).time
           s2 == Append(st, t)
<1>1. t \in 0..MaxTime
  BY PackIs, SizeIs
<1>2. t = Pack(m + (n + 1) - 1, T).time
  OBVIOUS
<1> HIDE DEF t
<1>3. s2 \in Seq(0..MaxTime) /\ Len(s2) = n + 1 /\ s2[n + 1] = t
      /\ \A i \in 1..n : s2[i] = st[i]
  BY <1>1 DEF StampsAre
<1> HIDE DEF s2
<1>4. ASSUME NEW i \in 1..n + 1 PROVE s2[i] = Pack(m + i - 1, T).time
  <2>1. CASE i = n + 1
    BY <1>2, <1>3, <2>1
  <2>2. CASE i \in 1..n
    BY <1>3, <2>2 DEF StampsAre
  <2> QED BY <2>1, <2>2
<1> QED BY <1>3, <1>4 DEF StampsAre, s2, t

\* Where the next package goes.
LEMMA Behindhand ==
    ASSUME NEW g \in Nat, NEW c \in 0..Group - 1, NEW k \in 0..g, NEW i \in 0..Group - 1
    PROVE  /\ There(k, i, g, c) => /\ First(k) + i + 1 \in 1..First(g) + c
                                   /\ Base(k) + i + 1 \in 1..Base(g) + c
           /\ There(k, i, g, c + 1) => There(k, i, g, c) \/ (k = g /\ i = c)
           /\ k < g => Base(k) + Group + 1 \in 1..Base(g)
<1>1. First(k) \in Nat /\ Base(k) \in Nat /\ First(g) \in Nat /\ Base(g) \in Nat
  BY Places
<1>2. k < g => First(k) + Group <= First(g) /\ Base(k) + Group + 1 <= Base(g)
  BY Ordered
<1> QED BY <1>1, <1>2, Sizes DEF There

LEMMA PositionsAppend ==
    ASSUME NEW g \in Nat, NEW c \in 0..Group - 1, NEW p, PositionsAre(p, g, c)
    PROVE  PositionsAre(Append(p, Base(g) + c), g, c + 1)
<1> DEFINE x == Base(g) + c
           n == First(g) + c
           p2 == Append(p, x)
<1>1. x \in Nat /\ n \in Nat
  BY Places, Sizes
<1>2. p \in Seq(Nat) /\ Len(p) = n
  BY DEF PositionsAre
<1> HIDE DEF x, n
<1>3. p2 \in Seq(Nat) /\ Len(p2) = n + 1 /\ p2[n + 1] = x /\ \A i \in 1..n : p2[i] = p[i]
  BY <1>1, <1>2
<1> HIDE DEF p2
<1>4. ASSUME NEW k \in 0..g, NEW i \in 0..Group - 1, There(k, i, g, c + 1)
      PROVE  p2[First(k) + i + 1] = Base(k) + i
  <2>1. CASE k = g /\ i = c
    BY <1>3, <2>1 DEF n, x
  <2>2. CASE There(k, i, g, c)
    <3>1. First(k) + i + 1 \in 1..n
      BY <2>2, Behindhand DEF n
    <3>2. p[First(k) + i + 1] = Base(k) + i
      BY <2>2 DEF PositionsAre
    <3> QED BY <1>3, <3>1, <3>2
  <2> QED BY <1>4, <2>1, <2>2, Behindhand
<1>5. Len(p2) = First(g) + (c + 1)
  <2>1. First(g) \in Nat /\ c \in Nat
    BY Places, Sizes
  <2> QED BY <1>3, <2>1 DEF n
<1>6. PositionsAre(p2, g, c + 1)
  BY <1>3, <1>4, <1>5 DEF PositionsAre
<1> QED BY <1>6 DEF p2, x

LEMMA FileAppend ==
    ASSUME NEW g \in Nat, NEW c \in 0..Group - 1, NEW T \in 0..MaxTime, NEW f,
           FileIs(f, g, c, T)
    PROVE  FileIs(Append(f, Time(Pack(First(g) + c, T).time)), g, c + 1, T)
<1> DEFINE x == Time(Pack(First(g) + c, T).time)
           n == Base(g) + c
           f2 == Append(f, x)
<1>1. n \in Nat /\ First(g) + c \in Nat
  <2>1. First(g) \in Nat /\ Base(g) \in Nat
    BY Places
  <2>2. c \in Nat
    BY Sizes
  <2> QED BY <2>1, <2>2
<1>2. x \in Items
  <2>1. Pack(First(g) + c, T) \in Packs
    BY <1>1, PackIs
  <2> QED BY <2>1, SizeIs DEF Items, Times
<1>3. f \in Seq(Items) /\ Len(f) = n
  BY DEF FileIs
<1> HIDE DEF x, n
<1>4. f2 \in Seq(Items) /\ Len(f2) = n + 1 /\ f2[n + 1] = x /\ \A i \in 1..n : f2[i] = f[i]
  BY <1>1, <1>2, <1>3
<1> HIDE DEF f2
<1>5. ASSUME NEW k \in 0..g, NEW i \in 0..Group - 1, There(k, i, g, c + 1)
      PROVE  f2[Base(k) + i + 1] = Time(Pack(First(k) + i, T).time)
  <2>1. CASE k = g /\ i = c
    BY <1>4, <2>1 DEF n, x
  <2>2. CASE There(k, i, g, c)
    <3>1. Base(k) + i + 1 \in 1..n
      BY <2>2, Behindhand DEF n
    <3>2. f[Base(k) + i + 1] = Time(Pack(First(k) + i, T).time)
      BY <2>2 DEF FileIs
    <3> QED BY <1>4, <3>1, <3>2
  <2> QED BY <1>5, <2>1, <2>2, Behindhand
<1>6. ASSUME NEW k \in 0..g - 1 PROVE GroupIs(f2[Base(k) + Group + 1], k, T)
  <2>1. Base(k) + Group + 1 \in 1..n
    <3>1. Base(k) + Group + 1 \in 1..Base(g)
      BY Behindhand, Sizes
    <3> QED BY <3>1, Places, Sizes DEF n
  <2>2. f2[Base(k) + Group + 1] = f[Base(k) + Group + 1]
    BY <1>4, <2>1
  <2>3. GroupIs(f[Base(k) + Group + 1], k, T)
    BY DEF FileIs
  <2> QED BY <2>2, <2>3
<1>7. Len(f2) = Base(g) + (c + 1)
  <2>1. Base(g) \in Nat /\ c \in Nat
    BY Places, Sizes
  <2> QED BY <1>4, <2>1 DEF n
<1>8. FileIs(f2, g, c + 1, T)
  BY <1>4, <1>5, <1>6, <1>7 DEF FileIs
<1> QED BY <1>8 DEF f2, x

\* A group with packages is not the empty one the reader has before it loads one.
LEMMA GroupMade ==
    ASSUME NEW b, NEW o, NEW k \in Nat, NEW T, Packed(b, o, Group, First(k), T),
           First(k) < T
    PROVE  GroupIs(Packages(b, o), k, T)
<1> DEFINE g == Packages(b, o)
           s == Pack(First(k), T)
<1>1. g.kind = "group" /\ g \in Groups /\ g.buffer = b /\ g.offsets = o
  BY DEF Packages, Groups, Packed
<1>2. b # <<>>
  <2>1. b \in Seq(Statuses) /\ T \in 0..MaxTime /\ o \in [0..Group - 1 -> Nat]
    BY DEF Packed
  <2>2. s \in Packs /\ s # Padding
    BY <2>1, PackIs, Places
  <2>3. Lies(b, o, 0, Group, s)
    <3>1. 0 \in 0..Group - 1 /\ First(k) + 0 = First(k)
      BY Sizes, Places
    <3>2. Lies(b, o, 0, Group, Pack(First(k) + 0, T))
      BY <3>1 DEF Packed
    <3> QED BY <3>1, <3>2
  <2>4. Size(s) \in Nat /\ Size(s) # 0
    BY <2>2, SizeIs
  <2> HIDE DEF s
  <2>5. o[0] \in Nat
    BY <2>1, Sizes
  <2>6. Len(b) > 0
    BY <2>1, <2>3, <2>4, <2>5 DEF Lies
  <2> QED BY <2>1, <2>6
<1>3. g # NoGroup
  BY <1>2 DEF NoGroup, Packages
<1> QED BY <1>1, <1>3 DEF GroupIs

\* The last package of a group: the next group starts.
LEMMA PositionsTurn ==
    ASSUME NEW g \in Nat, NEW p, PositionsAre(p, g, Group)
    PROVE  PositionsAre(p, g + 1, 0)
<1>1. Len(p) = First(g + 1) + 0
  BY Places, Sizes DEF PositionsAre
<1>2. ASSUME NEW k \in 0..g + 1, NEW i \in 0..Group - 1, There(k, i, g + 1, 0)
      PROVE  k \in 0..g /\ There(k, i, g, Group)
  BY <1>2, Sizes DEF There
<1> QED BY <1>1, <1>2 DEF PositionsAre

LEMMA FileTurn ==
    ASSUME NEW g \in Nat, NEW T \in 0..MaxTime, NEW f, FileIs(f, g, Group, T),
           NEW x, GroupIs(x, g, T)
    PROVE  FileIs(Append(f, x), g + 1, 0, T)
<1> DEFINE n == Base(g) + Group
           f2 == Append(f, x)
<1>1. n \in Nat /\ Base(g + 1) = n + 1
  BY Places, Sizes
<1>2. x \in Items
  BY DEF GroupIs, Items
<1>3. f \in Seq(Items) /\ Len(f) = n
  BY DEF FileIs
<1> HIDE DEF n
<1>4. f2 \in Seq(Items) /\ Len(f2) = n + 1 /\ f2[n + 1] = x /\ \A i \in 1..n : f2[i] = f[i]
  BY <1>1, <1>2, <1>3
<1> HIDE DEF f2
<1>5. ASSUME NEW k \in 0..g + 1, NEW i \in 0..Group - 1, There(k, i, g + 1, 0)
      PROVE  f2[Base(k) + i + 1] = Time(Pack(First(k) + i, T).time)
  <2>1. k \in 0..g /\ There(k, i, g, Group)
    BY <1>5, Sizes DEF There
  <2>2. Base(k) + i + 1 \in 1..n
    <3>1. k \in Nat /\ Base(k) \in Nat /\ Base(g) \in Nat
      BY <2>1, Places
    <3>2. k < g => Base(k) + Group + 1 <= Base(g)
      BY <3>1, Ordered
    <3> QED BY <2>1, <3>1, <3>2, Sizes DEF n
  <2>3. f[Base(k) + i + 1] = Time(Pack(First(k) + i, T).time)
    BY <2>1 DEF FileIs
  <2> QED BY <1>4, <2>2, <2>3
<1>6. ASSUME NEW k \in 0..(g + 1) - 1 PROVE GroupIs(f2[Base(k) + Group + 1], k, T)
  <2>1. CASE k = g
    BY <1>4, <2>1 DEF n
  <2>2. CASE k \in 0..g - 1
    <3>1. Base(k) + Group + 1 \in 1..n
      <4>1. k \in Nat /\ k < g /\ Base(k) \in Nat /\ Base(g) \in Nat
        BY <2>2, Places
      <4>2. Base(k) + Group + 1 <= Base(g)
        BY <4>1, Ordered
      <4> QED BY <4>1, <4>2, Sizes DEF n
    <3>2. f2[Base(k) + Group + 1] = f[Base(k) + Group + 1]
      BY <1>4, <3>1
    <3>3. GroupIs(f[Base(k) + Group + 1], k, T)
      BY <2>2 DEF FileIs
    <3> QED BY <3>2, <3>3
  <2> QED BY <2>1, <2>2
<1>7. Len(f2) = Base(g + 1) + 0
  BY <1>1, <1>4
<1> QED BY <1>4, <1>5, <1>6, <1>7 DEF FileIs, f2

\* writePackageEntry: one more package, and one more group when it is full.
LEMMA EntryWhole ==
    ASSUME NEW w, NEW g, NEW T, Whole(w, g, T), First(g) < T
    PROVE  LET v == WithEntry(w, Pack(Total(g, w.count), T))
               full == w.count + 1 = Group
           IN  /\ Whole(v, IF full THEN g + 1 ELSE g, T)
               /\ v.count = (IF full THEN 0 ELSE w.count + 1)
               /\ v.open = w.open /\ v.hash = w.hash /\ v.collected = w.collected
               /\ v.first = w.first
<1> DEFINE s == Pack(Total(g, w.count), T)
           e == Entered(w, s)
           v == WithEntry(w, s)
           c == w.count
<1>1. /\ w \in Writers /\ g \in Nat /\ T \in 0..MaxTime /\ w.hash # "needs"
      /\ c \in 0..Group - 1 /\ c \in 0..Group
  BY Sizes DEF Whole, Writers
<1>2. Total(g, c) \in Nat
  BY <1>1, Places DEF Total
<1>3. s \in Packs
  BY <1>1, <1>2, PackIs
<1>4. /\ e.open = w.open /\ e.hash = w.hash /\ e.collected = w.collected
      /\ e.first = w.first /\ e.written = w.written
      /\ e.stamps = Append(w.stamps, s.time)
      /\ e.offsets = [w.offsets EXCEPT ![c] = Len(w.buffer)]
      /\ e.buffer = w.buffer \o Serialized(s)
      /\ e.positions = Append(w.positions, Len(w.file))
      /\ e.file = Append(w.file, Time(s.time))
      /\ e.count = c + 1 /\ e \in Writers
  <2>1. w.count < Group
    BY <1>1, Sizes
  <2> HIDE DEF s
  <2> QED BY <1>1, <1>3, <2>1, EnteredIs
<1>5. v = Flushed(e)
  BY DEF WithEntry, Entered
<1>6. StampsAre(e.stamps, Total(g, c) + 1, 0, T)
  <2>1. StampsAre(w.stamps, Total(g, c), 0, T) /\ 0 + Total(g, c) = Total(g, c)
    BY <1>2 DEF Whole
  <2>2. StampsAre(Append(w.stamps, Pack(0 + Total(g, c), T).time), Total(g, c) + 1, 0, T)
    BY <1>1, <1>2, <2>1, StampsAppend
  <2> QED BY <1>4, <2>1, <2>2
<1>7. PositionsAre(e.positions, g, c + 1)
  <2>1. PositionsAre(w.positions, g, c) /\ Len(w.file) = Base(g) + c
    BY DEF Whole, FileIs
  <2>2. PositionsAre(Append(w.positions, Base(g) + c), g, c + 1)
    BY <1>1, <2>1, PositionsAppend
  <2> QED BY <1>4, <2>1, <2>2
<1>8. FileIs(e.file, g, c + 1, T)
  <2>1. FileIs(w.file, g, c, T)
    BY DEF Whole
  <2>2. FileIs(Append(w.file, Time(Pack(First(g) + c, T).time)), g, c + 1, T)
    BY <1>1, <2>1, FileAppend
  <2> QED BY <1>4, <2>2 DEF Total
<1>9. Packed(e.buffer, e.offsets, c + 1, First(g), T)
  <2>1. Packed(w.buffer, w.offsets, c, First(g), T)
    BY DEF Whole
  <2>2. c < Group
    BY <1>1, Sizes
  <2>3. Packed(w.buffer \o Serialized(Pack(First(g) + c, T)),
               [w.offsets EXCEPT ![c] = Len(w.buffer)], c + 1, First(g), T)
    BY <2>1, <2>2, PackedAppend
  <2> QED BY <1>4, <2>3 DEF Total
<1> HIDE DEF e, v, s, c
<1>10. CASE c + 1 = Group
  <2>1. /\ v.open = w.open /\ v.hash = w.hash /\ v.collected = w.collected
        /\ v.first = w.first /\ v.offsets = e.offsets
        /\ v.stamps = e.stamps /\ v.positions = e.positions
        /\ v.count = 0 /\ v.buffer = <<>> /\ v.written = w.written + Group
        /\ v.file = Append(e.file, Packages(e.buffer, e.offsets))
        /\ v \in Writers
    BY <1>4, <1>5, <1>10, FlushedIs
  <2>2. Total(g, c) + 1 = Total(g + 1, 0) /\ First(g + 1) = w.written + Group
    <3>1. w.written = First(g)
      BY DEF Whole
    <3>2. First(g) \in Nat /\ First(g + 1) = First(g) + Group
      BY <1>1, Places
    <3> QED BY <1>1, <1>10, <3>1, <3>2, Sizes DEF Total
  <2>3. GroupIs(Packages(e.buffer, e.offsets), g, T)
    BY <1>1, <1>9, <1>10, GroupMade
  <2>4. FileIs(v.file, g + 1, 0, T)
    BY <1>1, <1>8, <1>10, <2>1, <2>3, FileTurn
  <2>5. PositionsAre(v.positions, g + 1, 0)
    BY <1>1, <1>7, <1>10, <2>1, PositionsTurn
  <2>6. Packed(v.buffer, v.offsets, 0, First(g + 1), T)
    <3>1. v.offsets \in [0..Group - 1 -> Nat] /\ First(g + 1) \in Nat
      <4>1. g + 1 \in Nat
        BY <1>1
      <4>2. First(g + 1) \in Nat
        BY <4>1, Places
      <4> QED BY <2>1, <4>2, WriterIs
    <3> QED BY <1>1, <2>1, <3>1, PackedEmpty
  <2>7. StampsAre(v.stamps, Total(g + 1, 0), 0, T)
    BY <1>6, <2>1, <2>2
  <2>8. Whole(v, g + 1, T)
    <3>1. g + 1 \in Nat /\ 0 < Group
      BY <1>1, Sizes
    <3> QED BY <1>1, <2>1, <2>2, <2>4, <2>5, <2>6, <2>7, <3>1 DEF Whole
  <2> QED BY <1>10, <2>1, <2>8 DEF v, s, c
<1>11. CASE c + 1 # Group
  <2>1. v.open = w.open /\ v.hash = w.hash /\ v.collected = w.collected
        /\ v.first = w.first /\ v.offsets = e.offsets
        /\ v.stamps = e.stamps /\ v.positions = e.positions
        /\ v.count = c + 1 /\ v.buffer = e.buffer /\ v.written = w.written
        /\ v.file = e.file /\ v \in Writers
    BY <1>4, <1>5, <1>11, FlushedIs
  <2>2. Total(g, c) + 1 = Total(g, c + 1) /\ c + 1 < Group
    BY <1>1, <1>11, Places, Sizes DEF Total
  <2>3. Whole(v, g, T)
    <3>1. w.written = First(g)
      BY DEF Whole
    <3> QED BY <1>1, <1>6, <1>7, <1>8, <1>9, <2>1, <2>2, <3>1 DEF Whole
  <2> QED BY <1>11, <2>1, <2>3 DEF v, s, c
<1> QED BY <1>10, <1>11

\* Id, place and state of the writer do not matter for what it has.
LEMMA SameWhole ==
    ASSUME NEW w, NEW v \in Writers, NEW g, NEW T, Whole(w, g, T), v.hash # "needs",
           v.count = w.count, v.written = w.written, v.stamps = w.stamps,
           v.positions = w.positions, v.file = w.file, v.buffer = w.buffer,
           v.offsets = w.offsets
    PROVE  Whole(v, g, T)
BY DEF Whole

LEMMA SameKept ==
    ASSUME NEW w, NEW v \in Writers, NEW T, Kept(w, T), v.hash = "needs",
           v.first = w.first, v.times = w.times,
           v.count = w.count, v.written = w.written, v.stamps = w.stamps,
           v.positions = w.positions, v.file = w.file, v.buffer = w.buffer,
           v.offsets = w.offsets
    PROVE  Kept(v, T)
BY DEF Kept

\* writePackageEntry while the first status is kept back.
LEMMA EntryKept ==
    ASSUME NEW w, NEW T, Kept(w, T), w.count < Hashed - 2
    PROVE  LET v == WithEntry(w, Pack(w.count + 1, T))
           IN  /\ Kept(v, T) /\ v.count = w.count + 1
               /\ v.open = w.open /\ v.collected = w.collected
<1> DEFINE c == w.count
           s == Pack(c + 1, T)
           e == Entered(w, s)
           v == WithEntry(w, s)
<1>1. /\ w \in Writers /\ T \in 1..MaxTime /\ T \in 0..MaxTime /\ w.hash = "needs"
      /\ c \in Nat /\ c < Group /\ c + 1 < Group /\ c + 1 # Group /\ c \in 0..Hashed - 3
      /\ c + 1 <= Hashed - 2
  <2>1. w \in Writers /\ w.hash = "needs" /\ T \in 1..MaxTime
    BY DEF Kept
  <2>2. c \in Nat /\ c < Hashed - 2
    BY <2>1, WriterIs
  <2> HIDE DEF c
  <2> QED BY <2>1, <2>2, Sizes
<1>2. s \in Packs
  BY <1>1, PackIs
<1>3. /\ e.open = w.open /\ e.hash = w.hash /\ e.collected = w.collected
      /\ e.first = w.first /\ e.written = w.written
      /\ e.stamps = Append(w.stamps, s.time)
      /\ e.offsets = [w.offsets EXCEPT ![c] = Len(w.buffer)]
      /\ e.buffer = w.buffer \o Serialized(s)
      /\ e.times = [w.times EXCEPT ![c] = s.time]
      /\ e.positions = w.positions
      /\ e.file = w.file
      /\ e.count = c + 1 /\ e \in Writers
  <2> HIDE DEF s
  <2> QED BY <1>1, <1>2, EnteredIs
<1>4. v = Flushed(e)
  BY DEF WithEntry, Entered
<1>5. StampsAre(e.stamps, c + 1, 1, T)
  <2>1. StampsAre(w.stamps, c, 1, T)
    BY DEF Kept
  <2>2. StampsAre(Append(w.stamps, Pack(1 + c, T).time), c + 1, 1, T)
    BY <1>1, <2>1, StampsAppend
  <2>3. 1 + c = c + 1
    BY <1>1
  <2> QED BY <1>3, <2>2, <2>3
<1>6. Packed(e.buffer, e.offsets, c + 1, 1, T)
  <2>1. Packed(w.buffer, w.offsets, c, 1, T) /\ 1 + c = c + 1
    BY <1>1 DEF Kept
  <2>2. Packed(w.buffer \o Serialized(Pack(1 + c, T)),
               [w.offsets EXCEPT ![c] = Len(w.buffer)], c + 1, 1, T)
    BY <1>1, <2>1, PackedAppend
  <2> QED BY <1>3, <2>1, <2>2
<1>7. ASSUME NEW i \in 0..(c + 1) - 1 PROVE e.times[i] = Pack(i + 1, T).time
  <2>1. w.times \in [0..Hashed - 3 -> 0..MaxTime]
    BY <1>1, WriterIs
  <2>2. i \in 0..Hashed - 3
    BY <1>1, Sizes
  <2>3. CASE i = c
    BY <1>1, <1>3, <2>1, <2>2, <2>3
  <2>4. CASE i # c
    <3>1. i \in 0..c - 1
      BY <1>1, <2>4
    <3>2. w.times[i] = Pack(i + 1, T).time
      BY <3>1 DEF Kept
    <3> QED BY <1>3, <2>1, <2>2, <2>4, <3>2
  <2> QED BY <2>3, <2>4
<1> HIDE DEF e, v, s, c
<1>8. /\ v.open = w.open /\ v.hash = w.hash /\ v.collected = w.collected
      /\ v.first = w.first /\ v.offsets = e.offsets /\ v.times = e.times
      /\ v.stamps = e.stamps /\ v.positions = w.positions
      /\ v.count = c + 1 /\ v.buffer = e.buffer /\ v.written = w.written
      /\ v.file = w.file /\ v \in Writers
  BY <1>1, <1>3, <1>4, FlushedIs
<1>9. /\ w.first = [time |-> 1, id |-> FALSE]
      /\ w.written = 0 /\ w.file = <<>> /\ w.positions = <<>>
  BY DEF Kept
<1>10. Kept(v, T)
  BY <1>1, <1>5, <1>6, <1>7, <1>8, <1>9 DEF Kept
<1> QED BY <1>8, <1>10 DEF v, c, s

LEMMA IdentifiedIs ==
    ASSUME NEW r \in Statuses, r.time = 1
    PROVE  [r EXCEPT !.id = TRUE] = [time |-> 1, id |-> TRUE]
<1> DEFINE q == [r EXCEPT !.id = TRUE]
           p == [time |-> 1, id |-> TRUE]
<1>1. DOMAIN r = {"time", "id"} /\ DOMAIN p = {"time", "id"}
  BY DEF Statuses
<1>2. q = [f \in {"time", "id"} |-> IF f = "id" THEN TRUE ELSE r[f]]
  BY <1>1, Zenon
<1>3. q["time"] = p["time"] /\ q["id"] = p["id"]
  BY <1>2
<1> QED BY <1>1, <1>2, <1>3

LEMMA IdentifiedFirst ==
    Identified([time |-> 1, id |-> FALSE]) = [time |-> 1, id |-> TRUE]
<1> DEFINE r == [time |-> 1, id |-> FALSE]
<1>1. r \in Statuses /\ r.time = 1
  BY Sizes DEF Statuses
<1> HIDE DEF r
<1>2. [r EXCEPT !.id = TRUE] = [time |-> 1, id |-> TRUE]
  BY <1>1, IdentifiedIs
<1> QED BY <1>2 DEF Identified, r

\* addFirstPackage: the kept status becomes the first package of the first group.
LEMMA FirstWhole ==
    ASSUME NEW w, NEW T, Kept(w, T), w.count = Hashed - 2
    PROVE  LET v == WithFirst(w, Identified(w.first))
           IN  /\ Whole(v, 0, T) /\ v.count = w.count + 1 /\ v.hash = "has"
               /\ v.open = w.open /\ v.collected = w.collected
<1> DEFINE s == Pack(0, T)
           v == WithFirst(w, s)
           c == w.count
<1>1. /\ w \in Writers /\ T \in 1..MaxTime /\ T \in 0..MaxTime
      /\ c \in Nat /\ c \in 0..Group - 1 /\ c + 1 < Group /\ c = Hashed - 2
      /\ c + 1 = Hashed - 1 /\ w.count < Group
  BY Sizes DEF Kept, Writers
<1>2. s \in Packs /\ s = Identified(w.first)
  <2>1. 0 \in Nat /\ 0 < T /\ 0 + 1 = 1
    BY <1>1
  <2>2. s = Nth(1) /\ s \in Packs
    BY <1>1, <2>1, PackIs
  <2>3. w.first = [time |-> 1, id |-> FALSE]
    BY DEF Kept
  <2>4. Identified([time |-> 1, id |-> FALSE]) = [time |-> 1, id |-> TRUE]
    BY IdentifiedFirst
  <2>5. Nth(1) = [time |-> 1, id |-> TRUE]
    BY DEF Nth
  <2> QED BY <2>2, <2>3, <2>4, <2>5
<1>3. w.file = <<>> /\ w.positions = <<>> /\ w.written = 0
  BY DEF Kept
<1>4. /\ v.open = w.open /\ v.hash = "has" /\ v.collected = w.collected
      /\ v.written = w.written
      /\ v.stamps = <<s.time>> \o w.stamps
      /\ v.offsets = Moved(w, s)
      /\ v.buffer = Serialized(s) \o w.buffer
      /\ v.positions = w.positions \o [i \in 1..Hashed - 1 |-> Len(w.file) + i - 1]
      /\ v.file = w.file \o <<Time(s.time)>>
                         \o [i \in 1..Hashed - 2 |-> Time(w.times[i - 1])]
      /\ v.count = c + 1 /\ v \in Writers
  <2> HIDE DEF s
  <2> QED BY <1>1, <1>2, FirstIs
<1>5. s.time \in 0..MaxTime
  BY <1>2, SizeIs
<1>6. StampsAre(v.stamps, c + 1, 0, T)
  <2>1. /\ w.stamps \in Seq(0..MaxTime) /\ Len(w.stamps) = c
        /\ \A i \in 1..c : w.stamps[i] = Pack(1 + i - 1, T).time
    BY DEF Kept, StampsAre
  <2> HIDE DEF s, v, c
  <2> DEFINE a == w.stamps
             t == s.time
             b == <<t>> \o a
  <2>2. a \in Seq(0..MaxTime) /\ Len(a) = c /\ t \in 0..MaxTime /\ c \in Nat
    BY <1>1, <1>5, <2>1
  <2> HIDE DEF a, t
  <2>3. b \in Seq(0..MaxTime) /\ Len(b) = c + 1 /\ b[1] = t /\ \A i \in 1..c : b[i + 1] = a[i]
    BY <2>2
  <2> HIDE DEF b
  <2>4. ASSUME NEW i \in 1..c + 1 PROVE b[i] = Pack(0 + i - 1, T).time
    <3>1. CASE i = 1
      <4>1. 0 + i - 1 = 0
        BY <3>1
      <4> QED BY <2>3, <3>1, <4>1 DEF t, s
    <3>2. CASE i # 1
      <4> DEFINE j == i - 1
      <4>1. j \in 1..c /\ i = j + 1 /\ 0 + i - 1 = j /\ 1 + j - 1 = j
        BY <2>2, <3>2
      <4> HIDE DEF j
      <4>2. b[j + 1] = a[j] /\ a[j] = Pack(1 + j - 1, T).time
        BY <2>1, <2>3, <4>1 DEF a
      <4> QED BY <4>1, <4>2
    <3> QED BY <3>1, <3>2
  <2>5. v.stamps = b
    BY <1>4 DEF b, a, t
  <2> QED BY <2>3, <2>4, <2>5 DEF StampsAre
<1>7. PositionsAre(v.positions, 0, c + 1)
  <2> DEFINE h == Hashed - 1
             a == [i \in 1..h |-> 0 + i - 1]
  <2>1. h \in Nat /\ h = c + 1
    BY <1>1
  <2>2. v.positions = <<>> \o [i \in 1..h |-> Len(<<>>) + i - 1]
    BY <1>3, <1>4
  <2>3. Len(<<>>) = 0
    OBVIOUS
  <2>4. v.positions = <<>> \o a
    BY <2>2, <2>3
  <2> HIDE DEF h, v, c
  <2>5. a \in Seq(Nat) /\ Len(a) = h /\ \A i \in 1..h : a[i] = i - 1
    BY <2>1
  <2> HIDE DEF a
  <2>6. v.positions = a
    BY <2>4, <2>5
  <2>7. First(0) = 0 /\ Base(0) = 0
    BY Places
  <2>8. ASSUME NEW k \in 0..0, NEW i \in 0..Group - 1, There(k, i, 0, c + 1)
        PROVE  v.positions[First(k) + i + 1] = Base(k) + i
    <3>1. k = 0 /\ i \in 0..c /\ i + 1 \in 1..h
      BY <1>1, <2>1, <2>8, Sizes DEF There
    <3>2. a[i + 1] = (i + 1) - 1 /\ First(k) + i + 1 = i + 1 /\ Base(k) + i = i
      BY <2>5, <2>7, <3>1
    <3> QED BY <2>6, <3>1, <3>2
  <2> QED BY <2>1, <2>5, <2>6, <2>7, <2>8 DEF PositionsAre
<1>8. FileIs(v.file, 0, c + 1, T)
  <2> DEFINE h == Hashed - 2
             a == [i \in 1..h |-> Time(w.times[i - 1])]
             x == Time(s.time)
             b == <<x>> \o a
  <2>1. h \in Nat /\ h = c
    BY <1>1, Sizes
  <2>2. x \in Items
    BY <1>5 DEF Items, Times
  <2>3. ASSUME NEW i \in 1..h PROVE a[i] = Time(Pack(i, T).time) /\ a[i] \in Items
    <3>1. w.times \in [0..Hashed - 3 -> 0..MaxTime]
      BY <1>1, WriterIs
    <3>2. i - 1 \in 0..Hashed - 3 /\ i - 1 \in 0..c - 1 /\ (i - 1) + 1 = i
      BY <1>1, <2>1, Sizes
    <3>3. w.times[i - 1] = Pack((i - 1) + 1, T).time
      BY <3>2 DEF Kept
    <3>4. w.times[i - 1] \in 0..MaxTime
      BY <3>1, <3>2
    <3> QED BY <3>2, <3>3, <3>4 DEF Items, Times
  <2>4. v.file = <<>> \o <<x>> \o a
    BY <1>3, <1>4
  <2>5. a \in Seq(Items) /\ Len(a) = h
    <3>1. \A i \in 1..h : Time(w.times[i - 1]) \in Items
      BY <2>3
    <3> HIDE DEF h
    <3> QED BY <2>1, <3>1
  <2> HIDE DEF h, v, c, x, a, s
  <2>6. v.file = b
    BY <2>2, <2>4, <2>5
  <2>7. b \in Seq(Items) /\ Len(b) = h + 1 /\ b[1] = x /\ \A i \in 1..h : b[i + 1] = a[i]
    BY <2>1, <2>2, <2>5
  <2> HIDE DEF b
  <2>8. First(0) = 0 /\ Base(0) = 0
    BY Places
  <2>9. ASSUME NEW k \in 0..0, NEW i \in 0..Group - 1, There(k, i, 0, c + 1)
        PROVE  b[Base(k) + i + 1] = Time(Pack(First(k) + i, T).time)
    <3>1. k = 0 /\ i \in 0..h /\ Base(k) + i + 1 = i + 1 /\ First(k) + i = i
      BY <1>1, <2>1, <2>8, <2>9, Sizes DEF There
    <3>2. CASE i = 0
      BY <2>7, <3>1, <3>2 DEF x, s
    <3>3. CASE i # 0
      <4>1. i \in 1..h
        BY <2>1, <3>1, <3>3
      <4> QED BY <2>3, <2>7, <3>1, <4>1
    <3> QED BY <3>2, <3>3
  <2>10. Len(b) = Base(0) + (c + 1)
    BY <2>1, <2>7, <2>8
  <2>11. \A k \in 0..0 - 1 : FALSE
    OBVIOUS
  <2> QED BY <2>6, <2>7, <2>9, <2>10, <2>11 DEF FileIs
<1>9. Packed(v.buffer, v.offsets, c + 1, First(0), T)
  <2>1. Packed(w.buffer, w.offsets, w.count, 1, T) /\ First(0) = 0
    BY Places DEF Kept
  <2>2. Packed(Serialized(Pack(0, T)) \o w.buffer, Moved(w, Pack(0, T)), w.count + 1, 0, T)
    BY <1>1, <2>1, PackedMoved
  <2> QED BY <1>4, <2>1, <2>2
<1> HIDE DEF v, s, c
<1>10. Total(0, c + 1) = c + 1 /\ First(0) = 0
  BY <1>1, Places DEF Total
<1>11. Whole(v, 0, T)
  BY <1>1, <1>3, <1>4, <1>6, <1>7, <1>8, <1>9, <1>10 DEF Whole
<1> QED BY <1>2, <1>4, <1>11 DEF v, c

\* What was written stays so when the log ends after T statuses.
LEMMA PackGrow ==
    ASSUME NEW T \in 0..MaxTime, NEW n \in Nat, n < T
    PROVE  Pack(n, T) = Pack(n, MaxTime)
BY Sizes DEF Pack

LEMMA WholeGrow ==
    ASSUME NEW w, NEW g, NEW T \in 0..MaxTime, Whole(w, g, MaxTime), Total(g, w.count) <= T
    PROVE  Whole(w, g, T)
<1> DEFINE c == w.count
           n == Total(g, c)
<1>1. w \in Writers /\ g \in Nat /\ w.hash # "needs" /\ w.written = First(g) /\ c < Group
  BY DEF Whole
<1>2. /\ c \in Nat /\ c \in 0..Group - 1 /\ First(g) \in Nat /\ n \in Nat
      /\ n = First(g) + c /\ n <= T /\ c <= Group
  <2>1. c \in Nat /\ First(g) \in Nat
    BY <1>1, WriterIs, Places
  <2> HIDE DEF c
  <2> QED BY <1>1, <2>1, Sizes DEF Total, c
<1> HIDE DEF c
<1>3. StampsAre(w.stamps, n, 0, T)
  <2>1. StampsAre(w.stamps, n, 0, MaxTime)
    BY DEF Whole, c
  <2>2. ASSUME NEW i \in 1..n PROVE Pack(0 + i - 1, T) = Pack(0 + i - 1, MaxTime)
    <3>1. 0 + i - 1 \in Nat /\ 0 + i - 1 < T
      BY <1>2
    <3> QED BY <3>1, PackGrow
  <2> HIDE DEF n
  <2> QED BY <2>1, <2>2 DEF StampsAre
<1>4. FileIs(w.file, g, c, T)
  <2>1. FileIs(w.file, g, c, MaxTime)
    BY DEF Whole, c
  <2>2. ASSUME NEW k \in 0..g, NEW i \in 0..Group - 1, There(k, i, g, c)
        PROVE  Pack(First(k) + i, T) = Pack(First(k) + i, MaxTime)
    <3>1. First(k) + i + 1 \in 1..First(g) + c
      BY <1>1, <1>2, <2>2, Behindhand
    <3>2. First(k) \in Nat
      BY Places
    <3>3. First(k) + i \in Nat /\ First(k) + i < T
      BY <1>2, <3>1, <3>2
    <3> QED BY <3>3, PackGrow
  <2>3. ASSUME NEW k \in 0..g - 1 PROVE GroupIs(w.file[Base(k) + Group + 1], k, T)
    <3> DEFINE x == w.file[Base(k) + Group + 1]
    <3>1. GroupIs(x, k, MaxTime)
      BY <2>1 DEF FileIs
    <3> HIDE DEF x
    <3>2. k \in Nat /\ k < g
      BY <1>1
    <3>3. First(k) + Group <= First(g)
      BY <1>1, <3>2, Ordered
    <3>4. First(k) \in Nat
      BY <3>2, Places
    <3>5. First(k) + Group <= T
      BY <1>2, <3>3, <3>4, Sizes
    <3>6. Packed(x.buffer, x.offsets, Group, First(k), T)
      BY <3>1, <3>5, PackedGrow DEF GroupIs
    <3> QED BY <3>1, <3>6 DEF GroupIs, x
  <2> QED BY <2>1, <2>2, <2>3 DEF FileIs
<1>5. Packed(w.buffer, w.offsets, c, First(g), T)
  <2>1. Packed(w.buffer, w.offsets, c, First(g), MaxTime)
    BY DEF Whole, c
  <2>2. First(g) + c <= T
    BY <1>2
  <2> QED BY <2>1, <2>2, PackedGrow
<1> QED BY <1>1, <1>3, <1>4, <1>5 DEF Whole, n, c

LEMMA KeptGrow ==
    ASSUME NEW w, NEW T \in 1..MaxTime, Kept(w, MaxTime), w.count + 1 <= T
    PROVE  Kept(w, T)
<1> DEFINE c == w.count
<1>1. c \in Nat /\ T \in 0..MaxTime /\ w \in Writers
  BY WriterIs DEF Kept
<1> HIDE DEF c
<1>2. StampsAre(w.stamps, c, 1, T)
  <2>1. StampsAre(w.stamps, c, 1, MaxTime)
    BY DEF Kept, c
  <2>2. ASSUME NEW i \in 1..c PROVE Pack(1 + i - 1, T) = Pack(1 + i - 1, MaxTime)
    <3>1. 1 + i - 1 \in Nat /\ 1 + i - 1 < T
      BY <1>1 DEF c
    <3> QED BY <1>1, <3>1, PackGrow
  <2> QED BY <2>1, <2>2 DEF StampsAre
<1>3. ASSUME NEW i \in 0..c - 1 PROVE w.times[i] = Pack(i + 1, T).time
  <2>1. i + 1 \in Nat /\ i + 1 < T
    BY <1>1 DEF c
  <2>2. Pack(i + 1, T) = Pack(i + 1, MaxTime)
    BY <1>1, <2>1, PackGrow
  <2> QED BY <2>2 DEF Kept, c
<1>4. Packed(w.buffer, w.offsets, c, 1, T)
  <2>1. 1 + c <= T
    BY <1>1 DEF c
  <2>2. Packed(w.buffer, w.offsets, c, 1, MaxTime)
    BY DEF Kept, c
  <2> QED BY <1>1, <2>1, <2>2, PackedGrow
<1> QED BY <1>1, <1>2, <1>3, <1>4 DEF Kept, c
-----------------------------------------------------------------------------
(* The padding of the last group.                                             *)

\* A set of numbers that is not empty has a least one.
LEMMA LeastOne ==
    ASSUME NEW T, T \subseteq Nat, T # {}
    PROVE  \E m \in T : \A k \in T : m <= k
<1> DEFINE R == OpToRel(<, Nat)
<1>1. PICK x \in T : \A y \in T : <<y, x>> \notin R
  BY WFMin, NatLessThanWellFounded
<1>2. ASSUME NEW y \in T PROVE x <= y
  <2>1. ~(y < x) /\ x \in Nat /\ y \in Nat
    BY <1>1 DEF OpToRel
  <2> QED BY <2>1
<1> QED BY <1>2

\* f lists the writers after each padding.
Pads(f, w, n) == f = [i \in 0..n |-> IF i = 0 THEN w ELSE WithEntry(f[i - 1], Padding)]

LEMMA PadsExist == ASSUME NEW w, NEW n \in Nat PROVE \E f : Pads(f, w, n)
<1> DEFINE Bad == {m \in Nat : ~ \E f : Pads(f, w, m)}
<1> SUFFICES ASSUME Bad # {} PROVE FALSE
  OBVIOUS
<1>1. PICK m \in Bad : \A k \in Bad : m <= k
  BY LeastOne
<1>2. CASE m = 0
  <2> DEFINE h == [i \in 0..0 |-> w]
  <2>1. h = [i \in 0..0 |-> IF i = 0 THEN w ELSE WithEntry(h[i - 1], Padding)]
    OBVIOUS
  <2>2. Pads(h, w, 0)
    BY <2>1 DEF Pads
  <2> QED BY <1>1, <1>2, <2>2
<1>3. CASE m # 0
  <2>1. m - 1 \in Nat /\ m - 1 \notin Bad
    BY <1>1, <1>3
  <2>2. PICK g : Pads(g, w, m - 1)
    BY <2>1
  <2> DEFINE h == [i \in 0..m |-> IF i = 0 THEN w ELSE WithEntry(g[i - 1], Padding)]
  <2>3. \A i \in 0..(m - 1) : g[i] = IF i = 0 THEN w ELSE WithEntry(g[i - 1], Padding)
    BY <2>2 DEF Pads
  <2>4. \A i \in 0..(m - 1) : h[i] = g[i]
    BY <2>1, <2>3
  <2>5. \A i \in 0..m : h[i] = IF i = 0 THEN w ELSE WithEntry(h[i - 1], Padding)
    <3> TAKE i \in 0..m
    <3>1. i # 0 => i - 1 \in 0..(m - 1)
      BY <2>1
    <3> QED BY <2>4, <3>1
  <2>6. Pads(h, w, m)
    BY <2>5 DEF Pads
  <2> QED BY <1>1, <2>6
<1> QED BY <1>2, <1>3

LEMMA PaddedIs ==
    ASSUME NEW w, NEW n \in Nat
    PROVE  \E f : Pads(f, w, n) /\ Padded(w, n) = f[n]
<1> DEFINE f == CHOOSE g : Pads(g, w, n)
<1>1. Padded(w, n) = f[n]
  BY DEF Padded, Pads
<1>2. Pads(f, w, n)
  BY PadsExist, Zenon
<1> QED BY <1>1, <1>2

LEMMA PadsStep ==
    ASSUME NEW w, NEW n \in Nat, NEW f, Pads(f, w, n)
    PROVE  f[0] = w /\ \A i \in 1..n : f[i] = WithEntry(f[i - 1], Padding)
<1>1. \A i \in 0..n : f[i] = IF i = 0 THEN w ELSE WithEntry(f[i - 1], Padding)
  BY DEF Pads
<1> QED BY <1>1

\* The last group is filled.
LEMMA WholePadded ==
    ASSUME NEW w, NEW g, NEW T, Whole(w, g, T), First(g) < T, Total(g, w.count) >= T
    PROVE  LET v == Padded(w, Group - w.count)
           IN  Whole(v, g + 1, T) /\ v.count = 0 /\ v.open = w.open /\ v.hash = w.hash
<1> DEFINE c == w.count
           n == Group - c
<1>1. /\ c \in Nat /\ n \in Nat /\ n > 0 /\ g \in Nat /\ T \in 0..MaxTime
      /\ First(g) \in Nat /\ T \in Nat
  <2>1. c \in Nat /\ c < Group /\ g \in Nat /\ T \in 0..MaxTime
    BY WriterIs DEF Whole
  <2>2. First(g) \in Nat
    BY <2>1, Places
  <2> HIDE DEF c
  <2> QED BY <2>1, <2>2, Sizes
<1>2. PICK f : Pads(f, w, n) /\ Padded(w, n) = f[n]
  BY <1>1, PaddedIs
<1>3. f[0] = w /\ \A i \in 1..n : f[i] = WithEntry(f[i - 1], Padding)
  <2>1. n \in Nat /\ Pads(f, w, n)
    BY <1>1, <1>2
  <2> HIDE DEF n
  <2> QED BY <2>1, PadsStep
<1> DEFINE Good(i) == /\ Whole(f[i], IF i = n THEN g + 1 ELSE g, T)
                      /\ f[i].count = (IF i = n THEN 0 ELSE c + i)
                      /\ f[i].open = w.open /\ f[i].hash = w.hash
           Bad == {i \in 0..n : ~Good(i)}
<1>4. ASSUME Bad # {} PROVE FALSE
  <2>1. Bad \subseteq Nat
    BY <1>1
  <2> HIDE DEF Bad
  <2>2. PICK m \in Bad : \A k \in Bad : m <= k
    BY <1>4, <2>1, LeastOne
  <2>3. m \in 0..n /\ ~Good(m)
    BY <2>2 DEF Bad
  <2>4. CASE m = 0
    BY <1>1, <1>3, <2>3, <2>4
  <2>5. CASE m # 0
    <3> DEFINE j == m - 1
    <3>1. j \in 0..n /\ j < m /\ j \in 0..n - 1 /\ m \in 1..n /\ j # n /\ j \notin Bad /\ j \in Nat
      BY <1>1, <2>2, <2>3, <2>5
    <3>2. Good(j)
      BY <3>1 DEF Bad
    <3> DEFINE u == f[j]
               v == f[m]
    <3>3. Whole(u, g, T) /\ u.count = c + j /\ u.open = w.open /\ u.hash = w.hash
      BY <3>1, <3>2
    <3>4. v = WithEntry(u, Padding)
      BY <1>3, <3>1
    <3>5. Total(g, u.count) \in Nat /\ Total(g, u.count) >= T
      BY <1>1, <3>1, <3>3 DEF Total
    <3> HIDE DEF u, v, Bad
    <3>6. Pack(Total(g, u.count), T) = Padding
      BY <1>1, <3>5, PackIs
    <3>7. /\ Whole(v, IF u.count + 1 = Group THEN g + 1 ELSE g, T)
          /\ v.count = (IF u.count + 1 = Group THEN 0 ELSE u.count + 1)
          /\ v.open = u.open /\ v.hash = u.hash
      BY <3>3, <3>4, <3>6, EntryWhole
    <3>8. (u.count + 1 = Group <=> m = n) /\ u.count + 1 = c + m
      <4>1. u.count = c + (m - 1)
        BY <3>3
      <4> HIDE DEF c
      <4>2. n = Group - c
        BY DEF c
      <4> HIDE DEF n
      <4> QED BY <1>1, <3>1, <4>1, <4>2, Sizes
    <3>9. Good(m)
      BY <3>3, <3>7, <3>8 DEF v
    <3> QED BY <2>3, <3>9
  <2> QED BY <2>4, <2>5
<1>5. Good(n)
  BY <1>1, <1>4
<1> QED BY <1>2, <1>5

\* The statuses that the hash still misses are filled in.
LEMMA KeptPadded ==
    ASSUME NEW w, NEW T, Kept(w, T), w.count + 1 >= T
    PROVE  LET v == Padded(w, Hashed - 2 - w.count)
           IN  Kept(v, T) /\ v.count = Hashed - 2 /\ v.open = w.open
<1> DEFINE c == w.count
           n == Hashed - 2 - c
<1>1. c \in Nat /\ n \in Nat /\ T \in 0..MaxTime /\ T \in Nat
  <2>1. c \in Nat /\ c <= Hashed - 2 /\ T \in 1..MaxTime
    BY WriterIs DEF Kept
  <2> HIDE DEF c
  <2> QED BY <2>1, Sizes
<1>2. PICK f : Pads(f, w, n) /\ Padded(w, n) = f[n]
  BY <1>1, PaddedIs
<1>3. f[0] = w /\ \A i \in 1..n : f[i] = WithEntry(f[i - 1], Padding)
  <2>1. n \in Nat /\ Pads(f, w, n)
    BY <1>1, <1>2
  <2> HIDE DEF n
  <2> QED BY <2>1, PadsStep
<1> DEFINE Good(i) == Kept(f[i], T) /\ f[i].count = c + i /\ f[i].open = w.open
           Bad == {i \in 0..n : ~Good(i)}
<1>4. ASSUME Bad # {} PROVE FALSE
  <2>1. Bad \subseteq Nat
    BY <1>1
  <2> HIDE DEF Bad
  <2>2. PICK m \in Bad : \A k \in Bad : m <= k
    BY <1>4, <2>1, LeastOne
  <2>3. m \in 0..n /\ ~Good(m)
    BY <2>2 DEF Bad
  <2>4. CASE m = 0
    BY <1>1, <1>3, <2>3, <2>4
  <2>5. CASE m # 0
    <3> DEFINE j == m - 1
    <3>1. j \in 0..n /\ j < m /\ j < n /\ m \in 1..n /\ j \notin Bad /\ j \in Nat
      BY <1>1, <2>2, <2>3, <2>5
    <3>2. Good(j)
      BY <3>1 DEF Bad
    <3> DEFINE u == f[j]
               v == f[m]
    <3>3. Kept(u, T) /\ u.count = c + j /\ u.open = w.open
      BY <3>1, <3>2
    <3>4. v = WithEntry(u, Padding)
      BY <1>3, <3>1
    <3> HIDE DEF u, v, Bad
    <3>5. u.count < Hashed - 2 /\ u.count + 1 \in Nat /\ u.count + 1 >= T /\ u.count + 1 = c + m
      <4>1. u.count = c + (m - 1)
        BY <3>3
      <4>2. m - 1 < Hashed - 2 - c
        BY <3>1
      <4>3. m \in Nat /\ m > 0 /\ c + 1 >= T
        BY <3>1
      <4> HIDE DEF c
      <4> QED BY <1>1, <4>1, <4>2, <4>3, Sizes
    <3>6. Pack(u.count + 1, T) = Padding
      BY <1>1, <3>5, PackIs
    <3>7. Kept(v, T) /\ v.count = u.count + 1 /\ v.open = u.open
      BY <3>3, <3>4, <3>5, <3>6, EntryKept
    <3>8. Good(m)
      BY <3>3, <3>5, <3>7 DEF v
    <3> QED BY <2>3, <3>8
  <2> QED BY <2>4, <2>5
<1>5. Good(n)
  BY <1>1, <1>4
<1>6. c + n = Hashed - 2
  BY <1>1, Sizes
<1> QED BY <1>2, <1>5, <1>6
-----------------------------------------------------------------------------
(* The writer follows its invariant.                                          *)

\* A log of g full groups that is still written.
Growing(w, g) ==
    /\ w.hash = "has" /\ Whole(w, g, MaxTime)
    /\ Total(g, w.count) > 0 /\ Total(g, w.count) <= MaxTime

Empty(w) ==
    /\ w.hash = "uninitialized" /\ Whole(w, 0, MaxTime)
    /\ w.count = 0 /\ w.collected = 0

Keeping(w) ==
    /\ Kept(w, MaxTime) /\ w.collected = w.count + 1 /\ w.count + 1 <= MaxTime

\* A log of T statuses in g groups, whose last one has a status.
Ended(w, g, T) ==
    /\ Whole(w, g, T) /\ w.count = 0
    /\ First(g) >= T /\ (g > 0 => First(g - 1) < T)

\* A log of n statuses that is still written.
Writing(w, n) ==
    \/ Empty(w) /\ n = 0
    \/ Keeping(w) /\ n = w.count + 1
    \/ \E g \in Nat : Growing(w, g) /\ n = Total(g, w.count)

WriterInv ==
    \/ writer.open /\ \E n \in Nat : Writing(writer, n)
    \/ ~writer.open /\ \E g \in Nat, T \in 0..MaxTime : Ended(writer, g, T)

LEMMA StatusIs ==
    ASSUME NEW s \in Statuses, NEW n \in Nat, s.time = n + 1, s.id <=> n = 0
    PROVE  s = Pack(n, MaxTime) /\ n < MaxTime
<1> DEFINE i == (n + 1 = 1)
<1>1. s = [time |-> s.time, id |-> s.id] /\ s.id \in BOOLEAN /\ s.time \in 1..MaxTime
  BY DEF Statuses
<1>2. i <=> n = 0
  OBVIOUS
<1>3. i \in BOOLEAN
  OBVIOUS
<1> HIDE DEF i
<1>4. s.id = i
  BY <1>1, <1>2, <1>3, Zenon
<1>5. s = [time |-> n + 1, id |-> i]
  BY <1>1, <1>4
<1>6. n < MaxTime
  BY <1>1, Sizes
<1> QED BY <1>5, <1>6 DEF Pack, Nth, i

LEMMA InitIsEmpty == ASSUME WriterInit PROVE writer.open /\ Empty(writer)
<1> DEFINE w == writer
<1>1. /\ w.open = TRUE /\ w.hash = "uninitialized" /\ w.collected = 0 /\ w.first = Padding
      /\ w.count = 0 /\ w.buffer = <<>> /\ w.offsets = [i \in 0..Group - 1 |-> 0]
      /\ w.times = [i \in 0..Hashed - 3 |-> 0] /\ w.stamps = <<>> /\ w.positions = <<>>
      /\ w.written = 0 /\ w.file = <<>>
  BY DEF WriterInit
<1>2. w = [open |-> w.open, hash |-> w.hash, collected |-> w.collected, first |-> w.first,
           count |-> w.count, buffer |-> w.buffer, offsets |-> w.offsets,
           times |-> w.times, stamps |-> w.stamps, positions |-> w.positions,
           written |-> w.written, file |-> w.file]
  BY DEF WriterInit
<1>3. w.offsets \in [0..Group - 1 -> Nat] /\ w.times \in [0..Hashed - 3 -> 0..MaxTime]
  BY <1>1, Sizes
<1>4. /\ w.open \in BOOLEAN /\ w.hash \in {"uninitialized", "needs", "has"}
      /\ w.collected \in 0..Hashed /\ w.first \in Packs /\ w.count \in 0..Group
      /\ w.buffer \in Seq(Statuses) /\ w.stamps \in Seq(0..MaxTime)
      /\ w.positions \in Seq(Nat) /\ w.written \in Nat /\ w.file \in Seq(Items)
  BY <1>1, Sizes DEF Packs
<1>5. w \in Writers
  <2> HIDE DEF w
  <2> QED BY <1>2, <1>3, <1>4 DEF Writers
<1>6. First(0) = 0 /\ Base(0) = 0 /\ Total(0, 0) = 0
  BY Places DEF Total
<1>7. 0 \in Nat /\ MaxTime \in 0..MaxTime /\ 0 < Group /\ Len(<<>>) = 0
  BY Sizes
<1>8. StampsAre(<<>>, 0, 0, MaxTime)
  BY DEF StampsAre
<1>9. ASSUME NEW k \in 0..0, NEW i \in 0..Group - 1 PROVE ~There(k, i, 0, 0)
  BY Sizes DEF There
<1>10. PositionsAre(<<>>, 0, 0)
  BY <1>6, <1>9 DEF PositionsAre
<1>11. FileIs(<<>>, 0, 0, MaxTime)
  BY <1>6, <1>9 DEF FileIs
<1>12. Packed(<<>>, w.offsets, 0, 0, MaxTime)
  BY <1>3, <1>7, PackedEmpty
<1> HIDE DEF w
<1>13. Whole(w, 0, MaxTime)
  BY <1>1, <1>5, <1>6, <1>7, <1>8, <1>10, <1>11, <1>12 DEF Whole
<1>14. w.open /\ Empty(w)
  BY <1>1, <1>13 DEF Empty
<1> QED BY <1>14 DEF w

LEMMA InitEmpty == ASSUME WriterInit PROVE WriterInv
BY InitIsEmpty DEF WriterInv, Writing

\* The next status of a log with its id.
LEMMA GrowsOn ==
    ASSUME NEW w, NEW g, Whole(w, g, MaxTime), w.hash = "has",
           Total(g, w.count) < MaxTime, NEW s, s = Pack(Total(g, w.count), MaxTime)
    PROVE  LET v == WithEntry(w, s)
           IN  Writing(v, Total(g, w.count) + 1) /\ v.open = w.open
<1> DEFINE v == WithEntry(w, s)
           c == w.count
           k == IF c + 1 = Group THEN g + 1 ELSE g
<1>1. c \in Nat /\ g \in Nat /\ First(g) \in Nat /\ First(g + 1) = First(g) + Group
  BY WriterIs, Places DEF Whole
<1>2. First(g) < MaxTime
  BY <1>1, Sizes DEF Total
<1>3. /\ Whole(v, k, MaxTime) /\ v.count = (IF c + 1 = Group THEN 0 ELSE c + 1)
      /\ v.open = w.open /\ v.hash = w.hash
  BY <1>2, EntryWhole
<1> HIDE DEF v, c
<1>4. k \in Nat /\ Total(k, v.count) = Total(g, c) + 1 /\ Total(g, c) \in Nat
  <2>1. CASE c + 1 = Group
    BY <1>1, <1>3, <2>1 DEF Total
  <2>2. CASE c + 1 # Group
    BY <1>1, <1>3, <2>2 DEF Total
  <2> QED BY <2>1, <2>2
<1>5. Total(g, c) < MaxTime
  BY DEF c
<1> HIDE DEF k
<1>6. Growing(v, k)
  <2>1. Total(k, v.count) > 0 /\ Total(k, v.count) <= MaxTime
    BY <1>4, <1>5, Sizes
  <2> QED BY <1>3, <2>1 DEF Growing
<1>7. Writing(v, Total(g, c) + 1)
  BY <1>4, <1>6 DEF Writing
<1> QED BY <1>3, <1>7 DEF v, c

LEMMA WrittenIs ==
    ASSUME NEW w, NEW n \in Nat, Writing(w, n), w.open,
           NEW s \in Statuses,
           s.time = Len(w.stamps) + (IF w.hash = "needs" THEN 2 ELSE 1),
           s.id => s.time = 1
    PROVE  LET v == Written(w, s)
           IN  v.open /\ Writing(v, n + 1) /\ s.time = n + 1 /\ (s.id => n = 0)
<1>1. CASE Empty(w) /\ n = 0
  <2>1. w \in Writers /\ w.hash = "uninitialized" /\ Whole(w, 0, MaxTime) /\ w.count = 0
        /\ w.collected = 0
    BY <1>1 DEF Empty, Whole
  <2>2. Total(0, 0) = 0 /\ First(0) = 0 /\ Base(0) = 0
    BY Places DEF Total
  <2>3. /\ Len(w.stamps) = 0 /\ Len(w.positions) = 0 /\ Len(w.file) = 0
        /\ w.written = 0 /\ Packed(w.buffer, w.offsets, 0, 0, MaxTime)
    BY <2>1, <2>2 DEF Whole, StampsAre, PositionsAre, FileIs
  <2>4. s.time = 1
    BY <2>1, <2>3
  <2>5. CASE s.id
    <3> DEFINE u == [w EXCEPT !.hash = "has"]
    <3>1. /\ u \in Writers /\ u.hash = "has" /\ u.count = w.count /\ u.written = w.written
          /\ u.stamps = w.stamps /\ u.positions = w.positions /\ u.file = w.file
          /\ u.buffer = w.buffer /\ u.offsets = w.offsets /\ u.open = w.open
      BY <2>1 DEF Writers
    <3>2. Written(w, s) = WithEntry(u, s)
      BY <2>1, <2>5 DEF Written
    <3> HIDE DEF u
    <3>3. Whole(u, 0, MaxTime)
      BY <2>1, <3>1, SameWhole
    <3>4. s = Pack(0, MaxTime) /\ 0 < MaxTime
      BY <2>4, <2>5, StatusIs
    <3>5. Total(0, u.count) = 0
      BY <2>1, <2>2, <3>1
    <3> DEFINE v == WithEntry(u, s)
    <3>6. Writing(v, 0 + 1) /\ v.open = u.open
      <4>1. Total(0, u.count) < MaxTime /\ s = Pack(Total(0, u.count), MaxTime)
        BY <3>4, <3>5
      <4>2. Writing(v, Total(0, u.count) + 1) /\ v.open = u.open
        BY <3>1, <3>3, <4>1, GrowsOn
      <4> QED BY <3>5, <4>2
    <3> HIDE DEF v
    <3>7. n = 0 /\ n + 1 = 0 + 1 /\ s.time = n + 1
      <4>1. n = 0
        BY <1>1
      <4>2. n + 1 = 0 + 1 /\ n + 1 = 1
        BY <4>1
      <4> QED BY <2>4, <4>1, <4>2
    <3>8. Written(w, s) = v /\ v.open /\ Writing(v, n + 1)
      BY <3>1, <3>2, <3>6, <3>7 DEF v
    <3> QED BY <3>7, <3>8
  <2>6. CASE ~s.id
    <3> DEFINE u == [w EXCEPT !.hash = "needs", !.first = s]
               m == [u EXCEPT !.collected = @ + 1]
    <3>1. s \in Packs
      BY DEF Packs
    <3>2. /\ u \in Writers /\ u.hash = "needs" /\ u.first = s /\ u.collected = 0
          /\ u.count = w.count /\ u.written = w.written
          /\ u.stamps = w.stamps /\ u.positions = w.positions /\ u.file = w.file
          /\ u.buffer = w.buffer /\ u.offsets = w.offsets /\ u.open = w.open
      BY <2>1, <3>1 DEF Writers
    <3>3. Written(w, s) = Collected(u)
      BY <2>1, <2>6 DEF Written
    <3> HIDE DEF u
    <3>4. 1 \in 0..Hashed /\ 1 # Hashed
      BY Sizes
    <3>5. /\ m \in Writers /\ m.hash = "needs" /\ m.first = s /\ m.collected = 1
          /\ m.count = w.count /\ m.written = w.written
          /\ m.stamps = w.stamps /\ m.positions = w.positions /\ m.file = w.file
          /\ m.buffer = w.buffer /\ m.offsets = w.offsets /\ m.open = w.open
      <4>1. m = [u EXCEPT !.collected = 1]
        BY <3>2
      <4> HIDE DEF m
      <4>2. u \in Writers /\ 1 \in 0..Hashed
        BY <3>2, <3>4
      <4>3. m \in Writers
        BY <4>1, <4>2 DEF Writers
      <4>4. /\ m.hash = u.hash /\ m.first = u.first /\ m.collected = 1
            /\ m.count = u.count /\ m.written = u.written
            /\ m.stamps = u.stamps /\ m.positions = u.positions /\ m.file = u.file
            /\ m.buffer = u.buffer /\ m.offsets = u.offsets /\ m.open = u.open
        BY <4>1, <4>2 DEF Writers
      <4> QED BY <3>2, <4>3, <4>4
    <3>6. Collected(u) = m
      BY <3>2, <3>4, <3>5 DEF Collected, HashComplete
    <3> HIDE DEF m
    <3>7. s = [time |-> 1, id |-> FALSE]
      <4>1. s = [time |-> s.time, id |-> s.id] /\ s.id \in BOOLEAN
        BY DEF Statuses
      <4>2. s.id = FALSE
        BY <2>6, <4>1
      <4> QED BY <2>4, <4>1, <4>2
    <3>8. w.stamps = <<>> /\ w.positions = <<>> /\ w.file = <<>>
      BY <2>1, <2>3, WriterIs
    <3>9. StampsAre(m.stamps, 0, 1, MaxTime)
      BY <3>5, <3>8 DEF StampsAre
    <3>10. Packed(m.buffer, m.offsets, 0, 1, MaxTime)
      <4>1. w.buffer \in Seq(Statuses) /\ Len(w.buffer) = 0
        BY <2>3 DEF Packed
      <4>2. w.buffer = <<>> /\ m.offsets \in [0..Group - 1 -> Nat]
        BY <3>5, <4>1, WriterIs
      <4> QED BY <3>5, <4>2, PackedEmpty, Sizes
    <3>11. 0 <= Hashed - 2 /\ MaxTime \in 1..MaxTime /\ 0 + 1 <= MaxTime
      BY Sizes
    <3>12. Kept(m, MaxTime)
      BY <2>1, <2>3, <3>5, <3>7, <3>8, <3>9, <3>10, <3>11 DEF Kept
    <3>13. Keeping(m)
      BY <2>1, <3>5, <3>11, <3>12 DEF Keeping
    <3>14. Writing(m, 0 + 1)
      BY <2>1, <3>5, <3>13 DEF Writing
    <3>15. n = 0 /\ n + 1 = 0 + 1 /\ s.time = n + 1
      <4>1. n = 0
        BY <1>1
      <4>2. n + 1 = 0 + 1 /\ n + 1 = 1
        BY <4>1
      <4> QED BY <2>4, <4>1, <4>2
    <3>16. Written(w, s) = m /\ m.open /\ Writing(m, n + 1)
      BY <3>3, <3>5, <3>6, <3>14, <3>15
    <3> QED BY <3>15, <3>16
  <2> QED BY <2>5, <2>6
<1>2. CASE Keeping(w) /\ n = w.count + 1
  <2> DEFINE c == w.count
             m == [w EXCEPT !.collected = @ + 1]
  <2>1. /\ Kept(w, MaxTime) /\ w \in Writers /\ w.hash = "needs" /\ w.collected = c + 1
        /\ c \in Nat /\ c <= Hashed - 2 /\ Len(w.stamps) = c
    <3>1. Kept(w, MaxTime) /\ w.collected = c + 1 /\ w \in Writers
      BY <1>2 DEF Keeping, Kept
    <3> QED BY <3>1, WriterIs DEF Kept, StampsAre
  <2>2. c + 2 \in 0..Hashed /\ c + 1 \in Nat /\ (c + 1) + 1 = c + 2
    BY <2>1, Sizes
  <2>3. /\ m \in Writers /\ m.hash = "needs" /\ m.collected = c + 2
        /\ m.first = w.first /\ m.times = w.times
        /\ m.count = w.count /\ m.written = w.written
        /\ m.stamps = w.stamps /\ m.positions = w.positions /\ m.file = w.file
        /\ m.buffer = w.buffer /\ m.offsets = w.offsets /\ m.open = w.open
    BY <2>1, <2>2 DEF Writers
  <2>4. Written(w, s) = WithEntry(Collected(w), s)
    BY <2>1 DEF Written
  <2>5. Collected(w) = IF c + 2 = Hashed
                       THEN [WithFirst(m, Identified(w.first)) EXCEPT !.collected = 0] ELSE m
    BY <2>1, <2>3 DEF Collected, HashComplete
  <2> HIDE DEF m
  <2>6. Kept(m, MaxTime)
    BY <2>1, <2>3, SameKept
  <2>7. s = Pack(c + 1, MaxTime) /\ c + 1 < MaxTime /\ s.time = (c + 1) + 1 /\ ~s.id
    <3>1. s.time = (c + 1) + 1
      BY <2>1
    <3>2. c + 1 # 0 /\ ~s.id
      BY <2>1, <3>1
    <3> HIDE DEF c
    <3> QED BY <2>2, <3>1, <3>2, StatusIs
  <2>8. CASE c + 2 = Hashed
    <3> DEFINE u == WithFirst(m, Identified(w.first))
               v == [u EXCEPT !.collected = 0]
    <3>1. m.count = Hashed - 2
      BY <2>1, <2>3, <2>8, Sizes
    <3>2. /\ Whole(u, 0, MaxTime) /\ u.count = m.count + 1 /\ u.hash = "has"
          /\ u.open = m.open
      <4>1. m.first = w.first
        BY <2>3
      <4> QED BY <2>6, <3>1, <4>1, FirstWhole
    <3> HIDE DEF u
    <3>3. u \in Writers
      BY <3>2 DEF Whole
    <3>4. 0 \in 0..Hashed
      BY Sizes
    <3>5. /\ v \in Writers /\ v.hash = u.hash
          /\ v.count = u.count /\ v.written = u.written
          /\ v.stamps = u.stamps /\ v.positions = u.positions /\ v.file = u.file
          /\ v.buffer = u.buffer /\ v.offsets = u.offsets /\ v.open = u.open
      BY <3>3, <3>4 DEF Writers
    <3> HIDE DEF v
    <3>6. Whole(v, 0, MaxTime)
      BY <3>2, <3>5, SameWhole
    <3>7. Total(0, v.count) = c + 1
      <4>1. First(0) = 0 /\ v.count = c + 1
        BY <2>3, <3>2, <3>5, Places
      <4> QED BY <2>2, <4>1 DEF Total
    <3> DEFINE x == WithEntry(v, s)
    <3>8. Writing(x, (c + 1) + 1) /\ x.open = v.open
      BY <2>7, <3>2, <3>5, <3>6, <3>7, GrowsOn
    <3>9. Written(w, s) = x
      BY <2>4, <2>5, <2>8 DEF v, u
    <3> HIDE DEF x
    <3> QED BY <1>2, <2>3, <2>7, <3>2, <3>5, <3>8, <3>9
  <2>9. CASE c + 2 # Hashed
    <3> DEFINE v == WithEntry(m, s)
    <3>1. m.count < Hashed - 2
      BY <2>1, <2>3, <2>9, Sizes
    <3>2. s = Pack(m.count + 1, MaxTime)
      BY <2>3, <2>7
    <3>3. Kept(v, MaxTime) /\ v.count = m.count + 1 /\ v.open = m.open
          /\ v.collected = m.collected
      BY <2>6, <3>1, <3>2, EntryKept
    <3>4. Written(w, s) = v
      BY <2>4, <2>5, <2>9
    <3> HIDE DEF v
    <3>5. v.collected = v.count + 1 /\ v.count + 1 <= MaxTime
      BY <2>1, <2>2, <2>3, <2>7, <3>3, Sizes
    <3>6. Keeping(v)
      BY <3>3, <3>5 DEF Keeping
    <3>7. Writing(v, (c + 1) + 1)
      BY <2>3, <3>3, <3>6 DEF Writing
    <3> QED BY <1>2, <2>3, <2>7, <3>3, <3>4, <3>7
  <2> QED BY <2>8, <2>9
<1>3. ASSUME NEW g \in Nat, Growing(w, g), n = Total(g, w.count)
      PROVE  /\ Written(w, s).open /\ Writing(Written(w, s), n + 1)
             /\ s.time = n + 1 /\ (s.id => n = 0)
  <2>1. Whole(w, g, MaxTime) /\ w.hash = "has" /\ n > 0 /\ n <= MaxTime
    BY <1>3 DEF Growing
  <2>2. Len(w.stamps) = n
    BY <1>3, <2>1 DEF Whole, StampsAre
  <2>3. Written(w, s) = WithEntry(w, s)
    BY <2>1 DEF Written, Collected
  <2>4. s = Pack(n, MaxTime) /\ n < MaxTime /\ s.time = n + 1 /\ ~s.id
    <3>1. s.time = n + 1
      BY <2>1, <2>2
    <3>2. n # 0 /\ ~s.id
      BY <2>1, <3>1
    <3> QED BY <3>1, <3>2, StatusIs
  <2> DEFINE v == WithEntry(w, s)
  <2>5. Writing(v, n + 1) /\ v.open = w.open
    BY <1>3, <2>1, <2>4, GrowsOn
  <2> QED BY <2>3, <2>4, <2>5
<1> QED BY <1>1, <1>2, <1>3 DEF Writing

LEMMA FinishedIs ==
    ASSUME NEW w, NEW n \in Nat, Writing(w, n)
    PROVE  /\ n \in 0..MaxTime /\ Finished(w) \in Writers
           /\ \E g \in Nat : Ended(Finished(w), g, n)
<1>1. CASE Empty(w) /\ n = 0
  <2>1. w.hash = "uninitialized" /\ Whole(w, 0, MaxTime) /\ w.count = 0 /\ w \in Writers
    BY <1>1 DEF Empty, Whole
  <2>2. Finished(w) = w
    BY <2>1 DEF Finished, Filled
  <2>3. Total(0, w.count) <= 0 /\ 0 \in 0..MaxTime /\ First(0) = 0 /\ 0 \in Nat
    BY <2>1, Places, Sizes DEF Total
  <2>4. Whole(w, 0, 0)
    BY <2>1, <2>3, WholeGrow
  <2>5. Ended(w, 0, 0)
    BY <2>1, <2>3, <2>4 DEF Ended
  <2> QED BY <1>1, <2>1, <2>2, <2>3, <2>5
<1>2. ASSUME NEW g \in Nat, Growing(w, g), n = Total(g, w.count)
      PROVE  /\ n \in 0..MaxTime /\ Finished(w) \in Writers
             /\ \E k \in Nat : Ended(Finished(w), k, n)
  <2> DEFINE c == w.count
             T == Total(g, c)
  <2>1. Whole(w, g, MaxTime) /\ w.hash = "has" /\ T <= MaxTime /\ w \in Writers
    BY <1>2 DEF Growing, Whole
  <2>2. First(g) \in Nat /\ c \in Nat /\ T \in Nat /\ T \in 0..MaxTime
    <3>1. First(g) \in Nat /\ c \in Nat
      BY <2>1, WriterIs, Places
    <3> HIDE DEF c
    <3>2. T \in Nat
      BY <3>1 DEF Total
    <3> QED BY <2>1, <3>1, <3>2, Sizes DEF c
  <2>3. Whole(w, g, T) /\ T <= Total(g, w.count)
    <3>1. Total(g, w.count) <= T
      BY <2>2
    <3>2. Whole(w, g, T)
      BY <2>1, <2>2, <3>1, WholeGrow
    <3> QED BY <2>2, <3>2
  <2>4. Finished(w) = Filled(w)
    BY <2>1 DEF Finished
  <2>5. CASE c = 0
    <3>1. Filled(w) = w /\ T = First(g)
      BY <2>2, <2>5 DEF Filled, Total
    <3>2. g > 0 => First(g - 1) < T
      <4> SUFFICES ASSUME g > 0 PROVE First(g - 1) < T
        OBVIOUS
      <4>1. g - 1 \in Nat /\ g - 1 < g
        OBVIOUS
      <4>2. First(g - 1) + Group <= First(g) /\ First(g - 1) \in Nat
        BY <4>1, Ordered, Places
      <4> QED BY <2>2, <3>1, <4>2, Sizes
    <3>3. First(g) >= T
      BY <2>2, <3>1
    <3>4. Ended(w, g, T)
      BY <2>3, <2>5, <3>2, <3>3 DEF Ended
    <3> HIDE DEF T
    <3> QED BY <1>2, <2>1, <2>2, <2>4, <3>1, <3>4 DEF T
  <2>6. CASE c # 0
    <3> DEFINE v == Padded(w, Group - w.count)
    <3>1. Filled(w) = v
      BY <2>6 DEF Filled
    <3>2. First(g) < T
      BY <2>2, <2>6 DEF Total
    <3>3. Total(g, w.count) >= T
      BY <2>2
    <3>4. Whole(v, g + 1, T) /\ v.count = 0
      BY <2>3, <3>2, <3>3, WholePadded
    <3> HIDE DEF v
    <3>5. g + 1 \in Nat /\ (g + 1) - 1 = g
      OBVIOUS
    <3>6. First(g + 1) >= T
      <4>1. First(g + 1) = First(g) + Group
        BY Places
      <4>2. c < Group
        BY <2>1 DEF Whole
      <4> HIDE DEF c
      <4> QED BY <2>2, <4>1, <4>2, Sizes DEF Total
    <3>7. Ended(v, g + 1, T) /\ v \in Writers
      BY <3>2, <3>4, <3>5, <3>6 DEF Ended, Whole
    <3> HIDE DEF T
    <3> QED BY <1>2, <2>2, <2>4, <3>1, <3>5, <3>7 DEF T
  <2> QED BY <2>5, <2>6
<1>3. CASE Keeping(w) /\ n = w.count + 1
  <2> DEFINE c == w.count
             T == c + 1
  <2>1. Kept(w, MaxTime) /\ w.hash = "needs" /\ T <= MaxTime /\ w \in Writers
    BY <1>3 DEF Keeping, Kept
  <2>2. c \in Nat /\ T \in 1..MaxTime /\ T \in Nat /\ T > 0 /\ T \in 0..MaxTime
    <3>1. c \in Nat
      BY <2>1, WriterIs
    <3> HIDE DEF c
    <3> QED BY <2>1, <3>1, Sizes
  <2>3. Kept(w, T) /\ c <= Hashed - 2
    <3>1. w.count + 1 <= T
      BY <2>2
    <3>2. c <= Hashed - 2
      BY <2>1 DEF Kept
    <3> HIDE DEF T
    <3> QED BY <2>1, <2>2, <3>1, <3>2, KeptGrow
  <2> DEFINE u == Padded(w, Hashed - 2 - w.count)
             v == WithFirst(u, Identified(w.first))
             x == Padded(v, Group - v.count)
  <2>4. Kept(u, T) /\ u.count = Hashed - 2
    <3>1. w.count + 1 >= T
      BY <2>2
    <3> HIDE DEF T
    <3> QED BY <2>3, <3>1, KeptPadded
  <2>5. Finished(w) = Filled(v)
    BY <2>1 DEF Finished
  <2> HIDE DEF u, T
  <2>6. u.first = w.first
    BY <2>1, <2>4 DEF Kept
  <2>7. Whole(v, 0, T) /\ v.count = u.count + 1
    <3>1. LET y == WithFirst(u, Identified(u.first))
          IN  Whole(y, 0, T) /\ y.count = u.count + 1
      BY <2>4, FirstWhole
    <3> QED BY <2>6, <3>1
  <2> HIDE DEF v
  <2>8. v.count = Hashed - 1 /\ v.count # 0 /\ v.count \in Nat
    BY <2>4, <2>7, Sizes
  <2>9. Total(0, v.count) >= T /\ First(0) = 0 /\ First(0) < T
    <3>1. First(0) = 0
      BY Places
    <3> HIDE DEF c
    <3> QED BY <2>2, <2>3, <2>8, <3>1, Sizes DEF Total, T
  <2>10. Whole(x, 0 + 1, T) /\ x.count = 0
    BY <2>7, <2>9, WholePadded
  <2>11. Filled(v) = x
    BY <2>8 DEF Filled
  <2> HIDE DEF x
  <2>12. First(1) = Group /\ First(1) >= T
    <3>1. First(1) = Group
      BY Places
    <3> HIDE DEF c
    <3> QED BY <2>2, <2>3, <3>1, Sizes DEF T
  <2>13. Whole(x, 1, T) /\ 1 - 1 = 0
    BY <2>10
  <2>14. Ended(x, 1, T) /\ x \in Writers /\ 1 \in Nat
    BY <2>9, <2>10, <2>12, <2>13 DEF Ended, Whole
  <2> QED BY <1>3, <2>2, <2>5, <2>11, <2>14 DEF T
<1> QED BY <1>1, <1>2, <1>3 DEF Writing

LEMMA ClosedIs ==
    ASSUME NEW w, NEW n \in Nat, Writing(w, n)
    PROVE  LET v == [Finished(w) EXCEPT !.open = FALSE]
           IN  n \in 0..MaxTime /\ ~v.open /\ \E g \in Nat : Ended(v, g, n)
<1> DEFINE u == Finished(w)
           v == [u EXCEPT !.open = FALSE]
<1>1. n \in 0..MaxTime /\ u \in Writers /\ \E g \in Nat : Ended(u, g, n)
  BY FinishedIs
<1>2. PICK g \in Nat : Ended(u, g, n)
  BY <1>1
<1> HIDE DEF u
<1>3. Whole(u, g, n) /\ u.count = 0 /\ u.hash # "needs"
  BY <1>2 DEF Ended, Whole
<1>4. /\ v \in Writers /\ v.hash = u.hash
      /\ v.count = u.count /\ v.written = u.written
      /\ v.stamps = u.stamps /\ v.positions = u.positions /\ v.file = u.file
      /\ v.buffer = u.buffer /\ v.offsets = u.offsets /\ v.open = FALSE
  BY <1>1 DEF Writers
<1> HIDE DEF v
<1>5. Whole(v, g, n)
  BY <1>3, <1>4, SameWhole
<1>6. Ended(v, g, n)
  BY <1>2, <1>4, <1>5 DEF Ended
<1> QED BY <1>1, <1>4, <1>6 DEF v, u

LEMMA WriterStep ==
    ASSUME WriterInv, (WriteStatus \/ CloseFile \/ UNCHANGED writer)
    PROVE  WriterInv'
<1>1. CASE WriteStatus
  <2>1. PICK n \in Nat : writer.open /\ Writing(writer, n)
    BY <1>1 DEF WriteStatus, WriterInv
  <2>2. PICK s \in Statuses :
          /\ s.time = Len(writer.stamps) + (IF writer.hash = "needs" THEN 2 ELSE 1)
          /\ s.id => s.time = 1
          /\ writer' = Written(writer, s)
    BY <1>1 DEF WriteStatus
  <2> DEFINE v == Written(writer, s)
  <2>3. v.open /\ Writing(v, n + 1)
    BY <2>1, <2>2, WrittenIs
  <2>4. writer'.open /\ Writing(writer', n + 1)
    BY <2>2, <2>3
  <2>5. n + 1 \in Nat
    OBVIOUS
  <2> QED BY <2>4, <2>5 DEF WriterInv
<1>2. CASE CloseFile
  <2>1. PICK n \in Nat : Writing(writer, n)
    BY <1>2 DEF CloseFile, WriterInv
  <2>2. writer' = [Finished(writer) EXCEPT !.open = FALSE]
    BY <1>2 DEF CloseFile
  <2>3. n \in 0..MaxTime /\ ~writer'.open /\ \E g \in Nat : Ended(writer', g, n)
    BY <2>1, <2>2, ClosedIs
  <2> QED BY <2>3 DEF WriterInv
<1>3. CASE UNCHANGED writer
  BY <1>3 DEF WriterInv
<1> QED BY <1>1, <1>2, <1>3

\* Every step of the log's users leaves the writer alone or is one of its steps.
LEMMA WriterSteps == ASSUME [Next]_vars PROVE WriteStatus \/ CloseFile \/ UNCHANGED writer
BY DEF Next, vars, Write, Close, Open, ReadStatus, Remember, Return, TakeOver, IndexPacket,
       Indexed, ReadPacket, LogUID

LEMMA WriterAlways == Spec => []WriterInv
<1>1. Init => WriterInv
  BY InitEmpty DEF Init
<1>2. WriterInv /\ [Next]_vars => WriterInv'
  BY WriterStep, WriterSteps
<1> QED BY <1>1, <1>2, PTL DEF Spec

\* "make sure that the hash is produced before the first group is written to the disc":
\* for hashes and groups of any length that fit, the first status of a log without an
\* id is kept back in front of all packages.
THEOREM HashFirst == Spec => []HashedBeforeGroup
<1>1. ASSUME WriterInv PROVE HashedBeforeGroup
  <2> SUFFICES ASSUME writer.hash = "needs"
               PROVE  /\ writer.file = <<>> /\ writer.written = 0
                      /\ writer.count = writer.collected - 1
                      /\ writer.count <= Hashed - 2
    BY DEF HashedBeforeGroup
  <2>1. Keeping(writer)
    BY <1>1 DEF WriterInv, Writing, Empty, Growing, Ended, Whole
  <2>2. /\ writer.file = <<>> /\ writer.written = 0 /\ writer.count <= Hashed - 2
        /\ writer.collected = writer.count + 1 /\ writer.count \in Nat
    BY <2>1, WriterIs DEF Keeping, Kept
  <2> QED BY <2>2
<1> QED BY <1>1, WriterAlways, PTL
-----------------------------------------------------------------------------
(* The statuses of a log.                                                     *)

\* The first n statuses.
Logged(n) == [i \in 1..n |-> Nth(i)]

LEMMA NthIs ==
    ASSUME NEW n \in 1..MaxTime
    PROVE  Nth(n) \in Statuses /\ Nth(n) # Padding /\ Nth(n).time = n
<1> DEFINE i == (n = 1)
<1>1. i \in BOOLEAN /\ n # 0
  OBVIOUS
<1> HIDE DEF i
<1>2. [time |-> n, id |-> i] \in Statuses
  BY <1>1 DEF Statuses
<1>3. [time |-> n, id |-> i] # Padding
  BY <1>1 DEF Padding
<1> QED BY <1>2, <1>3 DEF Nth, i

LEMMA PackageIs ==
    ASSUME NEW w, NEW g, NEW T, Whole(w, g, T), NEW n \in Nat, n < Total(g, w.count)
    PROVE  Package(w, n) = Pack(n, T)
<1>1. PICK k \in Nat, i \in 0..Group - 1 : n = First(k) + i
  BY Grouped
<1>2. n \div Group = k /\ n % Group = i
  BY <1>1, InGroup
<1>3. /\ g \in Nat /\ w.written = First(g) /\ First(g) \in Nat /\ First(k) \in Nat
      /\ w.count \in Nat /\ w.count < Group /\ First(k + 1) = First(k) + Group
  BY WriterIs, Places DEF Whole
<1>4. First(g + 1) = First(g) + Group
  BY <1>3, Places
<1>5. CASE k < g
  <2>1. First(k) + Group <= First(g)
    BY <1>3, <1>5, Ordered
  <2>2. n < w.written
    BY <1>1, <1>3, <2>1, Sizes
  <2> DEFINE x == w.file[Base(k) + Group + 1]
  <2>3. GroupIs(x, k, T)
    BY <1>3, <1>5 DEF Whole, FileIs
  <2>4. Package(w, n) = Unpacked(x.buffer, x.offsets, i, Group)
    BY <1>2, <2>2 DEF Package, Base
  <2> HIDE DEF x
  <2>5. Unpacked(x.buffer, x.offsets, i, Group) = Pack(First(k) + i, T)
    BY <2>3, UnpackedIs DEF GroupIs
  <2> QED BY <1>1, <2>4, <2>5
<1>6. CASE k = g
  <2>1. ~(n < w.written) /\ n - w.written = i /\ i \in 0..w.count - 1
    BY <1>1, <1>3, <1>6, Sizes DEF Total
  <2>2. Package(w, n) = Unpacked(w.buffer, w.offsets, i, w.count)
    BY <2>1 DEF Package
  <2>3. Packed(w.buffer, w.offsets, w.count, First(g), T)
    BY DEF Whole
  <2>4. Unpacked(w.buffer, w.offsets, i, w.count) = Pack(First(g) + i, T)
    BY <2>1, <2>3, UnpackedIs
  <2> QED BY <1>1, <1>6, <2>2, <2>4
<1>7. CASE k > g
  <2>1. First(g) + Group <= First(k)
    BY <1>3, <1>7, Ordered
  <2>2. FALSE
    BY <1>1, <1>3, <2>1, Sizes DEF Total
  <2> QED BY <2>2
<1> QED BY <1>3, <1>5, <1>6, <1>7

\* The contents of a log of T statuses, and of one that is still written.
LEMMA WholeContents ==
    ASSUME NEW w, NEW g, NEW T, Whole(w, g, T), NEW n \in Nat,
           n <= T, n <= Total(g, w.count), n < Total(g, w.count) => n >= T
    PROVE  Contents(w) = Logged(n)
<1> DEFINE N == w.written + w.count
           p == [i \in 1..N |-> Package(w, i - 1)]
           all == <<>> \o p
<1>1. /\ N = Total(g, w.count) /\ N \in Nat /\ T \in 0..MaxTime /\ w.hash # "needs"
  <2>1. w.written = First(g) /\ g \in Nat /\ w.count \in Nat
    BY WriterIs DEF Whole
  <2>2. First(g) \in Nat
    BY <2>1, Places
  <2> QED BY <2>1, <2>2 DEF Whole, Total
<1>2. Contents(w) = [i \in {m \in DOMAIN all : all[m] # Padding} |-> all[i]]
  BY <1>1 DEF Contents
<1> HIDE DEF N
<1>3. ASSUME NEW i \in 1..N PROVE p[i] = Pack(i - 1, T) /\ p[i] \in Packs
  <2>1. i - 1 \in Nat /\ i - 1 < Total(g, w.count)
    BY <1>1
  <2>2. Package(w, i - 1) = Pack(i - 1, T)
    BY <2>1, PackageIs
  <2>3. Pack(i - 1, T) \in Packs
    BY <1>1, <2>1, PackIs
  <2> QED BY <2>2, <2>3
<1>4. p \in Seq(Packs) /\ Len(p) = N
  <2>1. \A i \in 1..N : Package(w, i - 1) \in Packs
    BY <1>3
  <2> QED BY <1>1, <2>1
<1> HIDE DEF p
<1>5. all = p
  BY <1>4
<1>6. DOMAIN p = 1..N
  BY <1>1, <1>4
<1> HIDE DEF all
<1>7. ASSUME NEW i \in 1..N
      PROVE  (p[i] # Padding <=> i <= n) /\ (i <= n => p[i] = Nth(i))
  <2>1. i - 1 \in Nat /\ (i - 1) + 1 = i
    BY <1>1
  <2>2. CASE i <= n
    <3>1. i - 1 < T
      BY <1>1, <2>1, <2>2
    <3>2. Pack(i - 1, T) = Nth((i - 1) + 1) /\ Pack(i - 1, T) # Padding
      BY <1>1, <2>1, <3>1, PackIs
    <3> QED BY <1>3, <2>1, <2>2, <3>2
  <2>3. CASE ~(i <= n)
    <3>1. i - 1 >= T
      BY <1>1, <2>1, <2>3
    <3>2. Pack(i - 1, T) = Padding
      BY <1>1, <2>1, <3>1, PackIs
    <3> QED BY <1>3, <2>3, <3>2
  <2> QED BY <2>2, <2>3
<1>8. {m \in DOMAIN all : all[m] # Padding} = 1..n
  <2>1. \A m \in 1..n : m \in 1..N
    BY <1>1
  <2>2. \A m \in 1..N : m <= n => m \in 1..n
    BY <1>1
  <2> QED BY <1>5, <1>6, <1>7, <2>1, <2>2
<1>9. \A i \in 1..n : all[i] = Nth(i)
  <2>1. \A m \in 1..n : m \in 1..N /\ m <= n
    BY <1>1
  <2> QED BY <1>5, <1>7, <2>1
<1> QED BY <1>2, <1>8, <1>9 DEF Logged

LEMMA EmptyContents ==
    ASSUME NEW w, Empty(w) PROVE Contents(w) = Logged(0)
<1>1. Total(0, w.count) = 0 /\ Whole(w, 0, MaxTime) /\ 0 <= MaxTime /\ 0 \in Nat
  BY Places, Sizes DEF Empty, Total
<1> QED BY <1>1, WholeContents

LEMMA GrowingContents ==
    ASSUME NEW w, NEW g, Growing(w, g) PROVE Contents(w) = Logged(Total(g, w.count))
<1> DEFINE n == Total(g, w.count)
<1>1. Whole(w, g, MaxTime) /\ n <= MaxTime
  BY DEF Growing
<1>2. w.count \in Nat /\ First(g) \in Nat
  BY <1>1, WriterIs, Places DEF Whole
<1>3. n \in Nat
  BY <1>2 DEF Total
<1> HIDE DEF n
<1>4. n <= Total(g, w.count) /\ (n < Total(g, w.count) => n >= MaxTime)
  BY <1>3 DEF n
<1> QED BY <1>1, <1>3, <1>4, WholeContents DEF n

LEMMA EndedContents ==
    ASSUME NEW w, NEW g, NEW T, Ended(w, g, T) PROVE Contents(w) = Logged(T)
<1>1. Whole(w, g, T) /\ w.count = 0 /\ First(g) >= T /\ T \in 0..MaxTime /\ g \in Nat
  BY DEF Ended, Whole
<1>2. Total(g, w.count) >= T /\ T \in Nat /\ Total(g, w.count) \in Nat
  BY <1>1, Places, Sizes DEF Total
<1>3. T <= T /\ T <= Total(g, w.count) /\ (T < Total(g, w.count) => T >= T)
  BY <1>2
<1> QED BY <1>1, <1>2, <1>3, WholeContents

LEMMA KeepingContents ==
    ASSUME NEW w, Keeping(w) PROVE Contents(w) = Logged(w.count + 1)
<1> DEFINE c == w.count
           N == w.written + w.count
           p == [i \in 1..N |-> Package(w, i - 1)]
           s == Identified(w.first)
           all == <<s>> \o p
<1>1. /\ N = c /\ c \in Nat /\ w.hash = "needs" /\ w.written = 0 /\ w \in Writers
      /\ c + 1 <= MaxTime /\ MaxTime \in 0..MaxTime
      /\ Packed(w.buffer, w.offsets, c, 1, MaxTime)
  <2>1. /\ w \in Writers /\ w.written = 0 /\ w.hash = "needs" /\ c + 1 <= MaxTime
        /\ Packed(w.buffer, w.offsets, c, 1, MaxTime)
    BY DEF Keeping, Kept
  <2>2. c \in Nat
    BY <2>1, WriterIs
  <2> QED BY <2>1, <2>2, Sizes
<1>2. s = Nth(1) /\ s \in Packs
  <2>1. w.first = [time |-> 1, id |-> FALSE]
    BY DEF Keeping, Kept
  <2>2. Identified([time |-> 1, id |-> FALSE]) = [time |-> 1, id |-> TRUE]
    BY IdentifiedFirst
  <2>3. Nth(1) = [time |-> 1, id |-> TRUE]
    BY DEF Nth
  <2>4. Nth(1) \in Packs
    <3>1. 1 \in 1..MaxTime
      BY Sizes
    <3> QED BY <3>1, NthIs DEF Packs
  <2> QED BY <2>1, <2>2, <2>3, <2>4
<1>3. Contents(w) = [i \in {m \in DOMAIN all : all[m] # Padding} |-> all[i]]
  BY <1>1 DEF Contents
<1> HIDE DEF N, c, s
<1>4. ASSUME NEW i \in 1..c PROVE p[i] = Nth(i + 1) /\ p[i] \in Packs /\ p[i] # Padding
  <2> DEFINE j == i - 1
  <2>1. /\ j \in 0..c - 1 /\ j \in Nat /\ 1 + j = i /\ i \in Nat /\ i < MaxTime
        /\ j - 0 = j /\ ~(j < 0) /\ i \in 1..N
    BY <1>1
  <2> HIDE DEF j
  <2>2. p[i] = Package(w, j)
    BY <2>1 DEF j
  <2>3. Package(w, j) = Unpacked(w.buffer, w.offsets, j, c)
    BY <1>1, <2>1 DEF Package, c
  <2>4. Unpacked(w.buffer, w.offsets, j, c) = Pack(1 + j, MaxTime)
    BY <1>1, <2>1, UnpackedIs
  <2>5. Pack(i, MaxTime) = Nth(i + 1) /\ Pack(i, MaxTime) \in Packs
        /\ Pack(i, MaxTime) # Padding
    BY <1>1, <2>1, PackIs
  <2> QED BY <2>1, <2>2, <2>3, <2>4, <2>5
<1>5. p \in Seq(Packs) /\ Len(p) = c
  <2>1. p = [i \in 1..c |-> Package(w, i - 1)]
    BY <1>1
  <2>2. \A i \in 1..c : Package(w, i - 1) \in Packs
    BY <1>4, <2>1
  <2> QED BY <1>1, <2>1, <2>2
<1> HIDE DEF p
<1>6. DOMAIN all = 1..c + 1 /\ all[1] = s /\ \A i \in 1..c : all[i + 1] = p[i]
  BY <1>1, <1>2, <1>5
<1> HIDE DEF all
<1>7. ASSUME NEW i \in 1..c + 1 PROVE all[i] = Nth(i) /\ all[i] # Padding
  <2>1. CASE i = 1
    <3>1. Nth(1) # Padding
      BY DEF Nth, Padding
    <3> QED BY <1>2, <1>6, <2>1, <3>1
  <2>2. CASE i # 1
    <3> DEFINE j == i - 1
    <3>1. j \in 1..c /\ j + 1 = i
      BY <1>1, <2>2
    <3> HIDE DEF j
    <3> QED BY <1>4, <1>6, <3>1
  <2> QED BY <2>1, <2>2
<1>8. {m \in DOMAIN all : all[m] # Padding} = 1..c + 1
  BY <1>6, <1>7
<1> QED BY <1>3, <1>7, <1>8 DEF Logged, c
-----------------------------------------------------------------------------
(* The readers.                                                               *)

\* How many packages of group k a log of T statuses fills.
Fill(k, T) == IF First(k) + Group <= T THEN Group ELSE IF First(k) < T THEN T - First(k) ELSE 0

\* A file of g groups and c times of a log of T statuses.
Stored(g, c, T) ==
    /\ g \in Nat /\ c \in 0..Group /\ T \in 0..MaxTime
    /\ FileIs(file, g, c, T)

Readers == [pos : Nat, base : Nat, index : 0..Group, max : 0..Group,
            group : Groups, stamping : BOOLEAN]

\* The reader has group k, its next package is i.
Loaded(r, k, i, T) ==
    /\ r \in Readers
    /\ r.base = Base(k) + Group /\ r.pos = Base(k + 1)
    /\ GroupIs(r.group, k, T)
    /\ r.max = Fill(k, T) /\ r.index = i /\ i \in 0..Fill(k, T)
    /\ r.stamping = FALSE

LEMMA ReaderIs ==
    ASSUME NEW r \in Readers
    PROVE  /\ r.pos \in Nat /\ r.base \in Nat /\ r.index \in 0..Group /\ r.max \in 0..Group
           /\ r.group \in Groups /\ r.stamping \in BOOLEAN
           /\ r.index \in Nat /\ r.max \in Nat
BY Sizes DEF Readers

LEMMA FillIs ==
    ASSUME NEW k \in Nat, NEW T \in 0..MaxTime
    PROVE  /\ Fill(k, T) \in 0..Group /\ Fill(k, T) \in Nat
           /\ First(k) < T => Fill(k, T) > 0 /\ First(k) + Fill(k, T) <= T
           /\ First(k) + Group <= T => Fill(k, T) = Group
           /\ First(k) < T /\ First(k) + Group >= T => First(k) + Fill(k, T) = T
           /\ T \in Nat
<1> DEFINE n == First(k)
<1>1. n \in Nat /\ Group \in Nat /\ T \in Nat
  BY Places, Sizes
<1> HIDE DEF n
<1>2. Fill(k, T) = IF n + Group <= T THEN Group ELSE IF n < T THEN T - n ELSE 0
  BY DEF Fill, n
<1>3. CASE n + Group <= T
  BY <1>1, <1>2, <1>3, Sizes DEF n
<1>4. CASE ~(n + Group <= T) /\ n < T
  BY <1>1, <1>2, <1>4 DEF n
<1>5. CASE ~(n + Group <= T) /\ ~(n < T)
  BY <1>1, <1>2, <1>5 DEF n
<1> QED BY <1>3, <1>4, <1>5

LEMMA LeastIs ==
    ASSUME NEW S, S \subseteq Nat, NEW m \in S, \A y \in S : m <= y
    PROVE  Min(S) = m
<1> DEFINE P(x) == \A y \in S : x =< y
<1>1. m \in S /\ P(m)
  OBVIOUS
<1>2. \E x \in S : P(x)
  BY <1>1
<1>3. Min(S) = CHOOSE x \in S : P(x)
  BY DEF Min
<1>4. Min(S) \in S /\ P(Min(S))
  BY <1>2, <1>3, Zenon
<1> DEFINE x == Min(S)
<1>5. x \in Nat /\ m \in Nat /\ x <= m /\ m <= x
  BY <1>4
<1> HIDE DEF x
<1>6. x = m
  BY <1>5
<1> QED BY <1>6 DEF x

\* The times in the file.
LEMMA TimesAre ==
    ASSUME NEW g, NEW c, NEW T, Stored(g, c, T), NEW k \in 0..g, NEW i \in 0..Group - 1,
           There(k, i, g, c)
    PROVE  /\ TimeAt(Base(k) + i) = Pack(First(k) + i, T).time
           /\ Base(k) + i < Len(file) /\ Base(k) + i \in Nat
<1>1. /\ g \in Nat /\ c \in 0..Group /\ Len(file) = Base(g) + c
      /\ file[Base(k) + i + 1] = Time(Pack(First(k) + i, T).time)
  BY DEF Stored, FileIs
<1>2. k \in Nat /\ Base(k) \in Nat /\ Base(g) \in Nat
  BY <1>1, Places
<1>3. k < g => Base(k) + Group + 1 <= Base(g)
  BY <1>1, <1>2, Ordered
<1>4. Base(k) + i < Len(file) /\ Base(k) + i \in Nat
  BY <1>1, <1>2, <1>3, Sizes DEF There
<1>5. TimeAt(Base(k) + i) = file[Base(k) + i + 1].time
  BY <1>4 DEF TimeAt
<1> QED BY <1>1, <1>4, <1>5 DEF Time

LEMMA FilledIs ==
    ASSUME NEW g, NEW c, NEW T, Stored(g, c, T), NEW k \in 0..g - 1
    PROVE  FilledUpTo(Base(k)) = Fill(k, T)
<1>1. g \in Nat /\ c \in 0..Group /\ T \in 0..MaxTime /\ k \in Nat /\ k < g /\ k \in 0..g
  BY DEF Stored
<1> DEFINE n == First(k)
           m == Fill(k, T)
           Z == {i \in 0..Group - 1 : TimeAt(Base(k) + i) = 0}
           S == {Group} \cup Z
<1>2. n \in Nat /\ m \in Nat /\ m \in 0..Group /\ T \in Nat /\ Group \in Nat
  BY <1>1, Places, FillIs, Sizes
<1>3. ASSUME NEW i \in 0..Group - 1 PROVE TimeAt(Base(k) + i) = 0 <=> n + i >= T
  <2>1. There(k, i, g, c)
    BY <1>1 DEF There
  <2>2. TimeAt(Base(k) + i) = Pack(n + i, T).time
    BY <1>1, <2>1, TimesAre
  <2>3. n + i \in Nat
    BY <1>2
  <2>4. /\ n + i < T => Pack(n + i, T).time = n + i + 1
        /\ n + i >= T => Pack(n + i, T).time = 0
    BY <1>1, <2>3, PackIs
  <2> QED BY <1>2, <2>2, <2>3, <2>4
<1>4. m = IF n + Group <= T THEN Group ELSE IF n < T THEN T - n ELSE 0
  BY DEF Fill
<1> HIDE DEF n, m
<1>5. \A i \in 0..Group - 1 : i \in Z <=> n + i >= T
  BY <1>3
<1>6. Z \subseteq 0..Group - 1
  OBVIOUS
<1> HIDE DEF Z
<1>7. m \in S
  <2>1. CASE m = Group
    BY <2>1
  <2>2. CASE m # Group
    <3>1. m \in 0..Group - 1 /\ n + m >= T
      BY <1>2, <1>4, <2>2
    <3> QED BY <1>5, <3>1
  <2> QED BY <2>1, <2>2
<1>8. ASSUME NEW y \in S PROVE m <= y
  <2>1. CASE y = Group
    BY <1>2, <2>1
  <2>2. CASE y \in Z
    <3>1. y \in 0..Group - 1 /\ n + y >= T
      BY <1>5, <1>6, <2>2
    <3> QED BY <1>2, <1>4, <3>1
  <2> QED BY <2>1, <2>2
<1>9. S \subseteq Nat
  BY <1>2, <1>6
<1> HIDE DEF S
<1>10. Min(S) = m
  BY <1>7, <1>8, <1>9, LeastIs
<1> QED BY <1>10 DEF FilledUpTo, S, Z, m

\* readNextGroup at the times of a group.
LEMMA GroupRead ==
    ASSUME NEW g, NEW c, NEW T, Stored(g, c, T), NEW k \in 0..g - 1, NEW r \in Readers,
           r.pos = Base(k)
    PROVE  Loaded(NextGroup(r), k, 0, T)
<1> DEFINE n == Base(k)
           b == n + Group
           x == file[b + 1]
           m == Fill(k, T)
           v == NextGroup(r)
<1>1. g \in Nat /\ c \in 0..Group /\ T \in 0..MaxTime /\ k \in Nat /\ k < g
  BY DEF Stored
<1>2. n \in Nat /\ Base(g) \in Nat /\ Base(k + 1) = b + 1
  BY <1>1, Places, Sizes
<1>3. n + Group + 1 <= Base(g)
  BY <1>1, Ordered
<1>4. Len(file) = Base(g) + c /\ GroupIs(file[n + Group + 1], k, T)
  BY <1>1 DEF Stored, FileIs
<1>5. GroupIs(x, k, T)
  BY <1>4
<1>6. FilledUpTo(r.pos) = m
  BY FilledIs
<1> HIDE DEF n
<1>7. b < Len(file) /\ b \in Nat /\ b + 1 \in Nat /\ ~(b >= Len(file))
  BY <1>1, <1>2, <1>3, <1>4, Sizes
<1>8. m \in 0..Group /\ 0 \in 0..m
  BY <1>1, FillIs, Sizes
<1>9. v = [r EXCEPT !.base = b, !.max = m, !.pos = b + 1, !.group = x,
                    !.index = 0, !.stamping = FALSE]
  BY <1>6, <1>7 DEF NextGroup, Readers, n
<1> HIDE DEF b, x, m, v
<1>10. x \in Groups
  BY <1>5 DEF GroupIs
<1>11. 0 \in 0..Group
  BY Sizes
<1>12. v \in Readers
  BY <1>7, <1>8, <1>9, <1>10, <1>11 DEF Readers
<1>13. /\ v.base = b /\ v.max = m /\ v.pos = b + 1 /\ v.group = x
       /\ v.index = 0 /\ v.stamping = FALSE
  BY <1>9 DEF Readers
<1>14. v.base = Base(k) + Group
  BY <1>13 DEF b, n
<1> QED BY <1>2, <1>5, <1>8, <1>12, <1>13, <1>14 DEF Loaded, m, v

\* Going to a place of a group.
LEMMA CurrentRead ==
    ASSUME NEW g, NEW c, NEW T, Stored(g, c, T), NEW k \in 0..g - 1, NEW r \in Readers,
           r.base = Base(k) + Group
    PROVE  Loaded(CurrentGroup(r), k, 0, T)
<1> DEFINE u == [r EXCEPT !.pos = r.base - Group]
<1>1. k \in Nat
  BY DEF Stored
<1>2. Base(k) \in Nat /\ r.base - Group = Base(k)
  BY <1>1, Places, Sizes
<1>3. u \in Readers /\ u.pos = Base(k)
  BY <1>2 DEF Readers
<1>4. CurrentGroup(r) = NextGroup(u)
  BY DEF CurrentGroup
<1> HIDE DEF u
<1> QED BY <1>3, <1>4, GroupRead

\* The package of a place.
LEMMA PackageRead ==
    ASSUME NEW k \in Nat, NEW T \in 0..MaxTime, NEW r, NEW i, Loaded(r, k, i, T),
           i < Fill(k, T)
    PROVE  StatusAt(r) = Pack(First(k) + i, T) /\ StatusRead(r) = StatusAt(r)
           /\ WithGroup(r) = r
<1>1. i \in 0..Group - 1
  BY FillIs, Sizes DEF Loaded
<1>2. r.index < r.max /\ GroupIs(r.group, k, T) /\ r.index = i
  BY DEF Loaded
<1>3. StatusAt(r) = Unpacked(r.group.buffer, r.group.offsets, i, Group)
  BY <1>2 DEF StatusAt
<1>4. Unpacked(r.group.buffer, r.group.offsets, i, Group) = Pack(First(k) + i, T)
  BY <1>1, <1>2, UnpackedIs DEF GroupIs
<1>5. WithGroup(r) = r
  BY <1>2 DEF WithGroup, GroupIs
<1> QED BY <1>3, <1>4, <1>5 DEF StatusRead

\* Where two groups are one.
LEMMA SameBase ==
    ASSUME NEW j \in Nat, NEW k \in Nat, Base(j) + Group = Base(k) + Group
    PROVE  j = k
<1>1. Base(j) \in Nat /\ Base(k) \in Nat
  BY Places
<1>2. j < k => Base(j) + Group + 1 <= Base(k)
  BY Ordered
<1>3. k < j => Base(k) + Group + 1 <= Base(j)
  BY Ordered
<1> QED BY <1>1, <1>2, <1>3, Sizes

\* applyMemento from a group that is loaded.
LEMMA AppliedRead ==
    ASSUME NEW g, NEW c, NEW T, Stored(g, c, T), NEW k \in 0..g - 1, NEW i \in 0..Fill(k, T),
           NEW r \in Readers, NEW m, m = [base |-> Base(k) + Group, index |-> i],
           r.base = m.base => \E j \in 0..g - 1 : \E h : Loaded(r, j, h, T)
    PROVE  Loaded(Applied(r, m), k, i, T)
<1> DEFINE v == IF m.base = r.base THEN r ELSE CurrentGroup([r EXCEPT !.base = m.base])
<1>1. k \in Nat /\ T \in 0..MaxTime /\ g \in Nat
  BY DEF Stored
<1>2. m.base = Base(k) + Group /\ m.index = i
  OBVIOUS
<1>3. i \in 0..Group
  BY <1>1, FillIs, Sizes
<1>4. \E h : Loaded(v, k, h, T)
  <2>1. CASE m.base = r.base
    <3>1. PICK j, h : j \in 0..g - 1 /\ Loaded(r, j, h, T)
      BY <2>1
    <3>2. r.base = Base(j) + Group /\ j \in Nat
      BY <1>1, <3>1 DEF Loaded
    <3>3. j = k
      BY <1>1, <1>2, <2>1, <3>2, SameBase
    <3> QED BY <2>1, <3>1, <3>3
  <2>2. CASE m.base # r.base
    <3> DEFINE u == [r EXCEPT !.base = m.base]
    <3>1. Base(k) + Group \in Nat
      <4>1. Base(k) \in Nat
        BY <1>1, Places
      <4> QED BY <4>1, Sizes
    <3>2. u \in Readers /\ u.base = Base(k) + Group
      BY <1>2, <3>1 DEF Readers
    <3> HIDE DEF u
    <3>3. Loaded(CurrentGroup(u), k, 0, T)
      BY <3>2, CurrentRead
    <3>4. v = CurrentGroup(u)
      BY <2>2 DEF u
    <3> QED BY <3>3, <3>4
  <2> QED BY <2>1, <2>2
<1>5. Applied(r, m) = [v EXCEPT !.index = i]
  BY <1>2 DEF Applied
<1> HIDE DEF v
<1> DEFINE w == [v EXCEPT !.index = i]
<1>6. v \in Readers
  BY <1>4 DEF Loaded
<1>7. w \in Readers
  BY <1>3, <1>6 DEF Readers
<1>8. /\ w.base = v.base /\ w.pos = v.pos /\ w.group = v.group /\ w.max = v.max
      /\ w.index = i /\ w.stamping = v.stamping
  BY <1>6 DEF Readers
<1> HIDE DEF w
<1>9. Loaded(w, k, i, T)
  BY <1>4, <1>7, <1>8 DEF Loaded
<1> QED BY <1>5, <1>9 DEF w

\* readStatus in a group.
LEMMA StatusInGroup ==
    ASSUME NEW k \in Nat, NEW T \in 0..MaxTime, NEW r, NEW i, Loaded(r, k, i, T),
           i + 1 < Fill(k, T)
    PROVE  Loaded(AfterStatus(r), k, i + 1, T)
<1> DEFINE v == [r EXCEPT !.index = @ + 1]
<1>1. /\ r \in Readers /\ r.index = i /\ r.max = Fill(k, T) /\ i \in 0..Fill(k, T)
      /\ Fill(k, T) \in 0..Group /\ Fill(k, T) \in Nat /\ GroupIs(r.group, k, T)
  BY FillIs DEF Loaded
<1>2. i \in Nat /\ i + 1 \in 0..Fill(k, T) /\ i + 1 \in 0..Group /\ ~(i >= Fill(k, T))
  BY <1>1, Sizes
<1>3. v = [r EXCEPT !.index = i + 1]
  BY <1>1
<1> HIDE DEF v
<1>4. v \in Readers
  BY <1>1, <1>2, <1>3 DEF Readers
<1>5. /\ v.base = r.base /\ v.pos = r.pos /\ v.group = r.group /\ v.max = r.max
      /\ v.index = i + 1 /\ v.stamping = r.stamping
  BY <1>1, <1>3 DEF Readers
<1>6. WithGroup(r) = r /\ r.group # NoGroup
  BY <1>1 DEF WithGroup, GroupIs
<1>7. IntoNextGroup(v) = v
  <2>1. ~(v.index >= v.max)
    BY <1>1, <1>2, <1>5
  <2> QED BY <2>1 DEF IntoNextGroup
<1>8. AfterStatus(r) = v
  BY <1>1, <1>2, <1>6, <1>7 DEF AfterStatus, v
<1> QED BY <1>2, <1>4, <1>5, <1>8 DEF Loaded

LEMMA FreshIs ==
    /\ FreshReader \in Readers /\ FreshReader.pos = 0 /\ FreshReader.base = Group
    /\ FreshReader.index = 0 /\ FreshReader.max = Group /\ FreshReader.group = NoGroup
    /\ FreshReader.stamping = TRUE /\ Base(0) + Group = Group /\ First(0) = 0 /\ Base(0) = 0
    /\ Memento(FreshReader) = [base |-> Base(0) + Group, index |-> 0]
<1>1. NoGroup \in Groups
  BY Sizes DEF NoGroup, Packages, Groups
<1>2. Base(0) = 0 /\ First(0) = 0
  BY Places
<1>3. FreshReader \in Readers
  BY <1>1, Sizes DEF FreshReader, Readers
<1> QED BY <1>2, <1>3, Sizes DEF FreshReader, Memento

\* A fresh reader loads the first group.
LEMMA FreshLoads ==
    ASSUME NEW g, NEW c, NEW T, Stored(g, c, T), g > 0
    PROVE  /\ Loaded(WithGroup(FreshReader), 0, 0, T)
           /\ AfterStatus(FreshReader) = AfterStatus(WithGroup(FreshReader))
           /\ StatusRead(FreshReader) = StatusRead(WithGroup(FreshReader))
<1> DEFINE r == WithGroup(FreshReader)
<1>1. 0 \in 0..g - 1
  BY DEF Stored
<1>2. r = CurrentGroup(FreshReader)
  BY FreshIs DEF WithGroup
<1>3. Loaded(r, 0, 0, T)
  BY <1>1, <1>2, FreshIs, CurrentRead
<1>4. WithGroup(r) = r
  BY <1>3 DEF Loaded, WithGroup, GroupIs
<1> QED BY <1>3, <1>4 DEF AfterStatus, StatusRead

\* The files of logs.
LEMMA WholeStored ==
    ASSUME NEW g, NEW T, Whole(writer, g, T) PROVE Stored(g, writer.count, T)
<1>1. writer.count \in 0..Group
  BY WriterIs DEF Whole
<1> QED BY <1>1 DEF Whole, Stored, file

\* What the live source knows of package n: the writer noted its place.
LEMMA PlaceNoted ==
    ASSUME NEW g, Growing(writer, g), NEW n \in 1..First(g)
    PROVE  \E k \in 0..g - 1, i \in 0..Group - 1 :
               /\ n - 1 = First(k) + i /\ First(k) + Group <= MaxTime
               /\ LivePackets[n] = [base |-> Base(k) + Group, index |-> i]
<1> DEFINE c == writer.count
           p == writer.positions
           q == SubSeq(p, 1, writer.written)
<1>1. /\ Whole(writer, g, MaxTime) /\ g \in Nat /\ writer.written = First(g)
      /\ c \in Nat /\ First(g) \in Nat /\ Total(g, c) <= MaxTime
      /\ PositionsAre(p, g, c)
  <2>1. Whole(writer, g, MaxTime) /\ g \in Nat
    BY DEF Growing, Whole
  <2> QED BY <2>1, WriterIs, Places DEF Growing, Whole
<1>2. n - 1 \in Nat /\ n \in Nat
  BY <1>1
<1>3. PICK k \in Nat, i \in 0..Group - 1 : n - 1 = First(k) + i
  BY <1>2, Grouped
<1>4. First(k) \in Nat /\ Base(k) \in Nat
  BY Places
<1>5. k < g
  <2> SUFFICES ASSUME ~(k < g) PROVE FALSE
    OBVIOUS
  <2>1. First(k) >= First(g)
    <3>1. k = g \/ g < k
      BY <1>1
    <3>2. g < k => First(g) + Group <= First(k)
      BY <1>1, Ordered
    <3> QED BY <1>1, <1>4, <3>1, <3>2, Sizes
  <2> QED BY <1>1, <1>3, <1>4, <2>1
<1>6. First(k) + Group <= MaxTime
  <2>1. First(k) + Group <= First(g)
    BY <1>1, <1>5, Ordered
  <2> QED BY <1>1, <1>4, <2>1, Sizes DEF Total
<1>7. p[n] = Base(k) + i
  <2>1. There(k, i, g, c) /\ k \in 0..g
    BY <1>1, <1>5 DEF There
  <2>2. p[First(k) + i + 1] = Base(k) + i
    BY <1>1, <2>1 DEF PositionsAre
  <2>3. First(k) + i + 1 = n
    BY <1>2, <1>3, <1>4
  <2> QED BY <2>2, <2>3
<1>8. p \in Seq(Nat) /\ Len(p) = First(g) + c
  BY <1>1 DEF PositionsAre
<1>9. Len(q) = First(g) /\ q \in Seq(Nat) /\ q[n] = p[n]
  <2> DEFINE m == First(g)
  <2>1. m \in Nat /\ m <= Len(p) /\ p \in Seq(Nat) /\ q = SubSeq(p, 1, m) /\ n \in 1..m
    BY <1>1, <1>8
  <2> HIDE DEF m, p
  <2>2. q = SubSeq(p, 0 + 1, 0 + m) /\ 0 + m <= Len(p) /\ 0 \in Nat /\ 0 + n = n
    <3>1. 0 + m = m /\ 0 + 1 = 1 /\ 0 + n = n
      BY <1>2, <2>1
    <3> HIDE DEF q
    <3> QED BY <2>1, <3>1
  <2> HIDE DEF q
  <2>3. q \in Seq(Nat) /\ Len(q) = m /\ q[n] = p[0 + n]
    BY <2>1, <2>2, PartOf
  <2> QED BY <2>2, <2>3 DEF m
<1> HIDE DEF p, q
<1>10. LivePackets = Mementos(q)
  BY DEF LivePackets, q, p
<1>11. DOMAIN q = 1..First(g)
  BY <1>9
<1>12. LivePackets[n] = [base |-> q[n] - ((n - 1) % Group) + Group, index |-> (n - 1) % Group]
  BY <1>10, <1>11 DEF Mementos
<1>13. (n - 1) % Group = i
  BY <1>3, InGroup
<1>14. q[n] - i + Group = Base(k) + Group
  <2>1. i \in Nat /\ q[n] = Base(k) + i
    BY <1>7, <1>9, Sizes
  <2> QED BY <1>4, <2>1, Sizes
<1>15. LivePackets[n] = [base |-> Base(k) + Group, index |-> i]
  BY <1>12, <1>13, <1>14
<1>16. k \in 0..g - 1
  BY <1>1, <1>5
<1> QED BY <1>3, <1>6, <1>15, <1>16

\* makeStatusSource: for groups of any size, the statuses of the complete groups of a
\* log that is still written are read at the places the writer noted.
LEMMA LiveReads ==
    ASSUME WriterInv PROVE LiveSourceReads
<1> SUFFICES ASSUME writer.open, NEW n \in DOMAIN LivePackets
             PROVE  Reads(AfterStatus(FreshReader), LivePackets[n], n)
                    /\ writer.stamps[n] = Contents(writer)[n].time
  BY DEF LiveSourceReads
<1>1. writer \in Writers /\ writer.written \in Nat /\ writer.positions \in Seq(Nat)
  <2>1. writer \in Writers
    BY DEF WriterInv, Writing, Empty, Keeping, Growing, Ended, Whole, Kept
  <2> QED BY <2>1, WriterIs
<1>2. CASE writer.written = 0
  <2>1. SubSeq(writer.positions, 1, 0) = <<>>
    BY <1>1
  <2>2. DOMAIN LivePackets = {}
    BY <1>2, <2>1 DEF LivePackets, Mementos
  <2> QED BY <2>2
<1>3. ASSUME writer.written # 0
      PROVE  Reads(AfterStatus(FreshReader), LivePackets[n], n)
             /\ writer.stamps[n] = Contents(writer)[n].time
  <2>1. ~Empty(writer) /\ ~Keeping(writer)
    BY <1>3, Places DEF Empty, Keeping, Kept, Whole
  <2>2. PICK g \in Nat : Growing(writer, g)
    BY <2>1 DEF WriterInv, Writing
  <2> DEFINE c == writer.count
             T == MaxTime
             R == AfterStatus(FreshReader)
  <2>3. /\ Whole(writer, g, T) /\ writer.written = First(g) /\ First(g) \in Nat
        /\ c \in Nat /\ Total(g, c) <= T /\ T \in 0..MaxTime
    <3>1. Whole(writer, g, T) /\ Total(g, c) <= T
      BY <2>2 DEF Growing
    <3>2. First(g) \in Nat
      BY Places
    <3> QED BY <3>1, <3>2, WriterIs, Sizes DEF Whole
  <2>4. Stored(g, c, T)
    BY <2>3, WholeStored
  <2>5. g > 0
    <3>1. g = 0 => First(g) = 0
      BY Places
    <3> QED BY <1>3, <2>3, <3>1
  <2>6. n \in 1..First(g)
    <3> DEFINE p == writer.positions
               m == First(g)
               q == SubSeq(p, 1, m)
    <3>1. LivePackets = Mementos(q)
      BY <2>3 DEF LivePackets
    <3>2. p \in Seq(Nat) /\ Len(p) = First(g) + c
      BY <2>3 DEF Whole, PositionsAre
    <3>3. m \in Nat /\ m <= Len(p)
      BY <2>3, <3>2
    <3> HIDE DEF p, m
    <3>4. q = SubSeq(p, 0 + 1, 0 + m) /\ 0 + m <= Len(p) /\ 0 \in Nat
      BY <3>3
    <3> HIDE DEF q
    <3>5. q \in Seq(Nat) /\ Len(q) = m
      BY <3>2, <3>3, <3>4, PartOf DEF p
    <3>6. DOMAIN q = 1..m
      BY <3>3, <3>5
    <3>7. DOMAIN LivePackets = DOMAIN q
      BY <3>1 DEF Mementos
    <3> QED BY <3>6, <3>7 DEF m
  <2> HIDE DEF R
  <2>7. PICK k \in 0..g - 1, i \in 0..Group - 1 :
          /\ n - 1 = First(k) + i /\ First(k) + Group <= MaxTime
          /\ LivePackets[n] = [base |-> Base(k) + Group, index |-> i]
    BY <2>2, <2>6, PlaceNoted
  <2>8. k \in Nat /\ First(k) \in Nat /\ n \in Nat /\ First(k) + i = n - 1 /\ n - 1 < T
    <3>1. k \in Nat /\ n \in Nat
      BY <2>3, <2>6
    <3>2. First(k) \in Nat
      BY <3>1, Places
    <3> QED BY <2>7, <3>1, <3>2, Sizes
  <2>9. Loaded(R, 0, 1, T)
    <3> DEFINE r == WithGroup(FreshReader)
    <3>1. Loaded(r, 0, 0, T) /\ R = AfterStatus(r)
      BY <2>4, <2>5, FreshLoads DEF R
    <3> HIDE DEF r
    <3>2. First(0) + Group <= T
      <4>1. First(0) + Group <= First(g) /\ First(0) = 0
        BY <2>5, Ordered, Places
      <4> QED BY <2>3, <4>1, Sizes DEF Total
    <3>3. Fill(0, T) = Group /\ 0 \in Nat
      BY <2>3, <3>2, FillIs
    <3>4. 0 + 1 < Fill(0, T)
      BY <3>3, Sizes
    <3>5. Loaded(R, 0, 0 + 1, T)
      BY <2>3, <3>1, <3>3, <3>4, StatusInGroup
    <3> QED BY <3>5
  <2> DEFINE m == LivePackets[n]
             r == Applied(R, m)
  <2>10. Fill(k, T) = Group
    BY <2>3, <2>7, <2>8, FillIs
  <2>11. i \in 0..Fill(k, T) /\ i < Fill(k, T) /\ R \in Readers
    BY <2>9, <2>10, Sizes DEF Loaded
  <2>12. 0 \in 0..g - 1
    BY <2>5
  <2> HIDE DEF m
  <2>13. m = [base |-> Base(k) + Group, index |-> i]
    BY <2>7 DEF m
  <2>14. Loaded(r, k, i, T)
    BY <2>4, <2>9, <2>11, <2>12, <2>13, AppliedRead
  <2> HIDE DEF r
  <2>15. StatusRead(r) = Pack(n - 1, T)
    BY <2>3, <2>8, <2>11, <2>14, PackageRead
  <2>16. Pack(n - 1, T) = Nth(n)
    <3>1. n - 1 \in Nat /\ (n - 1) + 1 = n
      BY <2>6, <2>8
    <3> QED BY <2>3, <2>8, <3>1, PackIs
  <2>17. n \in 1..Total(g, c) /\ n \in 1..MaxTime
    BY <2>3, <2>6, Sizes DEF Total
  <2>18. Contents(writer)[n] = Nth(n)
    <3>1. Contents(writer) = Logged(Total(g, c))
      BY <2>2, GrowingContents
    <3> QED BY <2>17, <3>1 DEF Logged
  <2>19. Reads(R, LivePackets[n], n)
    BY <2>15, <2>16, <2>18 DEF Reads, r, m
  <2>20. writer.stamps[n] = Nth(n).time
    <3>1. writer.stamps[n] = Pack(0 + n - 1, T).time
      BY <2>3, <2>17 DEF Whole, StampsAre
    <3>2. 0 + n - 1 = n - 1
      BY <2>8
    <3> QED BY <2>16, <3>1, <3>2
  <2> QED BY <2>18, <2>19, <2>20 DEF R
<1> QED BY <1>2, <1>3

\* A live source finds every packet of the complete groups, whatever the sizes.
THEOREM LiveSource == Spec => []LiveSourceReads
BY LiveReads, WriterAlways, PTL
-----------------------------------------------------------------------------
(* Files that are closed.                                                     *)

LEMMA EndedIs ==
    ASSUME NEW g, NEW T, Ended(writer, g, T)
    PROVE  /\ g \in Nat /\ T \in 0..MaxTime /\ T \in Nat /\ Stored(g, 0, T)
           /\ Len(file) = Base(g) /\ Base(g) \in Nat /\ (T = 0 <=> g = 0)
           /\ \A k \in 0..g - 1 :
               /\ k \in Nat /\ First(k) \in Nat /\ First(k) < T
               /\ k + 1 < g => First(k) + Group <= T /\ Fill(k, T) = Group
               /\ k + 1 = g => First(k) + Fill(k, T) = T
               /\ Fill(k, T) > 0 /\ First(k) + Fill(k, T) <= T
<1>1. Whole(writer, g, T) /\ writer.count = 0 /\ First(g) >= T /\ (g > 0 => First(g - 1) < T)
  BY DEF Ended
<1>2. g \in Nat /\ T \in 0..MaxTime /\ T \in Nat /\ First(g) \in Nat /\ Base(g) \in Nat
  <2>1. g \in Nat /\ T \in 0..MaxTime
    BY <1>1 DEF Whole
  <2> QED BY <2>1, Places, Sizes
<1>3. Stored(g, 0, T)
  BY <1>1, WholeStored
<1>4. Len(file) = Base(g)
  <2>1. Len(file) = Base(g) + 0
    BY <1>3 DEF Stored, FileIs
  <2> QED BY <1>2, <2>1
<1>5. T = 0 <=> g = 0
  <2>1. g = 0 => First(g) = 0
    BY Places
  <2>2. g > 0 => g - 1 \in Nat /\ First(g - 1) \in Nat
    BY <1>2, Places
  <2> QED BY <1>1, <1>2, <2>1, <2>2
<1>6. ASSUME NEW k \in 0..g - 1
      PROVE  /\ k \in Nat /\ First(k) \in Nat /\ First(k) < T
             /\ k + 1 < g => First(k) + Group <= T /\ Fill(k, T) = Group
             /\ k + 1 = g => First(k) + Fill(k, T) = T
             /\ Fill(k, T) > 0 /\ First(k) + Fill(k, T) <= T
  <2>1. k \in Nat /\ k + 1 \in Nat /\ (k < g - 1 \/ k = g - 1) /\ g - 1 \in Nat /\ g > 0
    BY <1>2
  <2>2. First(k) \in Nat /\ First(k + 1) = First(k) + Group /\ First(g - 1) \in Nat
    BY <2>1, Places
  <2>3. k < g - 1 => First(k) + Group <= First(g - 1)
    BY <2>1, Ordered
  <2>4. First(k) < T
    BY <1>1, <1>2, <2>1, <2>2, <2>3, Sizes
  <2>5. k + 1 < g => First(k) + Group <= T
    BY <1>1, <1>2, <2>1, <2>2, <2>3, Sizes
  <2>6. k + 1 = g => First(k) + Group >= T
    BY <1>1, <1>2, <2>1, <2>2
  <2> QED BY <1>2, <2>1, <2>2, <2>4, <2>5, <2>6, FillIs
<1> QED BY <1>2, <1>3, <1>4, <1>5, <1>6

\* Behind the last group.
PastEnd(r, g) == r \in Readers /\ r.base = Base(g) + Group /\ r.group = NoGroup

\* readNextGroup at the end of the file.
LEMMA NothingRead ==
    ASSUME NEW g, NEW T, Ended(writer, g, T), NEW r \in Readers, r.pos = Base(g)
    PROVE  LET v == NextGroup(r)
           IN  /\ PastEnd(v, g) /\ v.pos = v.base /\ v.max = 0
               /\ v.index = r.index /\ v.stamping = r.stamping
<1> DEFINE b == r.pos + Group
           v == NextGroup(r)
<1>1. g \in Nat /\ Len(file) = Base(g) /\ Base(g) \in Nat /\ b = Base(g) + Group /\ b \in Nat
      /\ b >= Len(file)
  BY EndedIs, Sizes
<1>2. FilledUpTo(r.pos) = 0
  <2> DEFINE Z == {i \in 0..Group - 1 : TimeAt(r.pos + i) = 0}
             S == {Group} \cup Z
  <2>1. 0 \in 0..Group - 1 /\ r.pos + 0 = Base(g)
    BY <1>1, Sizes
  <2>2. TimeAt(r.pos + 0) = 0
    BY <1>1, <2>1 DEF TimeAt
  <2>3. 0 \in S
    BY <2>1, <2>2
  <2>4. S \subseteq Nat
    BY Sizes
  <2>5. \A y \in S : 0 <= y
    BY <2>4
  <2> HIDE DEF S
  <2>6. Min(S) = 0
    BY <2>3, <2>4, <2>5, LeastIs
  <2> QED BY <2>6 DEF FilledUpTo, S
<1>3. v = [r EXCEPT !.base = b, !.max = 0, !.pos = b, !.group = NoGroup]
  BY <1>1, <1>2 DEF NextGroup, Readers
<1>4. NoGroup \in Groups /\ 0 \in 0..Group
  BY FreshIs, Sizes DEF Readers
<1> HIDE DEF b, v
<1>5. v \in Readers
  BY <1>1, <1>3, <1>4 DEF Readers
<1>6. v.base = b /\ v.pos = b /\ v.max = 0 /\ v.group = NoGroup /\ v.index = r.index
      /\ v.stamping = r.stamping
  BY <1>3 DEF Readers
<1> QED BY <1>1, <1>5, <1>6 DEF PastEnd, v

\* A place in the log: the next status is number i of group k.
Place(k, i, g, T) == k \in 0..g - 1 /\ i \in 0..Fill(k, T) /\ (i = Fill(k, T) => k + 1 = g)

\* readStatus: one status further, in the group or at the start of the next one.
LEMMA StatusStep ==
    ASSUME NEW g, NEW T, Ended(writer, g, T), NEW k, NEW i, Place(k, i, g, T),
           i < Fill(k, T), NEW r, Loaded(r, k, i, T)
    PROVE  /\ StatusRead(r) = Nth(First(k) + i + 1) /\ First(k) + i + 1 \in 1..T
           /\ \E j, h : /\ Place(j, h, g, T) /\ Loaded(AfterStatus(r), j, h, T)
                        /\ First(j) + h = First(k) + i + 1
<1>1. /\ g \in Nat /\ T \in 0..MaxTime /\ k \in 0..g - 1 /\ k \in Nat /\ First(k) \in Nat
      /\ Stored(g, 0, T) /\ Len(file) = Base(g) /\ Fill(k, T) \in Nat /\ i \in Nat
      /\ k + 1 < g => Fill(k, T) = Group
      /\ First(k) + Fill(k, T) <= T /\ T \in Nat
  <2>1. k \in 0..g - 1 /\ i \in 0..Fill(k, T)
    BY DEF Place
  <2>2. g \in Nat /\ T \in 0..MaxTime /\ k \in Nat
    BY <2>1, EndedIs
  <2>3. Fill(k, T) \in Nat
    BY <2>2, FillIs
  <2>4. i \in Nat
    BY <2>1, <2>3
  <2> QED BY <2>1, <2>2, <2>3, <2>4, EndedIs
<1>2. First(k) + i + 1 \in 1..T /\ First(k) + i \in Nat /\ First(k) + i < T
  BY <1>1
<1>3. StatusRead(r) = Nth(First(k) + i + 1)
  <2>1. StatusRead(r) = Pack(First(k) + i, T)
    BY <1>1, PackageRead
  <2> QED BY <1>1, <1>2, <2>1, PackIs
<1>4. CASE i + 1 < Fill(k, T)
  <2>1. Loaded(AfterStatus(r), k, i + 1, T)
    BY <1>1, <1>4, StatusInGroup
  <2>2. i + 1 \in 0..Fill(k, T) /\ i + 1 # Fill(k, T) /\ First(k) + (i + 1) = First(k) + i + 1
    BY <1>1, <1>4
  <2>3. Place(k, i + 1, g, T)
    BY <1>1, <2>2 DEF Place
  <2> QED BY <1>2, <1>3, <2>1, <2>2, <2>3
<1>5. CASE i + 1 = Fill(k, T)
  <2> DEFINE v == [r EXCEPT !.index = @ + 1]
  <2>1. /\ r \in Readers /\ r.index = i /\ r.max = Fill(k, T) /\ GroupIs(r.group, k, T)
        /\ r.pos = Base(k + 1) /\ i + 1 \in 0..Group /\ ~(i >= Fill(k, T))
        /\ i + 1 \in 0..Fill(k, T)
    <3>1. r \in Readers /\ r.index = i /\ r.max = Fill(k, T) /\ GroupIs(r.group, k, T)
          /\ r.pos = Base(k + 1)
      BY DEF Loaded
    <3>2. Fill(k, T) \in 0..Group
      BY <1>1, FillIs
    <3> QED BY <1>1, <1>5, <3>1, <3>2, Sizes
  <2>2. v = [r EXCEPT !.index = i + 1]
    BY <2>1
  <2> HIDE DEF v
  <2>3. v \in Readers
    BY <2>1, <2>2 DEF Readers
  <2>4. /\ v.base = r.base /\ v.pos = r.pos /\ v.group = r.group /\ v.max = r.max
        /\ v.index = i + 1 /\ v.stamping = r.stamping
    BY <2>1, <2>2 DEF Readers
  <2>5. WithGroup(r) = r /\ r.group # NoGroup
    BY <2>1 DEF WithGroup, GroupIs
  <2>6. AfterStatus(r) = IntoNextGroup(v)
    BY <2>1, <2>5 DEF AfterStatus, v
  <2>7. v.index >= v.max
    BY <1>1, <1>5, <2>1, <2>4
  <2>8. CASE k + 1 = g
    <3>1. StreamAtEnd(v)
      BY <1>1, <2>1, <2>4, <2>8, Places DEF StreamAtEnd
    <3>2. AfterStatus(r) = v
      BY <2>6, <3>1 DEF IntoNextGroup
    <3>3. Loaded(v, k, i + 1, T)
      BY <2>1, <2>3, <2>4 DEF Loaded
    <3>4. Place(k, i + 1, g, T) /\ First(k) + (i + 1) = First(k) + i + 1
      BY <1>1, <2>1, <2>8 DEF Place
    <3> QED BY <1>2, <1>3, <3>2, <3>3, <3>4
  <2>9. CASE k + 1 < g
    <3> DEFINE j == k + 1
    <3>1. j \in 0..g - 1 /\ j \in Nat
      BY <1>1, <2>9
    <3>2. Base(j) \in Nat /\ Base(j) + Group + 1 <= Base(g)
      BY <1>1, <2>9, <3>1, Places, Ordered
    <3>3. ~StreamAtEnd(v)
      BY <1>1, <2>1, <2>4, <3>2, Sizes DEF StreamAtEnd
    <3>4. AfterStatus(r) = NextGroup(v)
      BY <2>6, <2>7, <3>3 DEF IntoNextGroup
    <3>5. First(j) + 0 = First(k) + i + 1
      <4>1. First(j) = First(k) + Group
        BY <1>1, Places
      <4> QED BY <1>1, <1>5, <2>9, <4>1, Sizes
    <3> HIDE DEF j
    <3>6. Loaded(NextGroup(v), j, 0, T)
      BY <1>1, <2>1, <2>3, <2>4, <3>1, GroupRead DEF j
    <3>7. Fill(j, T) > 0 /\ Fill(j, T) \in Nat
      BY <1>1, <3>1, EndedIs, FillIs
    <3>8. 0 \in 0..Fill(j, T) /\ 0 # Fill(j, T)
      BY <3>7
    <3>9. Place(j, 0, g, T)
      BY <3>1, <3>8 DEF Place
    <3> QED BY <1>2, <1>3, <3>4, <3>5, <3>6, <3>9
  <2> QED BY <1>1, <2>8, <2>9
<1> QED BY <1>1, <1>4, <1>5
-----------------------------------------------------------------------------
(* The invariant of the readers of a closed log.                              *)

Mark(k, i) == [base |-> Base(k) + Group, index |-> i]
Start == Memento(FreshReader)

\* A place in the log that was remembered.
Marked(m, g, T) == \E k, i : Place(k, i, g, T) /\ m = Mark(k, i)

\* The reader of a file without a group.
Void(r, g) == g = 0 /\ PastEnd(r, g) /\ r.pos = r.base /\ r.index = 0 /\ r.max = 0
              /\ r.stamping = TRUE

Sequential(r, m, g, T) ==
    \/ r = FreshReader /\ m = Start
    \/ Void(r, g) /\ m = Start
    \/ Marked(m, g, T) /\ \E k, i : Place(k, i, g, T) /\ Loaded(r, k, i, T)

\* The index has the first n statuses, each at its place.
IndexHas(ix, n, g) ==
    /\ Len(ix.packets) = n /\ ix.packets \in Seq([base : Nat, index : 0..Group])
    /\ Len(ix.timings) = n /\ ix.timings \in Seq(1..MaxTime)
    /\ \A m \in 1..n :
        /\ ix.timings[m] = m
        /\ \E k \in 0..g - 1, i \in 0..Group - 1 :
            m - 1 = First(k) + i /\ ix.packets[m] = Mark(k, i)

Indices == [packets : Seq([base : Nat, index : 0..Group]), timings : Seq(1..MaxTime),
            last : 0..MaxTime, ended : BOOLEAN]

\* The index after n times have been read.
IndexIs(ix, n, g, T) ==
    /\ ix \in Indices
    /\ n <= T => IndexHas(ix, n, g) /\ ix.ended = FALSE /\ ix.last = n
    /\ n > T => IndexHas(ix, T, g) /\ ix.ended = TRUE

\* At the i-th time of group k.
Stamping(r, k, i) ==
    /\ r \in Readers /\ r.stamping = TRUE /\ r.group = NoGroup
    /\ r.pos = Base(k) + i /\ r.base = Base(k) + Group /\ r.index = i

Indexing(r, ix, g, T) ==
    \/ g > 0 /\ \E i : i < Fill(0, T) /\ Loaded(r, 0, i, T) /\ IndexIs(ix, i, g, T)
    \/ \E k \in 0..g - 1, i \in 0..Group - 1 :
          Stamping(r, k, i) /\ IndexIs(ix, First(k) + i, g, T)
    \/ /\ PastEnd(r, g) /\ r.pos >= Base(g) /\ r.stamping = TRUE
       /\ ix \in Indices /\ IndexHas(ix, T, g)

ByNumber(r, ix, g, T) ==
    /\ T > 0 /\ ix \in Indices /\ IndexHas(ix, T, g)
    /\ PastEnd(r, g) \/ \E k, i : Place(k, i, g, T) /\ Loaded(r, k, i, T)

Unused(md, r, m, ix) == md = "none" /\ r = FreshReader /\ m = Start /\ ix = NoIndex

ClosedInv(md, r, m, ix, g, T) ==
    \/ Unused(md, r, m, ix)
    \/ md = "sequential" /\ ix = NoIndex /\ Sequential(r, m, g, T)
    \/ md = "indexing" /\ Indexing(r, ix, g, T)
    \/ md = "indexed" /\ ByNumber(r, ix, g, T)
    \/ md = "failed" /\ T = 0 /\ ix \in Indices /\ r \in Readers

Answers == answer \in Statuses /\ memento \in [base : Nat, index : 0..Group]

ReadInv ==
    /\ Answers
    /\ \/ writer.open /\ Unused(mode, reader, memento, index)
       \/ /\ ~writer.open
          /\ \E g \in Nat, T \in 0..MaxTime :
              Ended(writer, g, T) /\ ClosedInv(mode, reader, memento, index, g, T)

LEMMA NoIndexIs ==
    ASSUME NEW g, NEW T \in 0..MaxTime
    PROVE  NoIndex \in Indices /\ IndexHas(NoIndex, 0, g) /\ IndexIs(NoIndex, 0, g, T)
<1>1. /\ NoIndex.packets = <<>> /\ NoIndex.timings = <<>> /\ NoIndex.last = 0
      /\ NoIndex.ended = FALSE
  BY DEF NoIndex
<1>2. <<>> \in Seq([base : Nat, index : 0..Group]) /\ <<>> \in Seq(1..MaxTime) /\ Len(<<>>) = 0
      /\ 0 \in 0..MaxTime
  BY Sizes
<1>3. NoIndex \in Indices
  BY <1>2, Sizes DEF NoIndex, Indices
<1>4. IndexHas(NoIndex, 0, g)
  BY <1>1, <1>2 DEF IndexHas
<1>5. 0 <= T /\ ~(0 > T)
  BY Sizes
<1> QED BY <1>1, <1>3, <1>4, <1>5 DEF IndexIs

LEMMA MarkIs ==
    ASSUME NEW g, NEW T, Ended(writer, g, T)
    PROVE  /\ Start = Mark(0, 0) /\ (g > 0 => Place(0, 0, g, T) /\ Marked(Start, g, T))
           /\ \A k, i : Place(k, i, g, T) => Mark(k, i) \in [base : Nat, index : 0..Group]
           /\ Start \in [base : Nat, index : 0..Group]
<1>1. Start = Mark(0, 0)
  BY FreshIs DEF Start, Mark
<1>2. g > 0 => Place(0, 0, g, T)
  <2> SUFFICES ASSUME g > 0 PROVE Place(0, 0, g, T)
    OBVIOUS
  <2>1. g \in Nat /\ 0 \in 0..g - 1 /\ T \in 0..MaxTime
    BY EndedIs
  <2>2. Fill(0, T) > 0 /\ Fill(0, T) \in Nat
    BY <2>1, EndedIs, FillIs
  <2>3. 0 \in 0..Fill(0, T) /\ 0 # Fill(0, T)
    BY <2>2
  <2> QED BY <2>1, <2>3 DEF Place
<1>3. ASSUME NEW k, NEW i, Place(k, i, g, T)
      PROVE  Mark(k, i) \in [base : Nat, index : 0..Group]
  <2>1. k \in 0..g - 1 /\ i \in 0..Fill(k, T)
    BY <1>3 DEF Place
  <2>2. k \in Nat /\ T \in 0..MaxTime
    BY <2>1, EndedIs
  <2>3. Fill(k, T) \in 0..Group /\ Base(k) \in Nat
    BY <2>2, FillIs, Places
  <2>4. i \in 0..Group /\ Base(k) + Group \in Nat
    BY <2>1, <2>3, Sizes
  <2> QED BY <2>4 DEF Mark
<1>4. Start \in [base : Nat, index : 0..Group]
  <2>1. Start = [base |-> Group, index |-> 0]
    BY FreshIs DEF Start
  <2> QED BY <2>1, Sizes
<1> QED BY <1>1, <1>2, <1>3, <1>4 DEF Marked

\* applyMemento at a place, from a loaded group or from behind the last one.
LEMMA MarkApplied ==
    ASSUME NEW g, NEW T, Ended(writer, g, T), NEW k, NEW i, Place(k, i, g, T),
           NEW r \in Readers, PastEnd(r, g) \/ \E j, h : Place(j, h, g, T) /\ Loaded(r, j, h, T)
    PROVE  Loaded(Applied(r, Mark(k, i)), k, i, T)
<1> DEFINE m == Mark(k, i)
<1>1. /\ g \in Nat /\ T \in 0..MaxTime /\ Stored(g, 0, T) /\ k \in 0..g - 1 /\ k \in Nat
      /\ i \in 0..Fill(k, T)
  BY EndedIs DEF Place
<1>2. m = [base |-> Base(k) + Group, index |-> i] /\ m.base = Base(k) + Group
  BY DEF Mark
<1>3. r.base = m.base => \E j \in 0..g - 1 : \E h : Loaded(r, j, h, T)
  <2>1. CASE PastEnd(r, g)
    <3>1. r.base = Base(g) + Group /\ k # g
      BY <1>1, <2>1 DEF PastEnd
    <3>2. Base(g) + Group # Base(k) + Group
      BY <1>1, <3>1, SameBase
    <3> QED BY <1>2, <3>1, <3>2
  <2>2. CASE \E j, h : Place(j, h, g, T) /\ Loaded(r, j, h, T)
    BY <2>2 DEF Place
  <2> QED BY <2>1, <2>2
<1> HIDE DEF m
<1>4. Loaded(Applied(r, m), k, i, T)
  BY <1>1, <1>2, <1>3, AppliedRead
<1> QED BY <1>4 DEF m

\* To the start of the log, from where a sequential reader may be.
LEMMA StartApplied ==
    ASSUME NEW g, NEW T, Ended(writer, g, T), NEW r
    PROVE  /\ r = FreshReader => Applied(r, Start) = FreshReader
           /\ Void(r, g) => Void(Applied(r, Start), g)
           /\ (\E k, i : Place(k, i, g, T) /\ Loaded(r, k, i, T))
                => g > 0 /\ Loaded(Applied(r, Start), 0, 0, T)
<1>1. Start.base = Group /\ Start.index = 0
  BY FreshIs DEF Start
<1>2. ASSUME r = FreshReader PROVE Applied(r, Start) = FreshReader
  <2>1. Applied(r, Start) = [FreshReader EXCEPT !.index = 0]
    BY <1>1, <1>2, FreshIs DEF Applied
  <2>2. [FreshReader EXCEPT !.index = 0] = FreshReader
    BY FreshIs DEF Readers
  <2> QED BY <2>1, <2>2
<1>3. ASSUME Void(r, g) PROVE Void(Applied(r, Start), g)
  <2> DEFINE v == [r EXCEPT !.index = 0]
  <2>1. r \in Readers /\ r.base = Group /\ r.index = 0
    BY <1>3, FreshIs DEF Void, PastEnd
  <2>2. Applied(r, Start) = v
    BY <1>1, <2>1 DEF Applied
  <2>3. v = r
    BY <2>1 DEF Readers
  <2> QED BY <1>3, <2>2, <2>3
<1>4. ASSUME NEW k, NEW i, Place(k, i, g, T), Loaded(r, k, i, T)
      PROVE  g > 0 /\ Loaded(Applied(r, Start), 0, 0, T)
  <2>1. g > 0
    <3>1. g \in Nat /\ k \in 0..g - 1
      BY <1>4, EndedIs DEF Place
    <3> QED BY <3>1
  <2>2. Place(0, 0, g, T) /\ Start = Mark(0, 0)
    BY <2>1, MarkIs
  <2>3. r \in Readers
    BY <1>4 DEF Loaded
  <2>4. Loaded(Applied(r, Mark(0, 0)), 0, 0, T)
    BY <1>4, <2>2, <2>3, MarkApplied
  <2> QED BY <2>1, <2>2, <2>4
<1> QED BY <1>2, <1>3, <1>4
-----------------------------------------------------------------------------
(* Indexing a closed log.                                                      *)

LEMMA IndexingStarts ==
    ASSUME NEW g, NEW T, Ended(writer, g, T), NEW r
    PROVE  /\ r = FreshReader => Indexing(r, NoIndex, g, T)
           /\ Void(r, g) => Indexing(r, NoIndex, g, T)
           /\ g > 0 /\ Loaded(r, 0, 0, T) => Indexing(r, NoIndex, g, T)
<1>1. /\ g \in Nat /\ T \in 0..MaxTime /\ (T = 0 <=> g = 0) /\ Base(g) \in Nat
      /\ NoIndex \in Indices /\ IndexHas(NoIndex, 0, g) /\ IndexIs(NoIndex, 0, g, T)
  BY EndedIs, NoIndexIs
<1>2. ASSUME r = FreshReader PROVE Indexing(r, NoIndex, g, T)
  <2>1. /\ r \in Readers /\ r.pos = 0 /\ r.base = Base(0) + Group /\ r.index = 0
        /\ r.group = NoGroup /\ r.stamping = TRUE /\ Base(0) = 0 /\ First(0) = 0
    BY <1>2, FreshIs
  <2>2. CASE g = 0
    <3>1. PastEnd(r, g) /\ r.pos >= Base(g)
      BY <2>1, <2>2 DEF PastEnd
    <3> QED BY <1>1, <2>1, <2>2, <3>1 DEF Indexing
  <2>3. CASE g # 0
    <3>1. 0 \in 0..g - 1 /\ 0 \in 0..Group - 1 /\ Base(0) + 0 = 0 /\ First(0) + 0 = 0
      BY <1>1, <2>1, <2>3, Sizes
    <3>2. Stamping(r, 0, 0)
      BY <2>1, <3>1 DEF Stamping
    <3>3. IndexIs(NoIndex, First(0) + 0, g, T)
      BY <1>1, <3>1
    <3> QED BY <3>1, <3>2, <3>3 DEF Indexing
  <2> QED BY <2>2, <2>3
<1>3. ASSUME Void(r, g) PROVE Indexing(r, NoIndex, g, T)
  <2>1. PastEnd(r, g) /\ r.pos = r.base /\ r.stamping = TRUE /\ g = 0
    BY <1>3 DEF Void
  <2>2. r.pos >= Base(g)
    BY <1>1, <2>1, Sizes DEF PastEnd
  <2> QED BY <1>1, <2>1, <2>2 DEF Indexing
<1>4. ASSUME g > 0, Loaded(r, 0, 0, T) PROVE Indexing(r, NoIndex, g, T)
  <2>1. 0 \in 0..g - 1
    BY <1>1, <1>4
  <2>2. 0 < Fill(0, T)
    BY <1>1, <2>1, EndedIs, FillIs
  <2> QED BY <1>1, <1>4, <2>2 DEF Indexing
<1> QED BY <1>2, <1>3, <1>4

\* The index has one more status, or all.
LEMMA IndexAppended ==
    ASSUME NEW g, NEW T, Ended(writer, g, T), NEW ix, NEW k \in 0..g - 1,
           NEW i \in 0..Group - 1, NEW n, n = First(k) + i, n < T, IndexIs(ix, n, g, T),
           NEW t, t = n + 1
    PROVE  LET next == [ix EXCEPT !.packets = Append(@, Mark(k, i)),
                                  !.timings = Append(@, t), !.last = t]
           IN  IndexIs(next, n + 1, g, T) /\ ~(ix.ended \/ t < ix.last) /\ t # 0
<1> DEFINE M == [base : Nat, index : 0..Group]
           m == Mark(k, i)
           p == Append(ix.packets, m)
           q == Append(ix.timings, t)
           v == [ix EXCEPT !.packets = Append(@, m), !.timings = Append(@, t), !.last = t]
<1>1. /\ g \in Nat /\ T \in 0..MaxTime /\ T \in Nat /\ k \in Nat
  BY EndedIs
<1>2. First(k) \in Nat /\ i \in Nat /\ Base(k) + Group \in Nat /\ i \in 0..Group
  BY <1>1, Places, Sizes
<1>3. n \in Nat /\ t \in 1..MaxTime /\ t \in 0..MaxTime /\ n <= T /\ t <= T /\ ~(t > T)
      /\ ~(t < n) /\ t # 0
  BY <1>1, <1>2, Sizes
<1>4. /\ ix \in Indices /\ ix.ended = FALSE /\ ix.last = n
      /\ Len(ix.packets) = n /\ ix.packets \in Seq(M)
      /\ Len(ix.timings) = n /\ ix.timings \in Seq(1..MaxTime)
      /\ \A j \in 1..n :
          /\ ix.timings[j] = j
          /\ \E h \in 0..g - 1, l \in 0..Group - 1 :
              j - 1 = First(h) + l /\ ix.packets[j] = Mark(h, l)
  BY <1>3 DEF IndexIs, IndexHas
<1>5. m \in M
  BY <1>2 DEF Mark
<1> DEFINE P == ix.packets
           Q == ix.timings
<1>6. p \in Seq(M) /\ Len(p) = n + 1 /\ p[n + 1] = m /\ \A j \in 1..n : p[j] = P[j]
  <2> HIDE DEF m, M
  <2> QED BY <1>3, <1>4, <1>5
<1>7. q \in Seq(1..MaxTime) /\ Len(q) = n + 1 /\ q[n + 1] = t /\ \A j \in 1..n : q[j] = Q[j]
  <2> HIDE DEF P, p
  <2> QED BY <1>3, <1>4
<1>8. v = [ix EXCEPT !.packets = p, !.timings = q, !.last = t]
  BY <1>4 DEF Indices
<1> HIDE DEF p, q, v, m
<1>9. v \in Indices
  BY <1>3, <1>4, <1>6, <1>7, <1>8 DEF Indices
<1>10. v.packets = p /\ v.timings = q /\ v.last = t /\ v.ended = ix.ended
  BY <1>4, <1>8 DEF Indices
<1>11. ASSUME NEW j \in 1..n + 1
       PROVE  /\ q[j] = j
              /\ \E h \in 0..g - 1, l \in 0..Group - 1 :
                  j - 1 = First(h) + l /\ p[j] = Mark(h, l)
  <2>1. CASE j \in 1..n
    <3>1. PICK h \in 0..g - 1, l \in 0..Group - 1 :
            ix.timings[j] = j /\ j - 1 = First(h) + l /\ ix.packets[j] = Mark(h, l)
      BY <1>4, <2>1
    <3>2. q[j] = ix.timings[j] /\ p[j] = ix.packets[j]
      BY <1>6, <1>7, <2>1
    <3> QED BY <3>1, <3>2
  <2>2. CASE j = n + 1
    <3>1. j - 1 = First(k) + i
      BY <1>3, <2>2
    <3>2. q[j] = j /\ p[j] = Mark(k, i)
      BY <1>6, <1>7, <2>2 DEF m
    <3> QED BY <3>1, <3>2
  <2> QED BY <1>3, <2>1, <2>2
<1>12. IndexHas(v, n + 1, g)
  <2>1. \A j \in 1..n + 1 :
              /\ v.timings[j] = j
              /\ \E h \in 0..g - 1, l \in 0..Group - 1 :
                  j - 1 = First(h) + l /\ v.packets[j] = Mark(h, l)
    BY <1>10, <1>11
  <2> QED BY <1>6, <1>7, <1>10, <2>1 DEF IndexHas
<1>13. IndexIs(v, t, g, T)
  BY <1>3, <1>4, <1>9, <1>10, <1>12 DEF IndexIs
<1> QED BY <1>3, <1>4, <1>13 DEF v, m

LEMMA IndexEnds ==
    ASSUME NEW g, NEW T, Ended(writer, g, T), NEW ix, ix \in Indices, IndexHas(ix, T, g)
    PROVE  LET next == [ix EXCEPT !.ended = TRUE, !.last = 0]
           IN  next \in Indices /\ IndexHas(next, T, g) /\ next.ended = TRUE
<1> DEFINE v == [ix EXCEPT !.ended = TRUE, !.last = 0]
<1>1. 0 \in 0..MaxTime
  BY Sizes
<1>2. v \in Indices
  BY <1>1 DEF Indices
<1>3. v.packets = ix.packets /\ v.timings = ix.timings /\ v.ended = TRUE
  BY DEF Indices
<1> HIDE DEF v
<1>4. IndexHas(v, T, g)
  BY <1>3 DEF IndexHas
<1> QED BY <1>2, <1>3, <1>4 DEF v

LEMMA AllIndexed ==
    ASSUME NEW g, NEW T, Ended(writer, g, T), NEW n \in Nat, n >= T, NEW ix,
           IndexIs(ix, n, g, T)
    PROVE  ix \in Indices /\ IndexHas(ix, T, g)
<1>1. T \in Nat
  BY EndedIs
<1>2. CASE n = T
  BY <1>1, <1>2 DEF IndexIs
<1>3. CASE n > T
  BY <1>1, <1>3 DEF IndexIs
<1> QED BY <1>1, <1>2, <1>3

\* A place where the next time is one of group k.
LEMMA StampingOn ==
    ASSUME NEW g, NEW T, Ended(writer, g, T), NEW k \in 0..g - 1, NEW r, NEW ix,
           Stamping(r, k, 0), NEW n, n = First(k), IndexIs(ix, n, g, T)
    PROVE  Indexing(r, ix, g, T)
<1>1. 0 \in 0..Group - 1 /\ First(k) + 0 = n
  <2>1. First(k) \in Nat
    BY EndedIs
  <2> QED BY <2>1, Sizes
<1> QED BY <1>1 DEF Indexing

\* A time read from a group that is loaded.
LEMMA IndexLoaded ==
    ASSUME NEW g, NEW T, Ended(writer, g, T), g > 0, NEW i, NEW r, NEW ix,
           i < Fill(0, T), Loaded(r, 0, i, T), IndexIs(ix, i, g, T)
    PROVE  LET t == TimestampRead(r)
               next == [ix EXCEPT !.packets = Append(@, Memento(r)),
                                  !.timings = Append(@, t), !.last = t]
           IN  /\ t # 0 /\ ~(ix.ended \/ t < ix.last)
               /\ Indexing(AfterTimestamp(r), next, g, T)
<1> DEFINE t == TimestampRead(r)
           f == Fill(0, T)
           next == [ix EXCEPT !.packets = Append(@, Memento(r)),
                              !.timings = Append(@, t), !.last = t]
<1>1. /\ g \in Nat /\ T \in 0..MaxTime /\ T \in Nat /\ 0 \in 0..g - 1 /\ 0 \in Nat
      /\ First(0) = 0 /\ f \in Nat /\ f \in 0..Group /\ f <= T /\ First(1) = Group
      /\ (1 < g => f = Group) /\ (1 = g => f = T) /\ Base(1) \in Nat
  <2>1. g \in Nat /\ T \in 0..MaxTime /\ T \in Nat
    BY EndedIs
  <2>2. 0 \in 0..g - 1 /\ 0 \in Nat /\ First(0) = 0 /\ 0 + 1 = 1 /\ First(1) = Group
        /\ Base(1) \in Nat
    BY <2>1, Places
  <2>3. f \in Nat /\ f \in 0..Group
    BY <2>1, FillIs
  <2> HIDE DEF f
  <2>4. (0 + 1 < g => f = Group) /\ (0 + 1 = g => First(0) + f = T) /\ First(0) + f <= T
    BY <2>2, EndedIs DEF f
  <2> QED BY <2>1, <2>2, <2>3, <2>4
<1>2. /\ r \in Readers /\ r.base = Base(0) + Group /\ r.pos = Base(1) /\ r.max = f
      /\ GroupIs(r.group, 0, T) /\ r.index = i /\ i \in 0..f /\ r.stamping = FALSE
      /\ r.group # NoGroup
  <2>1. 0 + 1 = 1
    OBVIOUS
  <2> HIDE DEF f
  <2> QED BY <2>1 DEF Loaded, GroupIs, f
<1> HIDE DEF f
<1>3. /\ i \in Nat /\ i < T /\ i \in 0..Group - 1 /\ i = First(0) + i /\ i + 1 \in Nat
      /\ i + 1 \in 0..f /\ i + 1 \in 0..Group /\ i < f
  BY <1>1, <1>2, Sizes DEF f
<1>4. HasGroup(r)
  BY <1>2 DEF HasGroup
<1>5. t = i + 1
  <2>1. t = StatusAt(r).time
    BY <1>4 DEF TimestampRead
  <2>2. StatusAt(r) = Pack(First(0) + i, T)
    BY <1>1, PackageRead
  <2>3. Pack(i, T).time = i + 1
    BY <1>1, <1>3, PackIs
  <2> HIDE DEF t
  <2> QED BY <1>3, <2>1, <2>2, <2>3
<1>6. Memento(r) = Mark(0, i)
  BY <1>2 DEF Memento, Mark
<1> HIDE DEF t
<1>7. IndexIs(next, i + 1, g, T) /\ ~(ix.ended \/ t < ix.last) /\ t # 0
  BY <1>1, <1>3, <1>5, <1>6, IndexAppended
<1> HIDE DEF next
<1> DEFINE u == [r EXCEPT !.index = IF @ < r.max THEN @ + 1 ELSE @]
           v == AfterTimestamp(r)
<1>8. u = [r EXCEPT !.index = i + 1]
  BY <1>2, <1>3
<1> HIDE DEF u
<1>9. /\ u \in Readers /\ u.base = r.base /\ u.pos = r.pos /\ u.group = r.group
      /\ u.max = r.max /\ u.index = i + 1 /\ u.stamping = r.stamping
  BY <1>2, <1>3, <1>8 DEF Readers
<1>10. v = IF u.index < u.max THEN u
           ELSE [u EXCEPT !.stamping = TRUE, !.group = NoGroup, !.index = 0,
                          !.base = u.pos + Group]
  BY <1>4 DEF AfterTimestamp, FromGroup, u
<1> HIDE DEF v
<1>11. Indexing(v, next, g, T)
  <2>1. CASE i + 1 < f
    <3>1. v = u
      BY <1>2, <1>9, <1>10, <2>1
    <3>2. Loaded(v, 0, i + 1, T)
      <4>1. u.pos = Base(0 + 1)
        BY <1>1, <1>2, <1>9
      <4> QED BY <1>2, <1>3, <1>9, <3>1, <4>1 DEF Loaded, f
    <3> QED BY <1>1, <1>7, <2>1, <3>2 DEF Indexing, f
  <2>2. CASE ~(i + 1 < f)
    <3>1. i + 1 = f /\ ~(u.index < u.max)
      BY <1>1, <1>2, <1>3, <1>9, <2>2
    <3>2. v = [u EXCEPT !.stamping = TRUE, !.group = NoGroup, !.index = 0,
                        !.base = Base(1) + Group]
      BY <1>2, <1>9, <1>10, <3>1
    <3>3. Base(1) + Group \in Nat /\ NoGroup \in Groups /\ 0 \in 0..Group
      BY <1>1, Sizes, FreshIs DEF Readers
    <3>4. v \in Readers
      BY <1>9, <3>2, <3>3 DEF Readers
    <3>5. /\ v.stamping = TRUE /\ v.group = NoGroup /\ v.index = 0
          /\ v.base = Base(1) + Group /\ v.pos = Base(1)
      BY <1>2, <1>9, <3>2 DEF Readers
    <3>6. CASE 1 < g
      <4>1. 1 \in 0..g - 1 /\ i + 1 = First(1) /\ Base(1) + 0 = Base(1)
        BY <1>1, <3>1, <3>6
      <4>2. Stamping(v, 1, 0)
        BY <3>4, <3>5, <4>1 DEF Stamping
      <4> QED BY <1>7, <4>1, <4>2, StampingOn
    <3>7. CASE 1 = g
      <4>1. PastEnd(v, g) /\ v.pos >= Base(g)
        BY <1>1, <3>4, <3>5, <3>7 DEF PastEnd
      <4>2. i + 1 >= T
        BY <1>1, <3>1, <3>7
      <4>3. next \in Indices /\ IndexHas(next, T, g)
        BY <1>3, <1>7, <4>2, AllIndexed
      <4> QED BY <3>5, <4>1, <4>3 DEF Indexing
    <3>8. g = 1 \/ 1 < g
      BY <1>1
    <3> QED BY <3>6, <3>7, <3>8
  <2> QED BY <2>1, <2>2
<1> QED BY <1>7, <1>11 DEF v, next, t

\* The reader after a time that it read from the file.
LEMMA StampRead ==
    ASSUME NEW g, NEW T, Ended(writer, g, T), NEW k \in 0..g - 1, NEW i \in 0..Group - 1,
           NEW r, Stamping(r, k, i), NEW ix, IndexIs(ix, First(k) + i + 1, g, T)
    PROVE  Indexing(AfterTimestamp(r), ix, g, T)
<1> DEFINE b == Base(k)
           at == AtTimes(r)
           u == [at EXCEPT !.pos = IF StreamAtEnd(at) THEN @ ELSE @ + 1, !.index = @ + 1]
           v == AfterTimestamp(r)
<1>1. /\ g \in Nat /\ T \in 0..MaxTime /\ k \in Nat /\ Len(file) = Base(g)
      /\ b \in Nat /\ Base(g) \in Nat /\ b + Group + 1 <= Base(g)
      /\ Base(k + 1) = b + Group + 1 /\ First(k) \in Nat /\ First(k + 1) = First(k) + Group
  <2>1. g \in Nat /\ T \in 0..MaxTime /\ Len(file) = Base(g) /\ Base(g) \in Nat
    BY EndedIs
  <2>2. k \in Nat /\ k < g
    BY <2>1
  <2>3. b \in Nat /\ Base(k + 1) = b + Group + 1 /\ First(k) \in Nat
        /\ First(k + 1) = First(k) + Group
    BY <2>2, Places
  <2>4. b + Group + 1 <= Base(g)
    BY <2>1, <2>2, Ordered
  <2> QED BY <2>1, <2>2, <2>3, <2>4
<1>2. /\ r \in Readers /\ r.stamping = TRUE /\ r.group = NoGroup
      /\ r.pos = b + i /\ r.base = b + Group /\ r.index = i
  BY DEF Stamping
<1> HIDE DEF b
<1>3. i \in Nat /\ i + 1 \in Nat /\ i + 1 \in 0..Group /\ b + i + 1 \in Nat
      /\ b + i < Base(g) /\ b + i + 1 < Base(g)
  BY <1>1, Sizes
<1>4. at = r /\ ~HasGroup(r) /\ ~StreamAtEnd(r)
  BY <1>1, <1>2, <1>3 DEF AtTimes, HasGroup, StreamAtEnd
<1>5. u = [r EXCEPT !.pos = b + i + 1, !.index = i + 1]
  BY <1>2, <1>4
<1>6. v = SkipGroup(u)
  BY <1>4 DEF AfterTimestamp
<1> HIDE DEF u, at, v
<1>7. /\ u \in Readers /\ u.pos = b + i + 1 /\ u.index = i + 1 /\ u.base = r.base
      /\ u.group = r.group /\ u.max = r.max /\ u.stamping = r.stamping
  BY <1>2, <1>3, <1>5 DEF Readers
<1>8. ~StreamAtEnd(u)
  BY <1>1, <1>3, <1>7 DEF StreamAtEnd
<1>9. CASE i + 1 < Group
  <2>1. i + 1 \in 0..Group - 1 /\ b + (i + 1) = b + i + 1 /\ First(k) + (i + 1) = First(k) + i + 1
    BY <1>1, <1>3, <1>9, Sizes
  <2>2. u.index % Group # 0
    <3>1. Group * 0 + (i + 1) = i + 1 /\ 0 \in Nat
      BY <1>3, Sizes
    <3>2. First(0) + (i + 1) = i + 1
      BY <1>3, Places
    <3>3. (i + 1) % Group = i + 1
      BY <2>1, <3>1, <3>2, InGroup
    <3> QED BY <1>3, <1>7, <3>3
  <2>3. v = u
    BY <1>6, <2>2 DEF SkipGroup
  <2>4. Stamping(v, k, i + 1)
    BY <1>2, <1>7, <2>1, <2>3 DEF Stamping, b
  <2>5. IndexIs(ix, First(k) + (i + 1), g, T)
    BY <2>1
  <2> QED BY <2>1, <2>4, <2>5 DEF Indexing, v
<1>10. CASE i + 1 = Group
  <2> DEFINE j == k + 1
  <2>1. j \in Nat /\ Base(j) = b + i + 1 + 1 /\ Base(j) \in Nat /\ First(j) = First(k) + i + 1
        /\ First(j) \in Nat
    BY <1>1, <1>3, <1>10, Sizes
  <2>2. u.index % Group = 0
    <3>1. 0 \in 0..Group - 1 /\ First(1) + 0 = Group /\ 1 \in Nat
      BY Places, Sizes
    <3>2. Group % Group = 0
      BY <3>1, InGroup
    <3> QED BY <1>7, <1>10, <3>2
  <2>3. v = [u EXCEPT !.pos = Base(j), !.index = 0, !.base = Base(j) + Group,
                      !.group = NoGroup]
    <3> HIDE DEF j
    <3> QED BY <1>6, <1>7, <1>8, <2>1, <2>2 DEF SkipGroup
  <2>4. j \in 0..g - 1 \/ j = g
    BY <1>1
  <2> HIDE DEF j
  <2>5. Base(j) + Group \in Nat /\ NoGroup \in Groups /\ 0 \in 0..Group
    BY <2>1, Sizes, FreshIs DEF Readers
  <2>6. v \in Readers
    BY <1>7, <2>1, <2>3, <2>5 DEF Readers
  <2>7. /\ v.stamping = TRUE /\ v.group = NoGroup /\ v.index = 0
        /\ v.base = Base(j) + Group /\ v.pos = Base(j)
    BY <1>2, <1>7, <2>3 DEF Readers
  <2>8. IndexIs(ix, First(j), g, T)
    BY <2>1
  <2>9. CASE j \in 0..g - 1
    <3>1. Stamping(v, j, 0)
      BY <2>1, <2>6, <2>7 DEF Stamping
    <3>2. Indexing(v, ix, g, T)
      BY <2>8, <2>9, <3>1, StampingOn
    <3> QED BY <3>2 DEF v
  <2>10. CASE j = g
    <3>1. PastEnd(v, g) /\ v.pos >= Base(g)
      BY <2>1, <2>6, <2>7, <2>10 DEF PastEnd
    <3>2. First(j) >= T
      BY <2>10 DEF Ended
    <3>3. ix \in Indices /\ IndexHas(ix, T, g)
      BY <2>1, <2>8, <3>2, AllIndexed
    <3>4. Indexing(v, ix, g, T)
      BY <2>7, <3>1, <3>3 DEF Indexing
    <3> QED BY <3>4 DEF v
  <2> QED BY <2>4, <2>9, <2>10
<1> QED BY <1>3, <1>9, <1>10, Sizes

\* One round of indexFile.
LEMMA IndexStep ==
    ASSUME NEW g, NEW T, Ended(writer, g, T), mode = "indexing", Indexing(reader, index, g, T),
           IndexPacket
    PROVE  mode' = "indexing" /\ Indexing(reader', index', g, T)
<1> DEFINE r == reader
           t == TimestampRead(r)
           more == [index EXCEPT !.packets = Append(@, Memento(r)),
                                 !.timings = Append(@, t), !.last = t]
           done == [index EXCEPT !.ended = TRUE, !.last = 0]
           corrupt == t # 0 /\ (index.ended \/ t < index.last)
<1>1. /\ ~AtEnd(r) /\ reader' = AfterTimestamp(r)
      /\ mode' = (IF corrupt THEN "failed" ELSE mode)
      /\ index' = (IF corrupt THEN index ELSE IF t = 0 THEN done ELSE more)
  BY DEF IndexPacket
<1>2. ASSUME NEW i, g > 0, i < Fill(0, T), Loaded(r, 0, i, T), IndexIs(index, i, g, T)
      PROVE  mode' = "indexing" /\ Indexing(reader', index', g, T)
  <2>1. t # 0 /\ ~(index.ended \/ t < index.last) /\ Indexing(AfterTimestamp(r), more, g, T)
    BY <1>2, IndexLoaded
  <2> HIDE DEF r, t, more, done
  <2> QED BY <1>1, <2>1
<1>3. ASSUME NEW k \in 0..g - 1, NEW i \in 0..Group - 1, Stamping(r, k, i),
             IndexIs(index, First(k) + i, g, T)
      PROVE  mode' = "indexing" /\ Indexing(reader', index', g, T)
  <2> DEFINE n == First(k) + i
  <2>1. /\ g \in Nat /\ T \in 0..MaxTime /\ T \in Nat /\ k \in Nat /\ First(k) \in Nat
        /\ Stored(g, 0, T) /\ k \in 0..g /\ k < g /\ i \in Nat /\ n \in Nat
    <3>1. g \in Nat /\ T \in 0..MaxTime /\ T \in Nat /\ k \in Nat /\ First(k) \in Nat
          /\ Stored(g, 0, T)
      BY EndedIs
    <3> QED BY <3>1, Sizes
  <2>2. /\ r.stamping = TRUE /\ r.pos = Base(k) + i /\ r.base = Base(k) + Group
        /\ r.index = i /\ ~HasGroup(r) /\ AtTimes(r) = r
    BY <1>3 DEF Stamping, HasGroup, AtTimes
  <2>3. t = Pack(n, T).time
    <3>1. There(k, i, g, 0)
      BY <2>1 DEF There
    <3>2. TimeAt(Base(k) + i) = Pack(First(k) + i, T).time
      BY <2>1, <3>1, TimesAre
    <3>3. t = TimeAt(Base(k) + i)
      BY <2>2 DEF TimestampRead
    <3> QED BY <3>2, <3>3
  <2>4. Memento(r) = Mark(k, i)
    BY <2>2 DEF Memento, Mark
  <2>5. IndexIs(index, n, g, T)
    BY <1>3
  <2> HIDE DEF r, t, done
  <2>6. CASE n < T
    <3>1. t = n + 1
      BY <2>1, <2>3, <2>6, PackIs
    <3>2. IndexIs(more, n + 1, g, T) /\ ~(index.ended \/ t < index.last) /\ t # 0
      <4> HIDE DEF n
      <4>1. n = First(k) + i
        BY DEF n
      <4> QED BY <2>4, <2>5, <2>6, <3>1, <4>1, IndexAppended
    <3>3. Indexing(AfterTimestamp(r), more, g, T)
      <4> HIDE DEF more
      <4> QED BY <1>3, <3>2, StampRead
    <3> HIDE DEF more
    <3> QED BY <1>1, <3>2, <3>3
  <2>7. CASE ~(n < T)
    <3>1. t = 0
      <4>1. Pack(n, T).time = 0
        BY <2>1, <2>7, PackIs
      <4> QED BY <2>3, <4>1
    <3>2. index \in Indices /\ IndexHas(index, T, g)
      <4>1. n >= T
        BY <2>1, <2>7
      <4> HIDE DEF n
      <4> QED BY <2>1, <2>5, <4>1, AllIndexed
    <3>3. done \in Indices /\ IndexHas(done, T, g) /\ done.ended = TRUE
      BY <3>2, IndexEnds DEF done
    <3>4. IndexIs(done, First(k) + i + 1, g, T)
      <4>1. ~(n + 1 <= T)
        BY <2>1, <2>7
      <4> QED BY <3>3, <4>1 DEF IndexIs
    <3>5. Indexing(AfterTimestamp(r), done, g, T)
      BY <1>3, <3>4, StampRead
    <3>6. ~corrupt
      BY <3>1
    <3> QED BY <1>1, <3>1, <3>5, <3>6
  <2> QED BY <2>6, <2>7
<1>4. ASSUME PastEnd(r, g), r.pos >= Base(g), r.stamping = TRUE, index \in Indices,
             IndexHas(index, T, g)
      PROVE  mode' = "indexing" /\ Indexing(reader', index', g, T)
  <2>1. r \in Readers /\ r.base = Base(g) + Group /\ r.group = NoGroup
    BY <1>4 DEF PastEnd
  <2>2. Len(file) = Base(g) /\ Base(g) \in Nat /\ r.pos \in Nat
    BY <2>1, EndedIs, ReaderIs
  <2>3. StreamAtEnd(r) /\ ~HasGroup(r) /\ AtTimes(r) = r
    BY <1>4, <2>2 DEF StreamAtEnd, HasGroup, AtTimes
  <2>4. t = 0
    BY <1>4, <2>2, <2>3 DEF TimestampRead, TimeAt
  <2> DEFINE u == [r EXCEPT !.index = r.index + 1]
             v == AfterTimestamp(r)
  <2>5. r.index + 1 \in 0..Group
    <3>1. ~(r.index >= r.max)
      BY <1>1, <2>3 DEF AtEnd
    <3>2. r.index \in Nat /\ r.max \in 0..Group /\ r.max \in Nat
      BY <2>1, ReaderIs
    <3> HIDE DEF r
    <3> QED BY <3>1, <3>2, Sizes
  <2> HIDE DEF r
  <2>6. [r EXCEPT !.pos = r.pos, !.index = r.index + 1] = u
    BY <2>1 DEF Readers
  <2>7. v = SkipGroup([r EXCEPT !.pos = r.pos, !.index = r.index + 1])
    BY <2>3 DEF AfterTimestamp
  <2>8. /\ u \in Readers /\ u.pos = r.pos /\ u.base = r.base /\ u.group = r.group
        /\ u.stamping = r.stamping
    BY <2>1, <2>5 DEF Readers
  <2> HIDE DEF u
  <2>9. v = u
    <3>1. StreamAtEnd(u)
      BY <2>3, <2>8 DEF StreamAtEnd
    <3> QED BY <2>6, <2>7, <3>1 DEF SkipGroup
  <2>10. done \in Indices /\ IndexHas(done, T, g)
    BY <1>4, IndexEnds
  <2> HIDE DEF t, done, v
  <2>11. PastEnd(v, g)
    BY <2>1, <2>8, <2>9 DEF PastEnd
  <2>12. Indexing(v, done, g, T)
    BY <1>4, <2>8, <2>9, <2>10, <2>11 DEF Indexing
  <2> QED BY <1>1, <2>4, <2>12 DEF v
<1> QED BY <1>2, <1>3, <1>4 DEF Indexing

\* The end of indexFile.
LEMMA IndexEnd ==
    ASSUME NEW g, NEW T, Ended(writer, g, T), NEW r, NEW ix, Indexing(r, ix, g, T), AtEnd(r)
    PROVE  /\ PastEnd(r, g) /\ ix \in Indices /\ IndexHas(ix, T, g)
           /\ (ix.packets = <<>> <=> T = 0)
<1>1. g \in Nat /\ Len(file) = Base(g) /\ Base(g) \in Nat /\ T \in Nat
  BY EndedIs
<1>2. ASSUME NEW i, i < Fill(0, T), Loaded(r, 0, i, T) PROVE FALSE
  <2>1. r.index = i /\ r.max = Fill(0, T) /\ i \in 0..Fill(0, T) /\ Fill(0, T) \in Nat
    BY <1>2, EndedIs, FillIs DEF Loaded
  <2> QED BY <1>2, <2>1 DEF AtEnd
<1>3. ASSUME NEW k \in 0..g - 1, NEW i \in 0..Group - 1, Stamping(r, k, i) PROVE FALSE
  <2>1. k \in Nat /\ k < g /\ Base(k) \in Nat
    <3>1. k \in Nat /\ k < g
      BY <1>1
    <3> QED BY <3>1, Places
  <2>2. Base(k) + Group + 1 <= Base(g)
    BY <1>1, <2>1, Ordered
  <2>3. r.pos = Base(k) + i
    BY <1>3 DEF Stamping
  <2> QED BY <1>1, <2>1, <2>2, <2>3, Sizes DEF AtEnd, StreamAtEnd
<1>4. PastEnd(r, g) /\ ix \in Indices /\ IndexHas(ix, T, g)
  BY <1>2, <1>3 DEF Indexing
<1>5. ix.packets = <<>> <=> T = 0
  <2>1. Len(ix.packets) = T /\ ix.packets \in Seq([base : Nat, index : 0..Group])
    BY <1>4 DEF IndexHas
  <2> QED BY <2>1
<1> QED BY <1>4, <1>5
-----------------------------------------------------------------------------
(* The steps of the readers.                                                   *)

\* The reader has a group and n statuses before its place.
InLog(r, n, g, T) == \E k, i : Place(k, i, g, T) /\ Loaded(r, k, i, T) /\ n = First(k) + i

\* A sequential reader has passed n statuses.
Passed(r, n, g, T) ==
    \/ n = 0 /\ (r = FreshReader \/ Void(r, g))
    \/ InLog(r, n, g, T)

LEMMA PlaceIs ==
    ASSUME NEW g, NEW T, Ended(writer, g, T), NEW k, NEW i, Place(k, i, g, T)
    PROVE  /\ First(k) + i \in 0..T /\ k \in Nat /\ i \in Nat /\ i \in 0..Group
           /\ First(k) \in Nat /\ Fill(k, T) \in Nat /\ i <= Fill(k, T) /\ g > 0
           /\ i \in 0..Fill(k, T)
<1>1. k \in 0..g - 1 /\ i \in 0..Fill(k, T)
  BY DEF Place
<1>2. g \in Nat /\ T \in 0..MaxTime /\ T \in Nat
  BY EndedIs
<1>3. k \in Nat /\ First(k) \in Nat /\ First(k) + Fill(k, T) <= T
  BY <1>1, EndedIs
<1>4. Fill(k, T) \in Nat /\ Fill(k, T) \in 0..Group
  BY <1>2, <1>3, FillIs
<1> QED BY <1>1, <1>2, <1>3, <1>4, Sizes

\* readStatus: the next status of the log; nothing of a log without one.
LEMMA NextRead ==
    ASSUME NEW g, NEW T, Ended(writer, g, T), NEW r, NEW n, Passed(r, n, g, T), ~AtEnd(r)
    PROVE  \/ T = 0 /\ n = 0 /\ StatusRead(r) = Padding /\ Void(AfterStatus(r), g)
           \/ /\ n \in Nat /\ n < T /\ StatusRead(r) = Nth(n + 1)
              /\ InLog(AfterStatus(r), n + 1, g, T)
<1>1. /\ g \in Nat /\ T \in 0..MaxTime /\ T \in Nat /\ Stored(g, 0, T)
      /\ Len(file) = Base(g) /\ Base(g) \in Nat /\ (T = 0 <=> g = 0)
  BY EndedIs
<1>2. CASE r = FreshReader /\ n = 0 /\ g = 0
  <2> DEFINE u == [r EXCEPT !.pos = r.base - Group]
             v == NextGroup(u)
  <2>1. r \in Readers /\ r.base = Group /\ r.group = NoGroup /\ r.index = 0
        /\ r.stamping = TRUE /\ Base(0) = 0
    BY <1>2, FreshIs
  <2>2. r.base - Group = 0 /\ 0 \in Nat
    BY <2>1, Sizes
  <2>3. u \in Readers /\ u.pos = 0 /\ u.index = 0 /\ u.stamping = TRUE
    BY <2>1, <2>2 DEF Readers
  <2>4. WithGroup(r) = v
    BY <2>1 DEF WithGroup, CurrentGroup
  <2> HIDE DEF u
  <2>5. /\ PastEnd(v, g) /\ v.pos = v.base /\ v.max = 0
        /\ v.index = u.index /\ v.stamping = u.stamping
    BY <1>2, <2>1, <2>3, NothingRead
  <2> HIDE DEF v
  <2>6. Void(v, g)
    BY <1>2, <2>3, <2>5 DEF Void
  <2>7. AfterStatus(r) = v
    BY <2>4, <2>5 DEF AfterStatus, PastEnd
  <2>8. StatusRead(r) = Padding
    <3>1. ~(v.index < v.max)
      BY <2>3, <2>5
    <3> QED BY <2>4, <3>1 DEF StatusRead, StatusAt
  <2> QED BY <1>1, <1>2, <2>6, <2>7, <2>8
<1>3. ASSUME NEW u, NEW k, NEW i, Place(k, i, g, T), Loaded(u, k, i, T), n = First(k) + i,
             i # Fill(k, T), AfterStatus(r) = AfterStatus(u), StatusRead(r) = StatusRead(u)
      PROVE  /\ n \in Nat /\ n < T /\ StatusRead(r) = Nth(n + 1)
             /\ InLog(AfterStatus(r), n + 1, g, T)
  <2>1. n \in Nat /\ i < Fill(k, T) /\ First(k) + i + 1 = n + 1
    BY <1>3, PlaceIs
  <2>2. /\ StatusRead(u) = Nth(First(k) + i + 1) /\ First(k) + i + 1 \in 1..T
        /\ \E j, h : /\ Place(j, h, g, T) /\ Loaded(AfterStatus(u), j, h, T)
                     /\ First(j) + h = First(k) + i + 1
    BY <1>3, <2>1, StatusStep
  <2>3. n < T
    BY <1>1, <2>1, <2>2
  <2>4. InLog(AfterStatus(u), n + 1, g, T)
    BY <2>1, <2>2 DEF InLog
  <2> QED BY <1>3, <2>1, <2>2, <2>3, <2>4
<1>4. CASE r = FreshReader /\ n = 0 /\ g # 0
  <2>1. g > 0 /\ First(0) + 0 = 0
    BY <1>1, <1>4, Places
  <2>2. Place(0, 0, g, T)
    BY <2>1, MarkIs
  <2>3. 0 # Fill(0, T)
    <3>1. 0 \in 0..g - 1
      BY <1>1, <2>1
    <3> QED BY <1>1, <3>1, EndedIs, FillIs
  <2>4. /\ Loaded(WithGroup(r), 0, 0, T) /\ AfterStatus(r) = AfterStatus(WithGroup(r))
        /\ StatusRead(r) = StatusRead(WithGroup(r))
    BY <1>1, <1>4, <2>1, FreshLoads
  <2> QED BY <1>3, <1>4, <2>1, <2>2, <2>3, <2>4
<1>5. ASSUME Void(r, g) PROVE FALSE
  <2>1. r \in Readers /\ r.pos = Base(g) + Group /\ r.index = 0 /\ r.max = 0
    BY <1>5 DEF Void, PastEnd
  <2>2. r.pos >= Len(file) /\ r.index >= r.max
    BY <1>1, <2>1, Sizes
  <2> QED BY <2>2 DEF AtEnd, StreamAtEnd
<1>6. ASSUME NEW k, NEW i, Place(k, i, g, T), Loaded(r, k, i, T), n = First(k) + i
      PROVE  /\ n \in Nat /\ n < T /\ StatusRead(r) = Nth(n + 1)
             /\ InLog(AfterStatus(r), n + 1, g, T)
  <2>1. CASE i # Fill(k, T)
    BY <1>3, <1>6, <2>1
  <2>2. CASE i = Fill(k, T)
    <3>1. k + 1 = g /\ Fill(k, T) \in Nat
      BY <1>6, <2>2, PlaceIs DEF Place
    <3>2. r.index = i /\ r.max = Fill(k, T) /\ r.pos = Base(g)
      BY <1>6, <3>1 DEF Loaded
    <3>3. AtEnd(r)
      <4>1. r.pos >= Len(file) /\ r.index >= r.max
        BY <1>1, <2>2, <3>1, <3>2
      <4> QED BY <4>1 DEF AtEnd, StreamAtEnd
    <3> QED BY <3>3
  <2> QED BY <2>1, <2>2
<1> QED BY <1>2, <1>4, <1>5, <1>6 DEF Passed, InLog

\* The place of a sequential reader, as createMemento has it.
LEMMA MementoIs ==
    ASSUME NEW g, NEW T, Ended(writer, g, T), NEW r, NEW n, Passed(r, n, g, T)
    PROVE  /\ \/ (r = FreshReader \/ Void(r, g)) /\ Memento(r) = Start /\ n = 0
              \/ Marked(Memento(r), g, T) /\ InLog(r, n, g, T)
           /\ n \in 0..T
           /\ PlaceOf(r) = n
<1>1. g \in Nat /\ T \in 0..MaxTime /\ T \in Nat
  BY EndedIs
<1>2. ASSUME NEW k, NEW i, k \in Nat, i \in Nat, r.base = Base(k) + Group, r.index = i,
             First(k) + i = n
      PROVE  PlaceOf(r) = n
  <2>1. Base(k) \in Nat /\ 0 \in 0..Group
    BY <1>2, Places, Sizes
  <2>2. r.base - Group = Base(k) + 0
    BY <1>2, <2>1, Sizes
  <2>3. (Base(k) + 0) \div (Group + 1) = k
    BY <1>2, <2>1, InItems
  <2>4. (r.base - Group) \div (Group + 1) = k
    BY <2>2, <2>3
  <2> QED BY <1>2, <2>4 DEF First, PlaceOf
<1>3. CASE n = 0 /\ (r = FreshReader \/ Void(r, g))
  <2>1. r.base = Base(0) + Group /\ r.index = 0 /\ First(0) + 0 = n /\ 0 \in Nat
    BY <1>3, FreshIs, Places DEF Void, PastEnd
  <2>2. Memento(r) = Start
    BY <2>1, FreshIs DEF Memento, Start
  <2>3. n \in 0..T
    BY <1>1, <1>3
  <2>4. PlaceOf(r) = n
    BY <1>2, <2>1
  <2> QED BY <1>3, <2>2, <2>3, <2>4
<1>4. ASSUME NEW k, NEW i, Place(k, i, g, T), Loaded(r, k, i, T), n = First(k) + i
      PROVE  /\ Marked(Memento(r), g, T) /\ InLog(r, n, g, T) /\ n \in 0..T
             /\ PlaceOf(r) = n
  <2>1. r.base = Base(k) + Group /\ r.index = i
    BY <1>4 DEF Loaded
  <2>2. k \in Nat /\ i \in Nat /\ First(k) + i \in 0..T
    BY <1>4, PlaceIs
  <2>3. Memento(r) = Mark(k, i)
    BY <2>1 DEF Memento, Mark
  <2>4. Marked(Memento(r), g, T) /\ InLog(r, n, g, T)
    BY <1>4, <2>3 DEF Marked, InLog
  <2>5. PlaceOf(r) = n
    BY <1>2, <1>4, <2>1, <2>2
  <2> QED BY <1>4, <2>2, <2>4, <2>5
<1> QED BY <1>3, <1>4 DEF Passed, InLog

\* readStatus by number: the status of a place that is in the index.
LEMMA NumberRead ==
    ASSUME NEW g, NEW T, Ended(writer, g, T), NEW r, NEW ix, ByNumber(r, ix, g, T),
           NEW n \in DOMAIN ix.packets
    PROVE  LET at == Applied(r, ix.packets[n])
           IN  /\ n \in 1..T /\ StatusRead(at) = Nth(n) /\ ByNumber(AfterStatus(at), ix, g, T)
<1>1. /\ T > 0 /\ ix \in Indices /\ IndexHas(ix, T, g)
      /\ PastEnd(r, g) \/ \E k, i : Place(k, i, g, T) /\ Loaded(r, k, i, T)
  BY DEF ByNumber
<1>2. g \in Nat /\ T \in 0..MaxTime /\ T \in Nat
  BY EndedIs
<1>3. n \in 1..T
  BY <1>1 DEF IndexHas
<1>4. PICK k \in 0..g - 1, i \in 0..Group - 1 :
          n - 1 = First(k) + i /\ ix.packets[n] = Mark(k, i)
  BY <1>1, <1>3 DEF IndexHas
<1>5. k \in Nat /\ First(k) \in Nat /\ First(k) < T
  BY EndedIs
<1>6. i < Fill(k, T) /\ i \in 0..Fill(k, T) /\ i # Fill(k, T)
  <2>1. /\ Fill(k, T) \in Nat
        /\ First(k) + Group <= T => Fill(k, T) = Group
        /\ First(k) < T /\ First(k) + Group >= T => First(k) + Fill(k, T) = T
    BY <1>2, <1>5, FillIs
  <2> DEFINE f == Fill(k, T)
             a == First(k)
  <2>2. a \in Nat /\ f \in Nat /\ (a + Group <= T => f = Group)
        /\ (a + Group >= T => a + f = T) /\ n - 1 = a + i
    BY <1>4, <1>5, <2>1
  <2> HIDE DEF f, a
  <2>3. i < f /\ i \in 0..f /\ i # f
    BY <1>2, <1>3, <2>2, Sizes
  <2> QED BY <2>3 DEF f
<1>7. Place(k, i, g, T)
  BY <1>6 DEF Place
<1>8. r \in Readers
  BY <1>1 DEF PastEnd, Loaded
<1> DEFINE at == Applied(r, ix.packets[n])
<1>9. Loaded(at, k, i, T)
  <2>1. Loaded(Applied(r, Mark(k, i)), k, i, T)
    BY <1>1, <1>7, <1>8, MarkApplied
  <2> QED BY <1>4, <2>1
<1> HIDE DEF at
<1>10. /\ StatusRead(at) = Nth(First(k) + i + 1)
       /\ \E j, h : Place(j, h, g, T) /\ Loaded(AfterStatus(at), j, h, T)
  BY <1>6, <1>7, <1>9, StatusStep
<1>11. First(k) + i + 1 = n
  <2>1. i \in Nat /\ n \in Int
    BY <1>3, Sizes
  <2> QED BY <1>4, <1>5, <2>1
<1>12. ByNumber(AfterStatus(at), ix, g, T)
  BY <1>1, <1>10 DEF ByNumber
<1> QED BY <1>3, <1>10, <1>11, <1>12 DEF at

\* logUID: the first status, and back.
LEMMA FirstRead ==
    ASSUME NEW g, NEW T, Ended(writer, g, T), NEW r, NEW ix, ByNumber(r, ix, g, T)
    PROVE  LET first == Applied(r, Start)
           IN  /\ 1 \in 1..T /\ StatusRead(first) = Nth(1)
               /\ ByNumber(Applied(AfterStatus(first), Memento(r)), ix, g, T)
<1> DEFINE first == Applied(r, Start)
           u == AfterStatus(first)
           v == Applied(u, Memento(r))
<1>1. /\ T > 0 /\ ix \in Indices /\ IndexHas(ix, T, g)
      /\ PastEnd(r, g) \/ \E k, i : Place(k, i, g, T) /\ Loaded(r, k, i, T)
  BY DEF ByNumber
<1>2. g \in Nat /\ T \in 0..MaxTime /\ T \in Nat /\ g > 0 /\ 1 \in 1..T /\ Stored(g, 0, T)
      /\ Base(g) \in Nat
  <2>1. g \in Nat /\ T \in 0..MaxTime /\ T \in Nat /\ (T = 0 <=> g = 0) /\ Stored(g, 0, T)
        /\ Base(g) \in Nat
    BY EndedIs
  <2> QED BY <1>1, <2>1
<1>3. Place(0, 0, g, T) /\ Start = Mark(0, 0)
  BY <1>2, MarkIs
<1>4. r \in Readers
  BY <1>1 DEF PastEnd, Loaded
<1>5. Loaded(first, 0, 0, T)
  <2>1. Loaded(Applied(r, Mark(0, 0)), 0, 0, T)
    BY <1>1, <1>3, <1>4, MarkApplied
  <2> QED BY <1>3, <2>1
<1> HIDE DEF first
<1>6. 0 < Fill(0, T)
  <2>1. 0 \in 0..g - 1
    BY <1>2
  <2> QED BY <1>2, <2>1, EndedIs, FillIs
<1>7. /\ StatusRead(first) = Nth(First(0) + 0 + 1)
      /\ \E j, h : Place(j, h, g, T) /\ Loaded(u, j, h, T)
  BY <1>3, <1>5, <1>6, StatusStep
<1>8. StatusRead(first) = Nth(1)
  <2>1. First(0) + 0 + 1 = 1
    BY Places
  <2> QED BY <1>7, <2>1
<1> HIDE DEF u
<1>9. u \in Readers
  BY <1>7 DEF Loaded
<1>10. ASSUME NEW k, NEW i, Place(k, i, g, T), Loaded(r, k, i, T)
       PROVE  Loaded(v, k, i, T)
  <2>1. r.base = Base(k) + Group /\ r.index = i
    BY <1>10 DEF Loaded
  <2>2. Memento(r) = Mark(k, i)
    BY <2>1 DEF Memento, Mark
  <2>3. Loaded(Applied(u, Mark(k, i)), k, i, T)
    BY <1>7, <1>9, <1>10, MarkApplied
  <2> QED BY <2>2, <2>3
<1>11. ASSUME PastEnd(r, g) PROVE PastEnd(v, g)
  <2> DEFINE b == Base(g) + Group
             x == [u EXCEPT !.base = b]
             y == [x EXCEPT !.pos = x.base - Group]
             z == NextGroup(y)
             w == [z EXCEPT !.index = r.index]
  <2>1. Memento(r).base = b /\ Memento(r).index = r.index /\ r.index \in 0..Group
    BY <1>4, <1>11, ReaderIs DEF Memento, PastEnd
  <2>2. u.base # b
    <3>1. PICK j, h : Place(j, h, g, T) /\ Loaded(u, j, h, T)
      BY <1>7
    <3>2. u.base = Base(j) + Group /\ j \in Nat /\ j # g
      BY <1>2, <3>1, PlaceIs DEF Loaded, Place
    <3> QED BY <1>2, <3>2, SameBase
  <2>3. v = w
    BY <2>1, <2>2 DEF Applied, CurrentGroup
  <2>4. b \in Nat /\ b - Group = Base(g)
    BY <1>2, Sizes
  <2> HIDE DEF b
  <2>5. x \in Readers /\ x.base = b
    BY <1>9, <2>4 DEF Readers
  <2> HIDE DEF x
  <2>6. y \in Readers /\ y.pos = Base(g)
    BY <1>2, <2>4, <2>5 DEF Readers
  <2> HIDE DEF y
  <2>7. PastEnd(z, g)
    BY <2>6, NothingRead
  <2> HIDE DEF z
  <2>8. w \in Readers /\ w.base = z.base /\ w.group = z.group
    BY <2>1, <2>7 DEF PastEnd, Readers
  <2> HIDE DEF w, v
  <2>9. PastEnd(w, g)
    BY <2>7, <2>8 DEF PastEnd
  <2> QED BY <2>3, <2>9
<1> HIDE DEF v
<1>12. ByNumber(v, ix, g, T)
  BY <1>1, <1>10, <1>11 DEF ByNumber
<1> QED BY <1>2, <1>8, <1>12 DEF v, u, first
-----------------------------------------------------------------------------
(* The readers follow their invariant.                                         *)

LEMMA SequentialIs ==
    ASSUME NEW g, NEW T, Ended(writer, g, T), NEW r, NEW m, Sequential(r, m, g, T)
    PROVE  /\ \E n : Passed(r, n, g, T)
           /\ r = FreshReader \/ Void(r, g) \/ \E k, i : Place(k, i, g, T) /\ Loaded(r, k, i, T)
           /\ m = Start \/ Marked(m, g, T)
           /\ r = FreshReader \/ Void(r, g) => m = Start
<1>1. CASE r = FreshReader /\ m = Start
  BY <1>1 DEF Passed
<1>2. CASE Void(r, g) /\ m = Start
  BY <1>2 DEF Passed
<1>3. CASE Marked(m, g, T) /\ \E k, i : Place(k, i, g, T) /\ Loaded(r, k, i, T)
  <2>1. \E n : Passed(r, n, g, T)
    BY <1>3 DEF Passed, InLog
  <2>2. r # FreshReader /\ ~Void(r, g)
    <3>1. PICK k, i : Place(k, i, g, T) /\ Loaded(r, k, i, T)
      BY <1>3
    <3>2. r.group # NoGroup
      BY <3>1 DEF Loaded, GroupIs
    <3> QED BY <3>2, FreshIs DEF Void, PastEnd
  <2> QED BY <1>3, <2>1, <2>2
<1> QED BY <1>1, <1>2, <1>3 DEF Sequential

LEMMA SequentialOn ==
    ASSUME NEW g, NEW T, Ended(writer, g, T), NEW r, NEW n, InLog(r, n, g, T),
           NEW m, m = Start \/ Marked(m, g, T)
    PROVE  Sequential(r, m, g, T) /\ Passed(r, n, g, T)
<1>1. PICK k, i : Place(k, i, g, T) /\ Loaded(r, k, i, T)
  BY DEF InLog
<1>2. Marked(m, g, T)
  BY <1>1, PlaceIs, MarkIs
<1> QED BY <1>1, <1>2 DEF Sequential, Passed

LEMMA MementoTyped ==
    ASSUME NEW g, NEW T, Ended(writer, g, T), NEW m, m = Start \/ Marked(m, g, T)
    PROVE  m \in [base : Nat, index : 0..Group]
<1>1. CASE m = Start
  BY <1>1, MarkIs
<1>2. CASE Marked(m, g, T)
  BY <1>2, MarkIs DEF Marked
<1> QED BY <1>1, <1>2

\* applyMemento in a sequential reader.
LEMMA ReturnedIs ==
    ASSUME NEW g, NEW T, Ended(writer, g, T), NEW r, NEW m, Sequential(r, m, g, T),
           NEW at \in {m, Start}
    PROVE  LET v == Applied(r, at)
           IN  /\ Sequential(v, m, g, T) /\ \E n : Passed(v, n, g, T)
               /\ v.base = at.base /\ v.index = at.index
<1> DEFINE v == Applied(r, at)
<1>1. CASE r = FreshReader \/ Void(r, g)
  <2>1. m = Start /\ at = Start
    BY <1>1, SequentialIs
  <2>2. v = FreshReader \/ Void(v, g)
    BY <1>1, <2>1, StartApplied
  <2> HIDE DEF v
  <2>3. Sequential(v, m, g, T) /\ Passed(v, 0, g, T)
    BY <2>1, <2>2 DEF Sequential, Passed
  <2>4. v.base = Start.base /\ v.index = Start.index
    <3>1. Start.base = Base(0) + Group /\ Start.index = 0
      BY FreshIs, Places DEF Start, Memento
    <3>2. v = FreshReader => v.base = Base(0) + Group /\ v.index = 0
      BY FreshIs, Places
    <3>3. Void(v, g) => v.base = Base(0) + Group /\ v.index = 0
      BY DEF Void, PastEnd
    <3> QED BY <2>2, <3>1, <3>2, <3>3
  <2> QED BY <2>1, <2>3, <2>4 DEF v
<1>2. CASE \E k, i : Place(k, i, g, T) /\ Loaded(r, k, i, T)
  <2>1. g > 0 /\ Marked(Start, g, T) /\ r \in Readers
    BY <1>2, PlaceIs, MarkIs DEF Loaded
  <2>2. Marked(at, g, T) /\ (m = Start \/ Marked(m, g, T))
    BY <2>1, SequentialIs
  <2>3. PICK k, i : Place(k, i, g, T) /\ at = Mark(k, i)
    BY <2>2 DEF Marked
  <2>4. Loaded(v, k, i, T)
    BY <1>2, <2>1, <2>3, MarkApplied
  <2> HIDE DEF v
  <2>5. InLog(v, First(k) + i, g, T)
    BY <2>3, <2>4 DEF InLog
  <2>6. Sequential(v, m, g, T) /\ Passed(v, First(k) + i, g, T)
    BY <2>2, <2>5, SequentialOn
  <2>7. v.base = at.base /\ v.index = at.index
    BY <2>3, <2>4 DEF Loaded, Mark
  <2> QED BY <2>6, <2>7 DEF v
<1> QED BY <1>1, <1>2, SequentialIs

\* LogFileReader starts with an empty index at the start of the file.
LEMMA TakenOver ==
    ASSUME NEW g, NEW T, Ended(writer, g, T), NEW r, NEW m, Sequential(r, m, g, T)
    PROVE  Indexing(Applied(r, Start), NoIndex, g, T)
<1> DEFINE v == Applied(r, Start)
<1>1. CASE r = FreshReader \/ Void(r, g)
  <2>1. v = FreshReader \/ Void(v, g)
    BY <1>1, StartApplied
  <2> HIDE DEF v
  <2>2. Indexing(v, NoIndex, g, T)
    BY <2>1, IndexingStarts
  <2> QED BY <2>2 DEF v
<1>2. CASE \E k, i : Place(k, i, g, T) /\ Loaded(r, k, i, T)
  <2>1. g > 0 /\ Loaded(v, 0, 0, T)
    BY <1>2, StartApplied
  <2> HIDE DEF v
  <2>2. Indexing(v, NoIndex, g, T)
    BY <2>1, IndexingStarts
  <2> QED BY <2>2 DEF v
<1> QED BY <1>1, <1>2, SequentialIs

\* One step of the users of a closed log, with the step of the abstract log it is.
LEMMA ClosedStep ==
    ASSUME NEW g \in Nat, NEW T \in 0..MaxTime, Ended(writer, g, T), ~writer.open, Answers,
           ClosedInv(mode, reader, memento, index, g, T),
           Open \/ ReadStatus \/ Remember \/ Return \/ TakeOver
             \/ IndexPacket \/ Indexed \/ ReadPacket \/ LogUID
    PROVE  /\ writer' = writer /\ Answers'
           /\ ClosedInv(mode', reader', memento', index', g, T)
<1>1. CASE Open
  <2>1. Unused(mode, reader, memento, index)
    BY <1>1 DEF Open, ClosedInv
  <2>2. /\ writer' = writer /\ reader' = FreshReader /\ memento' = Start /\ index' = NoIndex
        /\ answer' = answer /\ mode' \in {"sequential", "indexing"} /\ memento' = memento
    BY <1>1, <2>1 DEF Open, Unused
  <2>3. Sequential(reader', memento', g, T)
    BY <2>2 DEF Sequential
  <2>4. Indexing(reader', index', g, T)
    BY <2>2, IndexingStarts
  <2> QED BY <2>2, <2>3, <2>4 DEF ClosedInv, Answers
<1>2. CASE ReadStatus
  <2>1. /\ index = NoIndex /\ Sequential(reader, memento, g, T) /\ mode = "sequential"
        /\ ~AtEnd(reader)
    BY <1>2 DEF ReadStatus, ClosedInv, Unused
  <2>2. /\ writer' = writer /\ reader' = AfterStatus(reader) /\ memento' = memento
        /\ index' = index /\ mode' = mode
        /\ answer' = IF StatusRead(reader) = Padding THEN answer ELSE StatusRead(reader)
    BY <1>2 DEF ReadStatus
  <2>3. PICK n : Passed(reader, n, g, T)
    BY <2>1, SequentialIs
  <2>4. memento = Start \/ Marked(memento, g, T)
    BY <2>1, SequentialIs
  <2>5. CASE T = 0 /\ StatusRead(reader) = Padding /\ Void(AfterStatus(reader), g)
    <3>1. ~Marked(memento, g, T)
      <4>1. g = 0
        BY <2>5 DEF Void
      <4> QED BY <4>1, PlaceIs DEF Marked
    <3>2. Sequential(reader', memento', g, T)
      BY <2>2, <2>4, <2>5, <3>1 DEF Sequential
    <3> QED BY <2>1, <2>2, <2>5, <3>2 DEF ClosedInv, Answers
  <2>6. CASE /\ n \in Nat /\ n < T /\ StatusRead(reader) = Nth(n + 1)
             /\ InLog(AfterStatus(reader), n + 1, g, T)
    <3>1. Sequential(reader', memento', g, T)
      BY <2>2, <2>4, <2>6, SequentialOn
    <3>2. answer' \in Statuses
      <4>1. n + 1 \in 1..MaxTime
        BY <2>6, Sizes
      <4>2. Nth(n + 1) \in Statuses
        BY <4>1, NthIs
      <4> QED BY <2>2, <2>6, <4>2 DEF Answers
    <3> QED BY <2>1, <2>2, <3>1, <3>2 DEF ClosedInv, Answers
  <2> QED BY <2>1, <2>3, <2>5, <2>6, NextRead
<1>3. CASE Remember
  <2>1. index = NoIndex /\ Sequential(reader, memento, g, T) /\ mode = "sequential"
    BY <1>3 DEF Remember, ClosedInv, Unused
  <2>2. /\ writer' = writer /\ reader' = reader /\ memento' = Memento(reader)
        /\ index' = index /\ mode' = mode /\ answer' = answer
    BY <1>3 DEF Remember
  <2>3. PICK n : Passed(reader, n, g, T)
    BY <2>1, SequentialIs
  <2> DEFINE m == Memento(reader)
  <2>4. \/ (reader = FreshReader \/ Void(reader, g)) /\ m = Start
        \/ Marked(m, g, T) /\ InLog(reader, n, g, T)
    BY <2>3, MementoIs
  <2> HIDE DEF m
  <2>5. Sequential(reader, m, g, T)
    <3>1. CASE (reader = FreshReader \/ Void(reader, g)) /\ m = Start
      BY <3>1 DEF Sequential
    <3>2. CASE Marked(m, g, T) /\ InLog(reader, n, g, T)
      BY <3>2, SequentialOn
    <3> QED BY <2>4, <3>1, <3>2
  <2>6. m \in [base : Nat, index : 0..Group]
    BY <2>4, MementoTyped
  <2>7. Sequential(reader', memento', g, T)
    BY <2>2, <2>5 DEF m
  <2> QED BY <2>1, <2>2, <2>6, <2>7 DEF ClosedInv, Answers, m
<1>4. CASE Return
  <2>1. index = NoIndex /\ Sequential(reader, memento, g, T) /\ mode = "sequential"
    BY <1>4 DEF Return, ClosedInv, Unused
  <2>2. PICK at \in {memento, Start} : reader' = Applied(reader, at)
    BY <1>4 DEF Return, Start
  <2>3. /\ writer' = writer /\ memento' = memento
        /\ index' = index /\ mode' = mode /\ answer' = answer
    BY <1>4 DEF Return
  <2>4. Sequential(Applied(reader, at), memento, g, T)
    BY <2>1, ReturnedIs
  <2>5. Sequential(reader', memento', g, T)
    BY <2>2, <2>3, <2>4
  <2> QED BY <2>1, <2>3, <2>5 DEF ClosedInv, Answers
<1>5. CASE TakeOver
  <2>1. index = NoIndex /\ Sequential(reader, memento, g, T) /\ mode = "sequential"
    BY <1>5 DEF TakeOver, ClosedInv, Unused
  <2>2. /\ writer' = writer /\ memento' = memento /\ index' = index /\ answer' = answer
        /\ mode' = "indexing" /\ reader' = Applied(reader, Start)
    BY <1>5 DEF TakeOver, Start
  <2>3. Indexing(Applied(reader, Start), NoIndex, g, T)
    BY <2>1, TakenOver
  <2>4. Indexing(reader', index', g, T)
    BY <2>1, <2>2, <2>3
  <2> QED BY <2>2, <2>4 DEF ClosedInv, Answers
<1>6. CASE IndexPacket
  <2>1. mode = "indexing" /\ Indexing(reader, index, g, T)
    BY <1>6 DEF IndexPacket, ClosedInv, Unused
  <2>2. writer' = writer /\ memento' = memento /\ answer' = answer
    BY <1>6 DEF IndexPacket
  <2>3. mode' = "indexing" /\ Indexing(reader', index', g, T)
    BY <1>6, <2>1, IndexStep
  <2> QED BY <2>2, <2>3 DEF ClosedInv, Answers
<1>7. CASE Indexed
  <2>1. mode = "indexing" /\ Indexing(reader, index, g, T) /\ AtEnd(reader)
    BY <1>7 DEF Indexed, ClosedInv, Unused
  <2>2. /\ writer' = writer /\ memento' = memento /\ answer' = answer
        /\ reader' = reader /\ index' = index
        /\ mode' = IF index.packets = <<>> THEN "failed" ELSE "indexed"
    BY <1>7 DEF Indexed
  <2>3. /\ PastEnd(reader, g) /\ index \in Indices /\ IndexHas(index, T, g)
        /\ (index.packets = <<>> <=> T = 0)
    BY <2>1, IndexEnd
  <2>4. CASE T = 0
    <3>1. mode' = "failed" /\ index' \in Indices /\ reader' \in Readers
      BY <2>2, <2>3, <2>4 DEF PastEnd
    <3> QED BY <2>2, <2>4, <3>1 DEF ClosedInv, Answers
  <2>5. CASE T # 0
    <3>1. ByNumber(reader, index, g, T)
      <4>1. T > 0
        BY <2>5, EndedIs
      <4> QED BY <2>3, <4>1 DEF ByNumber
    <3>2. mode' = "indexed" /\ ByNumber(reader', index', g, T)
      BY <2>2, <2>3, <2>5, <3>1
    <3> QED BY <2>2, <3>2 DEF ClosedInv, Answers
  <2> QED BY <2>4, <2>5
<1>8. CASE ReadPacket
  <2>1. mode = "indexed" /\ ByNumber(reader, index, g, T)
    BY <1>8 DEF ReadPacket, ClosedInv, Unused
  <2>2. PICK n \in DOMAIN index.packets :
          /\ reader' = AfterStatus(Applied(reader, index.packets[n]))
          /\ answer' = StatusRead(Applied(reader, index.packets[n]))
    BY <1>8 DEF ReadPacket
  <2>3. writer' = writer /\ memento' = memento /\ index' = index /\ mode' = mode
    BY <1>8 DEF ReadPacket
  <2>4. n \in 1..T /\ answer' = Nth(n) /\ ByNumber(reader', index', g, T)
    BY <2>1, <2>2, <2>3, NumberRead
  <2>5. answer' \in Statuses
    <3>1. n \in 1..MaxTime
      BY <2>4, Sizes
    <3> QED BY <2>4, <3>1, NthIs
  <2> QED BY <2>1, <2>3, <2>4, <2>5 DEF ClosedInv, Answers
<1>9. CASE LogUID
  <2>1. mode = "indexed" /\ ByNumber(reader, index, g, T)
    BY <1>9 DEF LogUID, ClosedInv, Unused
  <2>2. /\ answer' = StatusRead(Applied(reader, Start))
        /\ reader' = Applied(AfterStatus(Applied(reader, Start)), Memento(reader))
        /\ writer' = writer /\ memento' = memento /\ index' = index /\ mode' = mode
    BY <1>9 DEF LogUID, Start
  <2>3. 1 \in 1..T /\ answer' = Nth(1) /\ ByNumber(reader', index', g, T)
    BY <2>1, <2>2, FirstRead
  <2>4. answer' \in Statuses
    <3>1. 1 \in 1..MaxTime
      BY <2>3, Sizes
    <3> QED BY <2>3, <3>1, NthIs
  <2> QED BY <2>1, <2>2, <2>3, <2>4 DEF ClosedInv, Answers
<1> QED BY <1>1, <1>2, <1>3, <1>4, <1>5, <1>6, <1>7, <1>8, <1>9

LEMMA InitReads == ASSUME Init PROVE ReadInv
<1>1. writer.open = TRUE
  BY DEF Init, WriterInit
<1>2. Unused(mode, reader, memento, index)
  BY DEF Init, Unused, Start
<1>3. Start \in [base : Nat, index : 0..Group]
  <2>1. Start = [base |-> Group, index |-> 0]
    BY FreshIs DEF Start
  <2> QED BY <2>1, Sizes
<1>4. answer \in Statuses
  <2>1. 1 \in 1..MaxTime
    BY Sizes
  <2>2. \E s \in Statuses : TRUE
    BY <2>1, NthIs
  <2> QED BY <2>2 DEF Init
<1> QED BY <1>1, <1>2, <1>3, <1>4 DEF ReadInv, Answers, Unused

LEMMA ReadStep == ASSUME WriterInv, ReadInv, [Next]_vars PROVE ReadInv'
<1>1. CASE Write
  <2>1. writer.open /\ UNCHANGED readVars
    BY <1>1 DEF Write, WriteStatus
  <2>2. writer'.open
    <3>1. PICK n \in Nat : Writing(writer, n)
      BY <2>1 DEF WriterInv
    <3>2. PICK s \in Statuses :
            /\ s.time = Len(writer.stamps) + (IF writer.hash = "needs" THEN 2 ELSE 1)
            /\ s.id => s.time = 1
            /\ writer' = Written(writer, s)
      BY <1>1 DEF Write, WriteStatus
    <3> QED BY <2>1, <3>1, <3>2, WrittenIs
  <2> QED BY <2>1, <2>2 DEF ReadInv, Answers, readVars
<1>2. CASE Close
  <2>1. writer.open /\ UNCHANGED readVars
    BY <1>2 DEF Close, CloseFile
  <2>2. PICK n \in Nat : Writing(writer, n)
    BY <2>1 DEF WriterInv
  <2>3. writer' = [Finished(writer) EXCEPT !.open = FALSE]
    BY <1>2 DEF Close, CloseFile
  <2>4. n \in 0..MaxTime /\ ~writer'.open /\ \E g \in Nat : Ended(writer', g, n)
    BY <2>2, <2>3, ClosedIs
  <2>5. PICK g \in Nat : Ended(writer', g, n)
    BY <2>4
  <2>6. Unused(mode, reader, memento, index) /\ Answers
    BY <2>1 DEF ReadInv
  <2>7. ClosedInv(mode', reader', memento', index', g, n) /\ Answers'
    BY <2>1, <2>6 DEF ClosedInv, readVars, Answers
  <2> QED BY <2>4, <2>5, <2>7 DEF ReadInv
<1>3. CASE Open \/ ReadStatus \/ Remember \/ Return \/ TakeOver
             \/ IndexPacket \/ Indexed \/ ReadPacket \/ LogUID
  <2>1. ~writer.open
    <3>1. Open => ~writer.open
      BY DEF Open
    <3>2. ~Open => mode # "none"
      BY <1>3 DEF ReadStatus, Remember, Return, TakeOver, IndexPacket, Indexed, ReadPacket,
                  LogUID
    <3> QED BY <3>1, <3>2 DEF ReadInv, Unused
  <2>2. PICK g \in Nat, T \in 0..MaxTime :
          Ended(writer, g, T) /\ ClosedInv(mode, reader, memento, index, g, T)
    BY <2>1 DEF ReadInv
  <2>3. Answers
    BY DEF ReadInv
  <2>4. /\ writer' = writer /\ Answers'
        /\ ClosedInv(mode', reader', memento', index', g, T)
    BY <1>3, <2>1, <2>2, <2>3, ClosedStep
  <2>5. ~writer'.open /\ Ended(writer', g, T)
    BY <2>1, <2>2, <2>4
  <2> QED BY <2>4, <2>5 DEF ReadInv
<1>4. CASE UNCHANGED vars
  BY <1>4 DEF ReadInv, Answers, vars
<1> QED BY <1>1, <1>2, <1>3, <1>4 DEF Next

LEMMA ReadersAlways == Spec => [](WriterInv /\ ReadInv)
<1>1. Init => WriterInv /\ ReadInv
  BY InitEmpty, InitReads DEF Init
<1>2. WriterInv /\ ReadInv /\ [Next]_vars => (WriterInv /\ ReadInv)'
  BY WriterStep, WriterSteps, ReadStep
<1> QED BY <1>1, <1>2, PTL DEF Spec

LEMMA LoggedIs ==
    ASSUME NEW n \in 0..MaxTime
    PROVE  /\ Logged(n) \in Seq(Statuses) /\ Len(Logged(n)) = n /\ DOMAIN Logged(n) = 1..n
           /\ \A i \in 1..n : Logged(n)[i] = Nth(i)
           /\ (Logged(n) = <<>> <=> n = 0)
<1>1. n \in Nat
  BY Sizes
<1>2. \A i \in 1..n : Nth(i) \in Statuses
  <2>1. \A i \in 1..n : i \in 1..MaxTime
    BY Sizes
  <2> QED BY <2>1, NthIs
<1> DEFINE p == [i \in 1..n |-> Nth(i)]
<1>3. p \in Seq(Statuses) /\ Len(p) = n
  BY <1>1, <1>2
<1>4. DOMAIN p = 1..n /\ \A i \in 1..n : p[i] = Nth(i)
  OBVIOUS
<1>5. Logged(n) = p
  BY DEF Logged
<1> HIDE DEF p
<1>6. p = <<>> <=> n = 0
  BY <1>1, <1>3
<1> QED BY <1>3, <1>4, <1>5, <1>6

\* The statuses the file has, whatever fills its last group and the times that are read
\* behind its end, are all in the index of LogFileReader, each with its time and the place
\* where it is read, whatever was read before; indexFile fails for a file without a status
\* only.  (Times go by ones here: that a jump of 200 s ends the index is left out.)
THEOREM IndexIsComplete == Spec => []IndexComplete
<1>1. ASSUME ReadInv PROVE IndexComplete
  <2>1. ASSUME mode = "failed" PROVE Contents(writer) = <<>>
    <3>1. PICK g \in Nat, T \in 0..MaxTime :
            Ended(writer, g, T) /\ ClosedInv(mode, reader, memento, index, g, T)
      BY <1>1, <2>1 DEF ReadInv, Unused
    <3>2. T = 0
      BY <2>1, <3>1 DEF ClosedInv, Unused
    <3>3. Contents(writer) = Logged(0)
      BY <3>1, <3>2, EndedContents
    <3> QED BY <3>3 DEF Logged
  <2>2. ASSUME mode = "indexed"
        PROVE  index.timings = [n \in DOMAIN Contents(writer) |-> Contents(writer)[n].time]
    <3>1. PICK g \in Nat, T \in 0..MaxTime :
            Ended(writer, g, T) /\ ClosedInv(mode, reader, memento, index, g, T)
      BY <1>1, <2>2 DEF ReadInv, Unused
    <3>2. IndexHas(index, T, g)
      BY <2>2, <3>1 DEF ClosedInv, Unused, ByNumber
    <3>3. Contents(writer) = Logged(T) /\ T \in Nat
      BY <3>1, EndedContents, Sizes
    <3> DEFINE c == Contents(writer)
               q == index.timings
    <3>4. DOMAIN c = 1..T /\ \A n \in 1..T : c[n].time = n
      <4>1. ASSUME NEW n \in 1..T PROVE Nth(n).time = n
        BY DEF Nth
      <4> HIDE DEF c
      <4> QED BY <3>3, <4>1 DEF Logged, c
    <3>5. q \in Seq(1..MaxTime) /\ Len(q) = T /\ \A n \in 1..T : q[n] = n
      BY <3>2 DEF IndexHas
    <3> HIDE DEF c, q
    <3>6. q = [n \in 1..T |-> n]
      BY <3>3, <3>5
    <3>7. [n \in DOMAIN c |-> c[n].time] = [n \in 1..T |-> n]
      BY <3>4
    <3> QED BY <3>6, <3>7 DEF c, q
  <2>3. ASSUME mode = "indexed", NEW n \in DOMAIN Contents(writer)
        PROVE  Reads(reader, index.packets[n], n)
    <3>1. PICK g \in Nat, T \in 0..MaxTime :
            Ended(writer, g, T) /\ ClosedInv(mode, reader, memento, index, g, T)
      BY <1>1, <2>3 DEF ReadInv, Unused
    <3>2. ByNumber(reader, index, g, T)
      BY <2>3, <3>1 DEF ClosedInv, Unused
    <3>3. DOMAIN Contents(writer) = 1..T /\ Contents(writer)[n] = Nth(n)
      BY <2>3, <3>1, EndedContents, LoggedIs
    <3>4. n \in DOMAIN index.packets
      BY <2>3, <3>2, <3>3 DEF ByNumber, IndexHas
    <3>5. StatusRead(Applied(reader, index.packets[n])) = Nth(n)
      BY <3>1, <3>2, <3>4, NumberRead
    <3> QED BY <3>3, <3>5 DEF Reads
  <2> QED BY <2>1, <2>2, <2>3 DEF IndexComplete
<1> QED BY <1>1, ReadersAlways, PTL
-----------------------------------------------------------------------------
(* The file implements the log.                                                *)

\* How many statuses have been read one after the other, as the refinement has it.
NextStatus == IF mode = "sequential" THEN PlaceOf(reader) ELSE 0

LEMMA StartIs == PlaceOf(Start) = 0
<1>1. Start.base = Group /\ Start.index = 0 /\ Group \in Nat
  BY FreshIs, Sizes DEF Start, Memento
<1>2. Group - Group = 0 /\ 0 * Group + 0 = 0
  BY <1>1
<1>3. 0 \div (Group + 1) = 0
  <2>1. 0 \in 0..Group /\ Base(0) = 0 /\ 0 \in Nat
    BY <1>1, Places
  <2>2. (Base(0) + 0) \div (Group + 1) = 0
    BY <2>1, InItems
  <2> QED BY <2>1, <2>2
<1> QED BY <1>1, <1>2, <1>3 DEF PlaceOf

LEMMA LoggedOn ==
    ASSUME NEW n \in Nat, n + 1 <= MaxTime
    PROVE  Logged(n + 1) = Append(Logged(n), Nth(n + 1))
<1> DEFINE p == Logged(n)
           q == Logged(n + 1)
           x == Nth(n + 1)
<1>1. n \in 0..MaxTime /\ n + 1 \in 0..MaxTime /\ n + 1 \in 1..MaxTime /\ n + 1 \in Nat
  BY Sizes
<1>2. p \in Seq(Statuses) /\ Len(p) = n /\ \A i \in 1..n : p[i] = Nth(i)
  BY <1>1, LoggedIs
<1>3. q \in Seq(Statuses) /\ Len(q) = n + 1 /\ \A i \in 1..n + 1 : q[i] = Nth(i)
  <2> DEFINE m == n + 1
  <2>1. m \in 0..MaxTime
    BY <1>1
  <2> HIDE DEF m
  <2>2. Logged(m) \in Seq(Statuses) /\ Len(Logged(m)) = m /\ \A i \in 1..m : Logged(m)[i] = Nth(i)
    BY <2>1, LoggedIs
  <2> QED BY <2>2 DEF m
<1>4. x \in Statuses
  BY <1>1, NthIs
<1>5. q[n + 1] = x
  BY <1>1, <1>3
<1>6. \A i \in 1..n : q[i] = p[i]
  <2>1. \A i \in 1..n : i \in 1..n + 1
    OBVIOUS
  <2> HIDE DEF p, q
  <2> QED BY <1>2, <1>3, <2>1
<1> HIDE DEF p, q, x
<1>7. q = Append(p, x)
  <2> DEFINE r == Append(p, x)
  <2>1. r \in Seq(Statuses) /\ Len(r) = n + 1 /\ r[n + 1] = x /\ \A i \in 1..n : r[i] = p[i]
    BY <1>2, <1>4
  <2> HIDE DEF r
  <2>2. \A i \in 1..n + 1 : q[i] = r[i]
    <3>1. \A i \in 1..n + 1 : i \in 1..n \/ i = n + 1
      OBVIOUS
    <3> QED BY <1>5, <1>6, <2>1, <3>1
  <2>3. q = r
    BY <1>3, <2>1, <2>2
  <2> QED BY <2>3 DEF r
<1> QED BY <1>7 DEF p, q, x

LEMMA WritingContents ==
    ASSUME NEW w, NEW n \in Nat, Writing(w, n) PROVE Contents(w) = Logged(n)
<1>1. CASE Empty(w) /\ n = 0
  BY <1>1, EmptyContents
<1>2. CASE Keeping(w) /\ n = w.count + 1
  BY <1>2, KeepingContents
<1>3. CASE \E g \in Nat : Growing(w, g) /\ n = Total(g, w.count)
  BY <1>3, GrowingContents
<1> QED BY <1>1, <1>2, <1>3 DEF Writing

\* The status that is written, with the id if it is the first.
LEMMA NextWritten ==
    ASSUME NEW n \in Nat, NEW s \in Statuses, s.time = n + 1, s.id => n = 0
    PROVE  /\ n + 1 <= MaxTime /\ n \in 0..MaxTime
           /\ (IF Logged(n) = <<>> THEN [s EXCEPT !.id = TRUE] ELSE s) = Nth(n + 1)
<1>1. s = [time |-> s.time, id |-> s.id] /\ s.id \in BOOLEAN /\ s.time \in 1..MaxTime
  BY DEF Statuses
<1>2. n + 1 <= MaxTime /\ n \in 0..MaxTime
  BY <1>1, Sizes
<1>3. Logged(n) = <<>> <=> n = 0
  BY <1>2, LoggedIs
<1>4. CASE n = 0
  <2>1. [s EXCEPT !.id = TRUE] = [time |-> 1, id |-> TRUE] /\ n + 1 = 1
    <3>1. n + 1 = 1 /\ s.time = 1
      BY <1>4
    <3> QED BY <3>1, IdentifiedIs
  <2>2. Nth(1) = [time |-> 1, id |-> TRUE]
    BY DEF Nth
  <2> QED BY <1>2, <1>3, <1>4, <2>1, <2>2
<1>5. CASE n # 0
  <2>1. s.id = FALSE
    BY <1>1, <1>5
  <2>2. s = [time |-> n + 1, id |-> FALSE]
    BY <1>1, <2>1
  <2>3. Nth(n + 1) = [time |-> n + 1, id |-> FALSE]
    <3>1. n + 1 # 1
      BY <1>5
    <3> QED BY <3>1 DEF Nth
  <2> QED BY <1>2, <1>3, <1>5, <2>2, <2>3
<1> QED BY <1>4, <1>5

\* The steps of the users of a closed log, as the abstract log has them.
LEMMA ClosedRefines ==
    ASSUME NEW g \in Nat, NEW T \in 0..MaxTime, Ended(writer, g, T), ~writer.open, Answers,
           ClosedInv(mode, reader, memento, index, g, T)
    PROVE  /\ ReadStatus => \/ NextStatus' = NextStatus /\ answer' = answer
                            \/ /\ NextStatus \in Nat /\ NextStatus < T
                               /\ NextStatus' = NextStatus + 1 /\ answer' = Nth(NextStatus + 1)
           /\ Return \/ TakeOver => NextStatus' \in {0, PlaceOf(memento)} /\ answer' = answer
           /\ ReadPacket \/ LogUID =>
                NextStatus' = NextStatus /\ \E n \in 1..T : answer' = Nth(n)
           /\ Open \/ Remember \/ IndexPacket \/ Indexed =>
                NextStatus' = NextStatus /\ answer' = answer
           /\ Remember => PlaceOf(memento') = NextStatus
           /\ Open \/ ReadStatus \/ Return \/ TakeOver \/ IndexPacket \/ Indexed
                \/ ReadPacket \/ LogUID => memento' = memento
<1>1. ASSUME ReadStatus
      PROVE  \/ NextStatus' = NextStatus /\ answer' = answer
             \/ /\ NextStatus \in Nat /\ NextStatus < T
                /\ NextStatus' = NextStatus + 1 /\ answer' = Nth(NextStatus + 1)
  <2>1. /\ Sequential(reader, memento, g, T) /\ mode = "sequential"
        /\ ~AtEnd(reader)
    BY <1>1 DEF ReadStatus, ClosedInv, Unused
  <2>2. /\ reader' = AfterStatus(reader) /\ mode' = "sequential"
        /\ answer' = IF StatusRead(reader) = Padding THEN answer ELSE StatusRead(reader)
    BY <1>1, <2>1 DEF ReadStatus
  <2>3. PICK n : Passed(reader, n, g, T)
    BY <2>1, SequentialIs
  <2>4. NextStatus = n
    BY <2>1, <2>3, MementoIs DEF NextStatus
  <2>5. CASE T = 0 /\ n = 0 /\ StatusRead(reader) = Padding /\ Void(AfterStatus(reader), g)
    <3>1. Passed(reader', 0, g, T)
      BY <2>2, <2>5 DEF Passed
    <3>2. NextStatus' = 0
      BY <2>2, <3>1, MementoIs DEF NextStatus
    <3> QED BY <2>2, <2>4, <2>5, <3>2
  <2>6. CASE /\ n \in Nat /\ n < T /\ StatusRead(reader) = Nth(n + 1)
             /\ InLog(AfterStatus(reader), n + 1, g, T)
    <3>1. Passed(reader', n + 1, g, T)
      BY <2>2, <2>6 DEF Passed
    <3>2. NextStatus' = n + 1
      BY <2>2, <3>1, MementoIs DEF NextStatus
    <3>3. answer' = Nth(n + 1)
      <4>1. n + 1 \in 1..MaxTime
        BY <2>6, Sizes
      <4> QED BY <2>2, <2>6, <4>1, NthIs
    <3> QED BY <2>4, <2>6, <3>2, <3>3
  <2> QED BY <2>1, <2>3, <2>5, <2>6, NextRead
<1>2. ASSUME Return PROVE NextStatus' \in {0, PlaceOf(memento)} /\ answer' = answer
  <2>1. Sequential(reader, memento, g, T) /\ mode = "sequential"
    BY <1>2 DEF Return, ClosedInv, Unused
  <2>2. PICK at \in {memento, Start} : reader' = Applied(reader, at)
    BY <1>2 DEF Return, Start
  <2>3. mode' = "sequential" /\ answer' = answer
    BY <1>2, <2>1 DEF Return
  <2>4. reader'.base = at.base /\ reader'.index = at.index
    BY <2>1, <2>2, ReturnedIs
  <2>5. NextStatus' = PlaceOf(at)
    BY <2>3, <2>4 DEF NextStatus, PlaceOf
  <2> QED BY <2>2, <2>3, <2>5, StartIs
<1>3. ASSUME TakeOver PROVE NextStatus' = 0 /\ answer' = answer
  <2>1. mode' = "indexing" /\ answer' = answer
    BY <1>3 DEF TakeOver
  <2> QED BY <2>1 DEF NextStatus
<1>4. ASSUME ReadPacket
      PROVE  NextStatus' = NextStatus /\ \E n \in 1..T : answer' = Nth(n)
  <2>1. mode = "indexed" /\ ByNumber(reader, index, g, T)
    BY <1>4 DEF ReadPacket, ClosedInv, Unused
  <2>2. PICK n \in DOMAIN index.packets :
          answer' = StatusRead(Applied(reader, index.packets[n]))
    BY <1>4 DEF ReadPacket
  <2>3. mode' = mode
    BY <1>4 DEF ReadPacket
  <2>4. n \in 1..T /\ answer' = Nth(n)
    BY <2>1, <2>2, NumberRead
  <2> QED BY <2>1, <2>3, <2>4 DEF NextStatus
<1>5. ASSUME LogUID
      PROVE  NextStatus' = NextStatus /\ \E n \in 1..T : answer' = Nth(n)
  <2>1. mode = "indexed" /\ ByNumber(reader, index, g, T)
    BY <1>5 DEF LogUID, ClosedInv, Unused
  <2>2. answer' = StatusRead(Applied(reader, Start)) /\ mode' = mode
    BY <1>5 DEF LogUID, Start
  <2>3. 1 \in 1..T /\ answer' = Nth(1)
    BY <2>1, <2>2, FirstRead
  <2> QED BY <2>1, <2>2, <2>3 DEF NextStatus
<1>6. ASSUME Open PROVE NextStatus' = NextStatus /\ answer' = answer
  <2>1. mode = "none" /\ reader = FreshReader
    BY <1>6 DEF Open, ClosedInv, Unused
  <2>2. reader' = FreshReader /\ answer' = answer
    BY <1>6, <2>1 DEF Open
  <2>3. Passed(reader', 0, g, T)
    BY <2>2 DEF Passed
  <2>4. PlaceOf(reader') = 0
    BY <2>3, MementoIs
  <2> QED BY <2>1, <2>2, <2>4 DEF NextStatus
<1>7. ASSUME Remember \/ IndexPacket \/ Indexed
      PROVE  NextStatus' = NextStatus /\ answer' = answer
  <2>1. CASE Remember
    BY <2>1 DEF Remember, NextStatus
  <2>2. CASE IndexPacket
    <3>1. mode = "indexing" /\ answer' = answer /\ mode' \in {mode, "failed"}
      BY <2>2 DEF IndexPacket
    <3> QED BY <3>1 DEF NextStatus
  <2>3. CASE Indexed
    <3>1. mode = "indexing" /\ answer' = answer /\ mode' \in {"indexed", "failed"}
      BY <2>3 DEF Indexed
    <3> QED BY <3>1 DEF NextStatus
  <2> QED BY <1>7, <2>1, <2>2, <2>3
<1>8. ASSUME Remember PROVE PlaceOf(memento') = NextStatus
  <2>1. mode = "sequential" /\ memento' = Memento(reader)
    BY <1>8 DEF Remember
  <2> QED BY <2>1 DEF NextStatus, PlaceOf, Memento
<1>9. Open \/ ReadStatus \/ Return \/ TakeOver \/ IndexPacket \/ Indexed
        \/ ReadPacket \/ LogUID => memento' = memento
  BY DEF Open, ReadStatus, Return, TakeOver, IndexPacket, Indexed, ReadPacket, LogUID
<1> QED BY <1>1, <1>2, <1>3, <1>4, <1>5, <1>6, <1>7, <1>8, <1>9

LEMMA LogInit == ASSUME Init PROVE Log!Init
<1>1. writer.open = TRUE /\ mode = "none"
  BY DEF Init, WriterInit
<1>2. Contents(writer) = <<>>
  <2>1. Contents(writer) = Logged(0)
    <3>1. Empty(writer)
      BY InitIsEmpty DEF Init
    <3> QED BY <3>1, EmptyContents
  <2> QED BY <2>1, LoggedIs, Sizes
<1>3. answer \in Statuses
  BY InitReads DEF ReadInv, Answers
<1>4. PlaceOf(memento) = 0
  BY StartIs DEF Init, Start
<1> QED BY <1>1, <1>2, <1>3, <1>4 DEF Log!Init

LEMMA LogStep ==
    ASSUME WriterInv, ReadInv, [Next]_vars
    PROVE  [Log!Write \/ Log!Close \/ Log!ReadNext \/ Log!ReadAt
               \/ Log!Remember \/ Log!Seek]_(Log!vars)
<1>1. CASE Write
  <2>1. writer.open /\ UNCHANGED readVars
    BY <1>1 DEF Write, WriteStatus
  <2>2. mode = "none" /\ mode' = "none" /\ answer' = answer /\ memento' = memento
    BY <2>1 DEF ReadInv, Unused, readVars
  <2>3. PICK n \in Nat : Writing(writer, n)
    BY <2>1 DEF WriterInv
  <2>4. PICK s \in Statuses :
          /\ s.time = Len(writer.stamps) + (IF writer.hash = "needs" THEN 2 ELSE 1)
          /\ s.id => s.time = 1
          /\ writer' = Written(writer, s)
    BY <1>1 DEF Write, WriteStatus
  <2>5. writer'.open /\ Writing(writer', n + 1) /\ s.time = n + 1 /\ (s.id => n = 0)
    BY <2>1, <2>3, <2>4, WrittenIs
  <2>6. Contents(writer) = Logged(n)
    BY <2>3, WritingContents
  <2>7. Contents(writer') = Logged(n + 1)
    BY <2>5, WritingContents
  <2>8. Logged(n + 1) = Append(Logged(n), IF Logged(n) = <<>> THEN [s EXCEPT !.id = TRUE] ELSE s)
    BY <2>5, NextWritten, LoggedOn
  <2>9. Log!Write
    BY <2>1, <2>2, <2>5, <2>6, <2>7, <2>8 DEF Log!Write, Log!Identified
  <2> QED BY <2>9
<1>2. CASE Close
  <2>1. writer.open /\ UNCHANGED readVars
    BY <1>2 DEF Close, CloseFile
  <2>2. mode = "none" /\ mode' = "none" /\ answer' = answer /\ memento' = memento
    BY <2>1 DEF ReadInv, Unused, readVars
  <2>3. PICK n \in Nat : Writing(writer, n)
    BY <2>1 DEF WriterInv
  <2>4. writer' = [Finished(writer) EXCEPT !.open = FALSE]
    BY <1>2 DEF Close, CloseFile
  <2>5. ~writer'.open /\ \E g \in Nat : Ended(writer', g, n)
    BY <2>3, <2>4, ClosedIs
  <2>6. Contents(writer) = Logged(n)
    BY <2>3, WritingContents
  <2>7. Contents(writer') = Logged(n)
    BY <2>5, EndedContents
  <2>8. Log!Close
    BY <2>1, <2>2, <2>5, <2>6, <2>7 DEF Log!Close
  <2> QED BY <2>8
<1>3. CASE Open \/ ReadStatus \/ Remember \/ Return \/ TakeOver
             \/ IndexPacket \/ Indexed \/ ReadPacket \/ LogUID
  <2>1. writer' = writer /\ ~writer.open
    <3>1. writer' = writer
      BY <1>3 DEF Open, ReadStatus, Remember, Return, TakeOver, IndexPacket, Indexed,
                  ReadPacket, LogUID
    <3>2. Open => ~writer.open
      BY DEF Open
    <3>3. ~Open => mode # "none"
      BY <1>3 DEF ReadStatus, Remember, Return, TakeOver, IndexPacket, Indexed, ReadPacket,
                  LogUID
    <3> QED BY <3>1, <3>2, <3>3 DEF ReadInv, Unused
  <2>2. PICK g \in Nat, T \in 0..MaxTime :
          Ended(writer, g, T) /\ ClosedInv(mode, reader, memento, index, g, T)
    BY <2>1 DEF ReadInv
  <2>3. Answers
    BY DEF ReadInv
  <2> DEFINE c == Contents(writer)
  <2>4. /\ c = Logged(T) /\ Len(c) = T /\ DOMAIN c = 1..T
        /\ \A i \in 1..T : c[i] = Nth(i)
    BY <2>2, EndedContents, LoggedIs
  <2>5. c' = c
    BY <2>1
  <2>6. /\ ReadStatus => \/ NextStatus' = NextStatus /\ answer' = answer
                         \/ /\ NextStatus \in Nat /\ NextStatus < T
                            /\ NextStatus' = NextStatus + 1 /\ answer' = Nth(NextStatus + 1)
        /\ Return \/ TakeOver => NextStatus' \in {0, PlaceOf(memento)} /\ answer' = answer
        /\ ReadPacket \/ LogUID =>
             NextStatus' = NextStatus /\ \E n \in 1..T : answer' = Nth(n)
        /\ Open \/ Remember \/ IndexPacket \/ Indexed =>
             NextStatus' = NextStatus /\ answer' = answer
        /\ Remember => PlaceOf(memento') = NextStatus
        /\ Open \/ ReadStatus \/ Return \/ TakeOver \/ IndexPacket \/ Indexed
             \/ ReadPacket \/ LogUID => memento' = memento
    BY <2>1, <2>2, <2>3, ClosedRefines
  <2> HIDE DEF c
  <2>7. ASSUME NextStatus' = NextStatus, answer' = answer, memento' = memento
        PROVE  UNCHANGED Log!vars
    BY <2>1, <2>5, <2>7 DEF Log!vars, NextStatus, c
  <2>8. ASSUME NextStatus \in Nat, NextStatus < T, NextStatus' = NextStatus + 1,
               answer' = Nth(NextStatus + 1), memento' = memento
        PROVE  Log!ReadNext
    <3>1. c[NextStatus'] = Nth(NextStatus + 1) /\ NextStatus < Len(c)
      <4>1. NextStatus + 1 \in 1..T
        BY <2>8
      <4> QED BY <2>4, <2>8, <4>1
    <3> QED BY <2>1, <2>5, <2>8, <3>1 DEF Log!ReadNext, NextStatus, c
  <2>9. ASSUME NextStatus' = NextStatus, \E n \in 1..T : answer' = Nth(n), memento' = memento
        PROVE  Log!ReadAt
    <3>1. \E n \in DOMAIN c : answer' = c[n]
      BY <2>4, <2>9
    <3> QED BY <2>1, <2>5, <2>9, <3>1 DEF Log!ReadAt, NextStatus, c
  <2>10. ASSUME NextStatus' = NextStatus, answer' = answer, PlaceOf(memento') = NextStatus
         PROVE  Log!Remember
    BY <2>1, <2>5, <2>10 DEF Log!Remember, NextStatus, c
  <2>11. ASSUME NextStatus' \in {0, PlaceOf(memento)}, answer' = answer, memento' = memento
         PROVE  Log!Seek
    BY <2>1, <2>5, <2>11 DEF Log!Seek, NextStatus, c
  <2> QED BY <1>3, <2>6, <2>7, <2>8, <2>9, <2>10, <2>11
<1>4. CASE UNCHANGED vars
  BY <1>4 DEF vars, Log!vars
<1> QED BY <1>1, <1>2, <1>3, <1>4 DEF Next

\* A log file is a log: read from its start, or by number, it gives back the statuses
\* that were written, each once and in order, for groups, hashes and logs of any length
\* and for every way the last group may be filled; a place that was remembered is found
\* again.
THEOREM LogImplemented == Spec => LogSpec
<1>1. Init => Log!Init
  BY LogInit
<1>2. WriterInv /\ ReadInv /\ [Next]_vars
        => [Log!Write \/ Log!Close \/ Log!ReadNext \/ Log!ReadAt
              \/ Log!Remember \/ Log!Seek]_(Log!vars)
  BY LogStep
<1> QED BY <1>1, <1>2, ReadersAlways, PTL DEF Spec, LogSpec, Log!Spec

LEMMA WriterTyped == ASSUME WriterInv PROVE WriterTypeOK
<1> DEFINE w == writer
<1>1. w \in Writers /\ w.count < Group
  <2>1. \A g, T : Ended(w, g, T) => w \in Writers /\ w.count < Group
    BY DEF Ended, Whole
  <2>2. \A g : Growing(w, g) => w \in Writers /\ w.count < Group
    BY DEF Growing, Whole
  <2>3. Empty(w) => w \in Writers /\ w.count < Group
    BY DEF Empty, Whole
  <2>4. Keeping(w) => w \in Writers /\ w.count < Group
    <3> SUFFICES ASSUME Keeping(w) PROVE w \in Writers /\ w.count < Group
      OBVIOUS
    <3>1. w \in Writers /\ w.count <= Hashed - 2
      BY DEF Keeping, Kept
    <3>2. w.count \in Nat
      BY <3>1, WriterIs
    <3> QED BY <3>1, <3>2, Sizes
  <2> QED BY <2>1, <2>2, <2>3, <2>4 DEF WriterInv, Writing
<1>2. w.count \in 0..Group - 1
  BY <1>1, WriterIs
<1>3. Items = {Time(t) : t \in 0..MaxTime}
                \cup [kind : {"group"}, buffer : Seq(Statuses), offsets : [0..Group - 1 -> Nat]]
  BY DEF Items, Groups, Times
<1> HIDE DEF w
<1>4. w \in [open : BOOLEAN, hash : {"uninitialized", "needs", "has"}, collected : 0..Hashed,
             first : Statuses \cup {Padding}, count : 0..Group - 1, buffer : Seq(Statuses),
             offsets : [0..Group - 1 -> Nat], times : [0..Hashed - 3 -> 0..MaxTime],
             stamps : Seq(0..MaxTime), positions : Seq(Nat), written : Nat, file : Seq(Items)]
  BY <1>1, <1>2 DEF Writers, Packs
<1> QED BY <1>3, <1>4 DEF WriterTypeOK, w

\* The types of the writer and of its readers: the counts of packages stay within their
\* arrays, whatever is read behind the end of the file.
THEOREM LogTyped == Spec => []TypeOK
<1>1. ASSUME WriterInv, ReadInv PROVE TypeOK
  <2>1. /\ reader \in Readers /\ index.timings \in Seq(1..MaxTime)
        /\ mode \in {"none", "sequential", "indexing", "indexed", "failed"}
    <3>1. ASSUME Unused(mode, reader, memento, index)
          PROVE  reader \in Readers /\ index.timings \in Seq(1..MaxTime) /\ mode = "none"
      BY <3>1, FreshIs DEF Unused, NoIndex
    <3>2. ASSUME NEW g, NEW T, Ended(writer, g, T),
                 ClosedInv(mode, reader, memento, index, g, T)
          PROVE  /\ reader \in Readers /\ index.timings \in Seq(1..MaxTime)
                 /\ mode \in {"none", "sequential", "indexing", "indexed", "failed"}
      <4>1. CASE Unused(mode, reader, memento, index)
        BY <3>1, <4>1
      <4>2. CASE mode = "sequential" /\ index = NoIndex /\ Sequential(reader, memento, g, T)
        BY <4>2, FreshIs DEF Sequential, Void, PastEnd, Loaded, NoIndex
      <4>3. CASE mode = "indexing" /\ Indexing(reader, index, g, T)
        BY <4>3 DEF Indexing, Loaded, Stamping, PastEnd, IndexIs, Indices
      <4>4. CASE mode = "indexed" /\ ByNumber(reader, index, g, T)
        BY <4>4 DEF ByNumber, Loaded, PastEnd, Indices
      <4>5. CASE mode = "failed" /\ T = 0 /\ index \in Indices /\ reader \in Readers
        BY <4>5 DEF Indices
      <4> QED BY <3>2, <4>1, <4>2, <4>3, <4>4, <4>5 DEF ClosedInv
    <3> QED BY <1>1, <3>1, <3>2 DEF ReadInv
  <2>2. WriterTypeOK
    BY <1>1, WriterTyped
  <2>3. answer \in Statuses /\ memento \in [base : Nat, index : 0..Group]
    BY <1>1 DEF ReadInv, Answers
  <2> QED BY <2>1, <2>2, <2>3, ReaderIs DEF TypeOK
<1> QED BY <1>1, ReadersAlways, PTL
=============================================================================

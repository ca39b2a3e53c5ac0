---------------------------- MODULE LogFileWriter ----------------------------
(***************************************************************************)
(* The writer of log files (src/src/amun/seshat/logfilewriter.cpp).         *)
(*                                                                         *)
(* A file is a sequence of items: Group times, then the group of packages   *)
(* they belong to, and so on.  A group is a buffer of serialized statuses   *)
(* and the offset of each.  The id of a log is the hash of its first Hashed *)
(* statuses, so that the first one is kept back until the hash is known.    *)
(* Times count as one unit of the file, as does a compressed group.         *)
(***************************************************************************)
EXTENDS Integers, Sequences

CONSTANTS Group,   \* GROUPED_PACKAGES
          Hashed,  \* HASHED_PACKAGES
          MaxTime  \* bound on the statuses; the n-th one has the time n

ASSUME WriterAssumption ==
    /\ Group \in Nat /\ Hashed \in Nat /\ MaxTime \in Nat \ {0}
    /\ Hashed > 2 /\ Group >= Hashed

VARIABLE writer

-----------------------------------------------------------------------------
(* Statuses and their serialization.                                         *)

\* Packets with time 0 are no statuses, they fill the last group.
Padding == [time |-> 0, id |-> FALSE]
Statuses == [time : 1..MaxTime, id : BOOLEAN]

Size(s) == IF s = Padding THEN 0
           ELSE 1 + (s.time % 2) + (IF s.id THEN 1 ELSE 0)
Serialized(s) == [i \in 1..Size(s) |-> s]

\* ParseFromArray: a status, when the bytes are exactly those of one.
Parsed(bytes) ==
    IF bytes # <<>> /\ bytes = Serialized(bytes[1]) THEN bytes[1] ELSE Padding

\* The n-th status of a group; each ends where the next one starts.
Unpacked(buffer, offsets, n, count) ==
    Parsed(SubSeq(buffer, offsets[n] + 1,
                  IF n + 1 < count THEN offsets[n + 1] ELSE Len(buffer)))

Time(t) == [kind |-> "time", time |-> t]
Packages(buffer, offsets) ==
    [kind |-> "group", buffer |-> buffer, offsets |-> offsets]

-----------------------------------------------------------------------------
WriterTypeOK ==
    writer \in [open : BOOLEAN,
                hash : {"uninitialized", "needs", "has"},
                collected : 0..Hashed,          \* statuses in the hash
                first : Statuses \cup {Padding},\* m_hashStatus
                count : 0..Group - 1,           \* packages in the buffer
                buffer : Seq(Statuses),
                offsets : [0..Group - 1 -> Nat],
                times : [0..Hashed - 3 -> 0..MaxTime],
                stamps : Seq(0..MaxTime), positions : Seq(Nat), written : Nat,
                file : Seq({Time(t) : t \in 0..MaxTime}
                             \cup [kind : {"group"}, buffer : Seq(Statuses),
                                   offsets : [0..Group - 1 -> Nat]])]

\* open
WriterInit ==
    writer = [open |-> TRUE, hash |-> "uninitialized", collected |-> 0,
              first |-> Padding, count |-> 0, buffer |-> <<>>,
              offsets |-> [i \in 0..Group - 1 |-> 0],
              times |-> [i \in 0..Hashed - 3 |-> 0],
              stamps |-> <<>>, positions |-> <<>>, written |-> 0, file |-> <<>>]

\* A full buffer becomes a group of the file.
Flushed(w) ==
    IF w.count < Group THEN w
    ELSE [w EXCEPT !.file = Append(@, Packages(w.buffer, w.offsets)),
                   !.count = 0, !.buffer = <<>>, !.written = @ + Group]

\* writePackageEntry
WithEntry(w, s) ==
    Flushed([w EXCEPT
        !.stamps = Append(@, s.time),
        !.offsets[w.count] = Len(w.buffer),
        !.buffer = @ \o Serialized(s),
        !.times = IF w.hash = "needs" THEN [@ EXCEPT ![w.count] = s.time] ELSE @,
        !.positions = IF w.hash = "needs" THEN @ ELSE Append(@, Len(w.file)),
        !.file = IF w.hash = "needs" THEN @ ELSE Append(@, Time(s.time)),
        !.count = @ + 1])

\* addFirstPackage: the status that was kept back, now with the id of the log,
\* goes before the buffer, and the offsets move.
Unmoved(w, s) == [i \in 0..Group - 1 |-> IF i = 0 THEN 0 ELSE w.offsets[i]]  \* variant
Moved(w, s) ==
    [i \in 0..Group - 1 |-> IF i = 0 THEN 0
                            ELSE IF i <= w.count THEN w.offsets[i - 1] + Size(s)
                            ELSE w.offsets[i]]

Behind(stamps, t) == Append(stamps, t)     \* variant: the newest status
InFront(stamps, t) == <<t>> \o stamps

WithFirst(w, s) ==
    [w EXCEPT
        !.stamps = InFront(@, s.time),
        !.file = @ \o <<Time(s.time)>> \o [i \in 1..Hashed - 2 |-> Time(w.times[i - 1])],
        !.positions = @ \o [i \in 1..Hashed - 1 |-> Len(w.file) + i - 1],
        !.offsets = Moved(w, s),
        !.buffer = Serialized(s) \o @,
        !.count = @ + 1,
        !.hash = "has"]

Identified(s) == [s EXCEPT !.id = TRUE]

\* writeStatus
LateHash(w) == w.collected > Hashed        \* variant: one status late
HashComplete(w) == w.collected = Hashed

Collected(w) ==
    LET more == [w EXCEPT !.collected = @ + 1]
    IN  IF w.hash # "needs" THEN w
        ELSE IF HashComplete(more)
             THEN [WithFirst(more, Identified(w.first)) EXCEPT !.collected = 0]
             ELSE more

Written(w, s) ==
    IF w.hash # "uninitialized" THEN WithEntry(Collected(w), s)
    ELSE IF s.id THEN WithEntry([w EXCEPT !.hash = "has"], s)
    ELSE Collected([w EXCEPT !.hash = "needs", !.first = s])

\* close: the missing statuses of the hash and of the last group are filled in.
Padded(w, n) ==
    LET after[i \in 0..n] == IF i = 0 THEN w ELSE WithEntry(after[i - 1], Padding)
    IN  after[n]

Filled(w) == IF w.count = 0 THEN w ELSE Padded(w, Group - w.count)

Finished(w) ==
    IF w.hash # "needs" THEN Filled(w)
    ELSE Filled(WithFirst(Padded(w, Hashed - 2 - w.count), Identified(w.first)))

WriteStatus ==
    /\ writer.open
    /\ \E s \in Statuses :
        /\ s.time = Len(writer.stamps) + (IF writer.hash = "needs" THEN 2 ELSE 1)
        /\ s.id => s.time = 1
        /\ writer' = Written(writer, s)

CloseFile == writer.open /\ writer' = [Finished(writer) EXCEPT !.open = FALSE]

-----------------------------------------------------------------------------
\* The packages in the file and in the buffer, from 0 on; each group of the file is
\* behind its times.
Package(w, n) ==
    LET group == w.file[(n \div Group) * (Group + 1) + Group + 1]
    IN  IF n < w.written THEN Unpacked(group.buffer, group.offsets, n % Group, Group)
        ELSE Unpacked(w.buffer, w.offsets, n - w.written, w.count)

\* The statuses of the log, the one that is kept back in front.
Contents(w) ==
    LET kept == IF w.hash = "needs" THEN <<Identified(w.first)>> ELSE <<>>
        all == kept \o [n \in 1..w.written + w.count |-> Package(w, n - 1)]
    IN  [n \in {m \in DOMAIN all : all[m] # Padding} |-> all[n]]

\* "make sure that the hash is produced before the first group is written to
\* the disc": a status that is kept back is in front of all packages, and the
\* times of those that follow have room.
HashedBeforeGroup ==
    writer.hash = "needs" =>
        /\ writer.file = <<>> /\ writer.written = 0
        /\ writer.count = writer.collected - 1 /\ writer.count <= Hashed - 2
==============================================================================

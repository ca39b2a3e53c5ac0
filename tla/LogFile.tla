------------------------------- MODULE LogFile -------------------------------
(***************************************************************************)
(* Log files written and read again: the writer, the sequential reader      *)
(* (src/src/amun/seshat/seqlogfilereader.cpp) and the indexed reader on top *)
(* of it (logfilereader.cpp), for files of version 2.                       *)
(*                                                                         *)
(* A place in a file is a number of items.  The base of a group is the      *)
(* place of its packages, behind its times.                                 *)
(***************************************************************************)
EXTENDS LogFileWriter, FiniteSetsExt

VARIABLES
    reader,   \* SeqLogFileReader
    mode,     \* who uses the reader
    index,    \* m_packets and m_timings of LogFileReader, and its indexFile()
    memento,  \* kept by the user of the sequential reader
    answer    \* the status read last

vars == <<writer, reader, mode, index, memento, answer>>
readVars == <<reader, mode, index, memento, answer>>

file == writer.file

-----------------------------------------------------------------------------
(* The sequential reader; an operation returns the reader it leaves behind.  *)

NoGroup == Packages(<<>>, [i \in 0..Group - 1 |-> 0])

\* open
FreshReader == [pos |-> 0, base |-> Group, index |-> 0, max |-> Group,
                group |-> NoGroup, stamping |-> TRUE]

StreamAtEnd(r) == r.pos >= Len(file)
AtEnd(r) == StreamAtEnd(r) /\ r.index >= r.max
TimeAt(p) == IF p < Len(file) THEN file[p + 1].time ELSE 0

\* readNextGroup: the first time that is 0 ends the group.
FilledUpTo(pos) == Min({Group} \cup {i \in 0..Group - 1 : TimeAt(pos + i) = 0})

NextGroup(r) ==
    LET base == r.pos + Group
        found == [r EXCEPT !.base = base, !.max = FilledUpTo(r.pos)]
    IN  IF base >= Len(file)
        THEN [found EXCEPT !.pos = base, !.group = NoGroup]
        ELSE [found EXCEPT !.pos = base + 1, !.group = file[base + 1],
                           !.index = 0, !.stamping = FALSE]

CurrentGroup(r) == NextGroup([r EXCEPT !.pos = r.base - Group])

\* readStatus: an unreadable package is no status.
WithGroup(r) == IF r.group = NoGroup THEN CurrentGroup(r) ELSE r
StatusAt(r) ==
    IF r.index < r.max THEN Unpacked(r.group.buffer, r.group.offsets, r.index, Group)
    ELSE Padding

IntoNextGroup(r) == IF r.index >= r.max /\ ~StreamAtEnd(r) THEN NextGroup(r) ELSE r

AfterStatus(r) ==
    LET here == WithGroup(r)
    IN  IF here.group = NoGroup \/ here.index >= here.max THEN here
        ELSE IntoNextGroup([here EXCEPT !.index = @ + 1])
StatusRead(r) == StatusAt(WithGroup(r))

\* readTimestampVersion2: from the loaded group, else from the times in the file,
\* with a jump over the packages behind the last time of a group.
FromGroup(r) ==
    LET next == [r EXCEPT !.index = IF @ < r.max THEN @ + 1 ELSE @]
    IN  IF next.index < next.max THEN next
        ELSE [next EXCEPT !.stamping = TRUE, !.group = NoGroup, !.index = 0,
                          !.base = next.pos + Group]

SkipGroup(r) ==
    IF StreamAtEnd(r) \/ r.index % Group # 0 THEN r
    ELSE [r EXCEPT !.pos = @ + 1, !.index = 0, !.base = r.pos + 1 + Group,
                   !.group = NoGroup]

AtTimes(r) ==
    IF r.stamping THEN r
    ELSE [r EXCEPT !.pos = r.base - (Group - r.index), !.stamping = TRUE]

HasGroup(r) == ~r.stamping /\ r.group # NoGroup
TimestampRead(r) ==
    IF HasGroup(r) THEN StatusAt(r).time ELSE TimeAt(AtTimes(r).pos)
AfterTimestamp(r) ==
    IF HasGroup(r) THEN FromGroup(r)
    ELSE LET at == AtTimes(r)
         IN  SkipGroup([at EXCEPT !.pos = IF StreamAtEnd(at) THEN @ ELSE @ + 1,
                                  !.index = @ + 1])

\* createMemento, applyMemento
Memento(r) == [base |-> r.base, index |-> r.index]
SameGroup(r, m) == [r EXCEPT !.index = m.index]  \* variant: never reloads
Applied(r, m) ==
    [(IF m.base = r.base THEN r ELSE CurrentGroup([r EXCEPT !.base = m.base]))
        EXCEPT !.index = m.index]

\* createMementos
Mementos(positions) ==
    [n \in DOMAIN positions |->
        LET i == (n - 1) % Group IN [base |-> positions[n] - i + Group, index |-> i]]

-----------------------------------------------------------------------------
NoIndex == [packets |-> <<>>, timings |-> <<>>, last |-> 0, ended |-> FALSE]

Init ==
    /\ WriterInit
    /\ reader = FreshReader /\ mode = "none" /\ index = NoIndex
    /\ memento = Memento(FreshReader)
    /\ answer = CHOOSE s \in Statuses : TRUE

Write == WriteStatus /\ UNCHANGED readVars
Close == CloseFile /\ UNCHANGED readVars

\* A tool opens the file to read it from the start, or LogFileReader to index it.
Open ==
    /\ ~writer.open /\ mode = "none"
    /\ mode' \in {"sequential", "indexing"}
    /\ UNCHANGED <<writer, reader, index, memento, answer>>

\* The loop of a tool: readStatus until atEnd.
ReadStatus ==
    /\ mode = "sequential" /\ ~AtEnd(reader)
    /\ reader' = AfterStatus(reader)
    /\ answer' = IF StatusRead(reader) = Padding THEN answer ELSE StatusRead(reader)
    /\ UNCHANGED <<writer, mode, index, memento>>

Remember ==
    /\ mode = "sequential"
    /\ memento' = Memento(reader)
    /\ UNCHANGED <<writer, reader, mode, index, answer>>

\* applyMemento, or reset() to the start of the file.
Return ==
    /\ mode = "sequential"
    /\ \E m \in {memento, Memento(FreshReader)} : reader' = Applied(reader, m)
    /\ UNCHANGED <<writer, mode, index, memento, answer>>

\* LogFileReader takes over a reader that was used: reset and indexFile.
TakeOver ==
    /\ mode = "sequential"
    /\ mode' = "indexing"
    /\ reader' = Applied(reader, Memento(FreshReader))
    /\ UNCHANGED <<writer, index, memento, answer>>

\* One round of the loop of indexFile.  It also calls a log corrupt in which a time
\* is more than 200 s behind the last one; the times of this module go by ones.
IndexPacket ==
    /\ mode = "indexing" /\ ~AtEnd(reader)
    /\ LET time == TimestampRead(reader)
           corrupt == time # 0 /\ (index.ended \/ time < index.last)
       IN  /\ mode' = IF corrupt THEN "failed" ELSE mode
           /\ index' =
                IF corrupt THEN index
                ELSE IF time = 0 THEN [index EXCEPT !.ended = TRUE, !.last = 0]
                ELSE [index EXCEPT !.packets = Append(@, Memento(reader)),
                                   !.timings = Append(@, time), !.last = time]
    /\ reader' = AfterTimestamp(reader)
    /\ UNCHANGED <<writer, memento, answer>>

Indexed ==
    /\ mode = "indexing" /\ AtEnd(reader)
    /\ mode' = IF index.packets = <<>> THEN "failed" ELSE "indexed"
    /\ UNCHANGED <<writer, reader, index, memento, answer>>

\* LogFileReader::readStatus, for each of readPackets
ReadPacket ==
    /\ mode = "indexed"
    /\ \E n \in DOMAIN index.packets :
        LET at == Applied(reader, index.packets[n])
        IN  /\ reader' = AfterStatus(at)
            /\ answer' = StatusRead(at)
    /\ UNCHANGED <<writer, mode, index, memento>>

\* logUID: the first status, and back to where the reader was.
LogUID ==
    /\ mode = "indexed"
    /\ LET first == Applied(reader, Memento(FreshReader))
       IN  /\ answer' = StatusRead(first)
           /\ reader' = Applied(AfterStatus(first), Memento(reader))
    /\ UNCHANGED <<writer, mode, index, memento>>

Next == \/ Write \/ Close \/ Open
        \/ ReadStatus \/ Remember \/ Return \/ TakeOver
        \/ IndexPacket \/ Indexed \/ ReadPacket \/ LogUID

Spec == Init /\ [][Next]_vars

-----------------------------------------------------------------------------
\* Writer, reader, index and memento have their types.
TypeOK ==
    /\ WriterTypeOK
    /\ reader.pos \in Nat /\ reader.base \in Nat
    /\ reader.index \in 0..Group /\ reader.max \in 0..Group
    /\ mode \in {"none", "sequential", "indexing", "indexed", "failed"}
    /\ index.timings \in Seq(1..MaxTime)
    /\ memento \in [base : Nat, index : 0..Group]
    /\ answer \in Statuses

\* How many statuses lie before the place of a reader or of a memento, from
\* its group and its index in it.
PlaceOf(r) == ((r.base - Group) \div (Group + 1)) * Group + r.index

\* A file that is read from its start, or by number, gives back the statuses
\* that were written, each once and in order; the place that was remembered is
\* found again.
Log == INSTANCE StatusLog WITH
    log <- Contents(writer),
    closed <- ~writer.open,
    next <- IF mode = "sequential" THEN PlaceOf(reader) ELSE 0,
    mark <- PlaceOf(memento)
LogSpec == Log!Spec

\* A status is read at a memento as it was written.
Reads(r, m, n) == StatusRead(Applied(r, m)) = Contents(writer)[n]

\* indexFile finds all statuses and their times, whatever fills the last group
\* and the times it reads behind the end, and fails for an empty log only (of
\* those without a jump in time of 200 s, which the code takes for corrupt); each
\* status is then read by its number, wherever the last one left the reader.
IndexComplete ==
    /\ mode = "failed" => Contents(writer) = <<>>
    /\ mode = "indexed" =>
        /\ index.timings = [n \in DOMAIN Contents(writer) |-> Contents(writer)[n].time]
        /\ \A n \in DOMAIN Contents(writer) : Reads(reader, index.packets[n], n)

\* makeStatusSource: the statuses of the complete groups can be read while the
\* log is still written, each at the place the writer noted for it.
LivePackets == Mementos(SubSeq(writer.positions, 1, writer.written))

\* A live source whose first packet was read finds every packet.
LiveSourceReads ==
    writer.open =>
        \A n \in DOMAIN LivePackets :
            /\ Reads(AfterStatus(FreshReader), LivePackets[n], n)
            /\ writer.stamps[n] = Contents(writer)[n].time

=============================================================================

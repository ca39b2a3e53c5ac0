------------------------------ MODULE StatusLog ------------------------------
(***************************************************************************)
(* What a log file promises: the statuses that were written come back in    *)
(* the same order, one after the other or by their number, the first one    *)
(* carries the id of the log, and a place that was remembered is found      *)
(* again.                                                                   *)
(***************************************************************************)
EXTENDS Naturals, Sequences

CONSTANT Statuses   \* records with a time and an id flag

VARIABLES
    log,     \* the statuses written
    closed,
    next,    \* how many have been read one after the other
    mark,    \* the place that was remembered, as next counts
    answer   \* the status read last

vars == <<log, closed, next, mark, answer>>

Init == log = <<>> /\ closed = FALSE /\ next = 0 /\ mark = 0 /\ answer \in Statuses

Identified(s) == [s EXCEPT !.id = TRUE]

Write ==
    /\ ~closed
    /\ \E s \in Statuses : log' = Append(log, IF log = <<>> THEN Identified(s) ELSE s)
    /\ UNCHANGED <<closed, next, mark, answer>>

Close == ~closed /\ closed' = TRUE /\ UNCHANGED <<log, next, mark, answer>>

ReadNext ==
    /\ closed /\ next < Len(log)
    /\ next' = next + 1
    /\ answer' = log[next']
    /\ UNCHANGED <<log, closed, mark>>

ReadAt ==
    /\ closed
    /\ \E n \in DOMAIN log : answer' = log[n]
    /\ UNCHANGED <<log, closed, next, mark>>

Remember == closed /\ mark' = next /\ UNCHANGED <<log, closed, next, answer>>

\* Back to the place that was remembered, or to the start.
Seek ==
    /\ closed
    /\ next' \in {0, mark}
    /\ UNCHANGED <<log, closed, mark, answer>>

\* Nothing is left to read.
AtLast == next = Len(log)

Spec == Init /\ [][Write \/ Close \/ ReadNext \/ ReadAt \/ Remember \/ Seek]_vars
==============================================================================

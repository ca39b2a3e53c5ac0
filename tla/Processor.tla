----------------------------- MODULE Processor -----------------------------
(***************************************************************************)
(* The processes that run before and after a strategy in every frame        *)
(* (processor.ts, process.ts): pre() and post() walk their list with        *)
(* for..of while a process may add others to it, and a process that has     *)
(* finished is spliced out under the walk.  The walk keeps an index, so the *)
(* process behind a finished one is passed over in this frame.              *)
(***************************************************************************)
EXTENDS Integers, FiniteSets, SequencesExt

CONSTANTS Processes,    \* process objects, each listed at most once at a time
          MaxListed     \* bound on a list

ASSUME ProcessorAssumption == IsFiniteSet(Processes) /\ MaxListed \in Nat

VARIABLES
    procs,      \* preprocs and postprocs
    phase,      \* what the frame is at: a list, the strategy, nothing, or failed
    next,       \* the index that the walk takes next
    running,    \* the process that is in run() or is asked isFinished, a set
    scheduled,  \* history: on the list when this walk began, and still there
    ran,        \* history: those of the list that the walk has run
    ended       \* history: how many finished in this walk

processorVars == <<procs, phase, next, running, scheduled, ran, ended>>

Lists == {"pre", "post"}
Walking == phase \in Lists
\* The strategy's code has control: a process or the strategy itself.
InScript == running # {} \/ phase = "main"

Listed == UNION {ToSet(procs[l]) : l \in Lists}

ProcessorTypeOK ==
    /\ procs \in [Lists -> Seq(Processes)]
    /\ \A l \in Lists : Len(procs[l]) <= MaxListed /\ IsInjective(procs[l])
    /\ phase \in Lists \cup {"idle", "main", "failed"}
    /\ next \in 1..(MaxListed + 1)
    /\ running \subseteq Processes /\ Cardinality(running) <= 1
    /\ scheduled \cup ran \subseteq Listed
    /\ ended \in 0..MaxListed

\* A script that was just loaded.
ProcessorInit ==
    /\ procs = [l \in Lists |-> <<>>] /\ phase = "idle"
    /\ next = 1 /\ running = {} /\ ended = 0
    /\ scheduled = {} /\ ran = {}
-----------------------------------------------------------------------------
\* addPre, addPost: to the end of the list, also of the one that is walked.
Add(list, p) ==
    /\ InScript /\ p \notin Listed /\ Len(procs[list]) < MaxListed
    /\ procs' = [procs EXCEPT ![list] = Append(@, p)]
    /\ UNCHANGED <<phase, next, running, scheduled, ran, ended>>

\* pre() and post() are called: the walk begins, or the strategy itself runs.
Begin(to) ==
    /\ phase' = to /\ next' = 1 /\ ended' = 0
    /\ scheduled' = IF to \in Lists THEN ToSet(procs[to]) ELSE {}
    /\ ran' = {}
    /\ UNCHANGED <<procs, running>>

BeginFrame == phase = "idle" /\ Begin("pre")
EndMain == phase = "main" /\ Begin("post")

\* Mutant: the walk takes a process again.
StayAt(i) == i
After(i) == i + 1

RunProcess ==
    /\ Walking /\ running = {} /\ next <= Len(procs[phase])
    /\ running' = {procs[phase][next]}
    /\ ran' = ran \cup running' /\ next' = After(next)
    /\ UNCHANGED <<procs, phase, scheduled, ended>>

\* Mutant: splice without its second argument.
RestRemoved(s, p) == SubSeq(s, 1, SelectInSeq(s, LAMBDA q : q = p) - 1)
Removed(s, p) == RemoveFirst(s, p)

\* run() has returned; a finished process is removed.
ProcessReturns(finished) ==
    /\ running # {}
    /\ running' = {}
    /\ IF finished
       THEN /\ \E p \in running : procs' = [procs EXCEPT ![phase] = Removed(@, p)]
            /\ ended' = ended + 1
            /\ scheduled' = scheduled \ running /\ ran' = ran \ running
       ELSE UNCHANGED <<procs, ended, scheduled, ran>>
    /\ UNCHANGED <<phase, next>>

EndWalk ==
    /\ Walking /\ running = {} /\ next > Len(procs[phase])
    /\ Begin(IF phase = "pre" THEN "main" ELSE "idle")

\* An exception leaves the frame; the script is not called again.
Throw ==
    /\ InScript
    /\ phase' = "failed" /\ running' = {} /\ scheduled' = {} /\ ran' = {}
    /\ UNCHANGED <<procs, next, ended>>
-----------------------------------------------------------------------------
\* The processes that the walk has passed.
Passed == {procs[phase][i] : i \in DOMAIN procs[phase] \cap 1..(next - 1)}

\* A walk over a list that changes under it (processor.ts:48-55) keeps those
\* that have not finished, leaves behind it all that it has run, so that none is run
\* twice, and passes over no more of them than have finished.
SkipsAreExcused ==
    Walking => /\ ran \subseteq Passed
               /\ scheduled \subseteq ToSet(procs[phase])
               /\ Cardinality(Passed \ ran) <= ended

\* "Runs all proccess object scheduled before the strategy" (processor.ts:57-59).
AllScheduledRun ==
    phase = "pre" /\ running = {} /\ next > Len(procs["pre"]) => scheduled \subseteq ran
=============================================================================

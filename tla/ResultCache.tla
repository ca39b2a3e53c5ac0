---------------------------- MODULE ResultCache ----------------------------
(***************************************************************************)
(* Functions whose results are kept for a frame or for ever (cache.ts).     *)
(* A result is filed in nested maps under the number of the arguments and   *)
(* one key for each of them; a vector has three keys, a mark and its        *)
(* coordinates.  Here the nest is one function from paths of keys.  To file *)
(* a result for a vector the code puts a new map at the mark: what was      *)
(* there is lost and has to be computed again.  A wrapped function may call *)
(* others, and itself with other arguments; the inner call files its result *)
(* before the outer one does, as if it had come first.                      *)
(***************************************************************************)
EXTENDS Integers, SequencesExt, Functions

CONSTANTS ForFrame, Forever,   \* the wrapped functions, by how they were wrapped
          Values,              \* what is a key: numbers, strings, objects, coordinates
          ArgLists,            \* of each function the argument lists it is called with
          Results              \* what else a function computes: "null", "value"

Functs == ForFrame \cup Forever

\* undefinedVec and undefinedObj, the marks for vectors and for what is no key.
Vec == "undefinedVec"
Obj == "undefinedObj"

\* What a function is called with, as the code tells it apart.
Arguments == {<<"undefined">>, <<"null">>} \cup {<<"other", v>> : v \in Values}
                \cup {<<"vector", x, y>> : x, y \in Values}

\* The marks are objects of the module, which nobody else has.
ASSUME ResultCacheAssumption ==
    /\ ForFrame \cap Forever = {}
    /\ Vec \notin Values /\ Obj \notin Values
    /\ \A f \in Functs : ArgLists[f] \subseteq Seq(Arguments)
    /\ Results \subseteq {"null", "undefined", "value"}

VARIABLES
    frame,     \* which of two states of the world the functions read
    cached     \* the filed results: by path, for which arguments and when computed

cacheVars == <<frame, cached>>

Computed(f) == [args : ArgLists[f], frame : {0, 1}, result : Results]

\* Mutant: without the mark, as if x and y were arguments of their own.
KeysUnmarked(arg) ==
    CASE arg[1] = "vector" -> <<arg[2], arg[3]>>
      [] arg[1] = "other" -> <<arg[2]>>
      [] OTHER -> <<Obj>>
Keys(arg) ==
    CASE arg[1] = "vector" -> <<Vec, arg[2], arg[3]>>
      [] arg[1] = "other" -> <<arg[2]>>
      [] OTHER -> <<Obj>>      \* undefined and null are one key

Path(args) == <<Len(args)>> \o FlattenSeq([i \in DOMAIN args |-> Keys(args[i])])

\* What setInCache drops: all that is filed under the mark of the first vector.
Dropped(entries, args) ==
    LET p == Path(args)
        marks == {i \in 2..Len(p) : p[i] = Vec}
    IN  {q \in DOMAIN entries : \E i \in marks : IsPrefix(SubSeq(p, 1, i), q)}

SetInCache(entries, args, computed) ==
    LET kept == DOMAIN entries \ Dropped(entries, args)
    IN  [q \in kept \cup {Path(args)} |-> IF q = Path(args) THEN computed ELSE entries[q]]

\* An entry that answers: a filed null is no result (cache.ts:103).
Hit(f, args) ==
    Path(args) \in DOMAIN cached[f] /\ cached[f][Path(args)].result # "null"

CacheTypeOK ==
    /\ frame \in {0, 1}
    /\ \A f \in Functs : Range(cached[f]) \subseteq Computed(f)

CacheInit ==
    /\ frame = 0
    /\ cached = [f \in Functs |-> <<>>]
-----------------------------------------------------------------------------
\* A call of a wrapped function that returns: the filed result, or a new one.
Call(f, args) ==
    /\ ~Hit(f, args)
    /\ \E r \in Results :
          cached' = [cached EXCEPT ![f] =
                        SetInCache(@, args, [args |-> args, frame |-> frame, result |-> r])]
    /\ UNCHANGED frame

\* resetFrame: the functions registered in cleanup.
Cleared == ForFrame

ResetFrame == cached' = [f \in Functs |-> IF f \in Cleared THEN <<>> ELSE cached[f]]

\* The frame begins: the world has changed.
CacheNextFrame == ResetFrame /\ frame' = 1 - frame
-----------------------------------------------------------------------------
Nullish(arg) == arg[1] \in {"undefined", "null"}
SameArguments(a, b) ==
    Len(a) = Len(b) /\ \A i \in DOMAIN a : a[i] = b[i] \/ (Nullish(a[i]) /\ Nullish(b[i]))

\* What a call would be answered from the cache is the function's own result for
\* these arguments ("undefined" and "null" are one for the cache), and of this frame
\* unless it is kept for ever, whatever was filed and dropped before.
CacheAnswersAreRight ==
    \A f \in Functs : \A args \in ArgLists[f] : Hit(f, args) =>
       LET is == cached[f][Path(args)]
       IN  /\ SameArguments(args, is.args)
           /\ f \in ForFrame => is.frame = frame
=============================================================================

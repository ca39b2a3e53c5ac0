--------------------------- MODULE Runtime_proofs ---------------------------
(***************************************************************************)
(* Proofs about Runtime, for any processes, functions and arguments.        *)
(***************************************************************************)
EXTENDS Runtime, FiniteSetTheorems, TLAPS

\* While the script runs, a strategy that takes itself for connected has a socket
\* that went down, or one that is up and was registered: a request that would open
\* it again throws, and the next update that may open it forgets the connection.
ConnectionKnown ==
    /\ state \in {"CONNECTED", "UNCONNECTED"}
    /\ phase # "failed" /\ state = "CONNECTED" =>
           socket = "down" \/ (socket = "up" /\ registered)

LEMMA StartKeepsConnection ==
    ASSUME ConnectionKnown, StartFrame PROVE ConnectionKnown'
<1>1. PICK isTeam \in BOOLEAN : UpdateController(isTeam)
  BY DEF StartFrame
<1>2. phase # "failed"
  BY DEF StartFrame, BeginFrame
<1>3. CASE ~isTeam
  BY <1>1, <1>2, <1>3 DEF UpdateController, controllerVars, ConnectionKnown
<1>4. CASE isTeam /\ socket = "up"
  BY <1>1, <1>2, <1>4 DEF UpdateController, ConnectionKnown
<1>5. CASE isTeam /\ socket # "up"
  BY <1>1, <1>5 DEF UpdateController, NotConnected, ConnectionKnown
<1> QED BY <1>3, <1>4, <1>5

\* What the script does in a frame other than asking the game controller.
LEMMA ScriptKeepsConnection ==
    ASSUME ConnectionKnown,
           RunNext \/ EndList \/ AddProcess \/ CallCached \/ Return \/ Fail
    PROVE  ConnectionKnown'
<1>1. UNCHANGED controllerVars
  BY DEF RunNext, EndList, AddProcess, CallCached, Return, Fail
<1>2. CASE RunNext \/ EndList
  <2>1. phase # "failed"
    BY <1>2 DEF RunNext, EndList, RunProcess, EndWalk, Walking, Lists
  <2> QED BY <1>1, <2>1 DEF ConnectionKnown, controllerVars
<1>3. CASE AddProcess \/ CallCached
  <2>1. UNCHANGED phase
    BY <1>3 DEF AddProcess, Add, CallCached, processorVars
  <2> QED BY <1>1, <2>1 DEF ConnectionKnown, controllerVars
<1>4. CASE Return
  <2>1. UNCHANGED phase \/ phase = "main"
    BY <1>4 DEF Return, ProcessReturns, EndMain
  <2> QED BY <1>1, <2>1 DEF ConnectionKnown, controllerVars
<1>5. CASE Fail
  BY <1>1, <1>5 DEF Fail, Throw, ConnectionKnown, controllerVars
<1> QED BY <1>2, <1>3, <1>4, <1>5

LEMMA ConnectionStep == ConnectionKnown /\ [Next]_vars => ConnectionKnown'
<1> SUFFICES ASSUME ConnectionKnown, [Next]_vars PROVE ConnectionKnown'
  OBVIOUS
<1>1. CASE Request
  <2>1. CASE SendsRequest /\ UNCHANGED processorVars
    BY <2>1 DEF SendsRequest, processorVars, controllerVars, ConnectionKnown
  <2>2. CASE RequestThrows /\ Throw
    BY <2>2 DEF RequestThrows, Throw, ConnectionKnown
  <2> QED BY <1>1, <2>1, <2>2 DEF Request
<1>2. CASE Reload
  BY <1>2 DEF Reload, ReloadController, ReopenController, ConnectionKnown
<1>3. CASE EventLoop
  BY <1>3 DEF EventLoop, SocketEvent, processorVars, ConnectionKnown
<1>4. CASE UNCHANGED vars
  BY <1>4 DEF vars, processorVars, controllerVars, ConnectionKnown
<1> QED BY StartKeepsConnection, ScriptKeepsConnection, <1>1, <1>2, <1>3, <1>4 DEF Next

\* A strategy that takes itself for connected over a socket that is up is registered
\* on this connection.
THEOREM Registered == Spec => []RegisteredWhenConnected
<1>1. Init => ConnectionKnown
  BY DEF Init, ControllerInit, ConnectionKnown
<1>2. ConnectionKnown => RegisteredWhenConnected
  BY DEF ConnectionKnown, RegisteredWhenConnected
<1> QED BY <1>1, <1>2, ConnectionStep, PTL DEF Spec
-----------------------------------------------------------------------------
\* All that is filed for this frame was computed in it.
FiledNow ==
    /\ \A f \in ForFrame : \A p \in DOMAIN cached[f] : cached[f][p].frame = frame
    /\ DOMAIN cached = Functs

\* Filing a result of this frame.
LEMMA CallKeepsFrame ==
    ASSUME FiledNow, NEW f \in Functs, NEW args \in ArgLists[f], Call(f, args)
    PROVE  FiledNow'
<1>1. PICK r \in Results :
        cached' = [cached EXCEPT ![f] =
                     SetInCache(@, args, [args |-> args, frame |-> frame, result |-> r])]
  BY DEF Call
<1> DEFINE computed == [args |-> args, frame |-> frame, result |-> r]
           filed == SetInCache(cached[f], args, computed)
<1>2. /\ DOMAIN filed \subseteq DOMAIN cached[f] \cup {Path(args)}
      /\ \A p \in DOMAIN filed :
            filed[p] = IF p = Path(args) THEN computed ELSE cached[f][p]
  BY DEF SetInCache
<1>3. computed.frame = frame
  OBVIOUS
<1> HIDE DEF computed
<1>4. /\ DOMAIN cached' = Functs /\ cached'[f] = filed
      /\ \A g \in Functs \ {f} : cached'[g] = cached[g]
  BY <1>1 DEF FiledNow, computed
<1>5. UNCHANGED frame
  BY DEF Call
<1> HIDE DEF filed
<1>6. ASSUME f \in ForFrame, NEW p \in DOMAIN filed PROVE filed[p].frame = frame
  BY <1>2, <1>3, <1>6 DEF FiledNow
<1>7. \A g \in ForFrame : g \in Functs
  BY DEF Functs
<1> QED BY <1>4, <1>5, <1>6, <1>7 DEF FiledNow

LEMMA FrameStep == FiledNow /\ [Next]_vars => FiledNow'
<1> SUFFICES ASSUME FiledNow, [Next]_vars PROVE FiledNow'
  OBVIOUS
<1>1. CASE StartFrame
  <2>1. cached' = [f \in Functs |-> IF f \in ForFrame THEN <<>> ELSE cached[f]]
    BY <1>1 DEF StartFrame, CacheNextFrame, ResetFrame, Cleared
  <2>2. \A f \in ForFrame : cached'[f] = <<>>
    BY <2>1 DEF Functs
  <2> QED BY <2>1, <2>2 DEF FiledNow
<1>2. CASE CallCached
  BY <1>2, CallKeepsFrame DEF CallCached
<1>3. CASE Reload
  <2>1. cached' = [f \in Functs |-> <<>>]
    BY <1>3 DEF Reload
  <2> QED BY <2>1 DEF FiledNow, Functs
<1>4. CASE RunNext \/ EndList \/ AddProcess \/ Request \/ Return \/ Fail \/ EventLoop
  <2>1. UNCHANGED cacheVars
    BY <1>4 DEF RunNext, EndList, AddProcess, Request, Return, Fail, EventLoop
  <2> QED BY <2>1 DEF cacheVars, FiledNow
<1>5. CASE UNCHANGED vars
  BY <1>5 DEF vars, cacheVars, FiledNow
<1> QED BY <1>1, <1>2, <1>3, <1>4, <1>5 DEF Next

\* What a function of the frame finds in its cache was computed in this frame, also
\* what nobody asks for again.
THEOREM CachedInThisFrame == Spec => []FiledNow
<1>1. Init => FiledNow
  BY DEF Init, CacheInit, FiledNow, Functs
<1> QED BY <1>1, FrameStep, PTL DEF Spec
-----------------------------------------------------------------------------
(* The walk.                                                                 *)

\* Two sequences, one behind the other.
LEMMA Concatenated ==
    ASSUME NEW S, NEW a \in Seq(S), NEW b \in Seq(S)
    PROVE  /\ a \o b \in Seq(S) /\ Len(a \o b) = Len(a) + Len(b)
           /\ \A i \in 1..(Len(a) + Len(b)) :
                 (a \o b)[i] = IF i <= Len(a) THEN a[i] ELSE b[i - Len(a)]
OBVIOUS

\* Splicing the process at place k out of a list moves those behind it forward.
LEMMA RemovedFacts ==
    ASSUME NEW S, NEW s \in Seq(S), IsInjective(s), NEW k \in 1..Len(s)
    PROVE  /\ Removed(s, s[k]) \in Seq(S)
           /\ Len(Removed(s, s[k])) = Len(s) - 1
           /\ \A i \in 1..(Len(s) - 1) :
                 Removed(s, s[k])[i] = IF i < k THEN s[i] ELSE s[i + 1]
<1> DEFINE I == {i \in 1..Len(s) : s[i] = s[k]}
<1>1. I = {k}
  BY DEF IsInjective
<1>2. Min(I) = k
  BY <1>1 DEF Min
<1>3. SelectInSeq(s, LAMBDA v : v = s[k]) = k
  BY <1>1, <1>2 DEF SelectInSeq
<1>4. Removed(s, s[k]) = SubSeq(s, 1, k - 1) \o SubSeq(s, k + 1, Len(s))
  BY <1>3 DEF Removed, RemoveFirst, RemoveAt
<1> DEFINE a == SubSeq(s, 1, k - 1)
           b == SubSeq(s, k + 1, Len(s))
<1>5. /\ a \in Seq(S) /\ Len(a) = k - 1
      /\ \A i \in 1..(k - 1) : a[i] = s[i]
  OBVIOUS
<1>6. /\ b \in Seq(S) /\ Len(b) = Len(s) - k
      /\ \A i \in 1..(Len(s) - k) : b[i] = s[i + k]
  OBVIOUS
<1> HIDE DEF a, b
<1>0. Len(s) \in Nat /\ k \in Nat
  OBVIOUS
<1>7. /\ a \o b \in Seq(S) /\ Len(a \o b) = Len(s) - 1
      /\ \A i \in 1..(Len(s) - 1) : (a \o b)[i] = IF i < k THEN a[i] ELSE b[i - (k - 1)]
  <2>1. /\ a \o b \in Seq(S) /\ Len(a \o b) = Len(a) + Len(b)
        /\ \A i \in 1..(Len(a) + Len(b)) :
              (a \o b)[i] = IF i <= Len(a) THEN a[i] ELSE b[i - Len(a)]
    BY <1>5, <1>6, Concatenated
  <2> QED BY <1>0, <1>5, <1>6, <2>1
<1>8. \A i \in 1..(Len(s) - 1) : (a \o b)[i] = IF i < k THEN s[i] ELSE s[i + 1]
  <2> TAKE i \in 1..(Len(s) - 1)
  <2>0. i < k \/ i >= k
    BY <1>0
  <2>1. CASE i < k
    BY <1>5, <1>7, <2>1
  <2>2. CASE i >= k
    <3>1. i - (k - 1) \in 1..(Len(s) - k) /\ (i - (k - 1)) + k = i + 1
      BY <2>2
    <3>2. b[i - (k - 1)] = s[(i - (k - 1)) + k]
      BY <1>6, <3>1
    <3>3. ~(i < k)
      BY <1>0, <2>2
    <3>4. (a \o b)[i] = b[i - (k - 1)]
      BY <1>7, <3>3
    <3> QED BY <3>1, <3>2, <3>3, <3>4
  <2> QED BY <2>0, <2>1, <2>2
<1> QED BY <1>4, <1>7, <1>8 DEF a, b

\* The process that is in run() is the one the walk took last; behind a process
\* that has finished at most one is passed over, the one that moved into its place.
WalkInv ==
    /\ ProcessorTypeOK
    /\ ended < next
    /\ running # {} => /\ Walking /\ ended < next - 1
                       /\ next - 1 \in 1..Len(procs[phase])
                       /\ running = {procs[phase][next - 1]}
    /\ SkipsAreExcused

\* The processes of a list are finitely many.
LEMMA PassedFinite ==
    ASSUME ProcessorTypeOK, Walking, NEW T, T \subseteq Passed
    PROVE  IsFiniteSet(T) /\ Cardinality(T) \in Nat
<1>1. procs[phase] \in Seq(Processes)
  BY DEF ProcessorTypeOK, Walking
<1>2. T \subseteq Processes
  BY <1>1 DEF Passed
<1>3. IsFiniteSet(T)
  BY <1>2, ProcessorAssumption, FS_Subset
<1> QED BY <1>3, FS_CardinalityType

\* What the lists hold.
LEMMA ListFacts ==
    ASSUME ProcessorTypeOK, NEW l \in Lists
    PROVE  /\ procs[l] \in Seq(Processes) /\ Len(procs[l]) \in Nat
           /\ Len(procs[l]) <= MaxListed /\ IsInjective(procs[l])
           /\ ToSet(procs[l]) \subseteq Listed
           /\ ToSet(procs[l]) = {procs[l][i] : i \in 1..Len(procs[l])}
<1>1. procs[l] \in Seq(Processes)
  BY DEF ProcessorTypeOK
<1> QED BY <1>1 DEF ProcessorTypeOK, Listed, ToSet

\* A walk begins, or the strategy itself runs.
LEMMA BeginWalks ==
    ASSUME WalkInv, running = {}, NEW to \in {"pre", "main", "post", "idle"}, Begin(to)
    PROVE  WalkInv'
<1>0. ProcessorTypeOK
  BY DEF WalkInv
<1>1. /\ phase' = to /\ next' = 1 /\ ended' = 0 /\ ran' = {} /\ running' = {}
      /\ procs' = procs
      /\ scheduled' = IF to \in Lists THEN ToSet(procs[to]) ELSE {}
  BY DEF Begin
<1>2. scheduled' \subseteq Listed
  BY <1>0, <1>1, ListFacts
<1>3. Listed' = Listed
  BY <1>1 DEF Listed
<1>4. MaxListed \in Nat /\ 1 \in 1..(MaxListed + 1) /\ 0 \in 0..MaxListed
  BY ProcessorAssumption
<1>5. ProcessorTypeOK'
  BY <1>0, <1>1, <1>2, <1>3, <1>4 DEF ProcessorTypeOK, Lists
<1>6. Passed' = {}
  BY <1>1 DEF Passed
<1>7. (Passed \ ran)' = {} /\ Cardinality((Passed \ ran)') = 0
  BY <1>6, FS_EmptySet
<1>8. SkipsAreExcused'
  BY <1>1, <1>6, <1>7 DEF SkipsAreExcused, Walking
<1> QED BY <1>1, <1>5, <1>8 DEF WalkInv

\* What the walk has passed, and a process added behind the whole list.
LEMMA AddWalks ==
    ASSUME WalkInv, NEW l \in Lists, NEW p \in Processes, Add(l, p)
    PROVE  WalkInv'
<1>0. ProcessorTypeOK /\ SkipsAreExcused
  BY DEF WalkInv
<1> DEFINE s == procs[l]
           t == Append(s, p)
<1>1. /\ procs' = [procs EXCEPT ![l] = t] /\ p \notin Listed /\ Len(s) < MaxListed
      /\ UNCHANGED <<phase, next, running, scheduled, ran, ended>> /\ InScript
  BY DEF Add
<1>2. s \in Seq(Processes) /\ Len(s) \in Nat /\ IsInjective(s) /\ ToSet(s) \subseteq Listed
  BY <1>0, ListFacts
<1>3. procs' \in [Lists -> Seq(Processes)] /\ procs'[l] = t /\ \A k \in Lists : k # l => procs'[k] = procs[k]
  BY <1>0, <1>1, <1>2 DEF ProcessorTypeOK
<1>4. /\ Len(t) = Len(s) + 1 /\ t[Len(s) + 1] = p /\ \A i \in 1..Len(s) : t[i] = s[i]
      /\ DOMAIN t = 1..(Len(s) + 1) /\ DOMAIN s = 1..Len(s)
  BY <1>2
<1>5. IsInjective(t)
  <2>1. \A i \in 1..Len(s) : s[i] # p
    BY <1>1, <1>2 DEF ToSet
  <2> QED BY <1>2, <1>4, <2>1 DEF IsInjective
<1>6. ToSet(s) \subseteq ToSet(t)
  BY <1>4 DEF ToSet
<1>7. Listed \subseteq Listed'
  BY <1>3, <1>6 DEF Listed
<1>8. ProcessorTypeOK'
  <2>1. \A k \in Lists : Len(procs'[k]) <= MaxListed /\ IsInjective(procs'[k])
    <3> SUFFICES ASSUME NEW k \in Lists, k = l \/ k # l
                 PROVE  Len(procs'[k]) <= MaxListed /\ IsInjective(procs'[k])
      OBVIOUS
    <3>1. Len(t) <= MaxListed
      BY <1>1, <1>2, <1>4, ProcessorAssumption
    <3> QED BY <1>0, <1>3, <1>5, <3>1 DEF ProcessorTypeOK
  <2> QED BY <1>0, <1>1, <1>3, <1>7, <2>1 DEF ProcessorTypeOK
<1>9. CASE phase # l
  <2>1. Walking => procs'[phase] = procs[phase]
    BY <1>3, <1>9 DEF Walking
  <2>2. Walking => Passed' = Passed
    BY <1>1, <2>1 DEF Passed
  <2>3. SkipsAreExcused'
    BY <1>0, <1>1, <2>1, <2>2 DEF SkipsAreExcused, Walking
  <2> QED BY <1>1, <1>8, <2>1, <2>3 DEF WalkInv, Walking
<1>10. CASE phase = l
  <2>1. running # {} /\ next - 1 \in 1..Len(s) /\ running = {s[next - 1]}
    BY <1>1, <1>10 DEF WalkInv, InScript, Lists
  <2>2. Passed' = Passed
    <3>1. DOMAIN t \cap 1..(next - 1) = DOMAIN s \cap 1..(next - 1)
      BY <1>2, <1>4, <2>1
    <3>2. \A i \in DOMAIN s \cap 1..(next - 1) : t[i] = s[i]
      BY <1>4
    <3>3. Passed' = {t[i] : i \in DOMAIN t \cap 1..(next - 1)}
      BY <1>1, <1>3, <1>10 DEF Passed
    <3>4. Passed = {s[i] : i \in DOMAIN s \cap 1..(next - 1)}
      BY <1>10 DEF Passed
    <3> HIDE DEF s, t
    <3> QED BY <3>1, <3>2, <3>3, <3>4
  <2>3. SkipsAreExcused'
    BY <1>0, <1>1, <1>3, <1>6, <1>10, <2>2 DEF SkipsAreExcused, Walking
  <2>4. next - 1 \in 1..Len(t) /\ t[next - 1] = s[next - 1]
    BY <1>2, <1>4, <2>1
  <2> QED BY <1>1, <1>3, <1>8, <1>10, <2>1, <2>3, <2>4 DEF WalkInv, Walking
<1> QED BY <1>9, <1>10

\* The walk takes the next process.
LEMMA RunWalks == ASSUME WalkInv, RunProcess PROVE WalkInv'
<1>0. ProcessorTypeOK /\ SkipsAreExcused
  BY DEF WalkInv
<1> DEFINE s == procs[phase]
           p == s[next]
<1>1. /\ Walking /\ running = {} /\ next <= Len(s) /\ running' = {p}
      /\ ran' = ran \cup {p} /\ next' = next + 1
      /\ UNCHANGED <<procs, phase, scheduled, ended>>
  BY DEF RunProcess, After
<1>2. /\ s \in Seq(Processes) /\ Len(s) \in Nat /\ Len(s) <= MaxListed
      /\ ToSet(s) \subseteq Listed /\ DOMAIN s = 1..Len(s)
  BY <1>0, <1>1, ListFacts DEF Walking
<1>3. next \in 1..Len(s) /\ next \in Nat /\ p \in Processes /\ p \in ToSet(s)
  BY <1>0, <1>1, <1>2 DEF ProcessorTypeOK, ToSet
<1>4. ProcessorTypeOK'
  <2>1. Cardinality({p}) = 1
    BY FS_Singleton
  <2>2. Listed' = Listed
    BY <1>1 DEF Listed
  <2>3. next' \in 1..(MaxListed + 1) /\ running' \subseteq Processes /\ Cardinality(running') <= 1
    BY <1>1, <1>2, <1>3, <2>1, ProcessorAssumption
  <2>4. (scheduled \cup ran)' \subseteq Listed
    BY <1>0, <1>1, <1>2, <1>3 DEF ProcessorTypeOK
  <2> QED BY <1>0, <1>1, <2>2, <2>3, <2>4 DEF ProcessorTypeOK
<1>5. Passed' = Passed \cup {p}
  <2>1. \A i : i \in DOMAIN s \cap 1..next <=> i \in DOMAIN s \cap 1..(next - 1) \/ i = next
    BY <1>2, <1>3
  <2>2. Passed' = {s[i] : i \in DOMAIN s \cap 1..next}
    BY <1>1, <1>3 DEF Passed
  <2>3. Passed = {s[i] : i \in DOMAIN s \cap 1..(next - 1)}
    BY DEF Passed
  <2> HIDE DEF s
  <2> QED BY <2>1, <2>2, <2>3
<1>6. (Passed \ ran)' \subseteq Passed \ ran
  BY <1>1, <1>5
<1>7. /\ IsFiniteSet(Passed \ ran) /\ Cardinality(Passed \ ran) \in Nat
      /\ Cardinality((Passed \ ran)') <= Cardinality(Passed \ ran)
      /\ Cardinality((Passed \ ran)') \in Nat
  <2>1. IsFiniteSet(Passed \ ran) /\ Cardinality(Passed \ ran) \in Nat
    BY <1>0, <1>1, PassedFinite
  <2>2. IsFiniteSet((Passed \ ran)') /\ Cardinality((Passed \ ran)') <= Cardinality(Passed \ ran)
    BY <1>6, <2>1, FS_Subset
  <2> QED BY <2>1, <2>2, FS_CardinalityType
<1>8. SkipsAreExcused'
  <2>1. Cardinality(Passed \ ran) <= ended /\ ended \in Nat
    BY <1>0, <1>1 DEF SkipsAreExcused, ProcessorTypeOK
  <2>2. Cardinality((Passed \ ran)') <= ended'
    BY <1>1, <1>7, <2>1
  <2>3. ran' \subseteq Passed' /\ scheduled' \subseteq ToSet(procs'[phase'])
    BY <1>0, <1>1, <1>5 DEF SkipsAreExcused
  <2> QED BY <2>2, <2>3 DEF SkipsAreExcused
<1>9. ended' < next' /\ ended' < next' - 1
  BY <1>0, <1>1, <1>3 DEF WalkInv, ProcessorTypeOK
<1> QED BY <1>1, <1>3, <1>4, <1>8, <1>9 DEF WalkInv, Walking

\* A process returns; one that has finished is spliced out under the walk.
LEMMA ReturnWalks ==
    ASSUME WalkInv, NEW finished \in BOOLEAN, ProcessReturns(finished)
    PROVE  WalkInv'
<1>0. ProcessorTypeOK /\ SkipsAreExcused
  BY DEF WalkInv
<1> DEFINE s == procs[phase]
           k == next - 1
           p == s[k]
           t == Removed(s, p)
<1>1. /\ Walking /\ k \in 1..Len(s) /\ running = {p} /\ running' = {}
      /\ UNCHANGED <<phase, next>>
  BY DEF WalkInv, ProcessReturns
<1>2. /\ s \in Seq(Processes) /\ Len(s) \in Nat /\ Len(s) <= MaxListed
      /\ IsInjective(s) /\ DOMAIN s = 1..Len(s)
  BY <1>0, <1>1, ListFacts DEF Walking
<1>3. Cardinality({}) = 0 /\ next \in Nat /\ ended \in Nat /\ ended < next - 1
  BY <1>0, <1>1, FS_EmptySet DEF WalkInv, ProcessorTypeOK
<1>4. CASE ~finished
  <2>1. UNCHANGED <<procs, ended, scheduled, ran>>
    BY <1>4 DEF ProcessReturns
  <2>2. ProcessorTypeOK'
    BY <1>0, <1>1, <1>3, <2>1 DEF ProcessorTypeOK, Listed
  <2>3. SkipsAreExcused'
    BY <1>0, <1>1, <2>1 DEF SkipsAreExcused, Passed, Walking
  <2> QED BY <1>1, <1>3, <2>1, <2>2, <2>3 DEF WalkInv
<1>5. CASE finished
  <2>1. /\ procs' = [procs EXCEPT ![phase] = t] /\ ended' = ended + 1
        /\ scheduled' = scheduled \ {p} /\ ran' = ran \ {p}
    BY <1>1, <1>5 DEF ProcessReturns
  <2>2. /\ t \in Seq(Processes) /\ Len(t) = Len(s) - 1
        /\ \A i \in 1..(Len(s) - 1) : t[i] = IF i < k THEN s[i] ELSE s[i + 1]
    BY <1>1, <1>2, RemovedFacts
  <2>3. /\ procs' \in [Lists -> Seq(Processes)] /\ procs'[phase] = t
        /\ \A l \in Lists : l # phase => procs'[l] = procs[l]
    BY <1>0, <1>1, <2>1, <2>2 DEF ProcessorTypeOK, Walking
  <2> HIDE DEF t
  <2>4. /\ DOMAIN t = 1..(Len(s) - 1) /\ k \in Nat \ {0} /\ Len(s) \in Nat
        /\ p = s[k]
    BY <1>1, <1>2, <1>3, <2>2
  <2> HIDE DEF p, s, k
  <2>5. \A i \in 1..(Len(s) - 1) :
            \/ i < k /\ i \in 1..Len(s) /\ t[i] = s[i]
            \/ i >= k /\ i + 1 \in 1..Len(s) /\ t[i] = s[i + 1]
    BY <2>2, <2>4
  <2>6. IsInjective(t)
    <3> SUFFICES ASSUME NEW i \in 1..(Len(s) - 1), NEW j \in 1..(Len(s) - 1), t[i] = t[j]
                 PROVE  i = j
      BY <2>4 DEF IsInjective
    <3>1. \A a, b \in 1..Len(s) : s[a] = s[b] => a = b
      BY <1>2 DEF IsInjective
    <3> QED BY <2>4, <2>5, <3>1
  <2>7. ToSet(s) \ {p} \subseteq ToSet(t)
    <3> SUFFICES ASSUME NEW j \in 1..Len(s), s[j] # p
                 PROVE  \E i \in 1..(Len(s) - 1) : t[i] = s[j]
      BY <1>2, <2>4 DEF ToSet
    <3>1. CASE j < k
      <4>1. j \in 1..(Len(s) - 1) /\ t[j] = s[j]
        BY <1>1, <2>2, <2>4, <3>1
      <4> QED BY <4>1
    <3>2. CASE j > k
      <4>1. j - 1 \in 1..(Len(s) - 1) /\ ~(j - 1 < k) /\ (j - 1) + 1 = j
        BY <2>4, <3>2
      <4>2. t[j - 1] = s[j]
        BY <2>2, <4>1
      <4> QED BY <4>1, <4>2
    <3>3. j # k
      BY <2>4
    <3> QED BY <2>4, <3>1, <3>2, <3>3
  <2>8. \A i \in DOMAIN t \cap 1..k : t[i] \in ToSet(s) /\ t[i] # p
    <3> TAKE i \in DOMAIN t \cap 1..k
    <3>1. \A a \in 1..Len(s) : s[a] = s[k] => a = k
      BY <1>1, <1>2 DEF IsInjective
    <3> QED BY <1>2, <2>4, <2>5, <3>1 DEF ToSet
  <2>9. Passed = {s[i] : i \in DOMAIN s \cap 1..k}
    BY DEF Passed, s, k
  <2>10. Passed' = {t[i] : i \in DOMAIN t \cap 1..k}
    BY <1>1, <2>3 DEF Passed, k
  <2>11. Passed \ {p} \subseteq Passed'
    <3> SUFFICES ASSUME NEW j \in DOMAIN s \cap 1..k, s[j] # p
                 PROVE  \E i \in DOMAIN t \cap 1..k : t[i] = s[j]
      BY <2>9, <2>10
    <3>1. j < k /\ j \in 1..(Len(s) - 1) /\ t[j] = s[j]
      BY <1>1, <1>2, <2>2, <2>4
    <3> QED BY <2>4, <3>1
  <2>12. Passed' \subseteq (Passed \ {p}) \cup {t[k]}
    <3> SUFFICES ASSUME NEW i \in DOMAIN t \cap 1..k, i # k
                 PROVE  t[i] \in Passed
      BY <2>8, <2>10, Zenon
    <3>1. i \in 1..(Len(s) - 1) /\ ~(i >= k)
      BY <2>4
    <3>2. i \in DOMAIN s /\ t[i] = s[i]
      BY <1>2, <2>5, <3>1
    <3> QED BY <2>9, <3>2
  <2>13. SkipsAreExcused'
    <3>1. IsFiniteSet(Passed \ ran) /\ Cardinality(Passed \ ran) \in Nat
      BY <1>0, <1>1, PassedFinite
    <3>2. Cardinality(Passed \ ran) <= ended
      BY <1>0, <1>1 DEF SkipsAreExcused
    <3>3. /\ IsFiniteSet((Passed \ ran) \cup {t[k]})
          /\ Cardinality((Passed \ ran) \cup {t[k]}) <= ended + 1
          /\ Cardinality((Passed \ ran) \cup {t[k]}) \in Nat
      <4> DEFINE U == Passed \ ran
                 x == t[k]
      <4>1. IsFiniteSet(U) /\ Cardinality(U) \in Nat /\ Cardinality(U) <= ended
        BY <3>1, <3>2
      <4> HIDE DEF U, x
      <4>2. /\ IsFiniteSet(U \cup {x})
            /\ \/ Cardinality(U \cup {x}) = Cardinality(U)
               \/ Cardinality(U \cup {x}) = Cardinality(U) + 1
        BY <4>1, FS_AddElement
      <4>3. ended \in Nat
        BY <1>3
      <4>4. /\ Cardinality(U \cup {x}) <= ended + 1
            /\ Cardinality(U \cup {x}) \in Nat
        BY <4>1, <4>2, <4>3
      <4> QED BY <4>2, <4>4 DEF U, x
    <3>4. (Passed \ ran)' \subseteq (Passed \ ran) \cup {t[k]}
      BY <2>1, <2>12
    <3>5. Cardinality((Passed \ ran)') <= Cardinality((Passed \ ran) \cup {t[k]})
          /\ IsFiniteSet((Passed \ ran)')
      BY <3>3, <3>4, FS_Subset
    <3>6. Cardinality((Passed \ ran)') \in Nat
      BY <3>5, FS_CardinalityType
    <3>7. Cardinality((Passed \ ran)') <= ended'
      BY <1>3, <2>1, <3>3, <3>5, <3>6
    <3>8. ran' \subseteq Passed'
      BY <1>0, <1>1, <2>1, <2>11 DEF SkipsAreExcused
    <3>9. scheduled' \subseteq ToSet(procs'[phase'])
      BY <1>0, <1>1, <2>1, <2>3, <2>7 DEF SkipsAreExcused, s
    <3> QED BY <3>7, <3>8, <3>9 DEF SkipsAreExcused
  <2>14. ProcessorTypeOK'
    <3>1. (scheduled \cup ran)' \subseteq Listed'
      <4>1. (scheduled \cup ran)' \subseteq Listed \ {p}
        BY <1>0, <2>1 DEF ProcessorTypeOK
      <4>2. Listed \ {p} \subseteq Listed'
        BY <1>1, <2>3, <2>7 DEF Listed, Walking, s
      <4> QED BY <4>1, <4>2
    <3>2. \A l \in Lists : Len(procs'[l]) <= MaxListed /\ IsInjective(procs'[l])
      <4> SUFFICES ASSUME NEW l \in Lists, l = phase \/ l # phase
                   PROVE  Len(procs'[l]) <= MaxListed /\ IsInjective(procs'[l])
        OBVIOUS
      <4>1. MaxListed \in Nat
        BY ProcessorAssumption
      <4>2. Len(t) <= MaxListed
        BY <1>2, <2>2, <4>1
      <4>3. CASE l = phase
        BY <2>3, <2>6, <4>2, <4>3
      <4>4. CASE l # phase
        BY <1>0, <2>3, <4>4 DEF ProcessorTypeOK
      <4> QED BY <4>3, <4>4
    <3>3. ended' \in 0..MaxListed
      <4>1. next <= MaxListed + 1 /\ MaxListed \in Nat
        BY <1>0, ProcessorAssumption DEF ProcessorTypeOK
      <4> QED BY <1>3, <2>1, <4>1
    <3> QED BY <1>0, <1>1, <1>3, <2>3, <3>1, <3>2, <3>3 DEF ProcessorTypeOK
  <2>15. ended' < next'
    BY <1>1, <1>3, <2>1
  <2> QED BY <1>1, <2>13, <2>14, <2>15 DEF WalkInv
<1> QED BY <1>4, <1>5

\* What the script does outside the walk, a failure and a reload.
LEMMA OtherWalks ==
    ASSUME WalkInv, UNCHANGED processorVars \/ Throw \/ Reload
    PROVE  WalkInv'
<1>0. ProcessorTypeOK /\ SkipsAreExcused
  BY DEF WalkInv
<1>1. CASE UNCHANGED processorVars
  BY <1>1 DEF WalkInv, ProcessorTypeOK, SkipsAreExcused, Passed, Walking, Listed,
              processorVars
<1>2. Cardinality({}) = 0
  BY FS_EmptySet
<1>3. CASE Throw
  <2>1. ProcessorTypeOK'
    BY <1>0, <1>2, <1>3 DEF Throw, ProcessorTypeOK, Listed
  <2>2. ended' < next' /\ running' = {} /\ ~Walking'
    BY <1>3 DEF Throw, WalkInv, Walking, Lists
  <2> QED BY <2>1, <2>2 DEF WalkInv, SkipsAreExcused
<1>4. CASE Reload
  <2>1. /\ procs' = [l \in Lists |-> <<>>] /\ phase' = "idle" /\ next' = 1
        /\ running' = {} /\ scheduled' = {} /\ ran' = {} /\ ended' = 0
    BY <1>4 DEF Reload
  <2>2. MaxListed \in Nat /\ 1 \in 1..(MaxListed + 1) /\ 0 \in 0..MaxListed
    BY ProcessorAssumption
  <2>3. ProcessorTypeOK'
    BY <1>2, <2>1, <2>2 DEF ProcessorTypeOK, IsInjective
  <2>4. ~Walking'
    BY <2>1 DEF Walking, Lists
  <2> QED BY <2>1, <2>3, <2>4 DEF WalkInv, SkipsAreExcused
<1> QED BY <1>1, <1>3, <1>4

LEMMA WalkStep == WalkInv /\ [Next]_vars => WalkInv'
<1> SUFFICES ASSUME WalkInv, [Next]_vars PROVE WalkInv'
  OBVIOUS
<1>1. CASE StartFrame
  <2>1. phase = "idle" /\ Begin("pre")
    BY <1>1 DEF StartFrame, BeginFrame
  <2>2. running = {}
    BY <2>1 DEF WalkInv, Walking, Lists
  <2> QED BY <2>1, <2>2, BeginWalks
<1>2. CASE RunNext
  BY <1>2, RunWalks DEF RunNext
<1>3. CASE EndList
  BY <1>3, BeginWalks DEF EndList, EndWalk
<1>4. CASE AddProcess
  BY <1>4, AddWalks DEF AddProcess
<1>5. CASE Return
  <2>1. CASE EndMain
    <3>1. phase = "main" /\ Begin("post")
      BY <2>1 DEF EndMain
    <3>2. running = {}
      BY <3>1 DEF WalkInv, Walking, Lists
    <3> QED BY <3>1, <3>2, BeginWalks
  <2>2. CASE \E finished \in BOOLEAN : ProcessReturns(finished)
    BY <2>2, ReturnWalks
  <2> QED BY <1>5, <2>1, <2>2 DEF Return
<1>6. CASE CallCached \/ Request \/ Fail \/ Reload \/ EventLoop \/ UNCHANGED vars
  BY <1>6, OtherWalks DEF CallCached, Request, Fail, EventLoop, vars
<1> QED BY <1>1, <1>2, <1>3, <1>4, <1>5, <1>6 DEF Next

\* A script that was just loaded.
LEMMA InitWalks == Init => WalkInv
<1> SUFFICES ASSUME Init PROVE WalkInv
  OBVIOUS
<1>1. /\ procs = [l \in Lists |-> <<>>] /\ phase = "idle" /\ next = 1
      /\ running = {} /\ scheduled = {} /\ ran = {} /\ ended = 0
  BY DEF Init, ProcessorInit
<1>2. MaxListed \in Nat /\ 1 \in 1..(MaxListed + 1) /\ 0 \in 0..MaxListed
  BY ProcessorAssumption
<1>3. Cardinality({}) = 0
  BY FS_EmptySet
<1>4. ProcessorTypeOK
  BY <1>1, <1>2, <1>3 DEF ProcessorTypeOK, IsInjective
<1>5. ~Walking
  BY <1>1 DEF Walking, Lists
<1> QED BY <1>1, <1>4, <1>5 DEF WalkInv, SkipsAreExcused

\* A walk over a list that grows and shrinks under it leaves behind it all that it
\* has run, and passes over no more processes than have finished.
THEOREM WalksExcused == Spec => []SkipsAreExcused
<1>1. WalkInv => SkipsAreExcused
  BY DEF WalkInv
<1> QED BY <1>1, InitWalks, WalkStep, PTL DEF Spec

\* When no process finishes, the walk of pre() runs all that were scheduled.
THEOREM AllRunUnlessFinished == Spec => [](ended = 0 => AllScheduledRun)
<1>1. WalkInv => (ended = 0 => AllScheduledRun)
  <2> SUFFICES ASSUME WalkInv, ended = 0, phase = "pre", next > Len(procs["pre"])
               PROVE  scheduled \subseteq ran
    BY DEF AllScheduledRun
  <2>1. ProcessorTypeOK /\ SkipsAreExcused /\ Walking
    BY DEF WalkInv, Walking, Lists
  <2>2. IsFiniteSet(Passed \ ran) /\ Cardinality(Passed \ ran) \in Nat
    BY <2>1, PassedFinite
  <2>3. Cardinality(Passed \ ran) = 0
    BY <2>1, <2>2 DEF SkipsAreExcused
  <2>4. Passed \subseteq ran
    BY <2>2, <2>3, FS_EmptySet
  <2>5. /\ procs["pre"] \in Seq(Processes) /\ Len(procs["pre"]) \in Nat /\ next \in Nat
        /\ ToSet(procs["pre"]) = {procs["pre"][i] : i \in 1..Len(procs["pre"])}
    BY <2>1, ListFacts DEF Lists, ProcessorTypeOK
  <2>6. ToSet(procs["pre"]) \subseteq Passed
    BY <2>5 DEF Passed
  <2> QED BY <2>1, <2>4, <2>6 DEF SkipsAreExcused
<1> QED BY <1>1, InitWalks, WalkStep, PTL DEF Spec
-----------------------------------------------------------------------------
(* Paths.                                                                    *)

\* A set of numbers that is not empty has a least one.
LEMMA LeastOne ==
    ASSUME NEW T, T \subseteq Nat, T # {}
    PROVE  \E m \in T : \A k \in T : m <= k
<1> DEFINE R == OpToRel(<, Nat)
<1>1. PICK x \in T : \A y \in T : <<y, x>> \notin R
  BY WFMin, NatLessThanWellFounded
<1>2. ASSUME NEW y \in T PROVE x <= y
  <2>1. ~(y < x) /\ x \in Nat /\ y \in Nat
    BY <1>1 DEF OpToRel
  <2> QED BY <2>1
<1> QED BY <1>2

\* What is a key.
AllKeys == Values \cup {Vec, Obj}

\* f lists what FlattenSeq has put together up to each place.
IsFlat(f, s, n) == f = [i \in 1..n |-> IF i = 1 THEN s[i] ELSE f[i - 1] \o s[i]]

\* There is such a list, of any length.
LEMMA FlatExists == ASSUME NEW s, NEW n \in Nat PROVE \E f : IsFlat(f, s, n)
<1> DEFINE Bad == {m \in Nat : ~ \E f : IsFlat(f, s, m)}
<1> SUFFICES ASSUME Bad # {} PROVE FALSE
  OBVIOUS
<1>1. PICK m \in Bad : \A k \in Bad : m <= k
  BY LeastOne
<1>2. CASE m = 0
  <2>1. IsFlat([i \in 1..0 |-> 0], s, 0)
    BY DEF IsFlat
  <2> QED BY <1>1, <1>2, <2>1
<1>3. CASE m # 0
  <2>1. m - 1 \in Nat /\ m - 1 \notin Bad
    BY <1>1, <1>3
  <2>2. PICK g : IsFlat(g, s, m - 1)
    BY <2>1
  <2> DEFINE h == [i \in 1..m |-> IF i = 1 THEN s[i] ELSE g[i - 1] \o s[i]]
  <2>3. \A i \in 1..(m - 1) : g[i] = IF i = 1 THEN s[i] ELSE g[i - 1] \o s[i]
    BY <2>2 DEF IsFlat
  <2>4. \A i \in 1..(m - 1) : h[i] = g[i]
    BY <2>1, <2>3
  <2>5. \A i \in 1..m : h[i] = IF i = 1 THEN s[i] ELSE h[i - 1] \o s[i]
    <3> TAKE i \in 1..m
    <3>1. i # 1 => i - 1 \in 1..(m - 1)
      BY <2>1
    <3> QED BY <2>4, <3>1
  <2>6. IsFlat(h, s, m)
    BY <2>5 DEF IsFlat
  <2> QED BY <1>1, <2>6
<1> QED BY <1>2, <1>3

\* FlattenSeq is the last element of the list.
LEMMA FlattenIsFlat ==
    ASSUME NEW s, Len(s) \in Nat \ {0}
    PROVE  \E f : IsFlat(f, s, Len(s)) /\ FlattenSeq(s) = f[Len(s)]
<1> DEFINE f == CHOOSE g : IsFlat(g, s, Len(s))
<1>1. FlattenSeq(s) = f[Len(s)]
  BY DEF FlattenSeq, IsFlat
<1>2. IsFlat(f, s, Len(s))
  BY FlatExists, Zenon
<1> QED BY <1>1, <1>2

\* Such a list of lists of keys, and what is so of it: what was put together up to a
\* place stays in front.
KeysPut(f, s, n) ==
    n \in Nat /\ s \in [1..n -> Seq(AllKeys)] /\ IsFlat(f, s, n)
Fronted(f, n) ==
    /\ \A i \in 1..n : f[i] \in Seq(AllKeys)
    /\ \A i, j \in 1..n : i <= j =>
          /\ Len(f[i]) <= Len(f[j])
          /\ \A k \in 1..Len(f[i]) : f[j][k] = f[i][k]

LEMMA FlatFacts == ASSUME NEW f, NEW s, NEW n, KeysPut(f, s, n) PROVE Fronted(f, n)
<1>0. n \in Nat /\ s \in [1..n -> Seq(AllKeys)] /\ IsFlat(f, s, n)
  BY DEF KeysPut
<1>1. \A i \in 1..n : f[i] = IF i = 1 THEN s[i] ELSE f[i - 1] \o s[i]
  BY <1>0 DEF IsFlat
<1>2. ASSUME NEW i \in 1..n PROVE f[i] \in Seq(AllKeys)
  <2> DEFINE Bad == {m \in 1..n : f[m] \notin Seq(AllKeys)}
  <2> SUFFICES ASSUME Bad # {} PROVE FALSE
    OBVIOUS
  <2>0. Bad \subseteq Nat
    BY <1>0
  <2>1. PICK m \in Bad : \A k \in Bad : m <= k
    BY <2>0, LeastOne
  <2>2. m # 1 /\ m - 1 \in 1..n /\ m - 1 \notin Bad
    BY <1>0, <1>1, <2>1
  <2>3. f[m] = f[m - 1] \o s[m] /\ f[m - 1] \in Seq(AllKeys) /\ s[m] \in Seq(AllKeys)
    BY <1>0, <1>1, <2>1, <2>2
  <2>4. f[m] \in Seq(AllKeys)
    BY <2>3, Concatenated
  <2> QED BY <2>1, <2>4
<1>3. ASSUME NEW i \in 1..n, NEW j \in 1..n, i <= j
      PROVE  Len(f[i]) <= Len(f[j]) /\ \A k \in 1..Len(f[i]) : f[j][k] = f[i][k]
  <2> DEFINE KeptTo(m) == Len(f[i]) <= Len(f[m]) /\ \A k \in 1..Len(f[i]) : f[m][k] = f[i][k]
             Bad == {m \in i..n : ~KeptTo(m)}
  <2> SUFFICES ASSUME Bad # {} PROVE FALSE
    BY <1>3
  <2>0. Len(f[i]) \in Nat
    BY <1>2
  <2>00. Bad \subseteq Nat
    BY <1>0
  <2>1. PICK m \in Bad : \A k \in Bad : m <= k
    BY <2>00, LeastOne
  <2>2. m \in i..n /\ ~KeptTo(m)
    BY <2>1
  <2>3. KeptTo(i)
    BY <2>0
  <2>4. m # i
    BY <2>2, <2>3
  <2>5. m - 1 \in i..n /\ m - 1 \notin Bad /\ m # 1 /\ m - 1 \in 1..n /\ m \in 1..n
    BY <1>0, <2>1, <2>2, <2>4
  <2>6. KeptTo(m - 1)
    BY <2>5
  <2> DEFINE u == f[m - 1]
             v == s[m]
  <2>7. f[m] = u \o v /\ u \in Seq(AllKeys) /\ v \in Seq(AllKeys)
    BY <1>0, <1>1, <1>2, <2>5
  <2>8. /\ Len(u) \in Nat /\ Len(f[m]) = Len(u) + Len(v) /\ Len(v) \in Nat
        /\ \A k \in 1..(Len(u) + Len(v)) :
              f[m][k] = IF k <= Len(u) THEN u[k] ELSE v[k - Len(u)]
    <3> HIDE DEF u, v
    <3> QED BY <2>7, Concatenated
  <2>9. KeptTo(m)
    <3>1. Len(f[i]) <= Len(u) /\ \A k \in 1..Len(f[i]) : u[k] = f[i][k]
      BY <2>6
    <3> HIDE DEF u, v
    <3>2. Len(f[i]) <= Len(f[m])
      BY <2>0, <2>8, <3>1
    <3>3. ASSUME NEW k \in 1..Len(f[i]) PROVE f[m][k] = f[i][k]
      <4>1. k \in 1..(Len(u) + Len(v)) /\ k <= Len(u)
        BY <2>0, <2>8, <3>1
      <4> QED BY <2>8, <3>1, <4>1
    <3> QED BY <3>2, <3>3
  <2> QED BY <2>2, <2>9
<1> QED BY <1>2, <1>3 DEF Fronted

\* The keys of each form of argument.
LEMMA KeyForms ==
    ASSUME NEW x \in Arguments
    PROVE  \/ Nullish(x) /\ Keys(x) = <<Obj>>
           \/ \E v \in Values : x = <<"other", v>> /\ Keys(x) = <<v>>
           \/ \E v, w \in Values : x = <<"vector", v, w>> /\ Keys(x) = <<Vec, v, w>>
<1>1. CASE x = <<"undefined">> \/ x = <<"null">>
  BY <1>1 DEF Keys, Nullish
<1>2. ASSUME NEW v \in Values, x = <<"other", v>> PROVE Keys(x) = <<v>>
  BY <1>2 DEF Keys
<1>3. ASSUME NEW v \in Values, NEW w \in Values, x = <<"vector", v, w>>
      PROVE  Keys(x) = <<Vec, v, w>>
  BY <1>3 DEF Keys
<1> QED BY <1>1, <1>2, <1>3 DEF Arguments

LEMMA KeysType == ASSUME NEW x \in Arguments PROVE Keys(x) \in Seq(AllKeys)
<1>1. CASE Keys(x) = <<Obj>>
  BY <1>1 DEF AllKeys
<1>2. ASSUME NEW v \in Values, Keys(x) = <<v>> PROVE Keys(x) \in Seq(AllKeys)
  BY <1>2 DEF AllKeys
<1>3. ASSUME NEW v \in Values, NEW w \in Values, Keys(x) = <<Vec, v, w>>
      PROVE  Keys(x) \in Seq(AllKeys)
  BY <1>3 DEF AllKeys
<1> QED BY <1>1, <1>2, <1>3, KeyForms

\* The marks tell a vector from its coordinates and from no argument: if none of
\* the keys that both have differs, two arguments are the same for the cache.
LEMMA KeysDecide ==
    ASSUME NEW x \in Arguments, NEW y \in Arguments,
           \A k \in 1..3 : k <= Len(Keys(x)) /\ k <= Len(Keys(y)) => Keys(x)[k] = Keys(y)[k]
    PROVE  /\ Keys(x) = Keys(y)
           /\ x = y \/ (Nullish(x) /\ Nullish(y))
<1> DEFINE First == Keys(x)[1] = Keys(y)[1]
<1>0. Vec \notin Values /\ Obj \notin Values /\ Vec # Obj
  BY ResultCacheAssumption DEF Vec, Obj
<1>1. 1 \in 1..3 /\ 2 \in 1..3 /\ 3 \in 1..3
  OBVIOUS
<1>2. First
  BY <1>1, KeyForms
<1>3. CASE Nullish(x) /\ Keys(x) = <<Obj>>
  <2>1. Nullish(y) /\ Keys(y) = <<Obj>>
    BY <1>0, <1>2, <1>3, KeyForms
  <2> QED BY <1>3, <2>1
<1>4. ASSUME NEW v \in Values, x = <<"other", v>>, Keys(x) = <<v>>
      PROVE  Keys(x) = Keys(y) /\ x = y
  <2>1. \E w \in Values : y = <<"other", w>> /\ Keys(y) = <<w>>
    BY <1>0, <1>2, <1>4, KeyForms
  <2> QED BY <1>2, <1>4, <2>1
<1>5. ASSUME NEW v \in Values, NEW w \in Values, x = <<"vector", v, w>>,
             Keys(x) = <<Vec, v, w>>
      PROVE  Keys(x) = Keys(y) /\ x = y
  <2>1. PICK a, b \in Values : y = <<"vector", a, b>> /\ Keys(y) = <<Vec, a, b>>
    BY <1>0, <1>2, <1>5, KeyForms
  <2>2. v = a /\ w = b
    BY <1>1, <1>5, <2>1
  <2> QED BY <1>5, <2>1, <2>2
<1> QED BY <1>3, <1>4, <1>5, KeyForms

\* The keys of the arguments of a call.
KeyLists(args) == [i \in 1..Len(args) |-> Keys(args[i])]

\* A path is the number of the arguments and what their keys are put together to.
Headed(p, n, q) == n \in Nat /\ q \in Seq(AllKeys) /\ p = <<n>> \o q

LEMMA PathForm ==
    ASSUME NEW args \in Seq(Arguments)
    PROVE  \E r : /\ Headed(Path(args), Len(args), r)
                  /\ Len(args) # 0 => \E f : /\ KeysPut(f, KeyLists(args), Len(args))
                                             /\ r = f[Len(args)]
<1> DEFINE n == Len(args)
           s == KeyLists(args)
<1>0. /\ n \in Nat /\ DOMAIN args = 1..n /\ \A i \in 1..n : args[i] \in Arguments
  OBVIOUS
<1>1. s \in [1..n -> Seq(AllKeys)]
  BY <1>0, KeysType DEF KeyLists
<1>2. Len(s) = n
  BY <1>0, <1>1
<1>3. Path(args) = <<n>> \o FlattenSeq(s)
  BY <1>0 DEF Path, KeyLists
<1> HIDE DEF s
<1>4. CASE n = 0
  <2>1. FlattenSeq(s) = s
    BY <1>2, <1>4 DEF FlattenSeq
  <2>2. s \in Seq(AllKeys)
    BY <1>1, <1>4
  <2> QED BY <1>0, <1>3, <1>4, <2>1, <2>2 DEF Headed
<1>5. CASE n # 0
  <2>1. PICK f : IsFlat(f, s, n) /\ FlattenSeq(s) = f[n]
    BY <1>0, <1>2, <1>5, FlattenIsFlat
  <2>2. KeysPut(f, s, n)
    BY <1>0, <1>1, <2>1 DEF KeysPut
  <2>3. f[n] \in Seq(AllKeys)
    BY <1>0, <1>5, <2>2, FlatFacts DEF Fronted
  <2> QED BY <1>0, <1>3, <2>1, <2>2, <2>3 DEF s, Headed
<1> QED BY <1>4, <1>5

\* The first key and the others can be read off a path.
LEMMA BehindFirst ==
    ASSUME NEW p, NEW m, NEW n, NEW q, NEW r, Headed(p, m, q), Headed(p, n, r)
    PROVE  m = n /\ q = r
<1> DEFINE S == AllKeys \cup {m, n}
           x == <<m>> \o q
           y == <<n>> \o r
<1>0. /\ m \in Nat /\ q \in Seq(AllKeys) /\ p = x
      /\ n \in Nat /\ r \in Seq(AllKeys) /\ p = y
  BY DEF Headed
<1>1. <<m>> \in Seq(S) /\ <<n>> \in Seq(S) /\ q \in Seq(S) /\ r \in Seq(S)
  BY <1>0
<1>2. Len(<<m>>) = 1 /\ Len(<<n>>) = 1 /\ Len(q) \in Nat /\ Len(r) \in Nat
  BY <1>0
<1>3. /\ Len(x) = 1 + Len(q) /\ x[1] = m
      /\ \A i \in 1..Len(q) : x[i + 1] = q[i]
  BY <1>1, <1>2, Concatenated
<1>4. /\ Len(y) = 1 + Len(r) /\ y[1] = n
      /\ \A i \in 1..Len(r) : y[i + 1] = r[i]
  BY <1>1, <1>2, Concatenated
<1>5. x = y
  BY <1>0
<1> HIDE DEF x, y
<1>6. m = n /\ Len(q) = Len(r)
  BY <1>2, <1>3, <1>4, <1>5
<1>7. \A i \in 1..Len(q) : q[i] = r[i]
  BY <1>3, <1>4, <1>5, <1>6
<1> QED BY <1>0, <1>6, <1>7

\* Paths tell arguments apart: at the first place where they differ, so do the keys
\* that are put behind what is the same.
LEMMA PathsDiffer ==
    ASSUME NEW a \in Seq(Arguments), NEW b \in Seq(Arguments), Path(a) = Path(b)
    PROVE  SameArguments(a, b)
<1> DEFINE n == Len(a)
<1>0. /\ n \in Nat /\ Len(b) \in Nat /\ DOMAIN a = 1..n
      /\ \A i \in 1..n : a[i] \in Arguments
      /\ \A i \in 1..Len(b) : b[i] \in Arguments
  OBVIOUS
<1>1. PICK q : /\ Headed(Path(a), n, q)
               /\ n # 0 => \E f : KeysPut(f, KeyLists(a), n) /\ q = f[n]
  BY PathForm
<1>2. PICK r : /\ Headed(Path(b), Len(b), r)
               /\ Len(b) # 0 => \E f : KeysPut(f, KeyLists(b), Len(b)) /\ r = f[Len(b)]
  BY PathForm
<1>3. Len(b) = n /\ q = r
  BY <1>1, <1>2, BehindFirst
<1>4. CASE n = 0
  BY <1>0, <1>3, <1>4 DEF SameArguments
<1>5. CASE n # 0
  <2>1. PICK f : KeysPut(f, KeyLists(a), n) /\ q = f[n]
    BY <1>1, <1>5
  <2>2. PICK g : KeysPut(g, KeyLists(b), n) /\ q = g[n]
    BY <1>2, <1>3, <1>5
  <2>3. Fronted(f, n) /\ Fronted(g, n)
    BY <2>1, <2>2, FlatFacts
  <2>4. /\ \A i \in 1..n : f[i] \in Seq(AllKeys) /\ Len(f[i]) <= Len(q)
                             /\ \A k \in 1..Len(f[i]) : q[k] = f[i][k]
        /\ \A i \in 1..n : g[i] \in Seq(AllKeys) /\ Len(g[i]) <= Len(q)
                             /\ \A k \in 1..Len(g[i]) : q[k] = g[i][k]
    <3>1. n \in 1..n /\ \A i \in 1..n : i <= n
      BY <1>0, <1>5
    <3>2. f[n] = q /\ g[n] = q
      BY <2>1, <2>2
    <3> HIDE DEF n
    <3>3. \A i \in 1..n : f[i] \in Seq(AllKeys) /\ Len(f[i]) <= Len(f[n])
                             /\ \A k \in 1..Len(f[i]) : f[n][k] = f[i][k]
      BY <2>3, <3>1 DEF Fronted
    <3>4. \A i \in 1..n : g[i] \in Seq(AllKeys) /\ Len(g[i]) <= Len(g[n])
                             /\ \A k \in 1..Len(g[i]) : g[n][k] = g[i][k]
      BY <2>3, <3>1 DEF Fronted
    <3> QED BY <3>2, <3>3, <3>4
  <2> DEFINE Same(i) == (a[i] = b[i] \/ (Nullish(a[i]) /\ Nullish(b[i]))) /\ f[i] = g[i]
             Bad == {i \in 1..n : ~Same(i)}
  <2>5. ASSUME Bad # {} PROVE FALSE
    <3>0. Bad \subseteq Nat
      OBVIOUS
    <3>1. PICK m \in Bad : \A k \in Bad : m <= k
      BY <2>5, <3>0, LeastOne
    <3>2. m \in 1..n /\ ~Same(m)
      OBVIOUS
    <3> DEFINE u == IF m = 1 THEN <<>> ELSE f[m - 1]
               v == Keys(a[m])
               w == Keys(b[m])
    <3>a. a[m] \in Arguments /\ b[m] \in Arguments
      BY <1>0, <1>3, <3>2
    <3>b. m # 1 => m - 1 \in 1..n /\ Same(m - 1)
      BY <1>0, <3>1, <3>2
    <3>3. u \in Seq(AllKeys) /\ v \in Seq(AllKeys) /\ w \in Seq(AllKeys)
      <4>1. v \in Seq(AllKeys) /\ w \in Seq(AllKeys)
        BY <3>a, KeysType
      <4>2. CASE m = 1
        BY <4>1, <4>2
      <4>3. CASE m # 1
        BY <2>4, <3>b, <4>1, <4>3
      <4> QED BY <4>2, <4>3
    <3>4. f[m] = u \o v /\ g[m] = u \o w
      <4>1. KeyLists(a)[m] = v /\ KeyLists(b)[m] = w
        BY <1>3, <3>2 DEF KeyLists
      <4>2. /\ f[m] = IF m = 1 THEN v ELSE f[m - 1] \o v
            /\ g[m] = IF m = 1 THEN w ELSE g[m - 1] \o w
        <5>1. /\ \A i \in 1..n : f[i] = IF i = 1 THEN KeyLists(a)[i]
                                       ELSE f[i - 1] \o KeyLists(a)[i]
              /\ \A i \in 1..n : g[i] = IF i = 1 THEN KeyLists(b)[i]
                                       ELSE g[i - 1] \o KeyLists(b)[i]
          BY <2>1, <2>2 DEF KeysPut, IsFlat
        <5> HIDE DEF v, w, n
        <5> QED BY <3>2, <4>1, <5>1
      <4>3. CASE m = 1
        <5> HIDE DEF v, w
        <5>1. <<>> \o v = v /\ <<>> \o w = w
          BY <3>3
        <5> QED BY <4>2, <4>3, <5>1
      <4>4. CASE m # 1
        BY <3>b, <4>2, <4>4
      <4> QED BY <4>3, <4>4
    <3>5. \A k \in 1..3 : k <= Len(v) /\ k <= Len(w) => v[k] = w[k]
      <4> HIDE DEF u, v, w
      <4> DEFINE x == f[m]
                 y == g[m]
      <4>1. /\ Len(u) \in Nat /\ Len(v) \in Nat /\ Len(w) \in Nat
            /\ x \in Seq(AllKeys) /\ y \in Seq(AllKeys)
        BY <2>4, <3>2, <3>3
      <4>2. Len(x) = Len(u) + Len(v) /\ \A k \in 1..Len(v) : x[Len(u) + k] = v[k]
        BY <3>3, <3>4, <4>1, Concatenated
      <4>3. Len(y) = Len(u) + Len(w) /\ \A k \in 1..Len(w) : y[Len(u) + k] = w[k]
        BY <3>3, <3>4, <4>1, Concatenated
      <4>4. /\ \A k \in 1..Len(x) : q[k] = x[k]
            /\ \A k \in 1..Len(y) : q[k] = y[k]
        BY <2>4, <3>2
      <4> HIDE DEF x, y
      <4> TAKE k \in 1..3
      <4> HAVE k <= Len(v) /\ k <= Len(w)
      <4>5. Len(u) + k \in 1..Len(x) /\ Len(u) + k \in 1..Len(y)
        BY <4>1, <4>2, <4>3
      <4>6. k \in 1..Len(v) /\ k \in 1..Len(w)
        BY <4>1
      <4>7. q[Len(u) + k] = v[k] /\ q[Len(u) + k] = w[k]
        BY <4>2, <4>3, <4>4, <4>5, <4>6
      <4> QED BY <4>7
    <3>6. v = w /\ (a[m] = b[m] \/ (Nullish(a[m]) /\ Nullish(b[m])))
      BY <1>0, <1>3, <3>2, <3>5, KeysDecide
    <3> QED BY <3>2, <3>4, <3>6
  <2> QED BY <1>0, <1>3, <2>5 DEF SameArguments
<1> QED BY <1>4, <1>5

\* Whatever was dropped since, a result is found under its own arguments' path.
FiledRight(f) ==
    \A p \in DOMAIN cached[f] :
       cached[f][p].args \in ArgLists[f] /\ p = Path(cached[f][p].args)
Filed == DOMAIN cached = Functs /\ \A f \in Functs : FiledRight(f)

\* Filing a result drops what it drops and leaves the others where they were.
LEMMA CallFiles ==
    ASSUME Filed, NEW f \in Functs, NEW args \in ArgLists[f], Call(f, args)
    PROVE  Filed'
<1>1. PICK r \in Results :
        cached' = [cached EXCEPT ![f] =
                     SetInCache(@, args, [args |-> args, frame |-> frame, result |-> r])]
  BY DEF Call
<1> DEFINE computed == [args |-> args, frame |-> frame, result |-> r]
           filed == SetInCache(cached[f], args, computed)
<1>2. /\ DOMAIN filed \subseteq DOMAIN cached[f] \cup {Path(args)}
      /\ \A p \in DOMAIN filed :
            filed[p] = IF p = Path(args) THEN computed ELSE cached[f][p]
  BY DEF SetInCache
<1>3. computed.args = args
  OBVIOUS
<1> HIDE DEF computed
<1>4. /\ DOMAIN cached' = Functs /\ cached'[f] = filed
      /\ \A g \in Functs \ {f} : cached'[g] = cached[g]
  BY <1>1 DEF Filed, computed
<1> HIDE DEF filed
<1>5. ASSUME NEW p \in DOMAIN filed
      PROVE  filed[p].args \in ArgLists[f] /\ p = Path(filed[p].args)
  <2>1. CASE p = Path(args)
    BY <1>2, <1>3, <2>1
  <2>2. CASE p # Path(args)
    <3>1. p \in DOMAIN cached[f] /\ filed[p] = cached[f][p]
      BY <1>2, <2>2
    <3> QED BY <3>1 DEF Filed, FiledRight
  <2> QED BY <2>1, <2>2
<1>6. FiledRight(f)'
  BY <1>4, <1>5 DEF FiledRight
<1>7. ASSUME NEW g \in Functs \ {f} PROVE FiledRight(g)'
  BY <1>4 DEF Filed, FiledRight
<1> QED BY <1>4, <1>6, <1>7 DEF Filed

LEMMA FiledStep == Filed /\ [Next]_vars => Filed'
<1> SUFFICES ASSUME Filed, [Next]_vars PROVE Filed'
  OBVIOUS
<1>1. CASE StartFrame
  <2>1. cached' = [f \in Functs |-> IF f \in ForFrame THEN <<>> ELSE cached[f]]
    BY <1>1 DEF StartFrame, CacheNextFrame, ResetFrame, Cleared
  <2> QED BY <2>1 DEF Filed, FiledRight
<1>2. CASE CallCached
  BY <1>2, CallFiles DEF CallCached
<1>3. CASE Reload
  <2>1. cached' = [f \in Functs |-> <<>>]
    BY <1>3 DEF Reload
  <2> QED BY <2>1 DEF Filed, FiledRight
<1>4. CASE RunNext \/ EndList \/ AddProcess \/ Request \/ Return \/ Fail \/ EventLoop
  <2>1. UNCHANGED cacheVars
    BY <1>4 DEF RunNext, EndList, AddProcess, Request, Return, Fail, EventLoop
  <2> QED BY <2>1 DEF cacheVars, Filed, FiledRight
<1>5. CASE UNCHANGED vars
  BY <1>5 DEF vars, cacheVars, Filed, FiledRight
<1> QED BY <1>1, <1>2, <1>3, <1>4, <1>5 DEF Next

\* A call that the cache answers gets a result of the same function for the same
\* arguments ("undefined" and "null" are one for it), and of this frame unless it is
\* kept for ever: for any functions and argument lists, of any length.
THEOREM AnswersAreRight == Spec => []CacheAnswersAreRight
<1>1. Init => Filed
  BY DEF Init, CacheInit, Filed, FiledRight
<1>2. Init => FiledNow
  BY DEF Init, CacheInit, FiledNow, Functs
<1>3. ASSUME Filed, FiledNow PROVE CacheAnswersAreRight
  <2> SUFFICES ASSUME NEW f \in Functs, NEW args \in ArgLists[f], Hit(f, args)
               PROVE  LET is == cached[f][Path(args)]
                      IN  /\ SameArguments(args, is.args)
                          /\ f \in ForFrame => is.frame = frame
    BY DEF CacheAnswersAreRight
  <2> DEFINE is == cached[f][Path(args)]
  <2>1. Path(args) \in DOMAIN cached[f]
    BY DEF Hit
  <2>2. is.args \in ArgLists[f] /\ Path(args) = Path(is.args)
    BY <1>3, <2>1 DEF Filed, FiledRight
  <2>3. args \in Seq(Arguments) /\ is.args \in Seq(Arguments)
    BY <2>2, ResultCacheAssumption
  <2> DEFINE theirs == is.args
  <2> HIDE DEF theirs
  <2>4. SameArguments(args, theirs)
    BY <2>2, <2>3, PathsDiffer DEF theirs
  <2>5. f \in ForFrame => is.frame = frame
    BY <1>3, <2>1 DEF FiledNow
  <2> QED BY <2>4, <2>5 DEF theirs
<1> QED BY <1>1, <1>2, <1>3, FiledStep, FrameStep, PTL DEF Spec
=============================================================================

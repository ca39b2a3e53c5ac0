# Verification of the robot framework

TLA+ models of the framework under `src/`: the concurrent core of Amun (the backend that runs strategies, simulator,
processor and radio) and the TypeScript library that strategies are written with, checked with TLC on small instances,
with theorems proved by TLAPS for every value of the constants. Modules are read beside the source files they name;
`PROJECT.json` maps each definition to its lines.

* [The system](#the-system)
* [The modules](#the-modules)
* [The runs](#the-runs)
* [What is proved](#what-is-proved)
* [Disagreements found](#disagreements-found)
* [Not modelled](#not-modelled)
* [What would come next](#what-would-come-next)

## The system

### Amun

Amun is a set of Qt objects in threads of their own, connected by queued signals: a call through a connection becomes
an event in the queue of the receiver's thread, and a thread handles one event at a time. What is hard follows from
this: an event may be handled after the state it was sent in has gone, two senders' events interleave, a
disconnected sender's events still arrive.

| Part | Keeps | Operations | Hard because | Must |
| --- | --- | --- | --- | --- |
| TypeScript compiler (`strategy/typescript/typescriptcompiler.cpp`) | state of the pause protocol, two result directories, queued compilations | compile, requestPause, resume; rename of the result | a mutex and a condition variable between one compiler and several strategies; signals that are connected anew on every load; edits while compiling | never replace files under a reader, answer every load, compile every change |
| Strategy (`strategy/strategy.cpp`) | the script, its file, reload and idle timers | load, close, reload, debug, process | failures in several handlers, reloads from five sources, halts and commands to another thread | stop the robots of a script that no longer runs, retry, show the truth |
| Transceiver (`processor/transceiver.cpp`) | device, connection state, two timers | handshake, commands, pings, errors | the device closes in the middle of a handler, one timer for two purposes, the switch to the simulator | notice a silent device, send nothing in simulation |
| Amun (`amun.cpp`) | mode, scaling, reasons for a pause, connections | switch of mode, speed, pause, new simulator | reconnecting while events are queued | one source of vision, one clock |
| Simulator (`simulator/simulator.cpp`) | physics, delayed vision packets and their timers | process, team, realism, scaling | packets and timers in two queues, deleted from several handlers | send each packet when it is due, none of an old team |
| Processor (`processor/processor.cpp`) | tracker, robots, radio commands | process, commands of strategies, team | halts and commands of two strategies | drive only what a running strategy drives |
| Log files (`seshat/logfilewriter.cpp`, `seqlogfilereader.cpp`, `logfilereader.cpp`) | groups of packages, offsets, index | write, close, read, seek, index | first status kept back for the hash, padding at the end, groups loaded or not | give back what was written, in order |
| Recording and replay (`seshat/`) | backlog, sources, paced replay | start, stop, seek | sources shared by threads | - (planned) |
| Inspector, debug console, internal game controller, USB devices, network, GUI | | | blocking waits, callbacks | - (planned or left out) |

### The strategy library

A TypeScript strategy runs in the thread of its Strategy object: `Strategy::process` calls the entry point once for
every frame of the tracking, and JavaScript runs to the end of the frame without the event loop. A strategy registers
its functions with `entrypoints.ts` and gives a wrapper that calls the library before and after them
(`entrypoints.ts:46`); the repository has no such wrapper, so the order of the calls is taken from the words of the
library. Nothing here is concurrent. What is hard is state that lives longer than a frame: timers, caches, lists that
are changed while they are walked over, references that the strategy keeps, a connection that changes between frames.

| Part (`strategy/typescript/base/`) | Keeps | Operations | Hard because | Must |
| --- | --- | --- | --- | --- |
| Own robots (`robot.ts`, `world.ts`) | standby timer, controller input, kick, move command | update, setStandby, setControllerInput, halt, kick, setRobotCommands | orders in any sequence, exceptions, time that goes back in a replay | send standby only when it was asked for, stop halted robots |
| World and referee (`world.ts`, `ball.ts`, `referee.ts`) | lists of robots, objects of opponents, ball, keepers, last touch | update, checkTouching | objects that outlive their robot, positions of what is no longer seen | be one world, lay a touch to a robot that is there |
| Field (`field.ts`, `geom.ts`, `mathutil.ts`, `referee.ts`) | nothing | areas, limits, corners, rays | borders, negative radii, two sides | mean what the names say, for both teams |
| Processes (`processor.ts`, `process.ts`) | two lists | addPre, addPost, pre, post | the list changes while it is walked over | lose no process, run none twice |
| Caches (`cache.ts`) | results in nested maps | forFrame, forever, resetFrame | keys of different lengths, entries that drop others | answer with the right result of the right frame |
| Game controller's client (`gamecontroller.ts`, `externalgamecontroller.cpp`) | whether it is connected, the socket | `_update`, requests | the socket changes between frames, reloads keep it | be registered when connected |

## The modules

Every state machine has one `TypeOK`. Definitions marked `variant` or `Mutant` are plausible mistakes in the code, used
to show that each property can fail; they are not part of any specification.

### TypescriptCompiler

`cpc` is the place of the compiler thread in `doCompile` and `compile`, `spc[s]` that of strategy `s` in
`Typescript::loadScript`; both stop only where the code takes or waits for the mutex, touches files or signals.
`m_state` is the code's. `requests` are queued calls of `compile()`, `inbox[s]` signals queued for a strategy. Files are
abstracted to the version of the sources they come from, modification times to the same versions. `foreign` is a
history of the one thing the protocol does not exclude: the pause is a flag, so that the first of two readers to resume
ends the pause of both. The properties are stated up to that case, which is a fact of the code. `Callers` are
strategies of the command line tools: `compileIfNecessary()` makes the script without loading it, connects it, and
calls `compile()` once, blocking; what it then hears of the compiler, and a later command, load the script. The tools
have one such strategy, the model has another one beside it. A script that was only compiled has not been asked to run
anything, so `EventuallyFresh` speaks of the others.

### Transceiver

One handler per action; `receive()` is split into the read and one action per packet (`rx`), during which no other
handler runs. `link` is device, connection state and timeout timer, which `Close`, `Open` and the packet handlers
change together. `amun` and `inbox` are the sender's side: `Amun::setSimulatorEnabled` reconnects the processor's
commands and posts the switch behind those queued already. The device is external: it owes replies (`owed`) and sends
them, others, or none. Time is two flags, `link.timer` and `backoff`.

### StrategyControl

A strategy's thread (`mail`) and the processor's (`inbox`). The script is what it reports: loaded, failed, or later
through a compiler; a batch of commands may be followed by a failure. `team`, `command` and `input` are the robots of
the processor, those with a command and those whose controller follows an input. `wanted` is a history of the last
load or close.

### SimulationControl

`amun` has the mode and the speeds, `timer` is the scaling of the shared clock, `sim` and `proc` what the two threads
know of it, `toSim` and `toProc` what is on the way. A switch of mode is two actions, since the vision is
reconnected before the command is passed on, and packets may come between. `SetUp` is a simulator_setup: a new
simulator, a queue that is gone with the old one, and a user interface that resends the state afterwards (`renewed`).

### SimulatorVision

Packets between the picture of the field and the socket: `sim.packets` and `sim.timers` are `m_visionPackets` and
`m_visionTimers`. One unit of time is one call of `process()`. `m_isPartial`, chosen once, tells the two ways of sending
apart: timers, or a comparison with the current time when the simulator is stepped by its user. The delay changes while
packets are on the way. `lastSent` and `overtaken` are a history: what was sent last, and whether, since the last reset,
a packet was taken that is due before one in front of it.

### StatusLog, LogFileWriter, LogFile

`StatusLog` is what a log file promises: statuses come back in the order they were written, one after the other or by
number; the first carries the id of the log; a remembered place is found again. `LogFileWriter` has the writer, whose
file is a sequence of times and groups of packages. Packages are byte strings that are told apart by the status they
belong to, with lengths that differ, so that a wrong offset cuts a status in two. `LogFile` adds the sequential reader
and the indexed one on top of it and instantiates `StatusLog` with the statuses in file and buffers, the place that
group and index amount to, the remembered place and the status read last; that a number gives the status of that
number is in `IndexComplete`. Files are of version 2 and written with a hash; statuses have times 1, 2, 3..., time 0
marks padding.

### OwnRobots

One action per call: `UpdateRobots` is `World.update` at the start of a frame, the strategy's orders follow in any sequence,
`SetRobotCommands` ends the frame (or does not, when a debugger calls it). `robot[r]` has the private fields of
`FriendlyRobot`; the kind of controller input is what `setControllerInput` and `_command` tell apart, and the two
throw where the code does (`Throws`): the script fails, or something above catches the exception. The time of a frame is
any, later or earlier than the last. `asked` and `run` are a history: whether the strategy's last word of a frame was
for standby, and since when it has been in a row of frames.

### WorldView, Field

`WorldView` has the rest of `World.update` and the touches. An opponent's object is a pair of the id and a number that
grows whenever the code makes a new one, so that references kept by the strategy can be told apart from the robots
that came back. Positions are a few places and one outside of the field; two things touch at the same place.
`Field` is pure: lengths are integers, points and directions a grid, rays have rational parameters. It is the code of
2018; `MCWorldView` joins the two and asks about the field in the initial states.

### Processor, ResultCache, GameController, Runtime

`Processor` walks a list by index, as `for..of` does over an array; `scheduled`, `ran` and `ended` are the history of one
walk. `ResultCache` has the nested maps as one function from paths of keys; of a call that returns it files the result
as `setInCache` does, with what that drops. `GameController` is the client and its socket, which the other end closes
at any time between frames. `Runtime` composes them: a frame updates the client and resets the caches, walks the first
list, runs the strategy, walks the second list, and in all of these the user's code may call, add, ask and throw. The
order of the parts is the user's wrapper, hence external.

## The runs

| Run | Module | Instance | Shows |
| --- | --- | --- | --- |
| compiler_two | TypescriptCompiler | two strategies, one edit, two loads, successful compilations | no lost wakeup, protection up to a foreign resume, every load answered, every strategy up to date in the end |
| compiler_failing | TypescriptCompiler | two strategies, one that begins with `compileIfNecessary()`, two loads or blocking compilations, all outcomes and failures | no answer is lost, the blocking call returns |
| transceiver | Transceiver | queue 3, two packets in a transfer, two replies owed | agreement of state and device, radio silence in simulation, timeouts; a handshake ends |
| strategy | StrategyControl | one robot of the team (others are unknown), batches of two, two events waiting per thread | halts, retries, shown state; robots stop |
| strategy_reopened | StrategyControl | the same, batches of one | a counterexample, see below |
| simulation | SimulationControl | speeds 1 and 2, two reasons, queues of 3 | pause, clock, vision and threads agree; a pause arrives |
| vision | SimulatorVision | timers and stepping by hand, delays 3 and 1, two versions of the team, four packets | packets leave on time until one overtakes another, none is outdated |
| logfile | LogFile | groups of 3, hash of 3, up to 8 statuses | the refinement of StatusLog, the index and reading by number, live sources |
| frame | MCOwnRobots | two robots, times 1 to 3, delays of 1 | standby is earned, halted robots stop |
| view | MCWorldView | two own robots and one opponent, of whom two objects are made; a field of 16 by 18 | dropped objects stay dropped, one world, touches; areas, limits and sides of the field |
| runtime | MCRuntime | three processes, one function of each kind, vectors that share coordinates | no process lost or run twice, right answers of the cache, registration |
| processes_skipped | MCRuntime | two processes | a counterexample |

Bounds. Queues of two or three hold every order of two senders' events with one in progress; more of the same kind are
only behind these. Two compiled loads and one edit are enough for a result to be read while the next replaces it, and
for an edit in the middle of a compilation; two strategies are the blue and the yellow team. `compiler_failing` with three
loads or blocking compilations was checked too (1.6 million states), but takes too long to repeat. A log of eight statuses
with groups of three ends in every place of a group, before and after the hash, and crosses two boundaries of groups;
as in the code the hash is as long as a group. Three times with delays of one tell too early, just right and too late
apart, before and after a jump back. Of the one opponent two objects are made, so that it is dropped, comes back and is
dropped again. The small field is large enough that the areas, grown by the radii and the distance of a free kick,
stay apart from each other and from the side lines (`FieldAssumption`), and every side of every rectangle is met by
points on, next to and away from it. Three processes are one that runs, one that finishes and one that is passed over,
in any order, and with two coordinates of vectors two lists of arguments share
a part of their paths. The vision needs a delay longer than one step, a shorter one that lets a packet overtake those in
front of it, and room for the packets of two teams. `MaxAge`, `MaxOwed` and the like cap counters where the code no
longer tells values apart.

Deadlock is checked unless nothing is left to do by design: the compiler's runs end when edits and loads are used up,
and those of the log when an empty file was refused.

Not run, though the constants allow it: `KeepsReplies = TRUE` (violates `HandshakeEnds`) and `TournamentMode = TRUE`, in
which a compile error is only logged and no answer is owed.

Fairness. Where liveness is checked the event loops of the threads run: weak fairness of a thread's own actions, never
of the user's or the device's. The transceiver needs strong fairness of its timers and events, since transfers that
keep arriving take turns with them in one event loop (`Receive` itself is not fair). `HandshakeEnds` assumes that a
device forgets its replies when it is closed (`KeepsReplies = FALSE`); without that a late ping reply stops the timer
of a new handshake, since `handlePingPacket` stops it in any state. `Runtime` has weak fairness of the frames and of the
code in them: the tracking goes on, the walk goes on, and a process that does not return is ended by the script's timeout
(`checkforscripttimeout.cpp`), which is one of its ways to throw.

## What is proved

| Theorem | Module | States |
| --- | --- | --- |
| Typing, PauseProtocol, SingleReader, WakeupsArrive, NoAnswerIsLost | TypescriptCompiler_proofs | types; `PauseProtectsReader` and `NoTornLoad`, `NoLostWakeup` and `NoLostAnswer` for any number of strategies; `NoRenameWhileReading` for one |
| DeviceMatchesState, NoRadio, SilenceTimed | Transceiver_proofs | types and `StateMatchesDevice`; `NoRadioInSimulation`; `SilenceIsTimed`, for any queues |
| StrategyTyped, HaltBehindCommands, RetriesAreArmed, ShownIsSo | StrategyControl_proofs | types; `HaltReachesRobots`, `RetryArmed` and `ShownMatches` for any robots, batches and queues |
| RobotsTyped, StandbyIsEarned, HaltsStop | World_proofs | types; `StandbyEarned`; `HaltedRobotsStop`, for any robots, delays and times |
| TypeCorrect, OneWorldHolds, DroppedStaysDropped, TouchesArePessimistic | World_proofs | types; `OneWorld`; `DroppedForGood`; `PessimisticTouch`, for any teams, ids and places |
| AreasHold, LimitsHold, SidesHold | World_proofs | `FieldAreas`, `FieldLimits` and `FieldSides` for a field of any size, at the integer places on it and close around it; triangles and the directions of rays are those of small grids |
| Registered, CachedInThisFrame, AnswersAreRight | Runtime_proofs | `RegisteredWhenConnected`; `CacheAnswersAreRight`, for any functions and lists of arguments |
| WalksExcused, AllRunUnlessFinished | Runtime_proofs | `SkipsAreExcused` for any processes; in a frame in which none finished all scheduled processes run |
| Typing, PausesKeepSpeed, ClockIsRight, OneSource, ThreadsFollow | SimulationControl_proofs | types; `PauseRemembersSpeed`; `ClockFollowsMode`; `VisionFromOneSource`; `ThreadsAgree`, for any speeds, reasons and queues |
| Typing, NoneOutdated, OnTime | SimulatorVision_proofs | types; `NoOutdatedPackets` and `SentInTime`, with timers or stepped by hand, for any teams and bounds and any delays, however they change |
| LogTyped, HashFirst, LiveSource, IndexIsComplete | LogFile_proofs | types; `HashedBeforeGroup`; `LiveSourceReads`; `IndexComplete`, for groups, hashes and logs of any length, with times that go by ones |
| LogImplemented | LogFile_proofs | the writer and its two readers implement `StatusLog` (`LogSpec`) |

All from the named assumptions on the constants only. The arguments:

* *PauseProtocol*. The invariant adds to the three properties that the compiler is in its renaming steps exactly while
  `m_state` is RENAMING: this is what keeps a request for a pause from being granted there. Each step of a
  strategy either keeps the pause or marks the other readers as exposed.
* *NoAnswerIsLost*. A strategy that waits, or is about to, while there is no result has an answer promised: a compilation is
  coming or on its way, or a message is in its inbox; one that asked for nothing still knows that there is no result
  (`AnswerInv`). One in `compileIfNecessary()` waits for no answer. Which results exist in which of the compiler's steps
  is `PhaseInv`.
* *NoRadio*. Commands may be in the queue, behind the process timer, or about to be posted. The invariant says that
  following the switches in the queue from what the thread knows leads to what Amun has set, and meets every radio
  command while the field is on (`QueueInv`), and that a pending process timer finds no device in simulation
  (`PendingInv`).
* *HaltBehindCommands*. Inductive with the types alone; the work is in what each handler does to the queue: it
  ends in a halt, is left alone by a strategy that goes on running, or takes commands of one that runs.
* *RetriesAreArmed*, *ShownIsSo*. One invariant of each strategy, `Sound`: what is shown matches what runs unless a change is
  pending, and a script that failed and reloads by itself has its timer running or a change pending.
* *ThreadsFollow*. What a thread thinks of pause, speed and mode is right, or the event that corrects it is in its queue
  with no older one behind it (`ThreadsInv`); `Leaves` says what following the events of a queue ends in.
* *PausesKeepSpeed*, *ClockIsRight*. Inductive with the types; the first needs that 0 is no speed.
* *OneSource*. The processor learns of a switch late, and frames of both sources are in its queue. The invariant
  (`VisionInv`) says that once Amun has announced its mode the last switch in the queue is to that mode and the frames
  behind it are of its source; frames of the other source lie in front of the switch that makes the processor
  forget them.
* *OnTime*. With timers (`InStep`), the age of a packet and what is left of the timer in the same place make up its delay
  while that timer runs, and packets are in the order of their age. As long as nothing was overtaken every timer runs
  and they are in the order of what they have left, so the first is due whenever another is. After that a timer may
  send a packet in front of its own, which is at least as old, so it has waited for one of the delays. Stepped by hand
  (`Stuck`) a packet that was not sent at the age of one is older than its delay, or stands behind one that is, for good.
* *StandbyIsEarned*. The timer alone says nothing of the frames in between. The invariant ties it to the history: a timer
  that runs was started by the robot's own row of frames or in this one, and an unset tick between two frames means
  that the next clearing stops it.
* *OneWorldHolds*, *DroppedStaysDropped*. The objects listed are the newest of their ids; the second is an action
  property of that invariant.
* *Registered*. While the script runs, a client that takes itself for connected has a socket that is registered or
  down, never one that is connecting: what would open it again throws, or forgets the connection first.
* *AnswersAreRight*. A path of keys is the marks and coordinates of the arguments in a row, of a length that differs
  from call to call, so that two lists of arguments might meet in one path or one path might begin another. They do
  not: where two lists first differ their paths do (`PathsDiffer`, `BehindFirst`), because the marks are
  private objects that no argument is (part of `ResultCacheAssumption`). Filing a result then drops nothing that a
  later hit would need and finds nothing that is another's (`Filed`). The induction over the list is written out with
  a least counterexample, since the library's induction theorems cannot be instantiated.
* *WalksExcused*. Inductive with the place of the walk: the process that runs is the one before the index, and fewer have
  ended than the index has passed (`WalkInv`). The work is in the counting of those passed over when a list shrinks.
* *AreasHold*, *LimitsHold*, *SidesHold*. State nothing about variables. Distances are split by axis, squares compared by
  their roots; the two tests for triangles become signs of the same three cross products; a place that was
  moved lies on the edge of a grown area, which `FieldAssumption` keeps away from the lines and from the other
  area; the two cuts of a ray are brought to one denominator, in coordinates in which it runs upwards.
* *HashFirst*. Everything the writer has is determined by the number of statuses written and of full groups: where each
  byte, offset, time and group lies is the invariant (`Writing` while the log is open, `Ended` once it is closed), with
  one lemma for each call that appends. It rests on what the model says of every log: the n-th status has the time n,
  the first one carries the id, and a hash is longer than two statuses and no longer than a group
  (`WriterAssumption`).
* *LiveSource*, *IndexIsComplete*. A reader is fresh, has group k and package i before it (`Loaded`), reads the time of a
  group (`Stamping`), or is behind the last group (`PastEnd`; `Void` in a log without statuses): `ClosedInv`. The index has
  the first n statuses, each at its place (`IndexHas`), and what moves the reader on is one lemma for each of these places.
* *LogImplemented*. The abstract `next` is the number of the package the reader is at, First(k) + i; a write appends one
  status to what `Logged(n)` says the file and the buffers amount to; a memento applied leaves the reader at its group and
  index, so that a seek ends in the remembered place; every other step is a read or a stutter.

Every invariant and action property of a passing run is stated by a theorem. Only model-checked is liveness, since
fairness and ENABLED are outside the prover: `LoadsAreAnswered`, `EventuallyFresh`, `BlockingCompileReturns`,
`SilenceIsNoticed`, `HandshakeEnds`, `RobotsStop`, `PauseArrives` and `EveryProcessRuns`.

## Disagreements found

* `strategy_reopened`: `close()` keeps the file name, and several reloads ask only for that. A geometry, option or
  requestReload still in the queue opens the strategy the user has closed (`strategy.cpp:476`).
* `processes_skipped`: `run()` splices a finished process out of the array that its `for..of` walks, so the process behind
  it does not run in this frame (`processor.ts:52`), although `pre()` "Runs all proccess object scheduled before the
  strategy". `SkipsAreExcused` bounds the damage: one process for each that finished; `EveryProcessRuns`: it runs later.

Found while modelling, and not kept as runs:

* `createSimulator` does not connect `setFlipped`, which the constructor connects for the first simulator; one that
  replaced another never hears which team plays on which side (`amun.cpp:412`, against `amun.cpp:265`), although the
  user interface means to "resend all the information the simulator needs" (`mainwindow.cpp:533`).
* Stepped by hand the simulator sends a packet while its time is still to come, at once, and never after it has passed:
  the comparison is the wrong way round (`simulator.cpp:205`). The first half is what `SentInTime` says of this way of
  stepping; with the comparison turned round it is violated.
* A shorter delay makes the timer of a new packet fire before those of older ones. The first packet leaves for it, before
  its time, and the first timer is deleted, whichever fired (`simulator.cpp:530`); a packet is then left without a
  timer, and stays behind as a lag until the next reset, although "Sending out the vision data is delayed by this
  time".
* The first packet read from a source of a log in progress is packet 0 whichever of the first group was asked for:
  `applyMemento` sets an index that the load of the group resets (`seqlogfilereader.cpp:286`).
* A call with a second vector in the same place drops the result of the first (`cache.ts:68`): functions of vectors are
  computed again in a frame that alternates between two of them, although "the returned value is cached for this
  strategy run". A result of null is never found again (`cache.ts:101`), and null and undefined are one key.
* `setControllerInput(undefined)` is what the doc tells a strategy to call for "its old trajectory" (`robot.ts:439`), and
  makes `_command` throw (`robot.ts:409`). The comparisons with `{}` (`robot.ts:406`, `:444`) are constant.
* `limitToAllowedField` without an extra limit leaves the middle of a goal line where it is, in the defense area: the
  sign of 0 is 0 (`field.ts:94`).
* A strategy that catches the exception of a request without a connection has reopened the socket; the next `_update`
  takes the new connection for the old one and does not register (`gamecontroller.ts:43`). `isConnected` keeps its value
  while the names are not the team's, and a reload in place registers a second time on one connection.

Facts that the properties are stated around, since nothing in the repository says otherwise: the flag of the pause
(above); a compiler that failed to remove the old result leaves a directory that counts as a result (`NoLostAnswer`
excludes it); a new vision delay applies to packets taken from then on (`SentInTime` compares a packet with the delay it
was taken with); a ball that is lost keeps its position and is touched there; `haltOwnRobots` leaves a kick set; `NextRefereeState` and
`BallPlacementPos` keep their last value when a referee's state has none (`world.ts:419`, `:427`).

## Not modelled

`PROJECT.json` lists every part. What is left out, and why:

* Numerical code: tracking, control, path planning and physics, and in the library the arcs of the rules of 2017,
  angles, tangents, trajectories and the ball's quality. It is on real numbers.
* The vendored TypeScript compiler (`libs/tsc`), nearly all of the repository's JavaScript by its lines: a third party's
  build output. How it is run, and what its result does, is in TypescriptCompiler.
* Message types, drawing, tables, plots and the prompt of the debugger in the library; conversions between Lua or V8 and
  C++; sockets, widgets and the tools around log files. The Lua library is what the TypeScript one was translated
  from.
* `Referee.checkStateChange`, the cards and the names of stages: single assignments.
* Data races on single fields (the clock's three fields, `makeStatusSource` while a log is written): the models step
  where threads synchronise.
* Of the external game controller the framing of replies in the stream (`externalgamecontroller.cpp:48-78`), which keeps
  a partial packet across connections.

## What would come next

*Recording* and *LogReplay* (CombinedLogWriter, BacklogWriter, TimedStatusSource): start and stop while a header is
pending, a seek while a packet is on the way. *UsbDevice*: transfers across the USB thread, composed with Transceiver in
place of its external device. *DebugConsole* and *Inspector*: lines handed to a blocked strategy thread. *AmunStop*: the
end of the threads.

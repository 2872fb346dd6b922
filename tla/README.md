# iora_codecs in TLA+

A specification of `iora_codecs`, a C++17
library of media codecs and of the pipeline that moves audio and video frames
between them. The modules are translated from the sources (`src/...` below is
relative to the repository's root; line numbers are in `PROJECT.json`, under
`map`). TLC checks small instances, TLAPS proves the central invariants for
every value of the constants.

1. [The system](#1-the-system)
2. [Modules](#2-modules)
3. [Runs](#3-runs)
4. [Proofs](#4-proofs)
5. [Where code and documentation disagree](#5-where-code-and-documentation-disagree)
6. [Abstractions and their reasons](#6-abstractions-and-their-reasons)
7. [Not modelled](#7-not-modelled)
8. [Plan](#8-plan)

## 1. The system

An application acquires `MediaBuffer`s from a `MediaBufferPool`, pushes them
into a `MediaPipeline`, a graph of `IMediaHandler` stages, and receives them
from the last handler. A stage may transcode (with codecs made by factories
found in the `CodecRegistry`, which codec plugins fill), mix a conference,
detect speech or tones, or record a file. Everything is synchronous: a call of
`incoming()` runs the handler chain on the caller's thread. Threads are the
application's; the library itself starts none.

### 1.1 Components

| Component | State | Operations | Correct when |
|---|---|---|---|
| `MediaPipeline`, lifecycle and frame path (`src/pipeline/media_pipeline.cpp`) | `_state`, `_inFlightCount` (atomics), `_entryStage`, `_exitStage` | `incoming`, `outgoing`, `start`, `drain`, `stop`, `reset`, `swapCodec` | the counter is exact on every path; draining and swapping see a quiet pipeline; no stage is destroyed under a frame that was admitted to it; every control call returns |
| `MediaPipeline`, stage graph (same file) | `_stages`: per stage its handler, formats, `outEdges`, `inEdges`; the handlers' own downstream pointers | `addStage`, `connectStages` with converter insertion, `removeStage`, the topology check of `start` | the edge lists agree with each other and with the handlers' wiring; no cycle can be built; a removed stage receives nothing |
| `TranscodingHandler` | decoder, encoder, resampler and its buffer | `incoming`, `outgoing`, `swapCodecs` | a frame is decoded and encoded by one pair; a failed swap leaves a usable pair |
| `StageMetrics`, `InstrumentedStage` | seven atomics per stage, `_hasDownstream` | `recordIncoming`, `recordOutgoing`, `recordDrop`, `recordError`, `snapshot` | no call is lost or counted twice; extremes are exact despite racing compare-exchange loops; snapshots do not go back |
| `MediaBufferPool` (`core/media_buffer_pool.hpp`) | `_free` under a mutex; reference counts of buffers and pool | `acquire`, the deleter with `weak.lock()` and `recycle`, destructor | a buffer has one owner, returns exactly once, and never into a destroyed pool |
| `MediaBuffer` | bytes and metadata | accessors, `clone` | a recycled buffer does not carry stale metadata |
| `MediaClock` | rate, base timestamp, anchor | `toMediaTimestamp`, `toWallClock`, `elapsedSamples`, `driftPpm` | timestamps wrap at 2^32 without breaking drift |
| `CodecRegistry` | `_factories` by name, under a mutex | `registerFactory`, `unregisterFactory`, `createEncoder/Decoder`, lookups | a name is registered once; a codec is made by a factory that supports it |
| Codec plugins (`src/modules/*/mod_*.cpp`) | factories, `_registeredWithRegistry` | `onLoad`, `onUnload` | unloading takes back exactly what loading registered |
| Audio codecs (G.711, G.722, G.729, iLBC, Opus, AMR) | library handles, parameters | `encode`, `decode`, `plc`, `setParameter` | errors leave the codec usable; parameters reported are those in force |
| Video codecs (VPX, AV1, H.264) | library handles, keyframe request, bitrate, output queue | same | a keyframe request is not lost; configuration and library agree |
| `AudioMixer`, `AudioMixerHandler` | participants, their buffers, energies, VAD state; bounded frame queues | `addParticipant`, `pushAudio`, `mixFor`, `clearBuffers`; `incoming`, `mix` | each participant hears the loudest others and not itself; queues stay bounded and in order |
| `Vad`, `VadHandler`, `GainHandler`, `GoertzelDetector`, `ToneGenerator`, `Resampler` | short histories per stream | `process`, `incoming`, `outgoing` | hangover and debouncing give one event per utterance or digit |
| `WavWriter`, `WavReader`, `WavRecorderHandler` | file, bytes written | `open`, `write`, `close`, `read` | header sizes match the data, up to the 32-bit limit |
| Sample and pixel formats | none | conversions, tables | clamping and rounding |

### 1.2 Interactions

- Media thread -> `MediaPipeline::incoming` -> `InstrumentedStage` (metrics) ->
  handler -> downstream handler ... The chain is *calls*, so the pipeline's
  counter encloses everything below it, and an exception unwinds through it.
- Control thread -> `start/drain/stop/reset/swapCodec`; it meets the media
  threads only in the two atomics `_state` and `_inFlightCount`, and in the codec
  pointers of a `TranscodingHandler`, which are not atomic.
- The last owner of a `shared_ptr<MediaBuffer>`, on whatever thread, calls back
  into the pool through the deleter.
- Plugins call `CodecRegistry` through the service's exported API when they are
  loaded and unloaded; the registry calls factories outside its lock.

### 1.3 What is hard

- The state check and the count of a frame are separate atomic operations
  (`media_pipeline.cpp:502` and `:518`): a frame may be admitted by a check that
  is long out of date, and every waiting loop may read zero just before it counts.
- `drain` may give up; what follows (`stop`, `reset`, a second `start`) then runs
  with frames still inside, and `reset` stores zero into a counter those frames
  will decrement.
- The graph is stored twice, in the edge lists and in the handlers, and
  `connectStages` meets converters that outlived an earlier connection.
- A pool may be dropped by the application while a deleter is between
  `weak.lock()` and `recycle()`: the deleter's temporary is then the last owner.
- Two compare-exchange loops per frame race with each other and with a snapshot
  that reads seven atomics one by one.

- An output handler of the conference calls back into the mixing stage while a round is being
  served, and queues drop frames between rounds.
- A recording may end at any instruction, and the file is read all the same.
- An encoder or library may refuse what the adapter has already noted as done: a key frame
  request, a bit rate, a frame.
- Durations cross the resampler in three units (clock rate, sample rate, codec frames).

Every such point is listed in `PROJECT.json` under `hazards`, with the properties
that watch it or the reason that none does.

## 2. Modules

```
LifecycleContract <--implements-- MediaPipeline      MediaPipelineProofs
StageDag          <--implements-- PipelineGraph      PipelineGraphProofs
                                  MediaBufferPool    MediaBufferPoolProofs
                                  StageMetrics       StageMetricsProofs
                  CodecCatalog <- CodecRegistry      CodecProofs
                    AudioMixer <- AudioMixerHandler  DspProofs
       WavFile <- WavWriter, WavReader <- Recording  RecordingProofs
  CallFrame <- GainHandler, VadHandler, DtmfDetector <- CallTaps   DspProofs
                    AudioCodec <- TranscodingLeg \
               VideoCodec, SampleFormat, MediaClock <- CallLegs    CodecProofs
MCMediaPipeline, MCPipelineGraph, MCMediaBufferPool, MCStageMetrics, MCCodecRegistry,
MCAudioMixerHandler, MCRecording, MCCallTaps, MCCallLegs     (instances for TLC)
NatRecursion          (induction, recursion and arithmetic, for PipelineGraphProofs,
                       RecordingProofs, DspProofs and CodecProofs)
```

**`LifecycleContract`** is what a user of a pipeline may rely on: the order of the
states, editing between runs only, frames admitted only while `Running`, no
`Stopped` without `Draining`, and a pipeline that is empty when it is `Reset`. The states in
which the graph may be edited are its parameter `Editable`, because code and documentation
disagree about them: `ImplementsContract` has those of `isGraphMutable`, and is proved;
`GraphBuiltAsDocumented` is the same contract with those the header and the manual name, which
the code does not implement (section 5). A frame is *admitted* when its caller has read
`Running`; that it may enter the handlers later, in another state, is what `EntersWhileRunning`
is about, in the same section.

**`MediaPipeline`** is the lifecycle and the frame path, one atomic access per
step. A media thread `c` walks through `CheckState`, `FindStage`, `CountIn`, the
handler chain (`Decode`, `Encode`, or `Leave` for every other way out, exceptions
included) and `CountOut`; `pc[c]` says where it is. The control thread's `cpc`
walks through `start` (`StartFind`, `StartPublish`), `drain` (`DrainBegin`,
`DrainWait`, `DrainDone`, `DrainTimeout`), `stop`, `reset` (`ResetClear`,
`ResetFinish`), `swapCodec` (`SwapBegin`, `SwapWait`, `SwapRefuse`, `SwapAccept`,
then `TranscodingHandler::swapCodecs` assignment by assignment, down to an
`initPipeline` whose resampler may throw). Three variables are history: the
frames `reset` forgot, the callers busy since before the last `start`, and those
holding a destroyed stage. `INSTANCE LifecycleContract WITH served <- Busy` is
the refinement mapping (with `Editable`, see above).

**`StageDag`** is the topology a user asked for: stages and connections, where
connecting refuses whatever could be walked back. **`PipelineGraph`** is the graph
the code keeps: `outEdges` and `inEdges` of each entry, the converters that
`negotiateFormats` chains between two stages (named after the two stages and the
conversion, as in the code), the second copy in the handlers (`next`), Kahn's
algorithm of `validateAcyclic` with its count of unregistered names, and the
choice of entry and exit, which depends on the order of a hash table and is
therefore any. Contracting the converters (`Connections`) maps it to `StageDag`.

**`MediaBufferPool`** has the pool, the references each thread holds, and the
deleter in its steps `lockPool`, `recycle` or `deleteBuffer`, `unlockPool`. Both
kinds of pool are initial states: one made by `create()`, and a plain object whose
owner keeps it until every buffer is back.

**`StageMetrics`** has the seven atomics, each media thread's progress through
`updateLatency` with the value its compare-exchange expects, weak
compare-exchange with spurious failure, and a monitor that loads field by field.

**`CodecRegistry`** has the registry's map from names to the owners of their factories,
and the three kinds of actors that meet in it. The host loads and unloads plugins: an
`onLoad` or `onUnload` of a codec plugin (`hpc`, `current`, `done`) is one step per registry
call, with the exception of a refused registration caught as in the code, so that the
application and other threads run in between. The application registers factories of its
own, or a plugin's exported one "manually", as the plugins' comment expects. Clients walk
through `createEncoder`: lock, search, unlock, and only then the factory, which may call
the registry itself. What a plugin registers and withdraws and what its factories'
`CodecInfo` says is data and stands in **`CodecCatalog`**, one definition per `makeXInfo`
and per `mod_X.cpp`. Four variables are history: how many registries there have been, which
one a plugin registered with, what the application registered, and whose registration failed.

**`AudioMixer`** has the operators of the mixing engine: what a pushed frame makes of a
participant, who enters whose mix, who dominates. A frame is its sender, its number, its
length and its loudness; a mix is the set of frames in it, so the three algorithms of the
code, which differ in arithmetic, are one. **`AudioMixerHandler`** is the conference stage
around it: `incoming` (queue, overflow), `mix` in steps (gather and push; serve one
participant after the other; clear), because serving calls the application, which may call
`incoming` again before the next is served. `arrived`, `gathered` and `heard` are history.

**`WavFile`** is what a file holds (header, sizes, data, other chunks) and **`WavWriter`**
and **`WavReader`** the two classes step by step: each write to the stream may fail, and the
process may end between any two. What a stream has buffered when it fails or ends is taken
as lost, and a size field reaches the disk whole. **`Recording`** lets them follow one another:
a recording is closed, cut off, made again, and read, with seeks and with chunks in front of
the data.

**`CallFrame`**, **`GainHandler`**, **`VadHandler`** and **`DtmfDetector`** are the taps of a
call, per direction; **`CallTaps`** puts them in a row and lets the application turn the gain
and dial: `ToneGenerator` makes a buffer per tone and per gap, which wait in `line` and are cut
into frames (`nextFrame`). A frame is the tone it holds, with the levels the filters of the code
would measure; `asked`, `quiet`, `talk`, `last`, `dialled` and `reports` record what properties
compare with.

**`VideoCodec`** has the three video plugins side by side, as the code has them in three
classes, with their factories: what an encoder stores next to what its library has in force
(`lib`), the key frame request on its way from factory to frame, and the pictures `dav1d`
has not delivered. **`AudioCodec`** has the seven audio codecs as operators on lengths: which
frames `encode`, `decode` and `plc` accept and how much they return, and the same two sets of
parameters. **`TranscodingLeg`** joins any two of them as `TranscodingHandler` does,
with the resample buffer and its limit; `MediaPipeline` has the same handler under
concurrency. **`SampleFormat`** has the sample conversions bit for bit, the decode tables by
their rule and shifts and masks as division and remainder. **`MediaClock`** has the 32-bit timestamps and the drift compensation of the mixer.
**`CallLegs`** composes these four as alternatives: a behaviour is about one leg of a call,
chosen in the beginning, and the others rest. They share no state in the code either.

The name of an action is the method's, or the part of a method it stands for.
Definitions that only serve as seeded faults (`CountOutIfEncoded`,
`wouldCreateCycleShallow`, `releaseEvery`, ...) stand before the definition they
vary and are used by no specification; `PROJECT.json` lists them as `mutants`, each
with the property that notices it.

## 3. Runs

| Run | Question | Instance | States |
|---|---|---|---|
| `lifecycle` | Is the counter exact, does a served stage live, is `LifecycleContract` implemented, does every control call return even if handlers hang, and does a pipeline that has left `Running` empty itself, late arrivals included, if they return? | 2 callers, counter modulo 4, 1 poll, 1 swap | 367,572 |
| `graph` | Do edge lists and wiring stay in step, is the graph never refused by `start`, does it implement `StageDag`? | 3 stages, up to 4 registered, 2 edges each, chains of one and two converters | 99,804 |
| `pool` | One owner per buffer, none lost, none recycled into a destroyed pool, and does an exhausted pool recover when its holders let go? | 2 buffers, 3 threads, both kinds of pool | 2,023 |
| `metrics` | Exact extremes, every call accounted for, snapshots that never go back? | 2 threads, latencies {1, 2}, 3 calls | 1,122,308 |
| `registry` | Who is found under a name, what does unloading take back and leave behind, is the mutex always given back? | plugins g711 and opus, application factories under PCMA, 2 clients, 2 registries | 117,867 |
| `mixer` | Does everybody hear the others of this round, the loudest of them, each frame once and in order, and does the VAD callback tell all? | 3 participants, 3 frames, queues of 2, 4 arrivals and departures, each filter on and off | 426,502 |
| `recording` | Is the header right whenever the process ends, and is every file read to its end and no further? | sizes modulo 16, stereo frames of 4 bytes, 6 layouts of chunks | 11,751 |
| `taps` | Are talkspurts marked and forwarded whole, digits reported exactly while they last, and is what is dialled heard? | 2 directions, 8 frames, 2 digits, hangover of 1 frame | 391,716 |
| `sessions` | Does a key frame follow each request, are reported settings those in force, do pictures and durations match their packets, does tandem coding settle, do equal clocks not drift? | 3 video plugins, all pairs of 8 codecs, every byte of both laws, clocks of 2 rates | 512,767 |
| `swap` | Does a frame use one pair of codecs, as `swapCodec` is documented to ensure? No (section 5). | 1 caller, 1 poll, 1 swap | stops at the counterexample |
| `duplicate` | Is a duplicate connection rejected? Not through a converter (section 5). | 2 stages with one kind of conversion | the same |
| `entry_stage` | Is the entry the stage with no incoming edges? Not always (section 5). | 2 stages with one kind of conversion | the same |

*Bounds and why they are enough.* `MaxPolls` stands for the 30,000 ms of a waiting
loop: what matters is that a poll may find the counter busy, find it quiet, or be
the last, and 1 poll gives all three. `CounterMod` 4 makes the counter wrap as soon as a forgotten
frame leaves, while two callers cannot reach it by counting up; the proofs do not depend
on it. Two callers are one inside and one suspended between its state check and
its count; a third adds no new pair. Two edges per stage make a fan-out; four
registered stages allow a chain `A -> converter -> B` beside a third stage, a
chain of two converters, and a converter that outlives its stage. Three threads in `pool` are one in a
deleter, one that hands a reference on, and one that receives it. Three calls in
`metrics` let one thread lose its exchange to the other and run a second frame. In
`registry` a plugin with two factories is the smallest whose registration can fail half-way,
a second plugin is somebody else, and two registries are one that a plugin registered with and
one that it did not; that all nine plugins withdraw exactly the names they register, and
share none, is `CatalogAssumption`, which TLC evaluates on the whole catalog.
In `mixer` three participants are one listener, one speaker and one who is louder or equal; a
queue of 2 overflows with the third frame. In `recording` 4-bit sizes wrap as the 32-bit ones
of the code do, at a few frames instead of 4 GiB. In `taps` the time a digit has lasted is held at
4 ms, past the minimum of 3 (in the code it wraps after 49 days), and the silence counter at one
more than the hangover. In `sessions` a packet number is kept modulo 3, since `dav1d` holds
at most two pictures of a packet in it; `Wrap` 4 lets a clock wrap within the run; and the 256
bytes of each law, through every conversion, are all the values a sample can settle to.

*Deadlock.* `graph`, `pool`, `metrics` and `mixer` end when their bounds are used up or the
application has nothing left to do (a dropped pool with every buffer settled), so
they do not check for it. The other runs do.

*Fairness.* `ControlFairSpec` assumes weak fairness of the control thread's steps
inside a call: its loops are bounded counts of sleeps and nothing in them blocks. It
assumes nothing of the handlers, which are the application's code; `ControlReturns`
holds under it. `LeavingRunningQuiesces` states its further assumption itself: if every
caller that is inside the pipeline proceeds (`HandlersReturn`), then it is empty some time
after it has left `Running`, or runs again. In `registry` a thread inside a call proceeds when
it can; nothing is assumed of who gets the mutex, so that `RegistryFreed` promises that it is
always given back and not that a particular thread obtains it. In `pool` a deleter that has begun
goes on (`FairSpec`): it is code of the library, and nothing in it blocks but a mutex held for a
few instructions. Nothing is assumed of the application; `PoolRecovers` says itself that threads
go on dropping references (`HoldersRelease`) and that copying stops (`CopyingStops`). Each of the
two is needed: without the first a buffer is kept for ever, without the second two threads hand
it to each other for ever. The other runs check safety and
assume nothing. Symmetry is used only in runs without liveness.

*Types.* `TypeOK` of a module with proofs is proved in them and not checked again by a run. The
inductive invariants of section 4 were model-checked on the instances of these runs before they
were proved.

## 4. Proofs

`MediaPipelineProofs`, for any finite set of callers, any counter modulus greater than
their number (`CallersAssumption`) and any bounds (`BoundsAssumption`):

- `Invariance`: `IInv == TypeOK /\ ControlInv /\ InFlightExact /\
  StageAliveWhileServing /\ CodecsPaired` is inductive. `ControlInv` is the part the
  properties leave unsaid: what the control thread knows at each point of a call (in
  `starting` the entry has been found and the state is one that may start; in
  `drainPoll` and `stopping` it is `Draining`; in `resetting` the stages are gone), and
  that only busy callers hold destroyed stages. Without it `start` could publish an
  entry that is out of date. The safety theorems `TypeCorrect`, `CounterExact`,
  `StageAlive`, `CodecsStayPaired` follow. The argument for the counter is that the
  two counting steps move it together with the cardinality of the set of counted frames and
  `reset` records the frames it forgets; since fewer frames than the modulus exist,
  subtraction wraps at most once.
- `QuietPolls`: a drain that completes and a swap that goes ahead saw no counted
  frame inside, unless a reset has forgotten one.
- `Refinement`: `MediaPipeline` implements `LifecycleContract`; one case per action, each a
  step of the contract or a stutter.

`PipelineGraphProofs`, for any names, formats and bounds, of an application that names only
stages of its own (each theorem assumes `~UseInserted`; without it the statements are false,
section 5), none of which is called like a converter (`NamesAssumption`):

- `Invariance`: `IInv == Typed /\ EdgesCounted /\ EdgeShape /\ Grounded /\
  WiringMatchesEdges`. `EdgesCounted` is the part of `EdgesAgree` about numbers of edges.
  `EdgeShape` says where an edge may lead: from a converter only to the destination it was made
  for or further on in its chain. `Grounded` says that there is no cycle, converters included,
  in a form that needs no paths: the only set of stages in which each is fed by another of the
  set is the empty one. Both are needed for connecting: the search of `wouldCreateCycle` ends
  at `s` and does not look at the converters about to be reused, and it is `EdgeShape` that
  makes up for it. `ConnectGrounded` is the argument: let R be what was found from `d` without
  the converters of this connection; no edge leaves R and no new one begins in it, and outside R
  all new edges lead along the order in which kinds are chained.
- What the searches compute is proved of their recursive functions. `Only` keeps each value as
  often as it was there and in order (`OnlyIs`); a search that only adds to a set has settled
  after as many rounds as there are names (`Settles`, by cardinality), so that `Reached` is the
  least set closed under its edges (`ReachedIs`); Kahn's algorithm takes out every stage of a
  grounded graph (`AllAreVisited`: what it left would be a set each of which is fed by another).
- `TypeCorrect`, `EdgesAlwaysAgree`, `HandlersFollowEdges` and `StartAccepts` follow.
- `Refinement`: `PipelineGraph` implements `StageDag`. `Hull` is what a stage feeds, converters
  included. Each converter serves one source, so that connecting adds `d` to the hull of `s` and
  changes no other (`ConnectHulls`), even when it runs through converters that a removed
  connection left behind; removing a stage only takes it out of the hulls (`RemoveHulls`), since
  a hull passes through converters alone.
- `AlwaysAcyclic`, of `StageDag`, for any set of stages, and hence `ConnectionsAcyclic` of the
  code's graph. Reachability is defined by closed sets: `ReachOneMoreEdge` says that what a new
  edge `<<s, d>>` makes reachable was reachable from its source or is reachable from `d`; an edge
  that closed a cycle would have had `s` reachable from `d`, which is what connecting refuses.

`MediaBufferPoolProofs`, for any finite set of buffers (`PoolAssumption`) and any
threads: `OneOwner`, `NothingLost`, `PoolOutlivesUse` and `TypeCorrect`. The
strengthening `IInv` adds that a thread runs one deleter at a time and
`PlainPoolOutlivesBuffers`: a plain pool has no temporary owners, and once it is gone
every buffer has been freed with it - without which `recycle` on the plain object could not be
shown safe. That `_free` never outgrows what the constructor reserved (the bound in
`TypeOK`) follows from the absence of duplicates, by cardinality.

`CodecProofs`, of the registry, for any plugins whose names are disjoint and who withdraw what they
register (`CatalogAssumption`), any clients and any number of registries: `TypeCorrect`,
`RunUnlocked`, `PluginServes`, `LeftBehind` and `UnloadOwn`. The strengthening says, for each
name with a plugin's factory, why it is there (`Owned`: somebody else takes care of it, or the
plugin has yet to withdraw it); for each registered plugin that its names are its own
(`Serving`, which adds to the property that the application has none of them); and how far the
plugin that is being loaded or unloaded has got (`HostInv`). The argument is that a
registration fills only free names and that a name belongs to one plugin, so no step of one
party can touch what another has registered; only a registry that has been replaced
invalidates what plugins remember.

`StageMetricsProofs`, for any set of threads, finite or not, and any latencies
(`LatencyAssumption`): `TypeCorrect`, `LoopsAreExact`, `EveryCallCounted`,
`SnapshotsNeverAhead`. `IInv == Typed /\ LoopInv /\ Accounted /\ SnapshotsAdvance`. `LoopInv` adds
to `ExtremesExact` what a thread inside a compare-exchange loop knows of its own duration: it has
been added to the total, and the value it expects was once stored, so that the maximum has only
grown since. The argument is the loop's own: an exchange that succeeds found the value it
expected; one that fails, spuriously or not, has the value found instead; and a thread leaves the
loop only if the stored value is at least as extreme as its own. `Accounted` adds that the calls
under way are finitely many, without assuming it of the threads.

`CodecProofs`, of `CallLegs`: `KeyFrameFollows`, `ReportedInForce`, `PictureOfPacket`,
`DurationKept` and `NoDrift`, for any bit rates, packets, frame lengths, time bases and rates. The
legs share nothing, so that `LegsInv` is a conjunction of three invariants, each of one leg:

- `VideoInv`. A request for a key frame is on its way until it is served (`KeyFrameOnItsWay`): the
  codec has noted it, or the library has, or the exception of `KeyFrameFollowsRequest` holds.
  What an encoder has noted is what its library has in force (`VideoInForce`), which is kept by
  every call because the code notes a value once the library has taken it, except for those that
  `ReportedIsInForce` leaves out. `PlanesFit` bounds
  what `decode` packs by what it has allocated, odd widths and heights included.
- `TransInv`. Each codec is one that a factory can have made and `setParameter` can have left
  (`AudioCodecs`), and a handler in service has the resample buffer that `initPipeline` gives
  this pair. Of these codecs `DecodedIs` says how many samples a packet gives, concealed or not,
  `ResampledIs` how many of them the resampler leaves, limited by its buffer, and `EncodedIs`
  how many of those an encoder takes; together they are the duration. `DurationKept` is about
  Opus in mono (section 6); what it leaves out are G.722, iLBC encoders of 30 ms frames, and how
  much of a packet longer than 20 ms remains (`WorstCaseFrameFits`, section 5).
- `ClockInv`: no clock is ahead of the time. `ClocksAgree` is the arithmetic behind `NoDrift`:
  two clocks of one anchor and rate, or of any two rates whose counts are whole and have not wrapped,
  have counted the same time, because what a clock has counted modulo `Wrap` does not depend on
  the base it began with (`CountedIs`).

The constants are natural numbers as in the code's types (`VideoAssumption`, `PacketAssumption`,
`AudioAssumption`, `FrameMsAssumption`, `ClockAssumption`). `ThresholdAssumption` takes the drift
threshold as positive (the default is 50 ppm): at 0 what remains in the accumulator from an earlier
drift is compensated although there is none now.

`DspProofs`, of the mixer, for any participants, queue lengths, frames and parameters:
`QueuesHoldTheNewest`, `RoundsTakeFramesInOrder` (an action property), `MixesAreOfTheRound`,
`LouderIsHeardFirst`, `CallbackIsInStep`, `TypeCorrect`. The strengthening relates the mixer
to the round: who has data in the mixer has it from this round (`RoundInv`), and what a participant
was given is the mix of the mixer as it still stands (`HeardIsMix`), because serving changes
none of it although it calls the application in between. Both fail if the mixer is not cleared at the
end of a round or if someone who joins is given data at once.

`DspProofs`, of `CallTaps`: `GainKept`, `TalkspurtsMarked`, `OnlySteadyReported` and
`DialledHeard`, for any frames, gains, thresholds and hangover.

- `TapsInv` has what each handler knows. `GainAsAsked`: the gain, or while muted
  the one that `unmute` will restore, is what was asked for last. `VadInStep`: the detector is
  active for as long as the hangover and until then counts the readable frames since the last
  speech, and `prevActive` is whether the last frame was part of a talkspurt. `InStep`: the detector's digit is that
  of the last readable frame and its duration at least that of the last two, and exactly that
  unless they suffice already. `ReportStands`: a digit that has been reported is still the one held.
- `DialInv` is the place in a dialled sequence: what is left of `line` is the end of what
  `generateSequence` made (`Place`), the digits reported are those whose tone has lasted long
  enough (`Counted`), and the rest of a tone that has begun is long enough for the others to be
  (`ToneWillLast`). That `generateSequence` makes tone, gap, tone, ... of the valid digits
  (`GeneratedLine`) is an induction over the digits dialled. The gap is what tells two equal
  digits apart: it sets the detector back, so that the second is reported again.
- The assumptions besides the types (`FrameAssumption`, `GainAssumption`, `VadAssumption`,
  `DetectorAssumption`, `CallAssumption`) are two. `TwoFramesSuffice`: a readable frame that is
  not empty is at least half as long as a tone must last (20 ms and 40 ms by default), and a
  generated tone is a whole number of frames; with shorter frames "two frames" in the property
  becomes "as many as it takes". `DialsAreHeard`: a tone that is dialled lasts the minimum in
  whole frames and is followed by a gap. TLC evaluates both on the instance.

`RecordingProofs`, for any sizes with room for two frames behind the header in the size field
(`FileAssumption`) and any layouts of chunks (`LayoutAssumption`): `HeaderIsNeverAhead`,
`ClosedRecordingIsComplete`, `FilesInOrderOpen`, `ReaderCountsItsPlace`, `NothingLeftAtTheEnd`.
`IInv` has the writer's part (`WInv`: what is on the disk, in the stream's buffer and in the count of
bytes, at each of the steps of `finalize`, together make up what was written, and a failed
stream holds nothing back), the reader's (`ReaderInv`: an open reader stands at the sample it
counts, and the file below it does not change) and the properties themselves. In `ClosedRecordingIsComplete` the data size is that of
the file without exception, because `write` refuses what does not fit 32 bits; the RIFF size is
36 more as long as that fits too, and beyond it wraps (section 5). That the walk over
the chunks finds the data of every file in order is an induction over the chunks.

`NatRecursion` makes induction over data possible with what the prover offers: its facts take a
set of naturals (`SetInduction`, `InductionTo`) or a function (`RecursionTo`: a recursion
has a solution, so that a `CHOOSE` of one satisfies its equations) where the library's
theorems take an operator. `f[n] == ...` in a `LET` of a model is such a `CHOOSE`. It also says
what the community modules' `Min` and `Max` of two numbers are (`MinIs`, `MaxIs`) and what
determines quotient and remainder (`DivisionIs`).

*Model-checked only.* Liveness (`ControlReturns`, `LeavingRunningQuiesces`, `PoolRecovers`,
`RegistryFreed`): the prover has no rule for `WF` and `ENABLED`. `TandemSettles`: it is about powers of two, which
the provers do not compute, and about nothing but 512 values, all of which the run goes through; there
is no larger instance. The three runs of section 5 have counterexamples. Every other property of
every run is proved, and so is `CodecsPaired`, a part of `IInv`: outside a swap decoder,
encoder and resampler are of one pair, unless the constructor of the resampler threw.

## 5. Where code and documentation disagree

Checked by a run that finds the statement violated:

| Run | Statement | What the code does |
|---|---|---|
| `swap` | `media_pipeline.hpp:124`: "Drains in-flight frames, swaps codecs, and resumes." | `swapCodec` stays `Running`. A frame that enters after the counter was read as zero is decoded by the old decoder and encoded by the new encoder; in the code the pointers are also written without synchronisation. |
| `duplicate` | `test_media_pipeline.cpp:1442`: "duplicate connectStages rejected" | Only direct edges are compared. Two stages connected through a converter can be connected again, and each frame is then delivered more than once. |
| `entry_stage` | `programmers_manual.md:1212`: "The stage with no incoming edges is the entry stage" | Remove a source, add it again and connect it as before: the converter is still registered, `emplace` discards the new entry with its incoming edge, and `start` may take the converter for the entry. |

Stated as formulas at the end of the modules, under "Documented, but not what the code does".
TLC refutes each within seconds when it stands in place of the properties of the configuration
that is named:

| Formula (module; configuration) | Statement | What the code does |
|---|---|---|
| `GraphBuiltAsDocumented` (`MediaPipeline`; `MCMediaPipeline.cfg`) | `media_pipeline.hpp:57`: "graph mutation (addStage, connectStages, removeStage) must happen in Created or Stopped state only"; also `:72` and `programmers_manual.md:1177` | `isGraphMutable` admits `Reset` as well, and a test rebuilds a pipeline after `reset` (`test_media_pipeline.cpp:1253`). `programmers_manual.md:1214` has `Reset` lead on to `Created`; in the code a pipeline that was reset stays in `Reset` until it is started. |
| `EntersWhileRunning` (`MediaPipeline`; `MCMediaPipeline.cfg`) | `programmers_manual.md:1185`: "Processing (Running state only)"; `media_pipeline.hpp:114`: "Rejects if not in Running state." | The state is read once, before the frame is counted. A drain or stop in between completes, and the frame then enters the handlers of a pipeline that is `Draining`, `Stopped` or `Reset`. |
| `InFlightZeroBetweenCalls` (`MediaPipeline`; `MCMediaPipeline.cfg`) | `test_media_pipeline.cpp:578`: "in-flight count is 0 between calls" | A drain times out, stop and reset follow, the frame leaves, and the unsigned counter wraps. Every later `drain` runs to its timeout and every `swapCodec` is refused. |
| `RiffSizeCoversFile` (`Recording`; `MCRecording.cfg`) | `programmers_manual.md:1712`: "ChunkSize: 36 + DataSize" | Data may grow to 2^32 - 1 bytes, but the sum is computed in 32 bits: the last 36 bytes make it wrap. |
| `UnloadedPluginLeavesNothing` (`CodecRegistry`; `MCCodecRegistry.cfg`) | `architecture.json:659`, of `onUnload`: "The codec plugin MUST: (1) unregister its ICodecFactory from CodecRegistry" | The flag that `onUnload` looks at is set after both registrations. If the second is refused the first stays, and unloading leaves it there. |
| `UnloadTakesOnlyOwn` (`CodecRegistry`; `MCCodecRegistry.cfg`) | the same sentence: "its" | `onUnload` withdraws by name from whatever registry is exported then, an application's factory of that name included. |
| `PayloadZeroIsPcmu` (`CodecRegistry`; `MCCodecRegistry.cfg` with `AllInfos` and `AllModules`) | `codec_info.hpp:85`: "PCMU owns static PT 0." | `findByPayloadType` compares `defaultPayloadType` alone, seven codecs carry 0 for "dynamic", and the first one in the hash table is the answer. |
| `AtMostMaxActive` (`AudioMixerHandler`; `MCAudioMixerHandler.cfg`) | `audio_mixer.hpp:65`: "When > 0, only the top N loudest participants are mixed." | Only those that are strictly louder count against a participant: at equal energy more than N enter a mix. |
| `AlawTakesNearest` (`CallLegs`; `MCCallLegs.cfg`) | `sample_format.hpp:213`: "Encode a linear S16 sample to A-law byte (ITU-T G.711)." | The division by 8 rounds toward zero where G.711 rounds down: negative samples at the edge of an interval fall into the one nearer to zero (-1 is coded as +8, -17 as -8). With rounding down the property holds. Coded alternately in both laws, a negative sample creeps toward zero, for instance from -376 to -120, before it settles (`TandemSettles`). |
| `NextFrameIsKey` (`CallLegs`; `MCCallLegs.cfg`) | `vpx_codec.hpp:70`: "force keyframe on next encode"; `test_vpx_codec.cpp:173`: "requestKeyFrame produces keyframe" | The request is cleared before the library is called. If that call fails, the next frame that leaves is a delta (AV1 likewise; H.264 keeps the request). |
| `WorstCaseFrameFits` (`CallLegs`; `MCCallLegs.cfg`) | `transcoding_handler.cpp:39`: "Pre-allocate resample output buffer for worst-case frame." | The buffer holds 20 ms, and longer frames are not rejected but cut: of 40 ms of G.711 the Opus encoder gets 976 samples, no frame length of its, and nothing is ever sent. |

Also a formula, `NoCycleConstructed` (`PipelineGraph` with `UseInserted = TRUE`;
`test_media_pipeline.cpp:735`): a client that also connects a left-over converter by its name can
close a cycle, because the search for one ignores the converter chain about to be reused. `start`
still refuses the graph.

Met while modelling:

- G.722 has a clock rate of 8000 and samples at 16000. `TranscodingHandler` compares clock rates,
  so between G.722 and a codec at 8 kHz it does not resample (`transcoding_handler.hpp:20` says
  that it resamples whenever the rates differ): what comes out is twice as long, and what it
  conceals half as long.
- An encoder whose frames are not those of the decoder refuses them for ever: 30 ms of iLBC
  are cut to 976 samples at 48 kHz, which is no Opus frame. A lost G.729 packet of 10 ms is
  concealed with 20 ms.
- VPX and AV1 store a frame rate and do not tell the library; a speed that a factory was given and
  the library refused is reported as if it were in force.
- `programmers_manual.md:463` calls the parameter "keyframe"; the code knows "requestKeyFrame".
- All clocks read one `steady_clock`: `driftPpm` of two of them measures the difference of their
  beginnings and what rounding and wrapping add, so a participant whose clock was made earlier
  than the mixer's loses a sample per frame until the difference is small against the time that
  has passed, and at two rates the counts differ for good once one has wrapped (24.8 hours at
  48 kHz).
- A sample converted to float and back loses one unit toward zero each time unless it is 0.
- `averageLatencyUs` divides the latency of both directions by the frames of the incoming one
  (`stage_metrics.hpp:30`).
- After a short read the reader's stream has failed: `seek` returns false and `readAll` returns
  nothing. A `fmt ` chunk of odd size is not padded and the next chunk is not found; a `data` chunk
  before `fmt ` is refused.
- `Vad::reset` leaves the handler's `prevActive`, so that the first talkspurt after a reset may go
  unmarked; the handler never clears a marker that was set upstream; the duration in the callback
  of the detector is always 0.

## 6. Abstractions and their reasons

- One control thread: the class is documented as not thread-safe for everything but
  the two atomics, and the code guards none of the rest. Two threads calling `start` and
  `stop` at once are a listed hazard and not modelled.
- `MediaPipeline` has one stage, which is entry and exit and holds a
  `TranscodingHandler`; `PipelineGraph` has the graph and no frames. The frame path uses
  only the entry and the exit of the graph, so the two meet in `start` alone.
- The compiler's and the processor's memory order is not modelled: `_state` and
  `_inFlightCount` are accessed in one total order. The code uses acquire and release on
  `_state`, but counts frames with relaxed operations that `drain` and `swapCodec` read with
  acquire: a zero they read does not make the handlers' writes visible. What that allows is
  outside this model and a listed hazard.
- A call that is refused changes nothing and is no step.
- `connectStages` connects all or nothing. In the code the constructor of a converter may throw
  in the middle of a chain (a resampler, for rates it does not take), and the converters before
  it then stay registered, with no edge onward. They are what the properties know as converters left
  over from an earlier connection.
- In `mixer` an output handler may call `incoming` while a round is served. Adding or removing
  a participant from there would change the map that the code is iterating over, and is left out.
- In `graph` the application names only its own stages (`UseInserted = FALSE`), and
  every stage is added with a handler of its own that has not been used. With `UseInserted = TRUE`
  the properties of that run fail in the way section 5 shows; a handler that is registered
  again while it still forwards to its old downstream breaks `WiringMatchesEdges` until it
  is connected; both are listed as hazards.
- Converters of `PipelineGraph` are triples, so that they have names of their own
  (`NamesAssumption`). In the code an application could call a stage "A_to_B_fmt" itself, and the
  pipeline would take it for the converter.
- `Draining` is part of `Running` in `PipelineGraph`: in neither may the graph change.
- A destroyed stage that a handler still forwards to is the one model value `Gone`: the
  handler's `shared_ptr` keeps the object, the pipeline has forgotten it.
- The destructor's assertion in `MediaBufferPool` is compiled out (`NDEBUG`); in a debug
  build a pool dropped with buffers in use aborts, which the deleter is written to survive.
- `IoraService` is not part of the repository. In `CodecRegistry` it exports an API while its
  plugin is loaded, throws when a missing one is called, makes a new plugin object at each load
  and loads one plugin at a time; and it unloads the registry plugin only when no thread is
  inside a call of it (the code hands out a bare reference that nothing protects).
- The application withdraws only what it registered itself, under names the catalog knows.
- `_registeredWithRegistry` is not reset when the registry goes away: a plugin that is unloaded
  after the registry was loaded again withdraws by name whatever stands there, an application's
  factory included. `UnloadTakesBackOwn` states this exception.
- The `shared_ptr` keeps a factory alive that is withdrawn while it makes a codec. That its
  plugin's code is still mapped then, and while the codec lives, is the host's business and not
  modelled.
- In `MediaPipeline` codecs are the number of the pair they came with; lengths, rates and
  parameters of the same handler are in `TranscodingLeg`, which has one thread.
- Codec libraries are external. Assumed of them: the first frame of an encoder is a key frame and
  one that is forced to be is no delta frame; a call that brings nothing was an error or a skipped
  frame; OpenH264 keeps an intra request until it is served; `dav1d` takes no packet while it has
  pictures to deliver; a library that answers an error keeps what it had in force.
- Opus is modelled in mono, as in the repository's transcoding tests; the codec that the plugin
  registers has two channels. Default factory and handler disagree about channels when an
  application does as the manual's pattern 9 does (two channels, handler with one), and a frame
  is then cut to 22 ms.
- A tone is its two frequencies with their magnitudes as the Goertzel filter would find them; a
  frame's loudness is a small number. Thresholds are compared as in the code, on these numbers.
- The drift accumulator counts in twelfths of a sample and is bounded (`MaxDrift`); a frame that
  would pass the bound is not pushed.
- Header writes reach the disk in order and whole; a crash loses a suffix of what was written.

## 7. Not modelled

The signal processing itself (codec libraries, the resampler's filter, Goertzel magnitudes, wave
forms, mixing arithmetic) is floating-point or external and out of TLC's reach. `MediaBuffer` is a
value type: who owns it is in `MediaBufferPool`, its metadata in the components that decide by it.
Pixel formats are constant tables. `toWallClock`, `elapsedSamples` and the accessors only read.
Two control threads at once, control calls from inside a handler, handlers that are registered a
second time and weak memory order are listed as hazards with the reason that no property
covers them. Build files, examples and tests have no state of their own.

## 8. Plan

Every component with state of its own is modelled, and every safety and action property that a
run checks is proved, but for `TandemSettles`, which TLC settles by exhaustion (section 4). What
could be added:

1. A pipeline under two control threads, and control calls from inside a handler, once the code
   says what they should do (hazards without a property).
2. `MediaBuffer`'s metadata, together with the pool: what a recycled buffer still carries.
3. Weak memory order of the in-flight counter, which needs another model of its atomics.

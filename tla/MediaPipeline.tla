---------------------------- MODULE MediaPipeline ----------------------------
(***************************************************************************)
(* The lifecycle and the frame path of iora::codecs::MediaPipeline         *)
(* (src/pipeline/media_pipeline.cpp).  Media threads, the Callers, push    *)
(* frames with incoming() and outgoing(), which check the state, look the  *)
(* stage up, count themselves in flight, run the handler chain and count   *)
(* themselves out; one control thread edits the graph and calls start,     *)
(* drain, stop, reset and swapCodec, whose waiting loops poll the counter. *)
(* Every access to an atomic is a step of its own.                         *)
(*                                                                         *)
(* The graph is one stage, entry and exit at once, that wraps a            *)
(* TranscodingHandler the application keeps alive; PipelineGraph.tla       *)
(* models the graph itself.                                                *)
(***************************************************************************)
EXTENDS Integers, FiniteSets

CONSTANTS
  Callers,        \* media threads
  CounterMod,     \* _inFlightCount is unsigned and wraps at this value (2^32)
  MaxPolls,       \* polls of a waiting loop before it gives up
  MaxSwaps        \* bound: codec pairs handed to swapCodec

\* There are fewer threads than the counter can count.
ASSUME CallersAssumption ==
  /\ IsFiniteSet(Callers)
  /\ CounterMod \in Nat
  /\ Cardinality(Callers) < CounterMod

ASSUME BoundsAssumption == MaxPolls \in Nat /\ MaxSwaps \in Nat

VARIABLES
  state,          \* _state
  inFlight,       \* _inFlightCount
  registered,     \* the stage is in _stages
  entry,          \* _entryStage and _exitStage name the stage
  decoder,        \* TranscodingHandler::_decoder, by the pair it came with
  encoder,        \* TranscodingHandler::_encoder
  resampler,      \* the pair _resampler was built for, or NoResampler
  pc,             \* where each caller is
  dir,            \* direction of each caller's frame
  decodedBy,      \* the decoder that decoded each caller's frame
  cpc,            \* where the control thread is
  inStop,         \* it runs drain() on behalf of stop()
  polls,          \* iterations of its waiting loop
  \* The rest records history that the code does not keep.
  forgotten,      \* frames counted in flight when reset() zeroed the counter
  stragglers,     \* callers still busy since before the last start()
  dangling        \* callers holding a stage that has been destroyed

codecVars   == <<decoder, encoder, resampler>>
graphVars   == <<registered, entry>>
callerVars  == <<pc, dir, decodedBy>>
controlVars == <<cpc, inStop, polls>>
history     == <<forgotten, stragglers, dangling>>
vars == <<state, inFlight, graphVars, codecVars, callerVars, controlVars, history>>

LifecycleStates == {"Created", "Running", "Draining", "Stopped", "Reset"}
NoResampler == -1
Pairs == 0 .. MaxSwaps

\* Callers past the state check; those with a stage in hand; those counted.
Busy    == {c \in Callers : pc[c] # "idle"}
Holding == {c \in Callers : pc[c] \in {"found", "inside", "decoded", "encoded", "left"}}
Inside  == {c \in Callers : pc[c] \in {"inside", "decoded", "encoded", "left"}}

MutableUnlessRunning == state # "Running"
isGraphMutable == state \in {"Created", "Stopped", "Reset"}

\* fetch_add and fetch_sub on the unsigned counter.
Increment(n) == IF n = CounterMod - 1 THEN 0 ELSE n + 1
DecrementSigned(n) == n - 1
Decrement(n) == IF n = 0 THEN CounterMod - 1 ELSE n - 1

\* What the waiting loops of drain() and swapCodec() poll for.
AlmostQuiet == inFlight <= 1
Quiet == inFlight = 0

Init ==
  /\ state = "Created" /\ inFlight = 0
  /\ registered = FALSE /\ entry = FALSE
  /\ decoder = 0 /\ encoder = 0 /\ resampler = 0
  /\ pc = [c \in Callers |-> "idle"]
  /\ dir = [c \in Callers |-> "incoming"]
  /\ decodedBy = [c \in Callers |-> 0]
  /\ cpc = "idle" /\ inStop = FALSE /\ polls = 0
  /\ forgotten = 0 /\ stragglers = {} /\ dangling = {}

-----------------------------------------------------------------------------
\* The media threads: incoming() and outgoing().

\* The state check; a call made in another state returns at once.
AcceptsUnlessStopped == state \in {"Running", "Draining", "Stopped"}
Accepts == state = "Running"

CheckState(c, d) ==
  /\ pc[c] = "idle"
  /\ Accepts
  /\ pc' = [pc EXCEPT ![c] = "admitted"]
  /\ dir' = [dir EXCEPT ![c] = d]
  /\ UNCHANGED <<state, inFlight, graphVars, codecVars, decodedBy, controlVars, history>>

\* Back to the application: the caller no longer holds anything, and the locals
\* of the call are gone.
Return(c) ==
  /\ pc' = [pc EXCEPT ![c] = "idle"]
  /\ dir' = [dir EXCEPT ![c] = "incoming"]
  /\ decodedBy' = [decodedBy EXCEPT ![c] = 0]
  /\ stragglers' = stragglers \ {c}
  /\ dangling' = dangling \ {c}

\* _stages.find(_entryStage), with the early returns for an empty name and
\* for a name that is not registered.
FindStage(c) ==
  /\ pc[c] = "admitted"
  /\ \/ /\ entry /\ registered
        /\ pc' = [pc EXCEPT ![c] = "found"]
        /\ UNCHANGED <<dir, decodedBy, stragglers, dangling>>
     \/ /\ ~(entry /\ registered)
        /\ Return(c)
  /\ UNCHANGED <<state, inFlight, graphVars, codecVars, controlVars, forgotten>>

CountIn(c) ==
  /\ pc[c] = "found"
  /\ inFlight' = Increment(inFlight)
  /\ pc' = [pc EXCEPT ![c] = "inside"]
  /\ UNCHANGED <<state, graphVars, codecVars, dir, decodedBy, controlVars, history>>

\* TranscodingHandler::incoming: decode, or conceal a lost frame.
Decode(c) ==
  /\ pc[c] = "inside" /\ dir[c] = "incoming"
  /\ decodedBy' = [decodedBy EXCEPT ![c] = decoder]
  /\ pc' = [pc EXCEPT ![c] = "decoded"]
  /\ UNCHANGED <<state, inFlight, graphVars, codecVars, dir, controlVars, history>>

\* Resample, encode and forward.
Encode(c) ==
  /\ pc[c] = "decoded"
  /\ pc' = [pc EXCEPT ![c] = "encoded"]
  /\ UNCHANGED <<state, inFlight, graphVars, codecVars, dir, decodedBy, controlVars, history>>

\* The handler chain is left without encoding: outgoing() is not transcoded, a
\* codec may yield nothing, and any handler may throw.
Leave(c) ==
  /\ pc[c] \in {"inside", "decoded"}
  /\ pc' = [pc EXCEPT ![c] = "left"]
  /\ UNCHANGED <<state, inFlight, graphVars, codecVars, dir, decodedBy, controlVars, history>>

\* Both the normal exit and the catch block count the frame out.
CountOutIfEncoded(c) ==
  /\ pc[c] \in {"encoded", "left"}
  /\ inFlight' = IF pc[c] = "encoded" THEN Decrement(inFlight) ELSE inFlight
  /\ Return(c)
  /\ UNCHANGED <<state, graphVars, codecVars, controlVars, forgotten>>

CountOut(c) ==
  /\ pc[c] \in {"encoded", "left"}
  /\ inFlight' = Decrement(inFlight)
  /\ Return(c)
  /\ UNCHANGED <<state, graphVars, codecVars, controlVars, forgotten>>

CallerStep(c) ==
  FindStage(c) \/ CountIn(c) \/ Decode(c) \/ Encode(c) \/ Leave(c) \/ CountOut(c)

-----------------------------------------------------------------------------
\* The control thread.  It alone writes the state, so a load followed by the
\* store that depends on it is one step; a call the state refuses returns
\* without a step.

addStage ==
  /\ cpc = "idle" /\ isGraphMutable /\ ~registered
  /\ registered' = TRUE
  /\ UNCHANGED <<state, inFlight, entry, codecVars, callerVars, controlVars, history>>

removeStage ==
  /\ cpc = "idle" /\ isGraphMutable /\ registered
  /\ registered' = FALSE
  /\ dangling' = Holding
  /\ UNCHANGED <<state, inFlight, entry, codecVars, callerVars, controlVars, forgotten, stragglers>>

\* start(): entry and exit are found before the state is published.
StartFind ==
  /\ cpc = "idle" /\ state \in {"Created", "Reset"}
  /\ entry' = registered
  /\ cpc' = "starting"
  /\ UNCHANGED <<state, inFlight, registered, codecVars, callerVars, inStop, polls, history>>

StartPublish ==
  /\ cpc = "starting"
  /\ state' = "Running"
  /\ stragglers' = Busy
  /\ cpc' = "idle"
  /\ UNCHANGED <<inFlight, graphVars, codecVars, callerVars, inStop, polls, forgotten, dangling>>

\* drain(), called by the application or by stop() of a running pipeline.
DrainBegin(stopping) ==
  /\ cpc = "idle" /\ state = "Running"
  /\ state' = "Draining"
  /\ cpc' = "drainPoll" /\ inStop' = stopping /\ polls' = 0
  /\ UNCHANGED <<inFlight, graphVars, codecVars, callerVars, history>>

\* An empty counter completes the drain; stop() then goes on to its store.
DrainDone ==
  /\ cpc = "drainPoll" /\ polls < MaxPolls
  /\ Quiet
  /\ cpc' = IF inStop THEN "stopping" ELSE "idle"
  /\ UNCHANGED <<state, inFlight, graphVars, codecVars, callerVars, inStop, polls, history>>

\* Otherwise sleep and poll again, or give up and stay in Draining.
DrainWaitForever ==
  /\ cpc = "drainPoll" /\ ~Quiet
  /\ UNCHANGED vars

DrainWait ==
  /\ cpc = "drainPoll" /\ polls < MaxPolls
  /\ ~Quiet
  /\ polls' = polls + 1
  /\ UNCHANGED <<state, inFlight, graphVars, codecVars, callerVars, cpc, inStop, history>>

DrainTimeout ==
  /\ cpc = "drainPoll" /\ polls = MaxPolls
  /\ cpc' = "idle"
  /\ UNCHANGED <<state, inFlight, graphVars, codecVars, callerVars, inStop, polls, history>>

\* stop(): after its own drain, or at once when the pipeline is Draining.
StopWithoutDrain ==
  /\ cpc \in {"stopping", "idle"} /\ state \in {"Running", "Draining"}
  /\ state' = "Stopped"
  /\ cpc' = "idle"
  /\ UNCHANGED <<inFlight, graphVars, codecVars, callerVars, inStop, polls, history>>

Stop ==
  /\ \/ cpc = "stopping"
     \/ cpc = "idle" /\ state = "Draining"
  /\ state' = "Stopped"
  /\ cpc' = "idle"
  /\ UNCHANGED <<inFlight, graphVars, codecVars, callerVars, inStop, polls, history>>

\* reset(): the stages are destroyed, then the counter is zeroed.
ResetClear ==
  /\ cpc = "idle" /\ state = "Stopped"
  /\ registered' = FALSE /\ entry' = FALSE
  /\ dangling' = IF registered THEN Holding ELSE dangling
  /\ cpc' = "resetting"
  /\ UNCHANGED <<state, inFlight, codecVars, callerVars, inStop, polls, forgotten, stragglers>>

ResetFinish ==
  /\ cpc = "resetting"
  /\ inFlight' = 0
  /\ forgotten' = Cardinality(Inside)
  /\ state' = "Reset"
  /\ cpc' = "idle"
  /\ UNCHANGED <<graphVars, codecVars, callerVars, inStop, polls, stragglers, dangling>>

\* swapCodec(): wait for a quiet moment without leaving Running ...
SwapBegin ==
  /\ cpc = "idle" /\ state = "Running" /\ registered
  /\ cpc' = "swapPoll" /\ polls' = 0
  /\ UNCHANGED <<state, inFlight, graphVars, codecVars, callerVars, inStop, history>>

SwapWait ==
  /\ cpc = "swapPoll"
  /\ \/ ~Quiet /\ polls < MaxPolls /\ polls' = polls + 1 /\ cpc' = cpc
     \/ (Quiet \/ polls = MaxPolls) /\ polls' = polls /\ cpc' = "swapCheck"
  /\ UNCHANGED <<state, inFlight, graphVars, codecVars, callerVars, inStop, history>>

\* ... read the counter once more, and refuse when it is not zero; a null
\* codec is refused by swapCodecs before anything is assigned.
SwapRefuse ==
  /\ cpc = "swapCheck"
  /\ cpc' = "idle"
  /\ UNCHANGED <<state, inFlight, graphVars, codecVars, callerVars, inStop, polls, history>>

SwapAccept ==
  /\ cpc = "swapCheck" /\ Quiet /\ decoder < MaxSwaps
  /\ cpc' = "swapDecoder"
  /\ UNCHANGED <<state, inFlight, graphVars, codecVars, callerVars, inStop, polls, history>>

\* TranscodingHandler::swapCodecs: decoder, encoder, then initPipeline, which
\* drops the old resampler before the constructor of the new one may throw.
SwapDecoder ==
  /\ cpc = "swapDecoder"
  /\ decoder' = decoder + 1
  /\ cpc' = "swapEncoder"
  /\ UNCHANGED <<state, inFlight, graphVars, encoder, resampler, callerVars, inStop, polls, history>>

SwapEncoder ==
  /\ cpc = "swapEncoder"
  /\ encoder' = decoder
  /\ cpc' = "initPipeline"
  /\ UNCHANGED <<state, inFlight, graphVars, decoder, resampler, callerVars, inStop, polls, history>>

initPipeline ==
  /\ cpc = "initPipeline"
  /\ resampler' \in {decoder, NoResampler}
  /\ cpc' = "idle"
  /\ UNCHANGED <<state, inFlight, graphVars, decoder, encoder, callerVars, inStop, polls, history>>

\* What the control thread does once it is inside a call.
ControlStep ==
  \/ StartPublish
  \/ DrainDone \/ DrainWait \/ DrainTimeout
  \/ cpc = "stopping" /\ Stop
  \/ ResetFinish
  \/ SwapWait \/ SwapRefuse \/ SwapAccept \/ SwapDecoder \/ SwapEncoder \/ initPipeline

ControlCall ==
  \/ addStage \/ removeStage
  \/ StartFind
  \/ \E stopping \in BOOLEAN : DrainBegin(stopping)
  \/ cpc = "idle" /\ Stop
  \/ ResetClear
  \/ SwapBegin

Next ==
  \/ \E c \in Callers : \/ \E d \in {"incoming", "outgoing"} : CheckState(c, d)
                        \/ CallerStep(c)
  \/ ControlStep
  \/ ControlCall

Spec == Init /\ [][Next]_vars

\* A thread inside a call of the pipeline keeps running: the control thread
\* only sleeps in bounded loops.  Handlers are the application's code, so that
\* they return is a further assumption.
ControlFairSpec == Spec /\ WF_vars(ControlStep)

-----------------------------------------------------------------------------
\* Every variable has its type; the counter stays within its width.
TypeOK ==
  /\ state \in LifecycleStates
  /\ inFlight \in 0 .. CounterMod - 1
  /\ registered \in BOOLEAN /\ entry \in BOOLEAN
  /\ decoder \in Pairs /\ encoder \in Pairs /\ resampler \in Pairs \cup {NoResampler}
  /\ pc \in [Callers -> {"idle", "admitted", "found", "inside", "decoded", "encoded", "left"}]
  /\ dir \in [Callers -> {"incoming", "outgoing"}]
  /\ decodedBy \in [Callers -> Pairs]
  /\ cpc \in {"idle", "starting", "drainPoll", "stopping", "resetting", "swapPoll",
              "swapCheck", "swapDecoder", "swapEncoder", "initPipeline"}
  /\ inStop \in BOOLEAN
  /\ polls \in 0 .. MaxPolls
  /\ forgotten \in 0 .. Cardinality(Callers)
  /\ stragglers \subseteq Callers /\ dangling \subseteq Callers

\* The counter is exact: whatever the threads, the exceptions and the timeouts,
\* it is the number of frames in the handler chain less those that the last
\* reset() forgot, wrapped around when that is negative.
InFlightExact ==
  LET counted == Cardinality(Inside) - forgotten
  IN  inFlight = IF counted >= 0 THEN counted ELSE counted + CounterMod

\* When drain() reports completion, or swapCodec() decides to swap, no counted
\* frame is in the handler chain - provided no reset() has forgotten one.
QuietWhenCounterReadsZero ==
  [][(\/ cpc = "drainPoll" /\ cpc' \in {"idle", "stopping"} /\ polls < MaxPolls
      \/ cpc = "swapCheck" /\ cpc' = "swapDecoder")
     => forgotten > 0 \/ Inside = {}]_vars

\* While the pipeline runs or drains, its entry resolves whenever it has a
\* stage, and no frame admitted since start() holds a destroyed stage.
StageAliveWhileServing ==
  state \in {"Running", "Draining"} => entry = registered /\ dangling \subseteq stragglers

\* Outside a swap, decoder and encoder come from the same pair, and so does the
\* resampler unless its constructor threw and left the handler without one.
CodecsPaired ==
  cpc \notin {"swapEncoder", "initPipeline"} =>
    decoder = encoder /\ resampler \in {decoder, NoResampler}

\* The pipeline implements the lifecycle its users rely on, with a graph that is
\* edited between runs: before the first, after a stop and after a reset.
Contract == INSTANCE LifecycleContract
              WITH served <- Busy, Editable <- {"Created", "Stopped", "Reset"}
ImplementsContract == Contract!Spec

\* No handler that hangs can keep the control thread in a call for ever: start,
\* drain, stop, reset and swapCodec return.
ControlReturns == cpc # "idle" ~> cpc = "idle"

\* When handlers return, a pipeline that has left Running becomes free of
\* frames, late arrivals included, unless it is started again before.
HandlersReturn == \A c \in Callers : WF_vars(CallerStep(c))
LeavingRunningQuiesces ==
  HandlersReturn => (state # "Running" ~> Busy = {} \/ state = "Running")

\* Documented, but not what the code does.

\* "Drains in-flight frames, swaps codecs, and resumes": a frame is decoded and
\* encoded by codecs of one pair.
FrameUsesOneCodecPair ==
  [][\A c \in Callers : pc[c] = "decoded" /\ pc'[c] = "encoded" => decodedBy[c] = encoder]_vars

\* "Synchronous pipeline - in-flight count is 0 between calls."
InFlightZeroBetweenCalls == Inside = {} => inFlight = 0

\* "Graph construction (Created or Stopped state only)": the same contract, with
\* the editable states that the documentation names.
Documented == INSTANCE LifecycleContract
                WITH served <- Busy, Editable <- {"Created", "Stopped"}
GraphBuiltAsDocumented == Documented!Spec

\* "Processing (Running state only)": no frame enters the handlers of a pipeline
\* in another state.
EntersWhileRunning ==
  [][\A c \in Callers : pc[c] = "found" /\ pc'[c] = "inside" => state = "Running"]_vars

=============================================================================

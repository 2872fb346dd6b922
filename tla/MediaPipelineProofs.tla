------------------------- MODULE MediaPipelineProofs -------------------------
(***************************************************************************)
(* Theorems about MediaPipeline, for any number of media threads, any      *)
(* counter width that can count them and any length of the waiting loops.  *)
(***************************************************************************)
EXTENDS MediaPipeline, FiniteSetTheorems, TLAPS

\* What the control thread knows of the pipeline at each point of a call; it is
\* the part of the inductive invariant that the properties leave unsaid.
ControlInv ==
  /\ cpc = "starting" => state \in {"Created", "Reset"} /\ entry = registered
  /\ cpc \in {"drainPoll", "stopping"} => state = "Draining"
  /\ cpc = "resetting" => state = "Stopped" /\ ~registered
  /\ cpc = "swapDecoder" => decoder < MaxSwaps
  /\ cpc = "initPipeline" => encoder = decoder
  /\ dangling \subseteq Busy

IInv == TypeOK /\ ControlInv /\ InFlightExact /\ StageAliveWhileServing /\ CodecsPaired

-----------------------------------------------------------------------------
\* The number of counted frames is a number, at most that of the callers.
LEMMA InsideFinite ==
  /\ IsFiniteSet(Inside)
  /\ Cardinality(Inside) \in Nat
  /\ Cardinality(Inside) <= Cardinality(Callers)
  /\ Cardinality(Callers) \in Nat
<1>1. Inside \in SUBSET Callers
  BY DEF Inside
<1>2. IsFiniteSet(Callers)
  BY CallersAssumption
<1>. QED
  BY <1>1, <1>2, FS_Subset, FS_CardinalityType

\* Every step of a caller but the two counting ones leaves the counted frames
\* alone.
LEMMA InsideUnchanged ==
  ASSUME TypeOK, NEW c \in Callers, NEW d \in {"incoming", "outgoing"},
         CheckState(c, d) \/ FindStage(c) \/ Decode(c) \/ Encode(c) \/ Leave(c)
  PROVE  Inside' = Inside
BY DEF TypeOK, CheckState, FindStage, Return, Decode, Encode, Leave, Inside

-----------------------------------------------------------------------------
\* Type correctness, with the bound on the codec pairs that it needs.
LEMMA InitInv == Init => IInv
<1>1. SUFFICES ASSUME Init PROVE IInv
  OBVIOUS
<1>2. TypeOK
  <2>1. 0 \in 0 .. CounterMod - 1 /\ 0 \in 0 .. Cardinality(Callers)
    BY CallersAssumption, FS_CardinalityType
  <2>2. 0 \in Pairs /\ 0 \in 0 .. MaxPolls
    BY BoundsAssumption DEF Pairs
  <2>. QED
    BY <1>1, <2>1, <2>2 DEF Init, TypeOK, LifecycleStates
<1>3. ControlInv
  BY <1>1 DEF Init, ControlInv
<1>4. Inside = {}
  BY <1>1 DEF Init, Inside
<1>5. InFlightExact
  BY <1>1, <1>4, FS_EmptySet DEF Init, InFlightExact
<1>6. StageAliveWhileServing /\ CodecsPaired
  BY <1>1 DEF Init, StageAliveWhileServing, CodecsPaired
<1>. QED
  BY <1>2, <1>3, <1>5, <1>6 DEF IInv

LEMMA TypeStep == TypeOK /\ ControlInv /\ [Next]_vars => TypeOK'
<1>1. SUFFICES ASSUME TypeOK, ControlInv, [Next]_vars PROVE TypeOK'
  OBVIOUS
<1>. USE CallersAssumption, BoundsAssumption, InsideFinite
     DEF TypeOK, LifecycleStates, Pairs, NoResampler
<1>2. ASSUME NEW c \in Callers, NEW d \in {"incoming", "outgoing"}, CheckState(c, d)
      PROVE  TypeOK'
  BY <1>1, <1>2 DEF CheckState, graphVars, codecVars, controlVars, history
<1>3. ASSUME NEW c \in Callers, CallerStep(c)
      PROVE  TypeOK'
  <2>1. CASE FindStage(c)
    BY <1>1, <2>1 DEF FindStage, Return, graphVars, codecVars, controlVars
  <2>2. CASE CountIn(c)
    BY <1>1, <2>2 DEF CountIn, Increment, graphVars, codecVars, controlVars, history
  <2>3. CASE Decode(c)
    BY <1>1, <2>3 DEF Decode, graphVars, codecVars, controlVars, history
  <2>4. CASE Encode(c)
    BY <1>1, <2>4 DEF Encode, graphVars, codecVars, controlVars, history
  <2>5. CASE Leave(c)
    BY <1>1, <2>5 DEF Leave, graphVars, codecVars, controlVars, history
  <2>6. CASE CountOut(c)
    BY <1>1, <2>6 DEF CountOut, Return, Decrement, graphVars, codecVars, controlVars
  <2>. QED
    BY <1>3, <2>1, <2>2, <2>3, <2>4, <2>5, <2>6 DEF CallerStep
<1>4. CASE ControlStep
  <2>1. CASE StartPublish
    BY <1>1, <2>1 DEF StartPublish, Busy, graphVars, codecVars, callerVars
  <2>2. CASE DrainDone \/ DrainWait \/ DrainTimeout
    BY <1>1, <2>2 DEF DrainDone, DrainWait, DrainTimeout, graphVars, codecVars, callerVars, history
  <2>3. CASE Stop
    BY <1>1, <2>3 DEF Stop, graphVars, codecVars, callerVars, history
  <2>4. CASE ResetFinish
    BY <1>1, <2>4 DEF ResetFinish, graphVars, codecVars, callerVars
  <2>5. CASE SwapWait \/ SwapRefuse \/ SwapAccept
    BY <1>1, <2>5 DEF SwapWait, SwapRefuse, SwapAccept, graphVars, codecVars, callerVars, history
  <2>6. CASE SwapDecoder \/ SwapEncoder \/ initPipeline
    BY <1>1, <2>6 DEF SwapDecoder, SwapEncoder, initPipeline, ControlInv, graphVars, callerVars, history
  <2>. QED
    BY <1>4, <2>1, <2>2, <2>3, <2>4, <2>5, <2>6 DEF ControlStep
<1>5. CASE ControlCall
  <2>1. CASE addStage \/ removeStage
    BY <1>1, <2>1 DEF addStage, removeStage, Holding, codecVars, callerVars, controlVars, history
  <2>2. CASE StartFind
    BY <1>1, <2>2 DEF StartFind, codecVars, callerVars, history
  <2>3. ASSUME NEW stopping \in BOOLEAN, DrainBegin(stopping)
        PROVE  TypeOK'
    BY <1>1, <2>3 DEF DrainBegin, graphVars, codecVars, callerVars, history
  <2>4. CASE Stop
    BY <1>1, <2>4 DEF Stop, graphVars, codecVars, callerVars, history
  <2>5. CASE ResetClear
    BY <1>1, <2>5 DEF ResetClear, Holding, codecVars, callerVars
  <2>6. CASE SwapBegin
    BY <1>1, <2>6 DEF SwapBegin, graphVars, codecVars, callerVars, history
  <2>. QED
    BY <1>5, <2>1, <2>2, <2>3, <2>4, <2>5, <2>6 DEF ControlCall
<1>6. CASE UNCHANGED vars
  BY <1>1, <1>6 DEF vars, graphVars, codecVars, callerVars, controlVars, history
<1>. QED
  BY <1>1, <1>2, <1>3, <1>4, <1>5, <1>6 DEF Next

LEMMA ControlStepInv == TypeOK /\ ControlInv /\ [Next]_vars => ControlInv'
<1>1. SUFFICES ASSUME TypeOK, ControlInv, [Next]_vars PROVE ControlInv'
  OBVIOUS
<1>. USE DEF TypeOK, ControlInv, Busy
<1>2. ASSUME NEW c \in Callers, NEW d \in {"incoming", "outgoing"}, CheckState(c, d)
      PROVE  ControlInv'
  BY <1>1, <1>2 DEF CheckState, graphVars, codecVars, controlVars, history
<1>3. ASSUME NEW c \in Callers, CallerStep(c)
      PROVE  ControlInv'
  <2>1. CASE FindStage(c)
    BY <1>1, <2>1 DEF FindStage, Return, graphVars, codecVars, controlVars
  <2>2. CASE CountOut(c)
    BY <1>1, <2>2 DEF CountOut, Return, graphVars, codecVars, controlVars
  <2>3. CASE CountIn(c) \/ Decode(c) \/ Encode(c) \/ Leave(c)
    BY <1>1, <2>3 DEF CountIn, Decode, Encode, Leave, graphVars, codecVars, controlVars, history
  <2>. QED
    BY <1>3, <2>1, <2>2, <2>3 DEF CallerStep
<1>4. CASE ControlStep
  BY <1>1, <1>4 DEF ControlStep, StartPublish, DrainDone, DrainWait, DrainTimeout, Stop,
     ResetFinish, SwapWait, SwapRefuse, SwapAccept, SwapDecoder, SwapEncoder, initPipeline,
     graphVars, codecVars, callerVars, history
<1>5. CASE ControlCall
  <2>1. CASE addStage \/ removeStage \/ ResetClear
    BY <1>1, <2>1 DEF addStage, removeStage, ResetClear, Holding, codecVars, callerVars, controlVars, history
  <2>2. CASE StartFind \/ Stop \/ SwapBegin
    BY <1>1, <2>2 DEF StartFind, Stop, SwapBegin, graphVars, codecVars, callerVars, history
  <2>3. ASSUME NEW stopping \in BOOLEAN, DrainBegin(stopping)
        PROVE  ControlInv'
    BY <1>1, <2>3 DEF DrainBegin, graphVars, codecVars, callerVars, history
  <2>. QED
    BY <1>5, <2>1, <2>2, <2>3 DEF ControlCall
<1>6. CASE UNCHANGED vars
  BY <1>1, <1>6 DEF vars, graphVars, codecVars, callerVars, controlVars, history
<1>. QED
  BY <1>1, <1>2, <1>3, <1>4, <1>5, <1>6 DEF Next

\* The counter stays exact: the counting steps move it with the set of counted
\* frames, reset() records the frames it forgets, no other step touches either.
LEMMA CounterStep == TypeOK /\ InFlightExact /\ [Next]_vars => InFlightExact'
<1>1. SUFFICES ASSUME TypeOK, InFlightExact, [Next]_vars PROVE InFlightExact'
  OBVIOUS
<1>2. ASSUME Inside' = Inside, inFlight' = inFlight, forgotten' = forgotten
      PROVE  InFlightExact'
  BY <1>1, <1>2 DEF InFlightExact
<1>3. ASSUME NEW c \in Callers, NEW d \in {"incoming", "outgoing"}, CheckState(c, d)
      PROVE  InFlightExact'
  <2>1. Inside' = Inside
    BY <1>1, <1>3, InsideUnchanged
  <2>. QED
    BY <1>2, <1>3, <2>1 DEF CheckState, history
<1>4. ASSUME NEW c \in Callers, CallerStep(c)
      PROVE  InFlightExact'
  <2>1. CASE FindStage(c) \/ Decode(c) \/ Encode(c) \/ Leave(c)
    <3>1. Inside' = Inside
      BY <1>1, <2>1, InsideUnchanged
    <3>. QED
      BY <1>2, <2>1, <3>1 DEF FindStage, Decode, Encode, Leave, history
  <2>2. CASE CountIn(c)
    <3>1. c \notin Inside /\ Inside' = Inside \cup {c}
      BY <1>1, <2>2 DEF CountIn, Inside, TypeOK
    <3>2. Cardinality(Inside') = Cardinality(Inside) + 1
      BY <3>1, InsideFinite, FS_AddElement
    <3>3. Cardinality(Inside') <= Cardinality(Callers)
      <4>1. Inside' \in SUBSET Callers
        BY <3>1 DEF Inside
      <4>. QED
        BY <4>1, CallersAssumption, FS_Subset
    <3>. QED
      BY <1>1, <2>2, <3>2, <3>3, InsideFinite, CallersAssumption
         DEF CountIn, Increment, InFlightExact, TypeOK, history
  <2>3. CASE CountOut(c)
    <3>1. c \in Inside /\ Inside' = Inside \ {c}
      BY <1>1, <2>3 DEF CountOut, Return, Inside, TypeOK
    <3>2. Cardinality(Inside') = Cardinality(Inside) - 1
      BY <3>1, InsideFinite, FS_RemoveElement
    <3>. QED
      BY <1>1, <2>3, <3>2, InsideFinite, CallersAssumption
         DEF CountOut, Decrement, InFlightExact, TypeOK
  <2>. QED
    BY <1>4, <2>1, <2>2, <2>3 DEF CallerStep
<1>5. CASE ControlStep
  <2>1. CASE ResetFinish
    <3>1. Inside' = Inside
      BY <2>1 DEF ResetFinish, callerVars, Inside
    <3>. QED
      BY <2>1, <3>1, InsideFinite DEF ResetFinish, InFlightExact
  <2>2. CASE ~ResetFinish
    BY <1>2, <1>5, <2>2 DEF ControlStep, StartPublish, DrainDone, DrainWait, DrainTimeout, Stop,
       SwapWait, SwapRefuse, SwapAccept, SwapDecoder, SwapEncoder, initPipeline,
       callerVars, history, Inside
  <2>. QED
    BY <2>1, <2>2
<1>6. CASE ControlCall
  BY <1>2, <1>6 DEF ControlCall, addStage, removeStage, StartFind, DrainBegin, Stop, ResetClear,
     SwapBegin, callerVars, history, Inside
<1>7. CASE UNCHANGED vars
  BY <1>2, <1>7 DEF vars, callerVars, history, Inside
<1>. QED
  BY <1>1, <1>3, <1>4, <1>5, <1>6, <1>7 DEF Next

LEMMA StageStep ==
  TypeOK /\ ControlInv /\ StageAliveWhileServing /\ [Next]_vars => StageAliveWhileServing'
<1>1. SUFFICES ASSUME TypeOK, ControlInv, StageAliveWhileServing, [Next]_vars
               PROVE  StageAliveWhileServing'
  OBVIOUS
<1>. USE DEF StageAliveWhileServing
<1>2. ASSUME NEW c \in Callers, NEW d \in {"incoming", "outgoing"}, CheckState(c, d)
      PROVE  StageAliveWhileServing'
  BY <1>1, <1>2 DEF CheckState, graphVars, history
<1>3. ASSUME NEW c \in Callers, CallerStep(c)
      PROVE  StageAliveWhileServing'
  BY <1>1, <1>3 DEF CallerStep, FindStage, CountIn, Decode, Encode, Leave, CountOut, Return,
     graphVars, history
<1>4. CASE ControlStep
  BY <1>1, <1>4 DEF ControlStep, ControlInv, StartPublish, DrainDone, DrainWait, DrainTimeout, Stop,
     ResetFinish, SwapWait, SwapRefuse, SwapAccept, SwapDecoder, SwapEncoder, initPipeline,
     graphVars, history
<1>5. CASE ControlCall
  BY <1>1, <1>5 DEF ControlCall, isGraphMutable, addStage, removeStage, StartFind, DrainBegin, Stop,
     ResetClear, SwapBegin, graphVars, history
<1>6. CASE UNCHANGED vars
  BY <1>1, <1>6 DEF vars, graphVars, history
<1>. QED
  BY <1>1, <1>2, <1>3, <1>4, <1>5, <1>6 DEF Next

LEMMA CodecStep == ControlInv /\ CodecsPaired /\ [Next]_vars => CodecsPaired'
<1>1. SUFFICES ASSUME ControlInv, CodecsPaired, [Next]_vars PROVE CodecsPaired'
  OBVIOUS
<1>. USE DEF CodecsPaired
<1>2. CASE UNCHANGED codecVars /\ UNCHANGED cpc
  BY <1>1, <1>2 DEF codecVars
<1>3. ASSUME NEW c \in Callers, NEW d \in {"incoming", "outgoing"}, CheckState(c, d)
      PROVE  CodecsPaired'
  BY <1>2, <1>3 DEF CheckState, controlVars
<1>4. ASSUME NEW c \in Callers, CallerStep(c)
      PROVE  CodecsPaired'
  BY <1>2, <1>4 DEF CallerStep, FindStage, CountIn, Decode, Encode, Leave, CountOut, controlVars
<1>5. CASE ControlStep
  BY <1>1, <1>5 DEF ControlStep, ControlInv, StartPublish, DrainDone, DrainWait, DrainTimeout, Stop,
     ResetFinish, SwapWait, SwapRefuse, SwapAccept, SwapDecoder, SwapEncoder, initPipeline, codecVars
<1>6. CASE ControlCall
  BY <1>1, <1>6 DEF ControlCall, addStage, removeStage, StartFind, DrainBegin, Stop,
     ResetClear, SwapBegin, codecVars, controlVars
<1>7. CASE UNCHANGED vars
  BY <1>2, <1>7 DEF vars, controlVars
<1>. QED
  BY <1>1, <1>3, <1>4, <1>5, <1>6, <1>7 DEF Next

-----------------------------------------------------------------------------
\* The inductive invariant holds in every reachable state.
THEOREM Invariance == Spec => []IInv
<1>1. Init => IInv
  BY InitInv
<1>2. IInv /\ [Next]_vars => IInv'
  BY TypeStep, ControlStepInv, CounterStep, StageStep, CodecStep DEF IInv
<1>. QED
  BY <1>1, <1>2, PTL DEF Spec

\* Every variable keeps its type; the counter keeps its width.
THEOREM TypeCorrect == Spec => []TypeOK
BY Invariance, PTL DEF IInv

\* _inFlightCount is exact up to the frames that reset() forgot, over every
\* interleaving of threads, exceptions, timeouts and resets.
THEOREM CounterExact == Spec => []InFlightExact
BY Invariance, PTL DEF IInv

\* No frame of the current run holds a destroyed stage while the pipeline runs
\* or drains.
THEOREM StageAlive == Spec => []StageAliveWhileServing
BY Invariance, PTL DEF IInv

\* Outside a swap the decoder and the encoder come from one pair.
THEOREM CodecsStayPaired == Spec => []CodecsPaired
BY Invariance, PTL DEF IInv

\* A drain that completes, and a swap that goes ahead, found no counted frame in
\* the handler chain.
THEOREM QuietPolls == Spec => QuietWhenCounterReadsZero
<1>1. ASSUME IInv, [Next]_vars,
             \/ cpc = "drainPoll" /\ cpc' \in {"idle", "stopping"} /\ polls < MaxPolls
             \/ cpc = "swapCheck" /\ cpc' = "swapDecoder"
      PROVE  inFlight = 0
  <2>. USE BoundsAssumption DEF IInv, TypeOK
  <2>1. ASSUME NEW c \in Callers, NEW d \in {"incoming", "outgoing"}, CheckState(c, d)
        PROVE  inFlight = 0
    BY <1>1, <2>1 DEF CheckState, controlVars
  <2>2. ASSUME NEW c \in Callers, CallerStep(c)
        PROVE  inFlight = 0
    BY <1>1, <2>2 DEF CallerStep, FindStage, CountIn, Decode, Encode, Leave, CountOut, controlVars
  <2>3. CASE ControlStep
    BY <1>1, <2>3 DEF ControlStep, StartPublish, DrainDone, DrainWait, DrainTimeout, Stop, Quiet,
       ResetFinish, SwapWait, SwapRefuse, SwapAccept, SwapDecoder, SwapEncoder, initPipeline
  <2>4. CASE ControlCall
    BY <1>1, <2>4 DEF ControlCall, addStage, removeStage, StartFind, DrainBegin, Stop,
       ResetClear, SwapBegin, controlVars
  <2>5. CASE UNCHANGED vars
    BY <1>1, <2>5 DEF vars, controlVars
  <2>. QED
    BY <1>1, <2>1, <2>2, <2>3, <2>4, <2>5 DEF Next
<1>2. ASSUME IInv, inFlight = 0
      PROVE  forgotten > 0 \/ Inside = {}
  <2>1. CASE forgotten = 0
    <3>1. Cardinality(Inside) = 0
      BY <1>2, <2>1, InsideFinite, CallersAssumption DEF IInv, InFlightExact
    <3>. QED
      BY <3>1, InsideFinite, FS_EmptySet
  <2>. QED
    BY <1>2, <2>1, InsideFinite DEF IInv, TypeOK
<1>3. IInv /\ [Next]_vars =>
        [(\/ cpc = "drainPoll" /\ cpc' \in {"idle", "stopping"} /\ polls < MaxPolls
          \/ cpc = "swapCheck" /\ cpc' = "swapDecoder")
         => forgotten > 0 \/ Inside = {}]_vars
  BY <1>1, <1>2
<1>. QED
  BY <1>3, Invariance, PTL DEF Spec, QuietWhenCounterReadsZero

\* MediaPipeline implements LifecycleContract: its callers past the state check
\* are the frames the contract has admitted.
THEOREM Refinement == Spec => ImplementsContract
<1>1. Init => Contract!Init
  BY DEF Init, Contract!Init, Busy
<1>2. IInv /\ [Next]_vars => [Contract!Next]_Contract!vars
  <2>1. SUFFICES ASSUME IInv, [Next]_vars PROVE [Contract!Next]_Contract!vars
    OBVIOUS
  <2>. USE DEF IInv, TypeOK, Contract!vars
  <2>2. ASSUME UNCHANGED <<state, registered>>, Busy' = Busy
        PROVE  UNCHANGED Contract!vars
    BY <2>2
  <2>3. ASSUME NEW c \in Callers, NEW d \in {"incoming", "outgoing"}, CheckState(c, d)
        PROVE  Contract!Next
    <3>1. c \notin Busy /\ Busy' = Busy \cup {c}
      BY <2>1, <2>3 DEF CheckState, Busy
    <3>. QED
      BY <2>3, <3>1 DEF CheckState, Accepts, graphVars, Contract!Next, Contract!Admit
  <2>4. ASSUME NEW c \in Callers, CallerStep(c)
        PROVE  [Contract!Next]_Contract!vars
    <3>1. c \in Busy
      BY <2>4 DEF CallerStep, FindStage, CountIn, Decode, Encode, Leave, CountOut, Busy
    <3>2. UNCHANGED <<state, registered>>
      BY <2>4 DEF CallerStep, FindStage, CountIn, Decode, Encode, Leave, CountOut, graphVars
    <3>3. Busy' = Busy \/ Busy' = Busy \ {c}
      BY <2>1, <2>4 DEF CallerStep, FindStage, CountIn, Decode, Encode, Leave, CountOut, Return, Busy
    <3>. QED
      BY <2>2, <3>1, <3>2, <3>3 DEF Contract!Next, Contract!Release
  <2>5. CASE ControlStep \/ ControlCall
    <3>1. Busy' = Busy
      BY <2>5 DEF ControlStep, StartPublish, DrainDone, DrainWait, DrainTimeout, Stop, ResetFinish,
         SwapWait, SwapRefuse, SwapAccept, SwapDecoder, SwapEncoder, initPipeline, ControlCall,
         addStage, removeStage, StartFind, DrainBegin, ResetClear, SwapBegin, callerVars, Busy
    <3>2. CASE addStage \/ removeStage \/ ResetClear
      BY <3>1, <3>2 DEF addStage, removeStage, ResetClear, isGraphMutable, Contract!Next,
         Contract!Configure
    <3>3. CASE StartPublish
      BY <2>1, <3>1, <3>3 DEF StartPublish, ControlInv, graphVars, Contract!Next, Contract!Start
    <3>4. ASSUME NEW stopping \in BOOLEAN, DrainBegin(stopping)
          PROVE  Contract!Next
      BY <3>1, <3>4 DEF DrainBegin, graphVars, Contract!Next, Contract!Drain
    <3>5. CASE Stop
      BY <2>1, <3>1, <3>5 DEF Stop, ControlInv, graphVars, Contract!Next, Contract!Stop
    <3>6. CASE ResetFinish
      BY <2>1, <3>1, <3>6 DEF ResetFinish, ControlInv, graphVars, Contract!Next, Contract!Reset
    <3>7. CASE StartFind \/ DrainDone \/ DrainWait \/ DrainTimeout
      BY <2>2, <3>1, <3>7 DEF StartFind, DrainDone, DrainWait, DrainTimeout, graphVars
    <3>8. CASE SwapBegin \/ SwapWait \/ SwapRefuse \/ SwapAccept
      BY <2>2, <3>1, <3>8 DEF SwapBegin, SwapWait, SwapRefuse, SwapAccept, graphVars
    <3>9. CASE SwapDecoder \/ SwapEncoder \/ initPipeline
      BY <2>2, <3>1, <3>9 DEF SwapDecoder, SwapEncoder, initPipeline, graphVars
    <3>. QED
      BY <2>5, <3>2, <3>3, <3>4, <3>5, <3>6, <3>7, <3>8, <3>9 DEF ControlStep, ControlCall
  <2>6. CASE UNCHANGED vars
    BY <2>2, <2>6 DEF vars, graphVars, callerVars, Busy
  <2>. QED
    BY <2>1, <2>3, <2>4, <2>5, <2>6 DEF Next
<1>. QED
  BY <1>1, <1>2, Invariance, PTL DEF Spec, ImplementsContract, Contract!Spec

=============================================================================

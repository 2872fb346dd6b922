------------------------------ MODULE DspProofs ------------------------------
(***************************************************************************)
(* The conference stage for any participants, frames, queue lengths and    *)
(* filters.  Within a round the mixer stands still, so that what somebody  *)
(* was given is what the mixer would still give (HeardIsMix); it holds     *)
(* exactly what the round has gathered (RoundInv); and no more frames are  *)
(* queued than have come (QueueNotLonger).                                 *)
(*                                                                         *)
(* The handlers of a call leg for any frames, gains and thresholds.  Each  *)
(* is in step with what it has heard (GainAsAsked, VadInStep, InStep), and *)
(* a sequence that is dialled is heard as far as it has been played        *)
(* (DialInv).                                                              *)
(***************************************************************************)
EXTENDS AudioMixerHandler, CallTaps, NatRecursion, FiniteSetTheorems, TLAPS

Info == [output : BOOLEAN, decoder : BOOLEAN, queue : Seq(Frame)]

Typed ==
  /\ params \in ParamChoices
  /\ DOMAIN info = DOMAIN mixer /\ DOMAIN mixer \subseteq Participants
  /\ IsFiniteSet(DOMAIN mixer)
  /\ mixer \in [DOMAIN mixer -> ParticipantState]
  /\ info \in [DOMAIN info -> Info]
  /\ dominant \in Participants \cup {Nobody}
  /\ told \in [Participants -> BOOLEAN]
  /\ serving \in BOOLEAN /\ pending \subseteq DOMAIN info
  /\ arrived \in [Participants -> Nat] /\ gathered \in [Participants -> Nat]
  /\ heard = [p \in Participants |-> heard[p]]
  /\ changes \in 0 .. MaxChanges
  /\ pending # {} => serving

QueueNotLonger == \A p \in DOMAIN info : Len(info[p].queue) <= arrived[p]

\* The mixer in a round, and outside.
RoundInv ==
  \A p \in Participants :
    /\ p \in WithData(mixer) => serving /\ gathered[p] = mixer[p].seq
    /\ gathered[p] # NoFrame => p \in WithData(mixer)

HeardIsMix ==
  \A p \in Participants : heard[p] # NoMix => serving /\ heard[p] = MixFor(mixer, p)

IInv ==
  /\ Typed
  /\ QueueHoldsNewest /\ QueueNotLonger
  /\ RoundInv /\ HeardIsMix
  /\ CallbackTellsState

-----------------------------------------------------------------------------
LEMMA ParamsAre ==
  ASSUME Typed
  PROVE  params.enableVad \in BOOLEAN /\ params.maxActiveSpeakers \in Nat
BY MixerAssumption DEF Typed

\* What pushing audio makes of a participant.
LEMMA PushedIs ==
  ASSUME Typed, NEW st \in ParticipantState, NEW f \in Frame
  PROVE  /\ Pushed(st, f) \in ParticipantState
         /\ Pushed(st, f).hasData /\ Pushed(st, f).seq = f.seq
<1> DEFINE n == Min({f.len, MaxSamples})
           x == [st EXCEPT !.hasData = TRUE, !.seq = f.seq, !.samples = n]
           spoke == params.enableVad => f.level >= VadThreshold
<1>1. /\ n \in Nat /\ f.seq \in Nat /\ f.level \in Nat
  BY MinIs, MixerAssumption DEF Frame
<1> HIDE DEF n
<1>2. x \in ParticipantState /\ x.hasData /\ x.seq = f.seq
  BY <1>1 DEF ParticipantState
<1>3. spoke \in BOOLEAN
  OBVIOUS
<1> HIDE DEF x, spoke
<1>4. /\ [x EXCEPT !.energy = 0] \in ParticipantState
      /\ [x EXCEPT !.energy = 0].hasData /\ [x EXCEPT !.energy = 0].seq = f.seq
  BY <1>2 DEF ParticipantState
<1>5. /\ [x EXCEPT !.energy = f.level, !.speaking = spoke] \in ParticipantState
      /\ [x EXCEPT !.energy = f.level, !.speaking = spoke].hasData
      /\ [x EXCEPT !.energy = f.level, !.speaking = spoke].seq = f.seq
  BY <1>1, <1>2, <1>3 DEF ParticipantState
<1> QED
  BY <1>4, <1>5 DEF Pushed, UpdatedVadState, x, n, spoke

\* A queue takes a frame, the oldest leaves it when it is full or a round begins.
LEMMA QueuedIs ==
  ASSUME NEW q \in Seq(Frame), NEW f \in Frame, Len(q) <= kMaxFramesPerParticipant
  PROVE  /\ Queued(q, f) \in Seq(Frame)
         /\ Len(Queued(q, f)) <= kMaxFramesPerParticipant
         /\ Len(Queued(q, f)) <= Len(q) + 1 /\ Len(Queued(q, f)) > 0
         /\ Queued(q, f)[Len(Queued(q, f))] = f
         /\ \A i \in 1 .. Len(Queued(q, f)) - 1 :
              Queued(q, f)[i] = q[i + 1 + Len(q) - Len(Queued(q, f))]
<1>1. kMaxFramesPerParticipant \in Nat \ {0} /\ Len(q) \in Nat
  BY QueueAssumption
<1>2. CASE Len(q) >= kMaxFramesPerParticipant
  <2> DEFINE r == Tail(q)
  <2>1. /\ r \in Seq(Frame) /\ Len(r) = Len(q) - 1
        /\ \A i \in 1 .. Len(q) - 1 : r[i] = q[i + 1]
    BY <1>1, <1>2
  <2> HIDE DEF r
  <2>2. /\ Append(r, f) \in Seq(Frame) /\ Len(Append(r, f)) = Len(q)
        /\ Append(r, f)[Len(q)] = f
        /\ \A i \in 1 .. Len(q) - 1 : Append(r, f)[i] = r[i]
    BY <1>1, <2>1
  <2>3. Queued(q, f) = Append(r, f)
    BY <1>2 DEF Queued, r
  <2> QED
    BY <1>1, <1>2, <2>1, <2>2, <2>3
<1>3. CASE ~(Len(q) >= kMaxFramesPerParticipant)
  <2>1. /\ Append(q, f) \in Seq(Frame) /\ Len(Append(q, f)) = Len(q) + 1
        /\ Append(q, f)[Len(q) + 1] = f
        /\ \A i \in 1 .. Len(q) : Append(q, f)[i] = q[i]
    BY <1>1
  <2>2. Queued(q, f) = Append(q, f)
    BY <1>3 DEF Queued
  <2> QED
    BY <1>1, <1>3, <2>1, <2>2
<1> QED
  BY <1>2, <1>3

LEMMA PoppedIs ==
  ASSUME NEW q \in Seq(Frame)
  PROVE  /\ Popped(q) \in Seq(Frame)
         /\ q = <<>> => Popped(q) = <<>>
         /\ q # <<>> => /\ Len(q) > 0 /\ Head(q) = q[1] /\ Head(q) \in Frame
                        /\ Len(Popped(q)) = Len(q) - 1
                        /\ \A i \in 1 .. Len(q) - 1 : Popped(q)[i] = q[i + 1]
BY DEF Popped

-----------------------------------------------------------------------------
LEMMA InitInv == Init => IInv
<1> SUFFICES ASSUME Init PROVE IInv
  OBVIOUS
<1>1. DOMAIN mixer = {} /\ DOMAIN info = {}
  BY DEF Init
<1>2. Typed
  <2>1. /\ mixer = [p \in {} |-> FreshState] /\ info = [p \in {} |-> <<>>]
        /\ params \in ParamChoices /\ dominant = Nobody /\ serving = FALSE /\ pending = {}
        /\ changes = 0
    BY DEF Init
  <2>2. /\ mixer \in [DOMAIN mixer -> ParticipantState] /\ info \in [DOMAIN info -> Info]
        /\ DOMAIN info = DOMAIN mixer /\ DOMAIN mixer \subseteq Participants
        /\ pending \subseteq DOMAIN info
    BY <1>1, <2>1
  <2>3. IsFiniteSet(DOMAIN mixer)
    BY <1>1, FS_EmptySet
  <2>4. /\ told \in [Participants -> BOOLEAN] /\ arrived \in [Participants -> Nat]
        /\ gathered \in [Participants -> Nat]
    BY DEF Init, NoFrame
  <2>5. heard = [p \in Participants |-> heard[p]]
    BY DEF Init
  <2>6. changes \in 0 .. MaxChanges
    BY <2>1, QueueAssumption
  <2> QED
    BY <2>1, <2>2, <2>3, <2>4, <2>5, <2>6 DEF Typed
<1>3. QueueHoldsNewest /\ QueueNotLonger /\ CallbackTellsState
  BY <1>1 DEF QueueHoldsNewest, QueueNotLonger, CallbackTellsState
<1>4. RoundInv /\ HeardIsMix
  BY <1>1 DEF Init, RoundInv, HeardIsMix, WithData
<1> QED
  BY <1>2, <1>3, <1>4 DEF IInv

\* Outside a round there is no data, nothing gathered and nobody has been served.
LEMMA Outside ==
  ASSUME IInv, ~serving
  PROVE  /\ WithData(mixer) = {}
         /\ \A p \in Participants : gathered[p] = NoFrame /\ heard[p] = NoMix
BY DEF IInv, Typed, RoundInv, HeardIsMix, WithData

\* A mix depends on the mixer alone.
LEMMA MixStands ==
  ASSUME params' = params, mixer' = mixer, NEW p
  PROVE  MixFor(mixer, p)' = MixFor(mixer, p)
<1>1. WithData(mixer)' = WithData(mixer)
  BY DEF WithData
<1>2. \A q : Louder(mixer, q)' = Louder(mixer, q)
  BY <1>1 DEF Louder
<1>3. \A q : Included(mixer, q)' <=> Included(mixer, q)
  BY <1>2 DEF Included
<1>4. Sources(mixer, p)' = Sources(mixer, p)
  BY <1>1, <1>3 DEF Sources
<1>5. SamplesOf(mixer, WithData(mixer))' = SamplesOf(mixer, WithData(mixer))
  BY <1>1 DEF SamplesOf
<1> QED
  BY <1>4, <1>5 DEF MixFor

\* Changes of the two maps outside a round.
LEMMA MapsChange ==
  ASSUME IInv, ~serving, UNCHANGED <<params, roundVars, dominant, arrived>>,
         changes' \in 0 .. MaxChanges,
         DOMAIN mixer' = DOMAIN info', DOMAIN mixer' \subseteq Participants,
         IsFiniteSet(DOMAIN mixer'),
         mixer' \in [DOMAIN mixer' -> ParticipantState], info' \in [DOMAIN info' -> Info],
         told' \in [Participants -> BOOLEAN],
         \A p \in DOMAIN info' :
           \/ p \in DOMAIN info /\ info'[p] = info[p] /\ mixer'[p] = mixer[p] /\ told'[p] = told[p]
           \/ info'[p].queue = <<>> /\ mixer'[p] = FreshState /\ told'[p] = FALSE
  PROVE  IInv'
<1>1. pending = {}
  BY DEF IInv, Typed
<1>2. Typed'
  BY <1>1 DEF IInv, Typed, roundVars
<1>3. QueueHoldsNewest' /\ QueueNotLonger'
  <2> SUFFICES ASSUME NEW p \in DOMAIN info'
               PROVE  /\ Len(info'[p].queue) <= kMaxFramesPerParticipant
                      /\ Len(info'[p].queue) <= arrived[p]
                      /\ \A i \in 1 .. Len(info'[p].queue) :
                           info'[p].queue[i].seq = arrived[p] - Len(info'[p].queue) + i
    BY DEF QueueHoldsNewest, QueueNotLonger
  <2>1. CASE p \in DOMAIN info /\ info'[p] = info[p]
    BY <2>1 DEF IInv, QueueHoldsNewest, QueueNotLonger
  <2>2. CASE info'[p].queue = <<>>
    <3>1. arrived[p] \in Nat
      BY DEF IInv, Typed
    <3> QED
      BY <2>2, <3>1, QueueAssumption
  <2> QED
    BY <2>1, <2>2
<1>4. CallbackTellsState'
  <2> SUFFICES ASSUME params.enableVad, NEW p \in DOMAIN info'
               PROVE  told'[p] = mixer'[p].speaking
    BY DEF CallbackTellsState
  <2>1. FreshState.speaking = FALSE
    BY DEF FreshState
  <2>2. \A q \in DOMAIN info : told[q] = mixer[q].speaking
    BY DEF IInv, CallbackTellsState
  <2> QED
    BY <2>1, <2>2
<1>5. \A p \in DOMAIN mixer' : ~mixer'[p].hasData
  <2>1. WithData(mixer) = {} /\ DOMAIN info = DOMAIN mixer
    BY Outside DEF IInv, Typed
  <2>2. \A p \in DOMAIN info : ~mixer[p].hasData
    BY <2>1 DEF WithData
  <2>3. FreshState.hasData = FALSE
    BY DEF FreshState
  <2> QED
    BY <2>2, <2>3
<1>6. RoundInv' /\ HeardIsMix'
  BY <1>5, Outside DEF RoundInv, HeardIsMix, WithData, roundVars
<1> QED
  BY <1>2, <1>3, <1>4, <1>6 DEF IInv

LEMMA AddInv ==
  ASSUME IInv, NEW p \in Participants, NEW role \in Roles, addParticipant(p, role)
  PROVE  IInv'
<1> DEFINE fresh == [output |-> role.output, decoder |-> role.decoder, queue |-> <<>>]
<1>1. /\ ~serving /\ changes < MaxChanges /\ changes' = changes + 1
      /\ mixer' = WithParticipant(mixer, p)
      /\ info' = [q \in DOMAIN info \cup {p} |-> IF q \in DOMAIN info THEN info[q] ELSE fresh]
      /\ told' = IF p \in DOMAIN info THEN told ELSE [told EXCEPT ![p] = FALSE]
      /\ UNCHANGED <<params, dominant, roundVars, arrived>>
  BY DEF addParticipant
<1>2. fresh \in Info /\ FreshState \in ParticipantState /\ fresh.queue = <<>>
  BY QueueAssumption DEF Info, FreshState, ParticipantState
<1> HIDE DEF fresh
<1>3. /\ mixer \in [DOMAIN mixer -> ParticipantState] /\ info \in [DOMAIN info -> Info]
      /\ DOMAIN info = DOMAIN mixer /\ DOMAIN mixer \subseteq Participants
      /\ told \in [Participants -> BOOLEAN] /\ IsFiniteSet(DOMAIN mixer)
      /\ changes \in 0 .. MaxChanges
  BY DEF IInv, Typed
<1>4. /\ DOMAIN mixer' = DOMAIN mixer \cup {p} /\ DOMAIN info' = DOMAIN mixer \cup {p}
      /\ mixer' \in [DOMAIN mixer' -> ParticipantState] /\ info' \in [DOMAIN info' -> Info]
  BY <1>1, <1>2, <1>3 DEF WithParticipant
<1>5. IsFiniteSet(DOMAIN mixer')
  BY <1>3, <1>4, FS_AddElement
<1>6. told' \in [Participants -> BOOLEAN] /\ changes' \in 0 .. MaxChanges
  BY <1>1, <1>3, QueueAssumption
<1>7. \A q \in DOMAIN info' :
        \/ q \in DOMAIN info /\ info'[q] = info[q] /\ mixer'[q] = mixer[q] /\ told'[q] = told[q]
        \/ info'[q].queue = <<>> /\ mixer'[q] = FreshState /\ told'[q] = FALSE
  <2> TAKE q \in DOMAIN info'
  <2>1. /\ info'[q] = IF q \in DOMAIN info THEN info[q] ELSE fresh
        /\ mixer'[q] = IF q \in DOMAIN info THEN mixer[q] ELSE FreshState
    BY <1>1, <1>3, <1>4 DEF WithParticipant
  <2>2. CASE q \in DOMAIN info
    <3>1. told'[q] = told[q]
      BY <1>1, <1>3, <2>2
    <3> QED
      BY <2>1, <2>2, <3>1
  <2>3. CASE q \notin DOMAIN info
    <3>1. q = p /\ told'[q] = FALSE
      BY <1>1, <1>3, <1>4, <2>3
    <3> QED
      BY <1>2, <2>1, <2>3, <3>1
  <2> QED
    BY <2>2, <2>3
<1> QED
  BY <1>1, <1>3, <1>4, <1>5, <1>6, <1>7, MapsChange

LEMMA RemoveInv ==
  ASSUME IInv, NEW p \in Participants, removeParticipant(p)
  PROVE  IInv'
<1>1. /\ ~serving /\ changes < MaxChanges /\ changes' = changes + 1
      /\ mixer' = [q \in DOMAIN mixer \ {p} |-> mixer[q]]
      /\ info' = [q \in DOMAIN info \ {p} |-> info[q]]
      /\ UNCHANGED <<params, dominant, told, roundVars, arrived>>
  BY DEF removeParticipant, WithoutParticipant
<1>2. /\ mixer \in [DOMAIN mixer -> ParticipantState] /\ info \in [DOMAIN info -> Info]
      /\ DOMAIN info = DOMAIN mixer /\ DOMAIN mixer \subseteq Participants
      /\ told \in [Participants -> BOOLEAN] /\ IsFiniteSet(DOMAIN mixer)
      /\ changes \in 0 .. MaxChanges
  BY DEF IInv, Typed
<1>3. /\ DOMAIN mixer' = DOMAIN mixer \ {p} /\ DOMAIN info' = DOMAIN mixer \ {p}
      /\ mixer' \in [DOMAIN mixer' -> ParticipantState] /\ info' \in [DOMAIN info' -> Info]
  BY <1>1, <1>2
<1>4. IsFiniteSet(DOMAIN mixer')
  BY <1>2, <1>3, FS_RemoveElement
<1>5. changes' \in 0 .. MaxChanges
  BY <1>1, <1>2, QueueAssumption
<1>6. \A q \in DOMAIN info' :
        q \in DOMAIN info /\ info'[q] = info[q] /\ mixer'[q] = mixer[q] /\ told'[q] = told[q]
  BY <1>1, <1>2, <1>3
<1> QED
  BY <1>1, <1>2, <1>3, <1>4, <1>5, <1>6, MapsChange

LEMMA IncomingInv ==
  ASSUME IInv, NEW p \in Participants, NEW kind \in Kinds, incoming(p, kind)
  PROVE  IInv'
<1> DEFINE f == [seq |-> arrived[p] + 1, len |-> kind.len, level |-> kind.level]
           q == info[p].queue
<1>1. /\ p \in DOMAIN info
      /\ arrived' = [arrived EXCEPT ![p] = @ + 1]
      /\ info' = [info EXCEPT ![p].queue = Queued(@, f)]
      /\ UNCHANGED <<params, mixerVars, roundVars, changes>>
  BY DEF incoming
<1>2. /\ info \in [DOMAIN info -> Info] /\ arrived \in [Participants -> Nat]
      /\ q \in Seq(Frame) /\ arrived[p] \in Nat /\ DOMAIN info \subseteq Participants
      /\ Len(q) \in Nat
  BY <1>1 DEF IInv, Typed, Info
<1>3. f \in Frame /\ f.seq = arrived[p] + 1
  BY <1>2, MixerAssumption DEF Frame
<1>4. /\ Len(q) <= kMaxFramesPerParticipant /\ Len(q) <= arrived[p]
      /\ \A i \in 1 .. Len(q) : q[i].seq = arrived[p] - Len(q) + i
  BY <1>1 DEF IInv, QueueHoldsNewest, QueueNotLonger
<1> DEFINE r == Queued(q, f)
<1>5. /\ r \in Seq(Frame) /\ Len(r) \in Nat
      /\ Len(r) <= kMaxFramesPerParticipant /\ Len(r) <= Len(q) + 1 /\ Len(r) > 0
      /\ r[Len(r)] = f
      /\ \A i \in 1 .. Len(r) - 1 : r[i] = q[i + 1 + Len(q) - Len(r)]
  <2>1. Len(q) <= kMaxFramesPerParticipant
    BY <1>4
  <2>2. \A s \in Seq(Frame), g \in Frame : Len(s) <= kMaxFramesPerParticipant =>
          /\ Queued(s, g) \in Seq(Frame)
          /\ Len(Queued(s, g)) <= kMaxFramesPerParticipant
          /\ Len(Queued(s, g)) <= Len(s) + 1 /\ Len(Queued(s, g)) > 0
          /\ Queued(s, g)[Len(Queued(s, g))] = g
          /\ \A i \in 1 .. Len(Queued(s, g)) - 1 :
               Queued(s, g)[i] = s[i + 1 + Len(s) - Len(Queued(s, g))]
    BY QueuedIs
  <2>3. q \in Seq(Frame) /\ f \in Frame
    BY <1>2, <1>3
  <2> HIDE DEF q, f
  <2>4. /\ r \in Seq(Frame)
        /\ Len(r) <= kMaxFramesPerParticipant /\ Len(r) <= Len(q) + 1 /\ Len(r) > 0
        /\ r[Len(r)] = f
        /\ \A i \in 1 .. Len(r) - 1 : r[i] = q[i + 1 + Len(q) - Len(r)]
    BY <2>1, <2>2, <2>3, Zenon
  <2> HIDE DEF r
  <2>5. Len(r) \in Nat
    BY <2>4
  <2> QED
    BY <2>4, <2>5, Zenon
<1> HIDE DEF q, f, r
<1>6. /\ DOMAIN info' = DOMAIN info
      /\ info' = [info EXCEPT ![p] = [info[p] EXCEPT !.queue = r]]
      /\ \A x \in DOMAIN info \ {p} : info'[x] = info[x]
      /\ info'[p].queue = r
      /\ info'[p] \in Info
  BY <1>1, <1>2, <1>5 DEF q, r, Info
<1>7. arrived'[p] = arrived[p] + 1 /\ \A x \in Participants \ {p} : arrived'[x] = arrived[x]
  BY <1>1, <1>2
<1>8. Typed'
  BY <1>1, <1>2, <1>6 DEF IInv, Typed, mixerVars, roundVars
<1>9. \A i \in 1 .. Len(r) : r[i].seq = arrived[p] + 1 - Len(r) + i
  <2> TAKE i \in 1 .. Len(r)
  <2>1. CASE i = Len(r)
    BY <1>2, <1>3, <1>5, <2>1
  <2>2. CASE i \in 1 .. Len(r) - 1
    <3>1. i + 1 + Len(q) - Len(r) \in 1 .. Len(q)
      BY <1>2, <1>5, <2>2
    <3>2. r[i] = q[i + 1 + Len(q) - Len(r)]
      BY <1>5, <2>2
    <3>3. q[i + 1 + Len(q) - Len(r)].seq = arrived[p] - Len(q) + (i + 1 + Len(q) - Len(r))
      BY <1>4, <3>1
    <3>4. i \in Int
      BY <2>2, <1>5
    <3> QED
      BY <1>2, <1>5, <3>2, <3>3, <3>4
  <2> QED
    BY <1>5, <2>1, <2>2
<1>10. QueueHoldsNewest' /\ QueueNotLonger'
  <2> SUFFICES ASSUME NEW x \in DOMAIN info
               PROVE  /\ Len(info'[x].queue) <= kMaxFramesPerParticipant
                      /\ Len(info'[x].queue) <= arrived'[x]
                      /\ \A i \in 1 .. Len(info'[x].queue) :
                           info'[x].queue[i].seq = arrived'[x] - Len(info'[x].queue) + i
    BY <1>6 DEF QueueHoldsNewest, QueueNotLonger
  <2>1. CASE x = p
    <3>1. info'[x].queue = r /\ arrived'[x] = arrived[p] + 1
      BY <1>6, <1>7, <2>1
    <3>2. Len(r) <= arrived[p] + 1
      BY <1>2, <1>4, <1>5
    <3> QED
      BY <1>2, <1>5, <1>9, <3>1, <3>2
  <2>2. CASE x # p
    BY <1>2, <1>6, <1>7, <2>2 DEF IInv, QueueHoldsNewest, QueueNotLonger
  <2> QED
    BY <2>1, <2>2
<1>11. RoundInv' /\ HeardIsMix' /\ CallbackTellsState'
  <2>1. /\ params' = params /\ mixer' = mixer /\ told' = told /\ serving' = serving
        /\ gathered' = gathered /\ heard' = heard
    BY <1>1 DEF mixerVars, roundVars
  <2>2. RoundInv'
    BY <2>1 DEF IInv, RoundInv, WithData
  <2>3. HeardIsMix'
    BY <2>1, MixStands DEF IInv, HeardIsMix
  <2>4. CallbackTellsState'
    BY <1>6, <2>1 DEF IInv, CallbackTellsState
  <2> QED
    BY <2>2, <2>3, <2>4
<1> QED
  BY <1>8, <1>10, <1>11 DEF IInv

\* mix(), step 1.  Nobody had data, so that what the mixer holds now is what the round
\* has gathered.
LEMMA GatherInv == ASSUME IInv, gatherFrames PROVE IInv'
<1> DEFINE st(p) == CASE p \in Waiting -> Pushed(mixer[p], Head(info[p].queue))
                      [] p \in Concealed -> Pushed(mixer[p], Concealment)
                      [] OTHER -> mixer[p]
           got(p) == IF p \in Waiting THEN Head(info[p].queue).seq ELSE NoFrame
<1>1. /\ ~serving /\ serving' = TRUE
      /\ mixer' = [p \in DOMAIN mixer |-> st(p)]
      /\ told' = ToldAfter(mixer, mixer')
      /\ info' = [p \in DOMAIN info |-> [info[p] EXCEPT !.queue = Popped(@)]]
      /\ pending' = {p \in DOMAIN info : info[p].output}
      /\ gathered' = [p \in Participants |-> got(p)]
      /\ UNCHANGED <<params, dominant, heard, arrived, changes>>
  BY DEF gatherFrames
<1>2. /\ mixer \in [DOMAIN mixer -> ParticipantState] /\ info \in [DOMAIN info -> Info]
      /\ DOMAIN info = DOMAIN mixer /\ DOMAIN mixer \subseteq Participants
      /\ told \in [Participants -> BOOLEAN] /\ arrived \in [Participants -> Nat]
  BY DEF IInv, Typed
<1>3. \A p \in DOMAIN info :
        /\ info[p].queue \in Seq(Frame) /\ Popped(info[p].queue) \in Seq(Frame)
        /\ Len(info[p].queue) \in Nat
        /\ info[p].queue = <<>> => Popped(info[p].queue) = <<>>
        /\ info[p].queue # <<>> =>
             /\ Len(info[p].queue) > 0 /\ Head(info[p].queue) = info[p].queue[1]
             /\ Head(info[p].queue) \in Frame
             /\ Len(Popped(info[p].queue)) = Len(info[p].queue) - 1
             /\ \A i \in 1 .. Len(info[p].queue) - 1 :
                  Popped(info[p].queue)[i] = info[p].queue[i + 1]
  <2> TAKE p \in DOMAIN info
  <2>1. info[p].queue \in Seq(Frame)
    BY <1>2 DEF Info
  <2> DEFINE q == info[p].queue
  <2> HIDE DEF q
  <2>2. /\ q \in Seq(Frame) /\ Popped(q) \in Seq(Frame) /\ Len(q) \in Nat
        /\ q = <<>> => Popped(q) = <<>>
        /\ q # <<>> => /\ Len(q) > 0 /\ Head(q) = q[1] /\ Head(q) \in Frame
                       /\ Len(Popped(q)) = Len(q) - 1
                       /\ \A i \in 1 .. Len(q) - 1 : Popped(q)[i] = q[i + 1]
    <3>1. q \in Seq(Frame)
      BY <2>1 DEF q
    <3> QED
      BY <3>1, PoppedIs
  <2> QED
    BY <2>2, Zenon DEF q
<1>4. Concealment \in Frame /\ Concealment.seq = NoFrame
  BY MixerAssumption DEF Concealment, Frame, NoFrame
<1>5. \A s \in ParticipantState, f \in Frame :
        Pushed(s, f) \in ParticipantState /\ Pushed(s, f).hasData /\ Pushed(s, f).seq = f.seq
  <2>1. Typed
    BY DEF IInv
  <2> QED
    BY <2>1, PushedIs
<1>6. \A p \in DOMAIN mixer : ~mixer[p].hasData
  <2>1. WithData(mixer) = {}
    BY <1>1, Outside
  <2> QED
    BY <2>1 DEF WithData
<1>7. \A p \in DOMAIN mixer :
        /\ st(p) \in ParticipantState
        /\ st(p).hasData => got(p) = st(p).seq
        /\ got(p) # NoFrame => st(p).hasData
  <2> TAKE p \in DOMAIN mixer
  <2>1. CASE p \in Waiting
    <3>1. Head(info[p].queue) \in Frame
      BY <1>3, <2>1 DEF Waiting
    <3>2. st(p) = Pushed(mixer[p], Head(info[p].queue)) /\ got(p) = Head(info[p].queue).seq
      BY <2>1 DEF Concealed
    <3> QED
      BY <1>2, <1>5, <3>1, <3>2
  <2>2. CASE p \in Concealed
    <3>1. st(p) = Pushed(mixer[p], Concealment) /\ got(p) = NoFrame
      BY <2>2 DEF Concealed
    <3> QED
      BY <1>2, <1>4, <1>5, <3>1
  <2>3. CASE p \notin Waiting /\ p \notin Concealed
    <3>1. st(p) = mixer[p] /\ got(p) = NoFrame
      BY <2>3
    <3> QED
      BY <1>2, <1>6, <3>1
  <2> QED
    BY <2>1, <2>2, <2>3
<1>8. \A p \in Participants : /\ got(p) \in Nat
                              /\ got(p) # NoFrame => p \in DOMAIN mixer
  BY <1>2, <1>3 DEF Waiting, Frame, NoFrame
<1> HIDE DEF st, got
<1>9. /\ DOMAIN mixer' = DOMAIN mixer /\ DOMAIN info' = DOMAIN info
      /\ \A p \in DOMAIN mixer : mixer'[p] = st(p)
      /\ \A p \in DOMAIN info : info'[p] = [info[p] EXCEPT !.queue = Popped(@)]
      /\ \A p \in DOMAIN info : info'[p].queue = Popped(info[p].queue)
      /\ \A p \in Participants : gathered'[p] = got(p)
  BY <1>1, <1>2 DEF Info
<1>10. Typed'
  <2>1. mixer' \in [DOMAIN mixer' -> ParticipantState]
    BY <1>1, <1>7, <1>9
  <2>2. info' \in [DOMAIN info' -> Info]
    <3>1. \A p \in DOMAIN info : [info[p] EXCEPT !.queue = Popped(@)] \in Info
      BY <1>2, <1>3 DEF Info
    <3> QED
      BY <1>1, <3>1
  <2>3. told' \in [Participants -> BOOLEAN]
    <3>1. \A p \in DOMAIN mixer : mixer'[p].speaking \in BOOLEAN
      BY <1>7, <1>9 DEF ParticipantState
    <3> QED
      BY <1>1, <1>2, <3>1 DEF ToldAfter
  <2>4. gathered' \in [Participants -> Nat]
    BY <1>1, <1>8
  <2>5. pending' \subseteq DOMAIN info'
    BY <1>1, <1>9
  <2> QED
    BY <1>1, <1>9, <2>1, <2>2, <2>3, <2>4, <2>5 DEF IInv, Typed
<1>11. QueueHoldsNewest' /\ QueueNotLonger'
  <2> SUFFICES ASSUME NEW p \in DOMAIN info
               PROVE  /\ Len(info'[p].queue) <= kMaxFramesPerParticipant
                      /\ Len(info'[p].queue) <= arrived[p]
                      /\ \A i \in 1 .. Len(info'[p].queue) :
                           info'[p].queue[i].seq = arrived[p] - Len(info'[p].queue) + i
    <3>1. DOMAIN info' = DOMAIN info /\ arrived' = arrived
      BY <1>1, <1>9
    <3> QED
      BY <3>1 DEF QueueHoldsNewest, QueueNotLonger
  <2> DEFINE q == info[p].queue
             r == Popped(info[p].queue)
  <2>1. /\ Len(q) \in Nat /\ arrived[p] \in Nat /\ info'[p].queue = r
        /\ Len(q) <= kMaxFramesPerParticipant /\ Len(q) <= arrived[p]
        /\ \A i \in 1 .. Len(q) : q[i].seq = arrived[p] - Len(q) + i
    BY <1>2, <1>3, <1>9 DEF IInv, QueueHoldsNewest, QueueNotLonger
  <2>2. /\ q = <<>> => r = <<>>
        /\ q # <<>> => /\ Len(r) = Len(q) - 1 /\ Len(q) > 0
                       /\ \A i \in 1 .. Len(q) - 1 : r[i] = q[i + 1]
    BY <1>3
  <2> HIDE DEF q, r
  <2>3. CASE q = <<>>
    BY <2>1, <2>2, <2>3, QueueAssumption
  <2>4. CASE q # <<>>
    <3>1. \A i \in 1 .. Len(q) - 1 : r[i].seq = arrived[p] - (Len(q) - 1) + i
      <4> TAKE i \in 1 .. Len(q) - 1
      <4>1. r[i] = q[i + 1] /\ i + 1 \in 1 .. Len(q) /\ i \in Int
        BY <2>1, <2>2, <2>4
      <4>2. q[i + 1].seq = arrived[p] - Len(q) + (i + 1)
        BY <2>1, <4>1
      <4>3. arrived[p] - Len(q) + (i + 1) = arrived[p] - (Len(q) - 1) + i
        <5>1. \A a, n, k \in Int : a - n + (k + 1) = a - (n - 1) + k
          OBVIOUS
        <5>2. arrived[p] \in Int /\ Len(q) \in Int /\ i \in Int
          BY <2>1, <4>1
        <5> QED
          BY <5>1, <5>2
      <4> QED
        BY <4>1, <4>2, <4>3, Zenon
    <3>2. Len(r) = Len(q) - 1 /\ Len(q) > 0
      BY <2>2, <2>4
    <3> QED
      BY <2>1, <3>1, <3>2, QueueAssumption
  <2> QED
    BY <2>3, <2>4
<1>12. RoundInv'
  BY <1>1, <1>2, <1>7, <1>8, <1>9 DEF RoundInv, WithData
<1>13. HeardIsMix'
  BY <1>1, Outside DEF HeardIsMix
<1>14. CallbackTellsState'
  <2> SUFFICES ASSUME params.enableVad, NEW p \in DOMAIN info
               PROVE  told'[p] = mixer'[p].speaking
    BY <1>1, <1>9 DEF CallbackTellsState
  <2>1. told[p] = mixer[p].speaking
    BY DEF IInv, CallbackTellsState
  <2>2. told'[p] = IF p \in DOMAIN mixer /\ params.enableVad
                      /\ mixer[p].speaking # mixer'[p].speaking
                   THEN mixer'[p].speaking ELSE told[p]
    BY <1>1, <1>2 DEF ToldAfter
  <2> QED
    BY <1>2, <2>1, <2>2
<1> QED
  BY <1>10, <1>11, <1>12, <1>13, <1>14 DEF IInv

\* mix(), step 2.
LEMMA ServeInv == ASSUME IInv, NEW p \in pending, serve(p) PROVE IInv'
<1>1. /\ pending' = pending \ {p}
      /\ dominant' \in DominantOf(mixer)
      /\ heard' = [heard EXCEPT ![p] = MixFor(mixer, p)]
      /\ UNCHANGED <<params, mixer, told, info, serving, arrived, gathered, changes>>
  BY DEF serve
<1>2. Typed
  BY DEF IInv
<1>3. DominantOf(mixer) \subseteq Participants \cup {Nobody}
  BY <1>2 DEF Typed, DominantOf, WithData
<1>4. /\ heard' = [q \in Participants |-> heard'[q]]
      /\ \A q \in Participants \ {p} : heard'[q] = heard[q]
      /\ p \in Participants => heard'[p] = MixFor(mixer, p)
  BY <1>1, <1>2 DEF Typed
<1>5. Typed'
  BY <1>1, <1>2, <1>3, <1>4 DEF Typed
<1>6. serving
  BY <1>2 DEF Typed
<1>7. HeardIsMix'
  <2> SUFFICES ASSUME NEW q \in Participants, heard'[q] # NoMix
               PROVE  heard'[q] = MixFor(mixer, q)'
    BY <1>1, <1>6 DEF HeardIsMix
  <2>1. MixFor(mixer, q)' = MixFor(mixer, q)
    BY <1>1, MixStands
  <2>2. heard'[q] = MixFor(mixer, q)
    BY <1>4 DEF IInv, HeardIsMix
  <2> QED
    BY <2>1, <2>2
<1>8. QueueHoldsNewest' /\ QueueNotLonger' /\ RoundInv' /\ CallbackTellsState'
  BY <1>1 DEF IInv, QueueHoldsNewest, QueueNotLonger, RoundInv, CallbackTellsState, WithData
<1> QED
  BY <1>5, <1>7, <1>8 DEF IInv

\* mix(), step 3: nobody has data, whoever spoke still does.
LEMMA FinishInv == ASSUME IInv, finishRound PROVE IInv'
<1>1. /\ pending = {} /\ pending' = pending /\ serving' = FALSE
      /\ mixer' = [q \in DOMAIN mixer |-> [mixer[q] EXCEPT !.hasData = FALSE, !.samples = 0]]
      /\ gathered' = [q \in Participants |-> NoFrame]
      /\ heard' = [q \in Participants |-> NoMix]
      /\ UNCHANGED <<params, dominant, told, info, arrived, changes>>
  BY DEF finishRound, Cleared
<1>2. Typed
  BY DEF IInv
<1>3. mixer \in [DOMAIN mixer -> ParticipantState]
  BY <1>2 DEF Typed
<1>4. /\ DOMAIN mixer' = DOMAIN mixer
      /\ \A q \in DOMAIN mixer : /\ mixer'[q] \in ParticipantState
                                 /\ ~mixer'[q].hasData
                                 /\ mixer'[q].speaking = mixer[q].speaking
  BY <1>1, <1>3 DEF ParticipantState
<1>5. Typed'
  <2>1. mixer' \in [DOMAIN mixer' -> ParticipantState]
    BY <1>1, <1>4
  <2>2. gathered' \in [Participants -> Nat] /\ heard' = [q \in Participants |-> heard'[q]]
    BY <1>1 DEF NoFrame
  <2> QED
    BY <1>1, <1>2, <1>4, <2>1, <2>2 DEF Typed
<1>6. QueueHoldsNewest' /\ QueueNotLonger'
  BY <1>1 DEF IInv, QueueHoldsNewest, QueueNotLonger
<1>7. RoundInv' /\ HeardIsMix'
  BY <1>1, <1>4 DEF RoundInv, HeardIsMix, WithData
<1>8. CallbackTellsState'
  BY <1>1, <1>2, <1>4 DEF IInv, Typed, CallbackTellsState
<1> QED
  BY <1>5, <1>6, <1>7, <1>8 DEF IInv

LEMMA NextInv == IInv /\ [Next]_vars => IInv'
<1> SUFFICES ASSUME IInv, [Next]_vars PROVE IInv'
  OBVIOUS
<1>1. ASSUME NEW p \in Participants, NEW role \in Roles, addParticipant(p, role) PROVE IInv'
  BY <1>1, AddInv
<1>2. ASSUME NEW p \in Participants, removeParticipant(p) PROVE IInv'
  BY <1>2, RemoveInv
<1>3. ASSUME NEW p \in Participants, NEW kind \in Kinds, incoming(p, kind) PROVE IInv'
  BY <1>3, IncomingInv
<1>4. CASE gatherFrames
  BY <1>4, GatherInv
<1>5. ASSUME NEW p \in pending, serve(p) PROVE IInv'
  BY <1>5, ServeInv
<1>6. CASE finishRound
  BY <1>6, FinishInv
<1>7. CASE UNCHANGED vars
  <2>1. /\ params' = params /\ mixer' = mixer /\ dominant' = dominant /\ told' = told
        /\ info' = info /\ serving' = serving /\ pending' = pending /\ gathered' = gathered
        /\ heard' = heard /\ arrived' = arrived /\ changes' = changes
    BY <1>7 DEF vars, mixerVars, roundVars
  <2>2. Typed' /\ QueueHoldsNewest' /\ QueueNotLonger' /\ RoundInv' /\ CallbackTellsState'
    BY <2>1 DEF IInv, Typed, QueueHoldsNewest, QueueNotLonger, RoundInv, CallbackTellsState,
                WithData
  <2>3. HeardIsMix'
    BY <2>1, MixStands DEF IInv, HeardIsMix
  <2> QED
    BY <2>2, <2>3 DEF IInv
<1> QED
  BY <1>1, <1>2, <1>3, <1>4, <1>5, <1>6, <1>7 DEF Next, mix

LEMMA Invariance == Spec => []IInv
BY InitInv, NextInv, PTL DEF Spec

-----------------------------------------------------------------------------
\* Every variable keeps its type, and the mixer knows exactly the participants of the
\* handler, whoever joins, leaves or sends in whatever order.
THEOREM TypeCorrect == Spec => []TypeOK
<1>1. IInv => TypeOK
  BY DEF IInv, Typed, TypeOK, Info
<1> QED
  BY Invariance, <1>1, PTL

\* incoming() drops the oldest frame of a full queue and mix() takes the oldest: what a
\* queue holds is bounded, in order and without a gap up to the last arrival.
THEOREM QueuesHoldTheNewest == Spec => []QueueHoldsNewest
<1>1. IInv => QueueHoldsNewest
  BY DEF IInv
<1> QED
  BY Invariance, <1>1, PTL

\* The VAD callback has told of each participant what the mixer holds of it.
THEOREM CallbackIsInStep == Spec => []CallbackTellsState
<1>1. IInv => CallbackTellsState
  BY DEF IInv
<1> QED
  BY Invariance, <1>1, PTL

\* A mix of the round has frames of the round: mixFor() hears everybody with data but
\* the listener, and nobody has data that the round has not gathered.
THEOREM MixesAreOfTheRound == Spec => []HearsOthersOfThisRound
<1>1. IInv => HearsOthersOfThisRound
  <2> SUFFICES ASSUME IInv, NEW p \in DOMAIN info, heard[p] # NoMix
               PROVE  LET real == {s \in heard[p].from : s[2] # NoFrame}
                          others == {<<q, gathered[q]>> :
                                       q \in {o \in DOMAIN info \ {p} : gathered[o] # NoFrame}}
                      IN  /\ \A s \in heard[p].from : s[1] # p
                          /\ real \subseteq others
                          /\ (~params.enableVad /\ params.maxActiveSpeakers = 0) => real = others
    BY DEF HearsOthersOfThisRound
  <2>1. /\ DOMAIN info = DOMAIN mixer /\ DOMAIN mixer \subseteq Participants
        /\ heard[p] = MixFor(mixer, p)
    BY DEF IInv, Typed, HeardIsMix
  <2>2. heard[p].from = {<<q, mixer[q].seq>> : q \in Sources(mixer, p)}
    BY <2>1 DEF MixFor
  <2>3. /\ Sources(mixer, p) \subseteq WithData(mixer) \ {p}
        /\ WithData(mixer) \subseteq DOMAIN mixer
    BY DEF Sources, WithData
  <2>4. \A q \in WithData(mixer) : gathered[q] = mixer[q].seq
    BY <2>1, <2>3 DEF IInv, RoundInv
  <2>5. \A q \in DOMAIN info : gathered[q] # NoFrame => q \in WithData(mixer)
    BY <2>1 DEF IInv, RoundInv
  <2>6. ~params.enableVad /\ params.maxActiveSpeakers = 0 =>
          Sources(mixer, p) = WithData(mixer) \ {p}
    BY DEF Sources, Included
  <2>7. \A s \in heard[p].from : \E q \in Sources(mixer, p) : s = <<q, gathered[q]>>
    BY <2>2, <2>3, <2>4
  <2>8. \A q \in Sources(mixer, p) : <<q, gathered[q]>> \in heard[p].from
    BY <2>2, <2>3, <2>4
  <2> DEFINE real == {s \in heard[p].from : s[2] # NoFrame}
             others == {<<q, gathered[q]>> :
                          q \in {o \in DOMAIN info \ {p} : gathered[o] # NoFrame}}
  <2>9. \A s \in heard[p].from : s[1] # p
    BY <2>3, <2>7
  <2>10. real \subseteq others
    BY <2>1, <2>3, <2>7
  <2>11. ~params.enableVad /\ params.maxActiveSpeakers = 0 => others \subseteq real
    BY <2>5, <2>6, <2>8
  <2> QED
    BY <2>9, <2>10, <2>11
<1> QED
  BY Invariance, <1>1, PTL

\* Whoever is louder than somebody in a mix has fewer louder ones before it, so that
\* shouldIncludeInMix() cannot shut it out.
THEOREM LouderIsHeardFirst == Spec => []LoudestAreHeard
<1>1. IInv => LoudestAreHeard
  <2> SUFFICES ASSUME IInv, NEW p \in DOMAIN info, heard[p] # NoMix,
                      NEW q \in {s[1] : s \in heard[p].from}, NEW r \in WithData(mixer) \ {p},
                      mixer[r].energy > mixer[q].energy, params.enableVad => mixer[r].speaking
               PROVE  r \in {s[1] : s \in heard[p].from}
    BY DEF LoudestAreHeard
  <2>1. /\ DOMAIN info = DOMAIN mixer /\ DOMAIN mixer \subseteq Participants
        /\ heard[p] = MixFor(mixer, p) /\ IsFiniteSet(DOMAIN mixer)
        /\ mixer \in [DOMAIN mixer -> ParticipantState]
        /\ params.maxActiveSpeakers \in Nat
    BY ParamsAre DEF IInv, Typed, HeardIsMix
  <2>2. heard[p].from = {<<x, mixer[x].seq>> : x \in Sources(mixer, p)}
    BY <2>1 DEF MixFor
  <2>3. q \in Sources(mixer, p)
    BY <2>2
  <2>4. /\ q \in WithData(mixer) /\ Included(mixer, q)
        /\ WithData(mixer) \subseteq DOMAIN mixer
    BY <2>3 DEF Sources, WithData
  <2>5. \A x \in DOMAIN mixer : mixer[x].energy \in Nat
    BY <2>1 DEF ParticipantState
  <2>6. Louder(mixer, r) \subseteq Louder(mixer, q)
    <3> SUFFICES ASSUME NEW x \in Louder(mixer, r) PROVE x \in Louder(mixer, q)
      OBVIOUS
    <3>1. x \in WithData(mixer) /\ mixer[x].energy > mixer[r].energy
      BY DEF Louder
    <3>2. mixer[x].energy > mixer[q].energy
      BY <2>4, <2>5, <3>1
    <3>3. x # q
      BY <2>4, <2>5, <3>2
    <3> QED
      BY <3>1, <3>2, <3>3 DEF Louder
  <2>7. IsFiniteSet(Louder(mixer, q))
    <3>1. Louder(mixer, q) \subseteq DOMAIN mixer
      BY DEF Louder, WithData
    <3> QED
      BY <2>1, <3>1, FS_Subset
  <2>8. /\ Cardinality(Louder(mixer, r)) <= Cardinality(Louder(mixer, q))
        /\ Cardinality(Louder(mixer, r)) \in Nat /\ Cardinality(Louder(mixer, q)) \in Nat
    BY <2>6, <2>7, FS_Subset, FS_CardinalityType
  <2>9. Included(mixer, r)
    <3>1. params.maxActiveSpeakers > 0 =>
            Cardinality(Louder(mixer, q)) < params.maxActiveSpeakers
      BY <2>4 DEF Included
    <3>2. params.maxActiveSpeakers > 0 =>
            Cardinality(Louder(mixer, r)) < params.maxActiveSpeakers
      BY <2>1, <2>8, <3>1
    <3> QED
      BY <3>2 DEF Included
  <2>10. r \in Sources(mixer, p)
    BY <2>9 DEF Sources
  <2>11. <<r, mixer[r].seq>> \in heard[p].from
    BY <2>2, <2>10
  <2> QED
    BY <2>11
<1> QED
  BY Invariance, <1>1, PTL

\* mix() takes the head of each queue, and what stays behind it came later.
THEOREM RoundsTakeFramesInOrder == Spec => FramesMoveForward
<1> DEFINE A == serving' /\ ~serving =>
                  \A p \in DOMAIN info : /\ info[p].queue # <<>> => gathered'[p] # NoFrame
                                        /\ \A i \in 1 .. Len(info'[p].queue) :
                                             info'[p].queue[i].seq > gathered'[p]
<1>1. IInv /\ [Next]_vars => A
  <2> SUFFICES ASSUME IInv, [Next]_vars, serving', ~serving, NEW p \in DOMAIN info
               PROVE  /\ info[p].queue # <<>> => gathered'[p] # NoFrame
                      /\ \A i \in 1 .. Len(info'[p].queue) :
                           info'[p].queue[i].seq > gathered'[p]
    OBVIOUS
  <2>1. gatherFrames
    BY DEF Next, mix, addParticipant, removeParticipant, incoming, serve, finishRound,
           vars, roundVars
  <2>2. /\ info' = [x \in DOMAIN info |-> [info[x] EXCEPT !.queue = Popped(@)]]
        /\ gathered' = [x \in Participants |->
                          IF x \in Waiting THEN Head(info[x].queue).seq ELSE NoFrame]
    BY <2>1 DEF gatherFrames
  <2>3. /\ info[p] \in Info /\ p \in Participants /\ arrived[p] \in Nat
    BY DEF IInv, Typed
  <2> DEFINE q == info[p].queue
             r == Popped(info[p].queue)
  <2>4. q \in Seq(Frame) /\ Len(q) \in Nat /\ info'[p].queue = r
    BY <2>2, <2>3 DEF Info
  <2>5. /\ q = <<>> => gathered'[p] = NoFrame
        /\ q # <<>> => gathered'[p] = Head(q).seq
    BY <2>2, <2>3 DEF Waiting
  <2>6. /\ Len(q) <= arrived[p]
        /\ \A i \in 1 .. Len(q) : q[i].seq = arrived[p] - Len(q) + i
    BY DEF IInv, QueueHoldsNewest, QueueNotLonger
  <2>7. /\ q = <<>> => r = <<>>
        /\ q # <<>> => /\ Len(q) > 0 /\ Head(q) = q[1] /\ Len(r) = Len(q) - 1
                       /\ \A i \in 1 .. Len(q) - 1 : r[i] = q[i + 1]
    BY <2>4, PoppedIs
  <2> HIDE DEF q, r
  <2>8. CASE q = <<>>
    BY <2>4, <2>7, <2>8 DEF q
  <2>9. CASE q # <<>>
    <3>1. gathered'[p] = arrived[p] - Len(q) + 1 /\ gathered'[p] > 0
      BY <2>3, <2>4, <2>5, <2>6, <2>7, <2>9
    <3>2. \A i \in 1 .. Len(r) : r[i].seq > gathered'[p]
      <4> TAKE i \in 1 .. Len(r)
      <4>1. i \in 1 .. Len(q) - 1 /\ i + 1 \in 1 .. Len(q) /\ i \in Int /\ i > 0
        BY <2>4, <2>7, <2>9
      <4>2. r[i] = q[i + 1] /\ q[i + 1].seq = arrived[p] - Len(q) + (i + 1)
        BY <2>6, <2>7, <2>9, <4>1
      <4>3. r[i].seq = arrived[p] - Len(q) + (i + 1)
        BY <4>2
      <4> QED
        BY <2>3, <2>4, <3>1, <4>1, <4>3
    <3> QED
      BY <2>4, <3>1, <3>2 DEF NoFrame
  <2> QED
    BY <2>8, <2>9
<1>2. IInv /\ [Next]_vars => [A]_vars
  BY <1>1
<1>3. Spec => [][A]_vars
  <2> HIDE DEF A
  <2> QED
    BY Invariance, <1>2, PTL DEF Spec
<1> QED
  BY <1>3 DEF FramesMoveForward


-----------------------------------------------------------------------------
(***************************************************************************)
(* The handlers of a call leg.                                             *)
(***************************************************************************)
Detected == [digit : Digits \cup {NoDigit}, ms : Nat]
\* What is in a dialled sequence: tones that fill their frames, and gaps.
Buffers ==
  {b \in S16Frame : /\ b.samples > 0 /\ ~b.odd
                    /\ b.lowMag = 0 \/ b.samples % FrameSamples = 0}

TapsTyped ==
  /\ gain \in [gain : Nat, previousGain : Nat, muted : BOOLEAN]
  /\ vad \in [Directions -> [silence : 0 .. SilenceCap, wasActive : BOOLEAN]]
  /\ prevActive \in [Directions -> BOOLEAN]
  /\ detector \in [Directions -> Detected]
  /\ line \in Seq(Buffers)
  /\ out \in [Directions -> [readable : BOOLEAN, forwarded : BOOLEAN, marked : BOOLEAN,
                             reported : Digits \cup {NoDigit}]]
  /\ asked \in [gain : Nat, muted : BOOLEAN]
  /\ quiet \in [Directions -> 0 .. hangoverFrames + 1]
  /\ talk \in [Directions -> [before : BOOLEAN, now : BOOLEAN]]
  /\ last \in [Directions -> Detected \X Detected]
  /\ dialled \in Seq(Nat \X Nat)
  /\ reports \in [digits : Seq(Digits), disturbed : BOOLEAN]

\* The gain in force is the one that was asked for, and comes back after mute().
GainAsAsked ==
  /\ gain.muted = asked.muted
  /\ IF gain.muted THEN gain.previousGain = asked.gain ELSE gain.gain = asked.gain

\* The detector is active up to the hangover, and until then counts the silence.
VadInStep(d) ==
  /\ vad[d].wasActive <=> quiet[d] <= hangoverFrames
  /\ vad[d].wasActive => vad[d].silence = quiet[d]
  /\ prevActive[d] <=> talk[d].now

\* How long the digit of the last of two frames has lasted in them, and what the detector
\* makes of it: never less, and the same until it is long enough.
Lasted(p) == p[2].ms + IF p[1].digit = p[2].digit THEN p[1].ms ELSE 0
LongEnough(t) == t.digit # NoDigit => minDurationMs <= 2 * t.ms
InStep(x, p) ==
  /\ x.digit = p[2].digit
  /\ LongEnough(p[1]) /\ LongEnough(p[2])
  /\ x.digit # NoDigit => /\ Lasted(p) <= x.ms
                          /\ x.ms = Lasted(p) \/ minDurationMs <= Lasted(p)

\* What was reported is what the detector holds.
ReportStands(d) ==
  out[d].reported # NoDigit =>
    detector[d].digit = out[d].reported /\ minDurationMs <= detector[d].ms

TapsInv ==
  /\ TapsTyped /\ GainAsAsked
  /\ \A d \in Directions : VadInStep(d) /\ InStep(detector[d], last[d]) /\ ReportStands(d)
  /\ TalkspurtsAreMarked /\ ReportedIffSteady

-----------------------------------------------------------------------------
LEMMA ScaledIs ==
  ASSUME NEW x \in 0 .. MaxLevel, NEW g \in Nat
  PROVE  /\ Scaled(x, g) \in 0 .. MaxLevel
         /\ x = 0 \/ g = 0 => Scaled(x, g) = 0
<1>1. x * g \in Nat /\ MaxLevel \in Nat /\ (x = 0 \/ g = 0 => x * g = 0)
  BY FrameAssumption
<1> DEFINE y == x * g
<1> HIDE DEF y
<1>2. Min({y, MaxLevel}) = IF y <= MaxLevel THEN y ELSE MaxLevel
  BY <1>1, MinIs DEF y
<1>3. Scaled(x, g) = Min({y, MaxLevel})
  BY DEF Scaled, y
<1>4. y \in Nat /\ (x = 0 \/ g = 0 => y = 0)
  BY <1>1 DEF y
<1> QED
  BY <1>1, <1>2, <1>3, <1>4

\* The handlers behind the gain work on the frame as it was asked for.
LEMMA AppliedIs ==
  ASSUME TapsTyped, GainAsAsked, NEW f \in S16Frame, ~f.odd
  PROVE  /\ Readable(f) /\ Readable(applied(f))
         /\ applied(f) = AsAsked(f) /\ applied(f) \in S16Frame
         /\ applied(f).samples = f.samples
         /\ f.lowMag = 0 => applied(f).lowMag = 0
<1> DEFINE g == IF gain.muted THEN 0 ELSE gain.gain
<1>1. g \in Nat /\ (asked.muted => g = 0) /\ (~asked.muted => g = asked.gain)
  BY DEF TapsTyped, GainAsAsked
<1>2. /\ f.rms \in 0 .. MaxLevel /\ f.lowMag \in 0 .. MaxLevel /\ f.highMag \in 0 .. MaxLevel
      /\ 0 \in Nat
  BY DEF S16Frame
<1>3. Readable(f) /\ applied(f) =
        [f EXCEPT !.rms = Scaled(f.rms, g), !.lowMag = Scaled(f.lowMag, g),
                  !.highMag = Scaled(f.highMag, g)]
  BY FrameAssumption DEF applied, Readable
<1> HIDE DEF g
<1> DEFINE r == Scaled(f.rms, g)
           l == Scaled(f.lowMag, g)
           h == Scaled(f.highMag, g)
<1>4. /\ r \in 0 .. MaxLevel /\ l \in 0 .. MaxLevel /\ h \in 0 .. MaxLevel
      /\ asked.muted => r = 0 /\ l = 0 /\ h = 0
      /\ f.lowMag = 0 => l = 0
  BY <1>1, <1>2, ScaledIs
<1>5. AsAsked(f) = [f EXCEPT !.rms = r, !.lowMag = l, !.highMag = h]
  BY <1>1, <1>4 DEF AsAsked
<1>6. applied(f) = [f EXCEPT !.rms = r, !.lowMag = l, !.highMag = h]
  BY <1>3
<1> HIDE DEF r, l, h
<1>7. applied(f) \in S16Frame /\ ~applied(f).odd /\ applied(f).samples = f.samples
      /\ applied(f).lowMag = l
  BY <1>4, <1>6 DEF S16Frame
<1> QED
  BY <1>3, <1>4, <1>5, <1>6, <1>7, FrameAssumption DEF Readable

\* A frame of odd size goes through untouched.
LEMMA OddIs ==
  ASSUME NEW f \in S16Frame, f.odd
  PROVE  ~Readable(f) /\ applied(f) = f /\ f # NoBuffer
BY FrameAssumption DEF Readable, applied

-----------------------------------------------------------------------------
\* One readable frame, for one direction of the VAD.
QuietAfter(q, speech) == IF speech THEN 0 ELSE Min({q + 1, hangoverFrames + 1})

LEMMA VadStep ==
  ASSUME NEW v \in [silence : 0 .. SilenceCap, wasActive : BOOLEAN],
         NEW q \in 0 .. hangoverFrames + 1, NEW above \in BOOLEAN,
         v.wasActive <=> q <= hangoverFrames, v.wasActive => v.silence = q
  PROVE  /\ updateState(v, above) \in [silence : 0 .. SilenceCap, wasActive : BOOLEAN]
         /\ QuietAfter(q, above) \in 0 .. hangoverFrames + 1
         /\ updateState(v, above).wasActive <=> QuietAfter(q, above) <= hangoverFrames
         /\ updateState(v, above).wasActive =>
              updateState(v, above).silence = QuietAfter(q, above)
<1> DEFINE n == Min({v.silence + 1, SilenceCap})
           k == QuietAfter(q, FALSE)
<1>1. /\ SilenceCap \in Nat /\ hangoverFrames \in 0 .. SilenceCap - 1
      /\ v.silence \in 0 .. SilenceCap /\ v.wasActive \in BOOLEAN
  BY VadAssumption
<1>2. n = IF v.silence + 1 <= SilenceCap THEN v.silence + 1 ELSE SilenceCap
  BY <1>1, MinIs
<1>3. k = IF q + 1 <= hangoverFrames + 1 THEN q + 1 ELSE hangoverFrames + 1
  BY <1>1, MinIs DEF QuietAfter
<1>4. updateState(v, above) =
        [silence |-> IF above THEN 0 ELSE n,
         wasActive |-> above \/ (v.wasActive /\ (IF above THEN 0 ELSE n) <= hangoverFrames)]
  BY DEF updateState
<1>5. QuietAfter(q, above) = IF above THEN 0 ELSE k
  BY DEF QuietAfter
<1> HIDE DEF n, k
<1>6. CASE above
  <2>1. updateState(v, above) = [silence |-> 0, wasActive |-> TRUE] /\ QuietAfter(q, above) = 0
    BY <1>4, <1>5, <1>6
  <2> QED
    BY <1>1, <2>1
<1>7. CASE ~above
  <2>1. /\ updateState(v, above) = [silence |-> n, wasActive |-> v.wasActive /\ n <= hangoverFrames]
        /\ QuietAfter(q, above) = k
    BY <1>4, <1>5, <1>7
  <2>2. n \in 0 .. SilenceCap /\ k \in 0 .. hangoverFrames + 1
    BY <1>1, <1>2, <1>3
  <2>3. CASE v.wasActive
    <3>1. n = q + 1 /\ k = q + 1
      BY <1>1, <1>2, <1>3, <2>3
    <3> DEFINE active == v.wasActive /\ n <= hangoverFrames
    <3>2. active \in BOOLEAN /\ (active <=> k <= hangoverFrames)
      BY <2>3, <3>1
    <3>3. updateState(v, above) = [silence |-> n, wasActive |-> active]
      BY <2>1
    <3> HIDE DEF active
    <3>4. /\ updateState(v, above) \in [silence : 0 .. SilenceCap, wasActive : BOOLEAN]
          /\ updateState(v, above).wasActive = active
          /\ updateState(v, above).silence = n
      BY <2>2, <3>2, <3>3
    <3> QED
      BY <2>1, <2>2, <3>1, <3>2, <3>4
  <2>4. CASE ~v.wasActive
    BY <1>1, <1>2, <1>3, <2>1, <2>2, <2>4
  <2> QED
    BY <2>3, <2>4
<1> QED
  BY <1>6, <1>7

\* One readable frame, for one direction of the detector: b is its digit and length.
LEMMA DetectorStep ==
  ASSUME NEW x \in Detected, NEW p \in Detected \X Detected, NEW b \in Detected,
         InStep(x, p), LongEnough(b)
  PROVE  LET y == updateDuration(x, b.digit, b.ms)
         IN  /\ y \in Detected /\ InStep(y, <<p[2], b>>)
             /\ y.digit # NoDigit =>
                  (minDurationMs <= y.ms <=> minDurationMs <= Lasted(<<p[2], b>>))
<1>1. /\ minDurationMs \in Nat /\ p[1] \in Detected /\ p[2] \in Detected
  BY DetectorAssumption
<1>2. /\ <<p[2], b>>[1] = p[2] /\ <<p[2], b>>[2] = b
  OBVIOUS
<1>3. CASE b.digit = NoDigit
  BY <1>1, <1>2, <1>3 DEF updateDuration, InStep, Detected, FreshDetector
<1>4. CASE b.digit # NoDigit
  <2>1. updateDuration(x, b.digit, b.ms) =
          [digit |-> b.digit, ms |-> IF b.digit = x.digit THEN x.ms + b.ms ELSE b.ms]
    BY <1>4 DEF updateDuration
  <2>2. Lasted(<<p[2], b>>) = b.ms + IF p[2].digit = b.digit THEN p[2].ms ELSE 0
    BY <1>2 DEF Lasted
  <2>3. p[2].ms <= Lasted(p) /\ Lasted(p) \in Nat
    BY <1>1 DEF Lasted, Detected
  <2>4. /\ b.ms \in Nat /\ x.ms \in Nat /\ p[2].ms \in Nat
        /\ minDurationMs <= 2 * b.ms
        /\ p[2].digit = b.digit => minDurationMs <= 2 * p[2].ms
        /\ x.digit = p[2].digit
        /\ x.digit # NoDigit => Lasted(p) <= x.ms
    BY <1>1, <1>4 DEF InStep, LongEnough, Detected
  <2>5. CASE b.digit = x.digit
    <3> DEFINE y == [digit |-> b.digit, ms |-> x.ms + b.ms]
    <3>1. y \in Detected /\ y.digit = b.digit /\ y.ms = x.ms + b.ms
      BY <2>4 DEF Detected
    <3>2. Lasted(<<p[2], b>>) = b.ms + p[2].ms
      BY <2>2, <2>4, <2>5
    <3>3. Lasted(<<p[2], b>>) <= y.ms /\ minDurationMs <= Lasted(<<p[2], b>>)
      BY <1>1, <1>4, <2>3, <2>4, <2>5, <3>1, <3>2
    <3>4. minDurationMs <= y.ms
      BY <1>1, <2>4, <3>1, <3>2, <3>3
    <3> QED
      BY <1>2, <2>1, <2>5, <3>1, <3>3, <3>4 DEF InStep
  <2>6. CASE b.digit # x.digit
    <3> DEFINE y == [digit |-> b.digit, ms |-> b.ms]
    <3>1. y \in Detected /\ y.digit = b.digit /\ y.ms = b.ms
      BY <2>4 DEF Detected
    <3>2. Lasted(<<p[2], b>>) = b.ms
      BY <2>2, <2>4, <2>6
    <3> QED
      BY <1>2, <2>1, <2>4, <2>6, <3>1, <3>2 DEF InStep
  <2> QED
    BY <2>5, <2>6
<1> QED
  BY <1>3, <1>4

-----------------------------------------------------------------------------
\* What is said of the frames of a direction.
ToneAsked(f) == LongEnough([digit |-> DigitOf(f), ms |-> frameMs(f)])

LEMMA FrameMsIs ==
  ASSUME NEW f \in S16Frame
  PROVE  frameMs(f) \in Nat
<1>1. f.samples * 1000 \in Nat /\ sampleRate \in Nat \ {0}
  BY DetectorAssumption DEF S16Frame
<1> QED
  BY <1>1 DEF frameMs

LEMMA DigitIs ==
  ASSUME NEW f \in S16Frame
  PROVE  /\ detectedDigit(f) \in Digits \cup {NoDigit}
         /\ f.lowMag = 0 => detectedDigit(f) = NoDigit
<1>1. /\ f.low \in 1 .. 4 /\ f.high \in 1 .. 4 /\ f.lowMag \in Int /\ f.highMag \in Int
      /\ f.highMag >= 0 /\ energyThreshold \in Nat \ {0}
  BY FrameAssumption, DetectorAssumption DEF S16Frame
<1>2. Min({f.lowMag, f.highMag}) = IF f.lowMag <= f.highMag THEN f.lowMag ELSE f.highMag
  BY <1>1, MinIs
<1>3. f.lowMag = 0 => ~(Min({f.lowMag, f.highMag}) >= energyThreshold)
  BY <1>1, <1>2
<1>4. <<f.low, f.high>> \in Digits
  BY <1>1 DEF Digits
<1> QED
  BY <1>3, <1>4 DEF detectedDigit


\* A frame passes the VAD of its direction.
LEMMA VadHandles ==
  ASSUME TapsTyped, GainAsAsked, NEW dir \in Directions, VadInStep(dir),
         NEW f \in S16Frame, vadHandle(dir, applied(f)), Listen(dir, f)
  PROVE  /\ vad' \in [Directions -> [silence : 0 .. SilenceCap, wasActive : BOOLEAN]]
         /\ prevActive' \in [Directions -> BOOLEAN]
         /\ quiet' \in [Directions -> 0 .. hangoverFrames + 1]
         /\ talk' \in [Directions -> [before : BOOLEAN, now : BOOLEAN]]
         /\ VadInStep(dir)'
         /\ talk'[dir].now <=> isActive(vad[dir], applied(f))
         /\ talk'[dir].before <=> prevActive[dir]
         /\ \A d \in Directions \ {dir} :
              /\ vad'[d] = vad[d] /\ quiet'[d] = quiet[d]
              /\ prevActive'[d] = prevActive[d] /\ talk'[d] = talk[d]
<1> DEFINE g == applied(f)
           v == vad[dir]
           w == process(v, g)
           r == IF Readable(f) THEN QuietAfter(quiet[dir], Speech(f)) ELSE quiet[dir]
           active == isActive(v, g)
<1>1. /\ v \in [silence : 0 .. SilenceCap, wasActive : BOOLEAN]
      /\ quiet[dir] \in 0 .. hangoverFrames + 1
      /\ v.wasActive <=> quiet[dir] <= hangoverFrames
      /\ v.wasActive => v.silence = quiet[dir]
      /\ talk[dir].now \in BOOLEAN /\ (prevActive[dir] <=> talk[dir].now)
  BY DEF TapsTyped, VadInStep
<1>2. /\ w \in [silence : 0 .. SilenceCap, wasActive : BOOLEAN] /\ r \in 0 .. hangoverFrames + 1
      /\ w.wasActive <=> r <= hangoverFrames
      /\ w.wasActive => w.silence = r
      /\ active <=> Readable(f) /\ r <= hangoverFrames
      /\ active \in BOOLEAN /\ g # NoBuffer
  <2>1. CASE f.odd
    <3>1. ~Readable(f) /\ g = f /\ f # NoBuffer
      BY <2>1, OddIs
    <3>2. w = v /\ r = quiet[dir] /\ active = FALSE
      BY <3>1 DEF process, isActive
    <3> QED
      BY <1>1, <3>1, <3>2
  <2>2. CASE ~f.odd
    <3>1. Readable(f) /\ Readable(g) /\ g = AsAsked(f) /\ g.samples = f.samples
      BY <2>2, AppliedIs
    <3> DEFINE above == f.samples > 0 /\ g.rms >= silenceThresholdRms
    <3>2. /\ above \in BOOLEAN /\ w = updateState(v, above) /\ (Speech(f) <=> above)
          /\ r = QuietAfter(quiet[dir], above)
      BY <3>1 DEF process, Speech
    <3> HIDE DEF above, w, r, v
    <3>3. /\ w \in [silence : 0 .. SilenceCap, wasActive : BOOLEAN] /\ r \in 0 .. hangoverFrames + 1
          /\ w.wasActive <=> r <= hangoverFrames
          /\ w.wasActive => w.silence = r
      BY <1>1, <3>2, VadStep
    <3>4. active = w.wasActive /\ g # NoBuffer
      BY <3>1, <3>3 DEF isActive, Readable, w
    <3> QED
      BY <3>1, <3>3, <3>4
  <2> QED
    BY <2>1, <2>2 DEF S16Frame
<1>3. vad' = [vad EXCEPT ![dir] = w] /\ prevActive' = [prevActive EXCEPT ![dir] = active]
  BY <1>2 DEF vadHandle
<1>4. quiet' = [quiet EXCEPT ![dir] = r]
  BY DEF Listen, QuietAfter, TapsTyped
<1>5. talk' = [talk EXCEPT ![dir] = [before |-> talk[dir].now,
                                     now |-> Readable(f) /\ quiet'[dir] <= hangoverFrames]]
  BY DEF Listen
<1> HIDE DEF w, r, active
<1>6. quiet'[dir] = r /\ (Readable(f) /\ r <= hangoverFrames) \in BOOLEAN
  BY <1>4 DEF TapsTyped
<1>7. talk' = [talk EXCEPT ![dir] = [before |-> talk[dir].now, now |-> active]]
  BY <1>2, <1>5, <1>6
<1>8. vad'[dir] = w /\ prevActive'[dir] = active /\ talk'[dir].now = active
      /\ talk'[dir].before = talk[dir].now
  BY <1>3, <1>7 DEF TapsTyped
<1>9. VadInStep(dir)'
  BY <1>2, <1>6, <1>8 DEF VadInStep
<1>10. vad' \in [Directions -> [silence : 0 .. SilenceCap, wasActive : BOOLEAN]]
  BY <1>2, <1>3 DEF TapsTyped
<1>11. prevActive' \in [Directions -> BOOLEAN] /\ quiet' \in [Directions -> 0 .. hangoverFrames + 1]
  BY <1>2, <1>3, <1>4 DEF TapsTyped
<1>12. talk' \in [Directions -> [before : BOOLEAN, now : BOOLEAN]]
  BY <1>1, <1>2, <1>7 DEF TapsTyped
<1>13. \A d \in Directions \ {dir} :
         /\ vad'[d] = vad[d] /\ quiet'[d] = quiet[d]
         /\ prevActive'[d] = prevActive[d] /\ talk'[d] = talk[d]
  BY <1>3, <1>4, <1>7 DEF TapsTyped
<1> QED
  BY <1>1, <1>8, <1>9, <1>10, <1>11, <1>12, <1>13 DEF active

\* A frame passes the detector of its direction.
LEMMA DetectorHandles ==
  ASSUME TapsTyped, GainAsAsked, NEW dir \in Directions, InStep(detector[dir], last[dir]),
         NEW f \in S16Frame, ToneAsked(f), goertzelHandle(dir, applied(f)), Listen(dir, f)
  PROVE  /\ detector' \in [Directions -> Detected]
         /\ last' \in [Directions -> Detected \X Detected]
         /\ InStep(detector'[dir], last'[dir])
         /\ Reported(detector[dir], applied(f)) \in Digits \cup {NoDigit}
         /\ Readable(f) =>
              Reported(detector[dir], applied(f)) =
                IF last'[dir][2].digit # NoDigit /\ minDurationMs <= Lasted(last'[dir])
                THEN last'[dir][2].digit ELSE NoDigit
         /\ Reported(detector[dir], applied(f)) # NoDigit =>
              /\ detector'[dir].digit = Reported(detector[dir], applied(f))
              /\ minDurationMs <= detector'[dir].ms
         /\ Readable(f) =>
              /\ detector'[dir] = updateDuration(detector[dir], DigitOf(f), frameMs(f))
              /\ Reported(detector[dir], applied(f)) =
                   IF detector'[dir].digit # NoDigit /\ minDurationMs <= detector'[dir].ms
                   THEN detector'[dir].digit ELSE NoDigit
         /\ \A d \in Directions \ {dir} : detector'[d] = detector[d] /\ last'[d] = last[d]
<1> DEFINE g == applied(f)
           x == detector[dir]
           y == detect(x, g)
           p == last[dir]
           b == [digit |-> DigitOf(f), ms |-> frameMs(f)]
           q == IF Readable(f) THEN <<p[2], b>> ELSE p
           answer == Reported(x, g)
<1>1. x \in Detected /\ p \in Detected \X Detected
  BY DEF TapsTyped
<1>2. /\ y \in Detected /\ q \in Detected \X Detected /\ InStep(y, q)
      /\ answer \in Digits \cup {NoDigit}
      /\ Readable(f) =>
           answer = IF q[2].digit # NoDigit /\ minDurationMs <= Lasted(q)
                    THEN q[2].digit ELSE NoDigit
      /\ answer # NoDigit => y.digit = answer /\ minDurationMs <= y.ms
      /\ Readable(f) =>
           /\ y = updateDuration(x, DigitOf(f), frameMs(f))
           /\ answer = IF y.digit # NoDigit /\ minDurationMs <= y.ms THEN y.digit ELSE NoDigit
  <2>1. CASE f.odd
    <3>1. ~Readable(f) /\ g = f
      BY <2>1, OddIs
    <3>2. y = x /\ q = p /\ answer = NoDigit
      BY <3>1 DEF detect, Reported
    <3> QED
      BY <1>1, <3>1, <3>2
  <2>2. CASE ~f.odd
    <3>1. /\ Readable(f) /\ Readable(g) /\ g = AsAsked(f) /\ g \in S16Frame
          /\ g.samples = f.samples
      BY <2>2, AppliedIs
    <3>2. frameMs(g) = frameMs(f) /\ frameMs(f) \in Nat
      BY <3>1, FrameMsIs DEF frameMs
    <3>3. (IF g.samples = 0 THEN NoDigit ELSE detectedDigit(g)) = DigitOf(f)
      BY <3>1 DEF DigitOf
    <3>4. y = updateDuration(x, b.digit, b.ms)
      BY <3>1, <3>2, <3>3 DEF detect
    <3>5. DigitOf(f) \in Digits \cup {NoDigit}
      BY <3>1, DigitIs DEF DigitOf
    <3>6. b \in Detected /\ LongEnough(b)
      BY <3>2, <3>5 DEF ToneAsked, Detected
    <3>7. q = <<p[2], b>> /\ q[2] = b /\ q \in Detected \X Detected
      BY <1>1, <3>1, <3>6
    <3>8. b.digit # NoDigit => f.samples > 0
      BY <3>1 DEF DigitOf, S16Frame
    <3> HIDE DEF b, y, x, p, q
    <3>9. /\ y \in Detected /\ InStep(y, q)
          /\ y.digit # NoDigit => (minDurationMs <= y.ms <=> minDurationMs <= Lasted(q))
      BY <1>1, <3>4, <3>6, <3>7, DetectorStep DEF x, p
    <3>10. y.digit = b.digit /\ y.ms \in Nat /\ minDurationMs \in Nat
      BY <3>7, <3>9, DetectorAssumption DEF InStep, Detected
    <3>11. answer = IF y.digit # NoDigit /\ y.ms >= minDurationMs THEN y.digit ELSE NoDigit
      BY <3>1, <3>8, <3>10 DEF Reported, y
    <3>12. y = updateDuration(x, DigitOf(f), frameMs(f))
      BY <3>4 DEF b
    <3>13. answer = IF y.digit # NoDigit /\ minDurationMs <= y.ms THEN y.digit ELSE NoDigit
      BY <3>10, <3>11
    <3>14. answer \in Digits \cup {NoDigit}
      BY <3>9, <3>13 DEF Detected
    <3>15. answer = IF q[2].digit # NoDigit /\ minDurationMs <= Lasted(q)
                    THEN q[2].digit ELSE NoDigit
      BY <3>7, <3>9, <3>10, <3>13
    <3> HIDE DEF answer
    <3> QED
      BY <3>7, <3>9, <3>12, <3>13, <3>14, <3>15
  <2> QED
    BY <2>1, <2>2 DEF S16Frame
<1>3. detector' = [detector EXCEPT ![dir] = y]
  BY DEF goertzelHandle
<1>4. last' = [last EXCEPT ![dir] = q]
  BY DEF Listen, TapsTyped
<1> HIDE DEF y, q, answer
<1>5. detector'[dir] = y /\ last'[dir] = q
  BY <1>3, <1>4 DEF TapsTyped
<1>6. detector' \in [Directions -> Detected] /\ last' \in [Directions -> Detected \X Detected]
  BY <1>2, <1>3, <1>4 DEF TapsTyped
<1>7. \A d \in Directions \ {dir} : detector'[d] = detector[d] /\ last'[d] = last[d]
  BY <1>3, <1>4 DEF TapsTyped
<1> QED
  BY <1>2, <1>5, <1>6, <1>7 DEF answer

\* A frame passes the three handlers.
LEMMA HandleInv ==
  ASSUME TapsInv, NEW dir \in Directions, NEW f \in S16Frame, ToneAsked(f), handle(dir, f)
  PROVE  /\ gain' = gain
         /\ vad' \in [Directions -> [silence : 0 .. SilenceCap, wasActive : BOOLEAN]]
         /\ prevActive' \in [Directions -> BOOLEAN]
         /\ detector' \in [Directions -> Detected]
         /\ out' \in [Directions -> [readable : BOOLEAN, forwarded : BOOLEAN, marked : BOOLEAN,
                                     reported : Digits \cup {NoDigit}]]
         /\ quiet' \in [Directions -> 0 .. hangoverFrames + 1]
         /\ talk' \in [Directions -> [before : BOOLEAN, now : BOOLEAN]]
         /\ last' \in [Directions -> Detected \X Detected]
         /\ \A d \in Directions :
              VadInStep(d)' /\ InStep(detector[d], last[d])' /\ ReportStands(d)'
         /\ TalkspurtsAreMarked' /\ ReportedIffSteady'
         /\ Readable(f) =>
              /\ detector'[dir] = updateDuration(detector[dir], DigitOf(f), frameMs(f))
              /\ out'[dir].reported =
                   IF detector'[dir].digit # NoDigit /\ minDurationMs <= detector'[dir].ms
                   THEN detector'[dir].digit ELSE NoDigit
         /\ \A d \in Directions \ {dir} : detector'[d] = detector[d] /\ out'[d] = out[d]
<1> DEFINE g == applied(f)
           active == isActive(vad[dir], g)
           o == [readable |-> Readable(f), forwarded |-> Forwarded(dir, g),
                 marked |-> Marked(dir, g), reported |-> Reported(detector[dir], g)]
<1>1. /\ f # NoBuffer /\ g # NoBuffer /\ TapsTyped /\ GainAsAsked
      /\ VadInStep(dir) /\ InStep(detector[dir], last[dir])
  <2>1. f.odd => g = f
    BY OddIs
  <2>2. TapsTyped /\ GainAsAsked
    BY DEF TapsInv
  <2>3. ~f.odd => Readable(g)
    BY <2>2, AppliedIs
  <2> QED
    BY <2>1, <2>2, <2>3, FrameAssumption DEF TapsInv, Readable
<1>2. /\ goertzelHandle(dir, g) /\ vadHandle(dir, g) /\ gain' = gain
      /\ out' = [out EXCEPT ![dir] = o]
      /\ Listen(dir, f)
  BY <1>1 DEF handle
<1>3. /\ vad' \in [Directions -> [silence : 0 .. SilenceCap, wasActive : BOOLEAN]]
      /\ prevActive' \in [Directions -> BOOLEAN]
      /\ quiet' \in [Directions -> 0 .. hangoverFrames + 1]
      /\ talk' \in [Directions -> [before : BOOLEAN, now : BOOLEAN]]
      /\ VadInStep(dir)'
      /\ talk'[dir].now <=> active
      /\ talk'[dir].before <=> prevActive[dir]
      /\ \A d \in Directions \ {dir} :
           /\ vad'[d] = vad[d] /\ quiet'[d] = quiet[d]
           /\ prevActive'[d] = prevActive[d] /\ talk'[d] = talk[d]
  BY <1>1, <1>2, VadHandles
<1>4. /\ detector' \in [Directions -> Detected]
      /\ last' \in [Directions -> Detected \X Detected]
      /\ InStep(detector'[dir], last'[dir])
      /\ o.reported \in Digits \cup {NoDigit}
      /\ Readable(f) =>
           o.reported = IF last'[dir][2].digit # NoDigit /\ minDurationMs <= Lasted(last'[dir])
                        THEN last'[dir][2].digit ELSE NoDigit
      /\ o.reported # NoDigit =>
           detector'[dir].digit = o.reported /\ minDurationMs <= detector'[dir].ms
      /\ Readable(f) =>
           /\ detector'[dir] = updateDuration(detector[dir], DigitOf(f), frameMs(f))
           /\ o.reported =
                IF detector'[dir].digit # NoDigit /\ minDurationMs <= detector'[dir].ms
                THEN detector'[dir].digit ELSE NoDigit
      /\ \A d \in Directions \ {dir} : detector'[d] = detector[d] /\ last'[d] = last[d]
  BY <1>1, <1>2, DetectorHandles
<1>5. /\ o.forwarded <=> active \/ Mode = "MARK_ONLY"
      /\ o.marked <=> active /\ ~prevActive[dir]
      /\ o.readable <=> Readable(f)
      /\ o.forwarded \in BOOLEAN /\ o.marked \in BOOLEAN /\ o.readable \in BOOLEAN
  BY <1>1, Zenon DEF Forwarded, Marked, Readable
<1> HIDE DEF o, active
<1>6. out' \in [Directions -> [readable : BOOLEAN, forwarded : BOOLEAN, marked : BOOLEAN,
                               reported : Digits \cup {NoDigit}]]
  <2>1. o = [readable |-> o.readable, forwarded |-> o.forwarded, marked |-> o.marked,
             reported |-> o.reported]
    BY DEF o
  <2> QED
    BY <1>1, <1>2, <1>4, <1>5, <2>1 DEF TapsTyped
<1>7. out'[dir] = o /\ \A d \in Directions \ {dir} : out'[d] = out[d]
  BY <1>1, <1>2 DEF TapsTyped
<1>8. ASSUME NEW d \in Directions
      PROVE  VadInStep(d)' /\ InStep(detector[d], last[d])' /\ ReportStands(d)'
  <2>1. VadInStep(d)' /\ InStep(detector[d], last[d])'
    BY <1>3, <1>4 DEF TapsInv, VadInStep
  <2>2. ReportStands(d)'
    BY <1>4, <1>7 DEF TapsInv, ReportStands
  <2> QED
    BY <2>1, <2>2
<1>9. TalkspurtsAreMarked'
  BY <1>1, <1>3, <1>5, <1>7 DEF TapsInv, TalkspurtsAreMarked, TapsTyped
<1>10. ReportedIffSteady'
  <2>1. ReportedIffSteady
    BY DEF TapsInv
  <2> QED
    BY <1>4, <1>5, <1>7, <2>1 DEF ReportedIffSteady, Steady, Lasted
<1> QED
  BY <1>2, <1>3, <1>4, <1>6, <1>7, <1>8, <1>9, <1>10

-----------------------------------------------------------------------------
\* A buffer that is generated for a sequence.
LEMMA GenerateIs ==
  ASSUME NEW digit, NEW ms \in Nat, NEW level \in 0 .. MaxLevel,
         ((sampleRate * ms) \div 1000) % FrameSamples = 0
  PROVE  generate(digit, ms, level) \in Seq(Buffers)
<1> DEFINE n == (sampleRate * ms) \div 1000
           b == [samples |-> n, odd |-> FALSE, rms |-> level, low |-> digit[1],
                 lowMag |-> level, high |-> digit[2], highMag |-> level]
<1>1. n \in Nat
  <2>1. sampleRate * ms \in Nat
    BY DetectorAssumption
  <2> QED
    BY <2>1
<1>2. n % FrameSamples = 0
  OBVIOUS
<1> HIDE DEF n
<1>3. ASSUME digit \in Digits, n > 0 PROVE b \in Buffers
  <2>1. digit[1] \in 1 .. 4 /\ digit[2] \in 1 .. 4
    BY <1>3 DEF Digits
  <2> QED
    BY <1>1, <1>2, <1>3, <2>1 DEF Buffers, S16Frame
<1> HIDE DEF b
<1>4. generate(digit, ms, level) = IF digit \in Digits /\ n > 0 THEN <<b>> ELSE <<>>
  BY DEF generate, n, b
<1> QED
  BY <1>3, <1>4

LEMMA SilenceIs ==
  ASSUME NEW ms \in Nat
  PROVE  generateSilence(ms) \in Seq(Buffers)
<1> DEFINE n == (sampleRate * ms) \div 1000
           b == [samples |-> n, odd |-> FALSE, rms |-> 0, low |-> 1, lowMag |-> 0,
                 high |-> 1, highMag |-> 0]
<1>1. n \in Nat
  <2>1. sampleRate * ms \in Nat
    BY DetectorAssumption
  <2> QED
    BY <2>1
<1> HIDE DEF n
<1>2. n > 0 => b \in Buffers
  BY <1>1, FrameAssumption DEF Buffers, S16Frame
<1> HIDE DEF b
<1>3. generateSilence(ms) = IF n > 0 THEN <<b>> ELSE <<>>
  BY DEF generateSilence, n, b
<1> QED
  BY <1>2, <1>3

\* One more digit of a sequence, and the sequence after each digit.
Longer(d, result, digit) ==
  LET tone == generate(digit, d.toneMs, d.level)
      gap == IF result = <<>> THEN <<>> ELSE generateSilence(d.gapMs)
  IN  IF tone = <<>> THEN result ELSE result \o gap \o tone

Sequences(d) ==
  LET result[n \in 0 .. Len(d.digits)] ==
        IF n = 0 THEN <<>> ELSE Longer(d, result[n - 1], d.digits[n])
  IN  result

LEMMA LongerIs ==
  ASSUME NEW d \in Dials, NEW s \in Seq(Buffers), NEW digit
  PROVE  Longer(d, s, digit) \in Seq(Buffers)
<1>1. /\ d.toneMs \in Nat /\ d.gapMs \in Nat /\ d.level \in 0 .. MaxLevel
      /\ ((sampleRate * d.toneMs) \div 1000) % FrameSamples = 0
  BY CallAssumption, TwoFramesSuffice
<1> DEFINE tone == generate(digit, d.toneMs, d.level)
           gap == IF s = <<>> THEN <<>> ELSE generateSilence(d.gapMs)
<1>2. tone \in Seq(Buffers) /\ gap \in Seq(Buffers)
  BY <1>1, GenerateIs, SilenceIs
<1>3. Longer(d, s, digit) = IF tone = <<>> THEN s ELSE s \o gap \o tone
  BY DEF Longer
<1> HIDE DEF tone, gap
<1> QED
  BY <1>2, <1>3

LEMMA SequencesAre ==
  ASSUME NEW d \in Dials
  PROVE  /\ Sequences(d) \in [0 .. Len(d.digits) -> Seq(Buffers)]
         /\ Sequences(d)[0] = <<>>
         /\ \A n \in 0 .. Len(d.digits) - 1 :
              Sequences(d)[n + 1] = Longer(d, Sequences(d)[n], d.digits[n + 1])
         /\ generateSequence(d.digits, d.toneMs, d.gapMs, d.level) =
              Sequences(d)[Len(d.digits)]
<1> DEFINE N == Len(d.digits)
           E == Seq(Buffers)
           F == [z \in Nat \X E |-> Longer(d, z[2], d.digits[z[1] + 1])]
           Equation(f) ==
             f = [n \in 0 .. N |-> IF n = 0 THEN <<>> ELSE Longer(d, f[n - 1], d.digits[n])]
<1>1. N \in Nat /\ <<>> \in E
  BY CallAssumption
<1>2. F \in [Nat \X E -> E]
  BY LongerIs
<1>3. PICK g \in [0 .. N -> E] : g[0] = <<>> /\ \A n \in 0 .. N - 1 : g[n + 1] = F[<<n, g[n]>>]
  <2> HIDE DEF N, F, E
  <2>1. Solutions(N, E, <<>>, F) # {}
    BY <1>1, <1>2, RecursionTo
  <2> QED
    BY <2>1 DEF Solutions
<1>4. \A n \in 0 .. N - 1 : g[n + 1] = Longer(d, g[n], d.digits[n + 1])
  <2> TAKE n \in 0 .. N - 1
  <2> HIDE DEF E, N
  <2>1. n \in Nat /\ g[n] \in E /\ g[n + 1] = F[<<n, g[n]>>]
    <3> HIDE DEF F
    <3> QED
      BY <1>1, <1>3
  <2> QED
    BY <2>1
<1>5. Equation(g)
  <2>1. \A n \in 0 .. N : g[n] = IF n = 0 THEN <<>> ELSE Longer(d, g[n - 1], d.digits[n])
    <3> TAKE n \in 0 .. N
    <3>1. CASE n = 0
      BY <1>3, <3>1
    <3>2. CASE n # 0
      <4>1. n - 1 \in 0 .. N - 1 /\ (n - 1) + 1 = n
        BY <1>1, <3>2
      <4> QED
        BY <1>4, <3>2, <4>1
    <3> QED
      BY <3>1, <3>2
  <2> QED
    BY <2>1
<1>6. Sequences(d) = CHOOSE f : Equation(f)
  BY DEF Sequences
<1>7. Equation(Sequences(d))
  <2> HIDE DEF Equation
  <2> QED
    BY <1>5, <1>6
<1>8. generateSequence(d.digits, d.toneMs, d.gapMs, d.level) = Sequences(d)[N]
  BY DEF generateSequence, Sequences, Longer
<1> DEFINE s == Sequences(d)
<1> HIDE DEF s
<1>9. s = [n \in 0 .. N |-> IF n = 0 THEN <<>> ELSE Longer(d, s[n - 1], d.digits[n])]
  BY <1>7 DEF s
<1> HIDE DEF N
<1>10. s[0] = <<>>
  BY <1>1, <1>9
<1>11. \A n \in 0 .. N - 1 : s[n + 1] = Longer(d, s[n], d.digits[n + 1])
  BY <1>1, <1>9
<1> HIDE DEF E
<1>12. s \in [0 .. N -> E]
  <2> DEFINE T == {n \in 0 .. N : s[n] \in E}
  <2>1. 0 \in T
    BY <1>1, <1>10
  <2>2. \A n \in 0 .. N - 1 : n \in T => n + 1 \in T
    BY <1>1, <1>11, LongerIs DEF E
  <2> HIDE DEF T
  <2>3. 0 .. N \subseteq T
    BY <1>1, <2>1, <2>2, InductionTo
  <2>4. \A n \in 0 .. N : s[n] \in E
    BY <2>3 DEF T
  <2> QED
    BY <1>9, <2>4
<1> QED
  BY <1>8, <1>10, <1>11, <1>12 DEF s, N, E

LEMMA MultipleIs ==
  ASSUME NEW k \in Nat \ {0}, NEW j \in Int
  PROVE  (k * j) % k = 0 /\ (k * j) \div k = j
<1>1. 0 \in 0 .. k - 1 /\ k * j + 0 = k * j
  OBVIOUS
<1> QED
  BY <1>1, DivisionIs

\* A buffer that fills its frames has one frame less after each.
LEMMA LessByOne ==
  ASSUME NEW n \in Nat, NEW k \in Nat \ {0}, n % k = 0, n > k
  PROVE  /\ (n - k) % k = 0 /\ (n - k) \div k = (n \div k) - 1
         /\ n >= 2 * k
<1> DEFINE q == n \div k
<1>1. q \in Nat /\ n = k * q
  OBVIOUS
<1> HIDE DEF q
<1> DEFINE j == q - 1
<1>2. j \in Int /\ n - k = k * j /\ q >= 2
  BY <1>1
<1> HIDE DEF j
<1>3. (n - k) % k = 0 /\ (n - k) \div k = j
  BY <1>2, MultipleIs
<1> QED
  BY <1>1, <1>2, <1>3 DEF q, j

\* The next frame of a sequence, and what is left of it.
LEMMA NextFrameIs ==
  ASSUME line \in Seq(Buffers), line # <<>>
  PROVE  /\ nextFrame \in S16Frame /\ ~nextFrame.odd /\ nextFrame.samples > 0
         /\ nextFrame.samples = IF Head(line).samples > FrameSamples THEN FrameSamples
                                ELSE Head(line).samples
         /\ nextFrame.rms = Head(line).rms
         /\ nextFrame.low = Head(line).low /\ nextFrame.high = Head(line).high
         /\ nextFrame.lowMag = Head(line).lowMag /\ nextFrame.highMag = Head(line).highMag
         /\ afterFrame \in Seq(Buffers)
         /\ Head(line).lowMag = 0 \/ nextFrame.samples = FrameSamples
<1> DEFINE b == line[1]
<1>1. Head(line) = b /\ b \in Buffers /\ 1 \in 1 .. Len(line)
  OBVIOUS
<1>2. /\ FrameSamples \in Nat \ {0} /\ b \in S16Frame /\ b.samples \in Nat \ {0} /\ ~b.odd
      /\ b.lowMag = 0 \/ b.samples % FrameSamples = 0
  BY <1>1, CallAssumption DEF Buffers, S16Frame
<1>3. Min({FrameSamples, b.samples}) = IF FrameSamples <= b.samples THEN FrameSamples ELSE b.samples
  BY <1>2, MinIs
<1> DEFINE n == IF b.samples > FrameSamples THEN FrameSamples ELSE b.samples
<1>4. nextFrame = [b EXCEPT !.samples = n]
  <2>1. Min({FrameSamples, b.samples}) = n
    BY <1>2, <1>3
  <2> QED
    BY <1>1, <2>1 DEF nextFrame
<1>5. n \in Nat /\ n > 0
  BY <1>2
<1>6. b.lowMag = 0 \/ n = FrameSamples
  <2>1. ASSUME b.samples % FrameSamples = 0, b.samples < FrameSamples PROVE FALSE
    <3>1. b.samples % FrameSamples = b.samples
      BY <1>2, <2>1
    <3> QED
      BY <1>2, <2>1, <3>1
  <2> QED
    BY <1>2, <2>1
<1>7. afterFrame \in Seq(Buffers)
  <2>1. CASE b.samples > FrameSamples
    <3> DEFINE rest == b.samples - FrameSamples
               c == [b EXCEPT !.samples = rest]
    <3>1. rest \in Nat \ {0}
      BY <1>2, <2>1
    <3>2. b.samples % FrameSamples = 0 => rest % FrameSamples = 0
      BY <1>2, <2>1, LessByOne
    <3>3. afterFrame = [line EXCEPT ![1] = c]
      BY <1>1, <2>1 DEF afterFrame
    <3> HIDE DEF rest
    <3>4. c \in S16Frame /\ c.samples = rest /\ c.lowMag = b.lowMag /\ c.odd = b.odd
      BY <1>2, <3>1 DEF S16Frame
    <3>5. c \in Buffers
      <4> HIDE DEF c
      <4> QED
        BY <1>2, <3>1, <3>2, <3>4 DEF Buffers
    <3> HIDE DEF c
    <3> QED
      BY <3>3, <3>5
  <2>2. CASE ~(b.samples > FrameSamples)
    BY <1>1, <2>2 DEF afterFrame
  <2> QED
    BY <2>1, <2>2
<1> HIDE DEF n
<1>8. /\ nextFrame \in S16Frame /\ nextFrame.samples = n /\ ~nextFrame.odd
      /\ nextFrame.rms = b.rms
      /\ nextFrame.low = b.low /\ nextFrame.high = b.high
      /\ nextFrame.lowMag = b.lowMag /\ nextFrame.highMag = b.highMag
  BY <1>2, <1>4, <1>5 DEF S16Frame
<1> QED
  BY <1>1, <1>5, <1>6, <1>7, <1>8 DEF n

-----------------------------------------------------------------------------
LEMMA TapsInitInv == TapsInit => TapsInv
<1> SUFFICES ASSUME TapsInit PROVE TapsInv
  OBVIOUS
<1>1. PICK k \in Gains : k >= 0 /\ gain = [gain |-> k, previousGain |-> k, muted |-> FALSE]
  BY DEF TapsInit, GainInit
<1>2. k \in Nat /\ hangoverFrames \in 0 .. SilenceCap - 1 /\ SilenceCap \in Nat
  BY <1>1, GainAssumption, VadAssumption
<1>3. Pause \in Detected /\ FreshDetector \in Detected
  BY DEF Pause, FreshDetector, Detected
<1>4. FreshVad \in [silence : 0 .. SilenceCap, wasActive : BOOLEAN] /\ ~FreshVad.wasActive
  BY <1>2 DEF FreshVad
<1>5. TapsTyped
  <2>1. gain \in [gain : Nat, previousGain : Nat, muted : BOOLEAN] /\ asked \in [gain : Nat, muted : BOOLEAN]
    BY <1>1, <1>2 DEF TapsInit
  <2>2. /\ vad \in [Directions -> [silence : 0 .. SilenceCap, wasActive : BOOLEAN]]
        /\ prevActive \in [Directions -> BOOLEAN]
    BY <1>4 DEF TapsInit, VadInit
  <2>3. /\ detector \in [Directions -> Detected]
        /\ last \in [Directions -> Detected \X Detected]
    BY <1>3 DEF TapsInit, DetectorInit, Both
  <2>4. out \in [Directions -> [readable : BOOLEAN, forwarded : BOOLEAN, marked : BOOLEAN,
                                reported : Digits \cup {NoDigit}]]
    <3> DEFINE mode == Mode = "MARK_ONLY"
    <3>1. mode \in BOOLEAN
      OBVIOUS
    <3>2. out = [d \in Directions |-> [readable |-> FALSE, forwarded |-> mode, marked |-> FALSE,
                                       reported |-> NoDigit]]
      BY DEF TapsInit, Both
    <3> HIDE DEF mode
    <3> QED
      BY <3>1, <3>2
  <2>5. quiet \in [Directions -> 0 .. hangoverFrames + 1]
    BY <1>2 DEF TapsInit, Both
  <2>6. talk \in [Directions -> [before : BOOLEAN, now : BOOLEAN]]
    BY DEF TapsInit, Both
  <2>7. /\ line \in Seq(Buffers) /\ dialled \in Seq(Nat \X Nat)
        /\ reports \in [digits : Seq(Digits), disturbed : BOOLEAN]
    BY DEF TapsInit
  <2> QED
    BY <2>1, <2>2, <2>3, <2>4, <2>5, <2>6, <2>7 DEF TapsTyped
<1>6. GainAsAsked
  BY <1>1 DEF TapsInit, GainAsAsked
<1>7. ASSUME NEW d \in Directions PROVE VadInStep(d)
  <2>1. vad[d] = FreshVad /\ quiet[d] = hangoverFrames + 1 /\ prevActive[d] = FALSE
        /\ talk[d].now = FALSE
    BY DEF TapsInit, VadInit, Both
  <2> QED
    BY <1>2, <1>4, <2>1 DEF VadInStep
<1>8. ASSUME NEW d \in Directions PROVE InStep(detector[d], last[d])
  BY DEF TapsInit, DetectorInit, Both, FreshDetector, Pause, InStep, LongEnough
<1>9. ASSUME NEW d \in Directions PROVE ReportStands(d)
  BY DEF TapsInit, Both, ReportStands
<1>10. TalkspurtsAreMarked
  BY DEF TapsInit, Both, TalkspurtsAreMarked
<1>11. ReportedIffSteady
  BY DEF TapsInit, Both, ReportedIffSteady
<1> QED
  BY <1>5, <1>6, <1>7, <1>8, <1>9, <1>10, <1>11 DEF TapsInv

\* What a frame leaves as it should be.
LEMMA ArriveInv ==
  ASSUME TapsInv, NEW dir \in Directions, NEW f \in Frames[dir] \cup {NoBuffer}, arrive(dir, f)
  PROVE  TapsInv'
<1>1. handle(dir, f) /\ UNCHANGED <<line, asked, dialled, reports>>
  BY DEF arrive
<1>2. CASE f = NoBuffer
  <2>1. UNCHANGED <<taps, out, quiet, talk, last>>
    BY <1>1, <1>2 DEF handle
  <2> QED
    BY <1>1, <2>1 DEF TapsInv, TapsTyped, GainAsAsked, VadInStep, ReportStands,
      TalkspurtsAreMarked, ReportedIffSteady, Steady, taps
<1>3. CASE f # NoBuffer
  <2>1. f \in Frames[dir] /\ f \in S16Frame /\ minDurationMs \in Nat
    BY <1>3, CallAssumption, DetectorAssumption
  <2>2. f.samples # 0 => minDurationMs <= 2 * frameMs(f)
    BY <2>1, TwoFramesSuffice DEF S16Frame
  <2>3. ToneAsked(f)
    BY <2>2 DEF ToneAsked, LongEnough, DigitOf
  <2> QED
    BY <1>1, <2>1, <2>3, HandleInv DEF TapsInv, TapsTyped, GainAsAsked
<1> QED
  BY <1>2, <1>3

LEMMA DialKeepsInv == ASSUME TapsInv, NEW d \in Dials, dial(d) PROVE TapsInv'
<1>1. /\ line' = generateSequence(d.digits, d.toneMs, d.gapMs, d.level) /\ dialled' = d.digits
      /\ reports' = [digits |-> <<>>, disturbed |-> FALSE]
      /\ UNCHANGED <<taps, out, asked, quiet, talk, last>>
  BY DEF dial
<1>2. d.digits \in Seq(Nat \X Nat)
  BY CallAssumption
<1>3. line' \in Seq(Buffers)
  <2>1. Len(d.digits) \in 0 .. Len(d.digits)
    BY <1>2
  <2> QED
    BY <1>1, <2>1, SequencesAre
<1>4. reports' \in [digits : Seq(Digits), disturbed : BOOLEAN]
  BY <1>1
<1>5. TapsTyped'
  BY <1>1, <1>2, <1>3, <1>4 DEF TapsInv, TapsTyped, taps
<1> QED
  BY <1>1, <1>5 DEF TapsInv, GainAsAsked, VadInStep, ReportStands, TalkspurtsAreMarked,
    ReportedIffSteady, Steady, taps

\* The frame that is played is as long as a tone's, or there is no tone in it.
LEMMA NextFrameToneAsked ==
  ASSUME TapsInv, line # <<>>
  PROVE  ToneAsked(nextFrame)
<1>1. /\ nextFrame \in S16Frame /\ ~nextFrame.odd
      /\ nextFrame.lowMag = 0 \/ nextFrame.samples = FrameSamples
  BY NextFrameIs DEF TapsInv, TapsTyped
<1>2. CASE nextFrame.lowMag = 0
  <2>1. AsAsked(nextFrame) \in S16Frame /\ AsAsked(nextFrame).lowMag = 0
    BY <1>1, <1>2, AppliedIs DEF TapsInv
  <2>2. DigitOf(nextFrame) = NoDigit
    BY <2>1, DigitIs DEF DigitOf
  <2> QED
    BY <2>2 DEF ToneAsked, LongEnough
<1>3. CASE nextFrame.samples = FrameSamples
  BY <1>3, TwoFramesSuffice DEF ToneAsked, LongEnough, frameMs
<1> QED
  BY <1>1, <1>2, <1>3

LEMMA PlayInv == ASSUME TapsInv, play PROVE TapsInv'
<1>1. /\ line # <<>> /\ handle("incoming", nextFrame) /\ line' = afterFrame
      /\ UNCHANGED <<asked, dialled>>
  BY DEF play
<1>2. nextFrame \in S16Frame /\ ToneAsked(nextFrame) /\ afterFrame \in Seq(Buffers)
  BY <1>1, NextFrameIs, NextFrameToneAsked DEF TapsInv, TapsTyped
<1>3. "incoming" \in Directions
  BY DEF Directions
<1>4. out' \in [Directions -> [readable : BOOLEAN, forwarded : BOOLEAN, marked : BOOLEAN,
                               reported : Digits \cup {NoDigit}]]
  BY <1>1, <1>2, <1>3, HandleInv
<1>5. reports' \in [digits : Seq(Digits), disturbed : BOOLEAN]
  <2> DEFINE o == out'["incoming"].reported
             ds == IF o = NoDigit \/ out["incoming"].reported # NoDigit THEN reports.digits
                   ELSE Append(reports.digits, o)
             dist == reports.disturbed \/ (nextFrame.rms > 0 /\ DigitOf(nextFrame) = NoDigit)
  <2>1. o \in Digits \cup {NoDigit}
    BY <1>3, <1>4
  <2>2. reports' = [digits |-> ds, disturbed |-> dist]
    BY DEF play
  <2>3. reports.digits \in Seq(Digits) /\ reports.disturbed \in BOOLEAN
    BY DEF TapsInv, TapsTyped
  <2> HIDE DEF o
  <2>4. ds \in Seq(Digits)
    BY <2>1, <2>3
  <2>5. dist \in BOOLEAN
    BY <2>3
  <2> HIDE DEF ds, dist
  <2> QED
    BY <2>2, <2>4, <2>5
<1> QED
  BY <1>1, <1>2, <1>3, <1>5, HandleInv DEF TapsInv, TapsTyped, GainAsAsked

LEMMA ControlInv == ASSUME TapsInv, control PROVE TapsInv'
<1>1. UNCHANGED <<vad, prevActive, detector, line, out, quiet, talk, last, dialled, reports>>
  BY DEF control
<1>2. gain \in [gain : Nat, previousGain : Nat, muted : BOOLEAN] /\ asked \in [gain : Nat, muted : BOOLEAN]
      /\ GainAsAsked
  BY DEF TapsInv, TapsTyped
<1>3. /\ gain' \in [gain : Nat, previousGain : Nat, muted : BOOLEAN]
      /\ asked' \in [gain : Nat, muted : BOOLEAN]
      /\ GainAsAsked'
  <2> DEFINE G == [gain : Nat, previousGain : Nat, muted : BOOLEAN]
             A == [gain : Nat, muted : BOOLEAN]
  <2>1. ASSUME NEW k \in Gains, setGain(k), asked' = [asked EXCEPT !.gain = k]
        PROVE  gain' \in G /\ asked' \in A /\ GainAsAsked'
    <3>1. k \in Nat
      BY <2>1, GainAssumption DEF setGain
    <3> QED
      BY <1>2, <2>1, <3>1 DEF setGain, GainAsAsked
  <2>2. ASSUME mute, asked' = [asked EXCEPT !.muted = TRUE] 
        PROVE  gain' \in G /\ asked' \in A /\ GainAsAsked'
    BY <1>2, <2>2 DEF mute, GainAsAsked
  <2>3. ASSUME unmute, asked' = [asked EXCEPT !.muted = FALSE] 
        PROVE  gain' \in G /\ asked' \in A /\ GainAsAsked'
    BY <1>2, <2>3 DEF unmute, GainAsAsked
  <2> QED
    BY <2>1, <2>2, <2>3 DEF control
<1>4. TapsTyped'
  BY <1>1, <1>3 DEF TapsInv, TapsTyped
<1> QED
  BY <1>1, <1>3, <1>4 DEF TapsInv, VadInStep, ReportStands, TalkspurtsAreMarked,
    ReportedIffSteady, Steady

LEMMA ResetInv == ASSUME TapsInv, NEW dir \in Directions, reset(dir) PROVE TapsInv'
<1>1. UNCHANGED <<gain, line, asked, talk, dialled>> /\ GainAsAsked'
  BY DEF reset, TapsInv, GainAsAsked
<1>2. CASE /\ resetVad(dir) /\ quiet' = [quiet EXCEPT ![dir] = hangoverFrames + 1]
           /\ UNCHANGED <<detector, out, last, reports>>
  <2>1. FreshVad \in [silence : 0 .. SilenceCap, wasActive : BOOLEAN] /\ ~FreshVad.wasActive
        /\ hangoverFrames + 1 \in 0 .. hangoverFrames + 1 /\ hangoverFrames \in Nat
    BY VadAssumption DEF FreshVad
  <2>2. vad' = [vad EXCEPT ![dir] = FreshVad] /\ prevActive' = prevActive
    BY <1>2 DEF resetVad
  <2>3. TapsTyped'
    BY <1>1, <1>2, <2>1, <2>2 DEF TapsInv, TapsTyped
  <2>4. ASSUME NEW d \in Directions PROVE VadInStep(d)'
    <3>1. CASE d = dir
      <4>1. vad'[d] = FreshVad /\ quiet'[d] = hangoverFrames + 1
        BY <1>2, <2>2, <3>1 DEF TapsInv, TapsTyped
      <4> QED
        BY <1>1, <2>1, <2>2, <4>1 DEF TapsInv, VadInStep
    <3>2. CASE d # dir
      BY <1>1, <1>2, <2>2, <3>2 DEF TapsInv, TapsTyped, VadInStep
    <3> QED
      BY <3>1, <3>2
  <2> QED
    BY <1>1, <1>2, <2>3, <2>4 DEF TapsInv, ReportStands, TalkspurtsAreMarked,
      ReportedIffSteady, Steady
<1>3. CASE /\ resetDetector(dir) /\ last' = [last EXCEPT ![dir] = <<Pause, Pause>>]
           /\ out' = [out EXCEPT ![dir].readable = FALSE, ![dir].reported = NoDigit]
           /\ reports' = [reports EXCEPT !.disturbed = @ \/ dir = "incoming"]
           /\ UNCHANGED <<vad, prevActive, quiet>>
  <2> DEFINE o == [out[dir] EXCEPT !.readable = FALSE, !.reported = NoDigit]
  <2>1. /\ Pause \in Detected /\ FreshDetector \in Detected
        /\ <<Pause, Pause>> \in Detected \X Detected
        /\ InStep(FreshDetector, <<Pause, Pause>>)
    BY DEF Pause, FreshDetector, Detected, InStep, LongEnough
  <2>2. /\ out[dir] \in [readable : BOOLEAN, forwarded : BOOLEAN, marked : BOOLEAN,
                         reported : Digits \cup {NoDigit}]
    BY DEF TapsInv, TapsTyped
  <2>3. /\ o \in [readable : BOOLEAN, forwarded : BOOLEAN, marked : BOOLEAN,
                  reported : Digits \cup {NoDigit}]
        /\ o.forwarded = out[dir].forwarded /\ o.marked = out[dir].marked /\ ~o.readable
    BY <2>2
  <2>4. out' = [out EXCEPT ![dir] = o]
    BY <1>3 DEF TapsInv, TapsTyped
  <2> HIDE DEF o
  <2>5. detector' = [detector EXCEPT ![dir] = FreshDetector]
    BY <1>3 DEF resetDetector
  <2>6. reports' \in [digits : Seq(Digits), disturbed : BOOLEAN]
    BY <1>3 DEF TapsInv, TapsTyped
  <2>7. TapsTyped'
    BY <1>1, <1>3, <2>1, <2>3, <2>4, <2>5, <2>6 DEF TapsInv, TapsTyped
  <2>8. ASSUME NEW d \in Directions PROVE InStep(detector[d], last[d])'
    <3>1. CASE d = dir
      BY <1>3, <2>1, <2>5, <3>1 DEF TapsInv, TapsTyped
    <3>2. CASE d # dir
      BY <1>3, <2>5, <3>2 DEF TapsInv, TapsTyped
    <3> QED
      BY <3>1, <3>2
  <2>9. out'[dir] = o /\ \A d \in Directions \ {dir} : out'[d] = out[d] /\ last'[d] = last[d]
    BY <1>3, <2>4 DEF TapsInv, TapsTyped
  <2>10. TalkspurtsAreMarked'
    BY <1>1, <2>3, <2>9 DEF TapsInv, TalkspurtsAreMarked
  <2>11. ReportedIffSteady'
    BY <2>3, <2>9 DEF TapsInv, ReportedIffSteady, Steady
  <2>12. ASSUME NEW d \in Directions PROVE ReportStands(d)'
    <3>1. CASE d = dir
      BY <2>2, <2>9, <3>1 DEF ReportStands, o
    <3>2. CASE d # dir
      BY <2>5, <2>9, <3>2 DEF TapsInv, TapsTyped, ReportStands
    <3> QED
      BY <3>1, <3>2
  <2> QED
    BY <1>1, <1>3, <2>7, <2>8, <2>10, <2>11, <2>12 DEF TapsInv, VadInStep
<1> QED
  BY <1>2, <1>3 DEF reset

-----------------------------------------------------------------------------
(***************************************************************************)
(* A sequence that is dialled.  At position i of the line there is a tone  *)
(* if i is odd, and a gap otherwise; Heard says how far it has come.       *)
(***************************************************************************)
ToneSamples(d) == (sampleRate * d.toneMs) \div 1000
GapSamples(d) == (sampleRate * d.gapMs) \div 1000
ToneOf(d, digit) ==
  [samples |-> ToneSamples(d), odd |-> FALSE, rms |-> d.level, low |-> digit[1],
   lowMag |-> d.level, high |-> digit[2], highMag |-> d.level]
GapOf(d) ==
  [samples |-> GapSamples(d), odd |-> FALSE, rms |-> 0, low |-> 1, lowMag |-> 0,
   high |-> 1, highMag |-> 0]

At(d, V, i) == IF i % 2 = 1 THEN ToneOf(d, V[(i + 1) \div 2]) ELSE GapOf(d)
Whole(V) == IF Len(V) = 0 THEN 0 ELSE 2 * Len(V) - 1
IsLine(d, V, s) == Len(s) = Whole(V) /\ \A i \in 1 .. Len(s) : s[i] = At(d, V, i)

\* How long the full frames of a buffer last.
FramesMs(n) == (n \div FrameSamples) * ((FrameSamples * 1000) \div sampleRate)

LEMMA DialIs ==
  ASSUME NEW d \in Dials
  PROVE  /\ d.digits \in Seq(Nat \X Nat) /\ d.toneMs \in Nat /\ d.gapMs \in Nat
         /\ d.level \in 1 .. MaxLevel
         /\ ToneSamples(d) \in Nat \ {0} /\ ToneSamples(d) % FrameSamples = 0
         /\ GapSamples(d) \in Nat \ {0}
         /\ minDurationMs <= FramesMs(ToneSamples(d))
<1>1. /\ d.digits \in Seq(Nat \X Nat) /\ d.toneMs \in Nat /\ d.gapMs \in Nat
      /\ d.level \in 1 .. MaxLevel
  BY CallAssumption, DialsAreHeard
<1>2. sampleRate * d.toneMs \in Nat /\ sampleRate * d.gapMs \in Nat
  BY <1>1, DetectorAssumption
<1>3. ToneSamples(d) \in Nat /\ GapSamples(d) \in Nat
  BY <1>2 DEF ToneSamples, GapSamples
<1>4. ToneSamples(d) > 0 /\ GapSamples(d) > 0 /\ minDurationMs <= FramesMs(ToneSamples(d))
  BY DialsAreHeard DEF ToneSamples, GapSamples, FramesMs
<1>5. ToneSamples(d) % FrameSamples = 0
  BY TwoFramesSuffice DEF ToneSamples
<1> QED
  BY <1>1, <1>3, <1>4, <1>5

LEMMA NoDigitIs == NoDigit \notin Digits /\ \A digit \in Digits : digit = <<digit[1], digit[2]>>
<1>1. ASSUME NEW digit \in Digits PROVE digit = <<digit[1], digit[2]>> /\ digit # NoDigit
  BY DEF Digits, NoDigit
<1> QED
  BY <1>1

\* One more digit.
LEMMA LongerLine ==
  ASSUME NEW d \in Dials, NEW V \in Seq(Digits), NEW s \in Seq(Buffers), IsLine(d, V, s),
         NEW digit
  PROVE  IsLine(d, IF digit \in Digits THEN Append(V, digit) ELSE V, Longer(d, s, digit))
<1> DEFINE tone == generate(digit, d.toneMs, d.level)
           gap == IF s = <<>> THEN <<>> ELSE generateSilence(d.gapMs)
           W == Append(V, digit)
<1>1. Longer(d, s, digit) = IF tone = <<>> THEN s ELSE s \o gap \o tone
  BY DEF Longer
<1>2. ToneSamples(d) > 0 /\ GapSamples(d) > 0
  BY DialIs
<1>3. tone = IF digit \in Digits THEN <<ToneOf(d, digit)>> ELSE <<>>
  BY <1>2 DEF generate, ToneOf, ToneSamples
<1>4. generateSilence(d.gapMs) = <<GapOf(d)>>
  BY <1>2 DEF generateSilence, GapOf, GapSamples
<1>5. CASE digit \notin Digits
  BY <1>1, <1>3, <1>5
<1>6. CASE digit \in Digits
  <2> DEFINE n == Len(V)
  <2>1. /\ W \in Seq(Digits) /\ Len(W) = n + 1 /\ n \in Nat
        /\ W[n + 1] = digit /\ \A i \in 1 .. n : W[i] = V[i]
    BY <1>6
  <2>2. Longer(d, s, digit) = s \o gap \o <<ToneOf(d, digit)>>
    BY <1>1, <1>3, <1>6
  <2> HIDE DEF W
  <2>3. CASE n = 0
    <3>1. s = <<>> /\ Len(s) = 0
      BY <2>3 DEF IsLine, Whole
    <3>2. Longer(d, s, digit) = <<ToneOf(d, digit)>>
      BY <2>2, <3>1
    <3>3. Whole(W) = 1 /\ At(d, W, 1) = ToneOf(d, digit)
      BY <2>1, <2>3 DEF Whole, At
    <3> QED
      BY <1>6, <3>2, <3>3 DEF IsLine, W
  <2>4. CASE n > 0
    <3> DEFINE g == GapOf(d)
               t == ToneOf(d, digit)
               k == Len(s)
               z == s \o <<g>> \o <<t>>
    <3>1. k = 2 * n - 1 /\ s # <<>> /\ \A i \in 1 .. k : s[i] = At(d, V, i)
      BY <2>1, <2>4 DEF IsLine, Whole
    <3>2. Longer(d, s, digit) = z
      BY <1>4, <2>2, <3>1
    <3>3. /\ Len(z) = k + 2 /\ z[k + 1] = g /\ z[k + 2] = t
          /\ \A i \in 1 .. k : z[i] = s[i]
      <4> HIDE DEF g, t
      <4> DEFINE y == s \o <<g>>
      <4>1. y = Append(s, g) /\ Len(y) = k + 1 /\ y[k + 1] = g /\ \A i \in 1 .. k : y[i] = s[i]
        OBVIOUS
      <4>2. y \in Seq(Buffers \cup {g})
        BY <4>1
      <4> HIDE DEF y
      <4>3. z = Append(y, t)
        BY <4>2 DEF y
      <4> QED
        BY <4>1, <4>2, <4>3
    <3> HIDE DEF z
    <3>4. ASSUME NEW i \in 1 .. k PROVE At(d, W, i) = At(d, V, i)
      <4>1. i % 2 = 1 => (i + 1) \div 2 \in 1 .. n
        BY <2>1, <3>1
      <4> QED
        BY <2>1, <4>1 DEF At
    <3>5. At(d, W, k + 1) = g
      <4>1. (k + 1) % 2 = 0
        BY <2>1, <3>1
      <4> QED
        BY <4>1 DEF At
    <3>6. At(d, W, k + 2) = t
      <4>1. (k + 2) % 2 = 1 /\ (k + 2 + 1) \div 2 = n + 1
        BY <2>1, <3>1
      <4> QED
        BY <2>1, <4>1 DEF At
    <3>7. Whole(W) = k + 2
      BY <2>1, <3>1 DEF Whole
    <3>8. \A i \in 1 .. k + 2 : z[i] = At(d, W, i)
      <4>0. k \in Nat
        OBVIOUS
      <4> HIDE DEF k
      <4> TAKE i \in 1 .. k + 2
      <4>1. i \in 1 .. k \/ i = k + 1 \/ i = k + 2
        BY <4>0
      <4>2. CASE i \in 1 .. k
        BY <3>1, <3>3, <3>4, <4>2
      <4>3. CASE i = k + 1
        BY <3>3, <3>5, <4>3
      <4>4. CASE i = k + 2
        BY <3>3, <3>6, <4>4
      <4> QED
        BY <4>1, <4>2, <4>3, <4>4
    <3> QED
      BY <1>6, <3>2, <3>3, <3>7, <3>8 DEF IsLine, W
  <2> QED
    BY <2>1, <2>3, <2>4
<1> QED
  BY <1>5, <1>6

\* The valid digits, after each digit.
Valids(digits) ==
  LET valid[n \in 0 .. Len(digits)] ==
        IF n = 0 THEN <<>>
        ELSE IF digits[n] \in Digits THEN Append(valid[n - 1], digits[n]) ELSE valid[n - 1]
  IN  valid

LEMMA ValidsAre ==
  ASSUME NEW digits \in Seq(Nat \X Nat)
  PROVE  /\ Valids(digits) \in [0 .. Len(digits) -> Seq(Digits)]
         /\ Valids(digits)[0] = <<>>
         /\ \A n \in 0 .. Len(digits) - 1 :
              Valids(digits)[n + 1] =
                IF digits[n + 1] \in Digits THEN Append(Valids(digits)[n], digits[n + 1])
                ELSE Valids(digits)[n]
         /\ ValidDigits(digits) = Valids(digits)[Len(digits)]
<1> DEFINE N == Len(digits)
           E == Seq(Digits)
           next(v, n) == IF digits[n] \in Digits THEN Append(v, digits[n]) ELSE v
           F == [z \in Nat \X E |-> next(z[2], z[1] + 1)]
           Equation(f) == f = [n \in 0 .. N |-> IF n = 0 THEN <<>> ELSE next(f[n - 1], n)]
<1>1. N \in Nat /\ <<>> \in E
  OBVIOUS
<1>2. \A v \in E : \A n : next(v, n) \in E
  OBVIOUS
<1>3. F \in [Nat \X E -> E]
  BY <1>2
<1>4. PICK g \in [0 .. N -> E] : g[0] = <<>> /\ \A n \in 0 .. N - 1 : g[n + 1] = F[<<n, g[n]>>]
  <2> HIDE DEF N, F, E
  <2>1. Solutions(N, E, <<>>, F) # {}
    BY <1>1, <1>3, RecursionTo
  <2> QED
    BY <2>1 DEF Solutions
<1>5. \A n \in 0 .. N - 1 : g[n + 1] = next(g[n], n + 1)
  <2> TAKE n \in 0 .. N - 1
  <2> HIDE DEF E, N, next
  <2>1. n \in Nat /\ g[n] \in E /\ g[n + 1] = F[<<n, g[n]>>]
    <3> HIDE DEF F
    <3> QED
      BY <1>1, <1>4
  <2> QED
    BY <2>1
<1>6. Equation(g)
  <2> HIDE DEF next
  <2>1. \A n \in 0 .. N : g[n] = IF n = 0 THEN <<>> ELSE next(g[n - 1], n)
    <3> TAKE n \in 0 .. N
    <3>1. CASE n = 0
      BY <1>4, <3>1
    <3>2. CASE n # 0
      <4>1. n - 1 \in 0 .. N - 1 /\ (n - 1) + 1 = n
        BY <1>1, <3>2
      <4> QED
        BY <1>5, <3>2, <4>1
    <3> QED
      BY <3>1, <3>2
  <2> QED
    BY <2>1
<1>7. Valids(digits) = CHOOSE f : Equation(f)
  BY DEF Valids
<1>8. Equation(Valids(digits))
  <2> HIDE DEF Equation
  <2> QED
    BY <1>6, <1>7
<1>9. ValidDigits(digits) = Valids(digits)[N]
  BY DEF ValidDigits, Valids
<1> DEFINE v == Valids(digits)
<1> HIDE DEF v, next
<1>10. v = [n \in 0 .. N |-> IF n = 0 THEN <<>> ELSE next(v[n - 1], n)]
  BY <1>8 DEF v
<1> HIDE DEF N
<1>11. v[0] = <<>>
  BY <1>1, <1>10
<1>12. \A n \in 0 .. N - 1 : v[n + 1] = next(v[n], n + 1)
  BY <1>1, <1>10
<1> HIDE DEF E
<1>13. v \in [0 .. N -> E]
  <2> DEFINE T == {n \in 0 .. N : v[n] \in E}
  <2>1. 0 \in T
    BY <1>1, <1>11
  <2>2. \A n \in 0 .. N - 1 : n \in T => n + 1 \in T
    BY <1>1, <1>2, <1>12
  <2> HIDE DEF T
  <2>3. 0 .. N \subseteq T
    BY <1>1, <2>1, <2>2, InductionTo
  <2>4. \A n \in 0 .. N : v[n] \in E
    BY <2>3 DEF T
  <2> QED
    BY <1>10, <2>4
<1> QED
  BY <1>9, <1>11, <1>12, <1>13 DEF v, N, E, next

\* What generateSequence() makes.
LEMMA GeneratedLine ==
  ASSUME NEW d \in Dials
  PROVE  /\ ValidDigits(d.digits) \in Seq(Digits)
         /\ IsLine(d, ValidDigits(d.digits),
                   generateSequence(d.digits, d.toneMs, d.gapMs, d.level))
         /\ generateSequence(d.digits, d.toneMs, d.gapMs, d.level) \in Seq(Buffers)
<1> DEFINE N == Len(d.digits)
           v == Valids(d.digits)
           s == Sequences(d)
           T == {n \in 0 .. N : IsLine(d, v[n], s[n])}
<1>1. N \in Nat /\ d.digits \in Seq(Nat \X Nat)
  BY DialIs
<1>2. /\ v \in [0 .. N -> Seq(Digits)] /\ v[0] = <<>>
      /\ \A n \in 0 .. N - 1 :
           v[n + 1] = IF d.digits[n + 1] \in Digits THEN Append(v[n], d.digits[n + 1]) ELSE v[n]
      /\ ValidDigits(d.digits) = v[N]
  BY <1>1, ValidsAre
<1>3. /\ s \in [0 .. N -> Seq(Buffers)] /\ s[0] = <<>>
      /\ \A n \in 0 .. N - 1 : s[n + 1] = Longer(d, s[n], d.digits[n + 1])
      /\ generateSequence(d.digits, d.toneMs, d.gapMs, d.level) = s[N]
  BY SequencesAre
<1> HIDE DEF v, s, N
<1>4. 0 \in T
  <2>1. Whole(<<>>) = 0
    BY DEF Whole
  <2> QED
    BY <1>1, <1>2, <1>3, <2>1 DEF IsLine
<1>5. \A n \in 0 .. N - 1 : n \in T => n + 1 \in T
  <2> SUFFICES ASSUME NEW n \in 0 .. N - 1, IsLine(d, v[n], s[n]) PROVE IsLine(d, v[n + 1], s[n + 1])
    BY <1>1
  <2>1. v[n] \in Seq(Digits) /\ s[n] \in Seq(Buffers)
    BY <1>1, <1>2, <1>3
  <2> QED
    BY <1>2, <1>3, <2>1, LongerLine
<1> HIDE DEF T
<1>6. 0 .. N \subseteq T
  BY <1>1, <1>4, <1>5, InductionTo
<1>7. N \in T
  BY <1>1, <1>6
<1> QED
  BY <1>1, <1>2, <1>3, <1>7 DEF T

-----------------------------------------------------------------------------
First(V, n) == [i \in 1 .. n |-> V[i]]
Place(V) == 2 * Len(V) - Len(line)

\* How much of its sequence has been played: the head of the line is at position Place, its
\* first part may be gone, and all tones before it have been reported; the tone at the head
\* is reported or will be, before it ends.
HeadIs(d, V) ==
  Len(line) > 0 => line[1] = [At(d, V, Place(V)) EXCEPT !.samples = line[1].samples]
Counted(V) ==
  (Place(V) \div 2)
  + IF Place(V) % 2 = 1 /\ out["incoming"].reported # NoDigit THEN 1 ELSE 0
ToneWillLast(V) ==
  LET x == detector["incoming"]
  IN  Len(line) > 0 /\ Place(V) % 2 = 1 =>
        \/ x.digit = NoDigit /\ minDurationMs <= FramesMs(line[1].samples)
        \/ /\ x.digit = V[(Place(V) + 1) \div 2]
           /\ minDurationMs <= x.ms + FramesMs(line[1].samples)

Playing(d, V) ==
  /\ dialled = d.digits /\ Len(line) <= Whole(V)
  /\ \A j \in 2 .. Len(line) : line[j] = At(d, V, Place(V) + j - 1)
  /\ HeadIs(d, V)
  /\ ~reports.disturbed => reports.digits = First(V, Counted(V)) /\ ToneWillLast(V)

DialInv ==
  \/ line = <<>> /\ dialled = <<>> /\ reports.digits = <<>>
  \/ \E d \in Dials : Playing(d, ValidDigits(d.digits))

LEMMA FirstIs ==
  ASSUME NEW V \in Seq(Digits), NEW n \in 0 .. Len(V)
  PROVE  /\ First(V, n) \in Seq(Digits) /\ Len(First(V, n)) = n
         /\ n = 0 => First(V, n) = <<>>
         /\ n = Len(V) => First(V, n) = V
         /\ n < Len(V) => First(V, n + 1) = Append(First(V, n), V[n + 1])
<1>1. n \in Nat /\ \A i \in 1 .. n : V[i] \in Digits
  OBVIOUS
<1>2. First(V, n) \in Seq(Digits) /\ Len(First(V, n)) = n
  BY <1>1 DEF First
<1>3. n = Len(V) => First(V, n) = V
  BY <1>1 DEF First
<1>4. ASSUME n < Len(V) PROVE First(V, n + 1) = Append(First(V, n), V[n + 1])
  <2> DEFINE a == First(V, n + 1)
             b == Append(First(V, n), V[n + 1])
  <2>1. n + 1 \in 1 .. Len(V) /\ V[n + 1] \in Digits
    BY <1>1, <1>4
  <2>2. a \in Seq(Digits) /\ Len(a) = n + 1 /\ \A i \in 1 .. n + 1 : a[i] = V[i]
    BY <1>1, <2>1 DEF First
  <2>3. b \in Seq(Digits) /\ Len(b) = n + 1 /\ b[n + 1] = V[n + 1]
        /\ \A i \in 1 .. n : b[i] = First(V, n)[i]
    BY <1>1, <1>2, <2>1
  <2>4. \A i \in 1 .. n : First(V, n)[i] = V[i]
    BY DEF First
  <2> HIDE DEF a, b
  <2>5. \A i \in 1 .. n + 1 : a[i] = b[i]
    BY <1>1, <2>2, <2>3, <2>4
  <2>6. a = b
    BY <2>2, <2>3, <2>5
  <2> QED
    BY <2>6 DEF a, b
<1> QED
  BY <1>2, <1>3, <1>4 DEF First

\* While nothing is played and the incoming detector stands, nothing changes.
LEMMA PlayingStands ==
  ASSUME DialInv, UNCHANGED <<line, dialled>>,
         reports' = reports \/ reports' = [reports EXCEPT !.disturbed = TRUE],
         \/ line = <<>>
         \/ reports'.disturbed
         \/ detector'["incoming"] = detector["incoming"] /\ out'["incoming"] = out["incoming"],
         TapsTyped
  PROVE  DialInv'
<1>0. reports'.digits = reports.digits /\ (reports.disturbed => reports'.disturbed)
  BY DEF TapsTyped
<1>1. CASE line = <<>> /\ dialled = <<>> /\ reports.digits = <<>>
  BY <1>0, <1>1 DEF DialInv
<1>2. ASSUME NEW d \in Dials, Playing(d, ValidDigits(d.digits)) PROVE DialInv'
  <2> DEFINE V == ValidDigits(d.digits)
  <2>1. V \in Seq(Digits)
    BY GeneratedLine
  <2> HIDE DEF V
  <2>2. Place(V)' = Place(V)
    BY DEF Place
  <2>3. CASE line = <<>>
    <3>1. Place(V) = 2 * Len(V) /\ Place(V) % 2 = 0 /\ Len(line) = 0
      BY <2>1, <2>3 DEF Place
    <3>2. Counted(V)' = Counted(V) /\ ToneWillLast(V)'
      BY <2>2, <3>1 DEF Counted, ToneWillLast
    <3>3. Playing(d, V)'
      BY <1>0, <1>2, <2>2, <3>1, <3>2 DEF Playing, HeadIs, V
    <3> QED
      BY <3>3 DEF DialInv, V
  <2>4. CASE reports'.disturbed
    <3>1. Playing(d, V)'
      BY <1>2, <2>2, <2>4 DEF Playing, HeadIs, V
    <3> QED
      BY <3>1 DEF DialInv, V
  <2>5. CASE detector'["incoming"] = detector["incoming"] /\ out'["incoming"] = out["incoming"]
    <3>1. Counted(V)' = Counted(V) /\ (ToneWillLast(V) => ToneWillLast(V)')
      BY <2>2, <2>5 DEF Counted, ToneWillLast
    <3>2. Playing(d, V)'
      BY <1>0, <1>2, <2>2, <3>1 DEF Playing, HeadIs, V
    <3> QED
      BY <3>2 DEF DialInv, V
  <2> QED
    BY <2>3, <2>4, <2>5
<1> QED
  BY <1>1, <1>2 DEF DialInv

LEMMA DialPlaying ==
  ASSUME TapsInv, NEW d \in Dials, dial(d)
  PROVE  DialInv'
<1> DEFINE V == ValidDigits(d.digits)
           s == generateSequence(d.digits, d.toneMs, d.gapMs, d.level)
<1>1. /\ line' = s /\ dialled' = d.digits /\ reports' = [digits |-> <<>>, disturbed |-> FALSE]
      /\ detector' = detector /\ out' = out
      /\ last["incoming"][2].digit = NoDigit
  BY DEF dial, taps
<1>2. V \in Seq(Digits) /\ IsLine(d, V, s) /\ s \in Seq(Buffers)
  BY GeneratedLine
<1>3. detector["incoming"].digit = NoDigit /\ out["incoming"].reported = NoDigit
  BY <1>1 DEF TapsInv, InStep, ReportStands, Directions
<1> HIDE DEF V, s
<1>4. Len(V) \in Nat /\ Len(s) = Whole(V) /\ Place(V)' = 2 * Len(V) - Len(s)
  BY <1>1, <1>2 DEF IsLine, Place
<1>5. CASE Len(V) = 0
  <2>1. Len(s) = 0 /\ Place(V)' = 0
    BY <1>4, <1>5 DEF Whole
  <2>2. Counted(V)' = 0 /\ First(V, 0) = <<>>
    BY <1>2, <1>4, <2>1, FirstIs DEF Counted
  <2>3. Playing(d, V)'
    BY <1>1, <1>4, <2>1, <2>2 DEF Playing, HeadIs, ToneWillLast
  <2> QED
    BY <2>3 DEF DialInv, V
<1>6. CASE Len(V) > 0
  <2>1. Len(s) = 2 * Len(V) - 1 /\ Place(V)' = 1 /\ Len(s) >= 1
    BY <1>4, <1>6 DEF Whole
  <2>2. \A j \in 1 .. Len(s) : s[j] = At(d, V, j)
    BY <1>2 DEF IsLine
  <2>3. At(d, V, 1) = ToneOf(d, V[1])
    BY DEF At
  <2>4. s[1] = ToneOf(d, V[1])
    BY <2>1, <2>2, <2>3
  <2>5. s[1].samples = ToneSamples(d) /\ s[1] = [At(d, V, 1) EXCEPT !.samples = s[1].samples]
    <3> DEFINE t == ToneOf(d, V[1])
    <3>1. t.samples = ToneSamples(d) /\ t = [t EXCEPT !.samples = t.samples]
      BY DEF ToneOf
    <3> QED
      BY <2>3, <2>4, <3>1
  <2>6. HeadIs(d, V)'
    BY <1>1, <2>1, <2>5 DEF HeadIs
  <2>7. Counted(V)' = 0 /\ First(V, 0) = <<>>
    BY <1>1, <1>2, <1>3, <1>4, <2>1, FirstIs DEF Counted
  <2>8. ToneWillLast(V)'
    BY <1>1, <1>3, <2>5, DialIs DEF ToneWillLast
  <2>9. \A j \in 2 .. Len(s) : s[j] = At(d, V, 1 + j - 1)
    BY <2>1, <2>2
  <2>10. Playing(d, V)'
    BY <1>1, <1>4, <2>1, <2>6, <2>7, <2>8, <2>9 DEF Playing
  <2> QED
    BY <2>10 DEF DialInv, V
<1> QED
  BY <1>4, <1>5, <1>6

\* The digit in the next frame of a tone and of a gap, and how long it lasts.
LEMMA NextDigitIs ==
  ASSUME TapsInv, line # <<>>, NEW d \in Dials, NEW V \in Seq(Digits), HeadIs(d, V),
         Place(V) \in 1 .. 2 * Len(V)
  PROVE  /\ Place(V) % 2 = 1 =>
              /\ nextFrame.rms > 0 /\ nextFrame.samples = FrameSamples
              /\ line[1].samples % FrameSamples = 0
              /\ V[(Place(V) + 1) \div 2] \in Digits
              /\ DigitOf(nextFrame) # NoDigit => DigitOf(nextFrame) = V[(Place(V) + 1) \div 2]
         /\ Place(V) % 2 # 1 => nextFrame.rms = 0 /\ DigitOf(nextFrame) = NoDigit
<1> DEFINE f == nextFrame
           b == line[1]
           p == Place(V)
<1>1. /\ Head(line) = b /\ b \in Buffers /\ b \in S16Frame
      /\ f \in S16Frame /\ ~f.odd /\ f.samples > 0
      /\ f.rms = b.rms /\ f.low = b.low /\ f.high = b.high
      /\ f.lowMag = b.lowMag /\ f.highMag = b.highMag
      /\ b.lowMag = 0 \/ f.samples = FrameSamples
  BY NextFrameIs DEF TapsInv, TapsTyped, Buffers
<1>2. /\ Len(line) > 0 /\ b = [At(d, V, p) EXCEPT !.samples = b.samples]
  BY DEF HeadIs, TapsInv, TapsTyped
<1>3. AsAsked(f) \in S16Frame /\ (f.lowMag = 0 => AsAsked(f).lowMag = 0)
      /\ AsAsked(f).low = f.low /\ AsAsked(f).high = f.high
  <2>1. AsAsked(f).low = f.low /\ AsAsked(f).high = f.high
    BY <1>1 DEF AsAsked, S16Frame
  <2> QED
    BY <1>1, <2>1, AppliedIs DEF TapsInv
<1>4. /\ f.lowMag = 0 => DigitOf(f) = NoDigit
      /\ DigitOf(f) # NoDigit => DigitOf(f) = <<f.low, f.high>>
  BY <1>1, <1>3, DigitIs DEF DigitOf, detectedDigit
<1> HIDE DEF f, b
<1>5. ASSUME p % 2 = 1
      PROVE  /\ f.rms > 0 /\ f.samples = FrameSamples /\ b.samples % FrameSamples = 0
             /\ V[(p + 1) \div 2] \in Digits
             /\ DigitOf(f) # NoDigit => DigitOf(f) = V[(p + 1) \div 2]
  <2> DEFINE digit == V[(p + 1) \div 2]
  <2>1. (p + 1) \div 2 \in 1 .. Len(V)
    BY <1>5
  <2>2. digit \in Digits
    BY <2>1
  <2>3. digit = <<digit[1], digit[2]>>
    BY <2>2, NoDigitIs
  <2> HIDE DEF digit
  <2>4. At(d, V, p) = ToneOf(d, digit)
    BY <1>5 DEF At, digit
  <2>5. b.rms = d.level /\ b.lowMag = d.level /\ b.low = digit[1] /\ b.high = digit[2]
    BY <1>2, <2>4 DEF ToneOf
  <2>6. d.level \in 1 .. MaxLevel /\ MaxLevel \in Nat
    BY DialIs, FrameAssumption
  <2>7. f.rms > 0 /\ f.samples = FrameSamples /\ b.samples % FrameSamples = 0
    BY <1>1, <2>5, <2>6 DEF Buffers
  <2>8. DigitOf(f) # NoDigit => DigitOf(f) = digit
    BY <1>1, <1>4, <2>3, <2>5
  <2> QED
    BY <2>2, <2>7, <2>8 DEF digit
<1>6. ASSUME p % 2 # 1 PROVE f.rms = 0 /\ DigitOf(f) = NoDigit
  <2>1. At(d, V, p) = GapOf(d)
    BY <1>6 DEF At
  <2>2. b.rms = 0 /\ b.lowMag = 0
    BY <1>2, <2>1 DEF GapOf
  <2> QED
    BY <1>1, <1>4, <2>2
<1> QED
  BY <1>5, <1>6 DEF f, b

LEMMA PlayStep ==
  ASSUME TapsInv, DialInv, play
  PROVE  DialInv'
<1> DEFINE f == nextFrame
           x == detector["incoming"]
           o == out["incoming"].reported
           y == detector'["incoming"]
           q == out'["incoming"].reported
           g == DigitOf(f)
<1>1. /\ line # <<>> /\ handle("incoming", f) /\ line' = afterFrame /\ dialled' = dialled
      /\ reports' = [digits |-> IF q = NoDigit \/ o # NoDigit THEN reports.digits
                                ELSE Append(reports.digits, q),
                     disturbed |-> reports.disturbed \/ (f.rms > 0 /\ g = NoDigit)]
  BY DEF play
<1>2. /\ f \in S16Frame /\ ~f.odd /\ ToneAsked(f) /\ Readable(f)
      /\ line \in Seq(Buffers) /\ FrameSamples \in Nat \ {0}
  BY <1>1, NextFrameIs, NextFrameToneAsked, CallAssumption, FrameAssumption
  DEF TapsInv, TapsTyped, Readable
<1>3. /\ y = updateDuration(x, g, frameMs(f))
      /\ q = IF y.digit # NoDigit /\ minDurationMs <= y.ms THEN y.digit ELSE NoDigit
  BY <1>1, <1>2, HandleInv DEF Directions
<1>4. /\ x \in Detected /\ frameMs(f) \in Nat /\ minDurationMs \in Nat
      /\ o # NoDigit => x.digit = o /\ minDurationMs <= x.ms
  BY <1>2, FrameMsIs, DetectorAssumption DEF TapsInv, TapsTyped, ReportStands, Directions
<1> PICK d \in Dials : Playing(d, ValidDigits(d.digits))
  BY <1>1 DEF DialInv
<1> DEFINE V == ValidDigits(d.digits)
           p == Place(V)
           b == line[1]
<1>5. V \in Seq(Digits) /\ Playing(d, V)
  BY GeneratedLine
<1> HIDE DEF V
<1>6. /\ Len(V) \in Nat /\ Len(line) \in 1 .. 2 * Len(V) - 1
      /\ p \in 1 .. 2 * Len(V) - 1 /\ p = 2 * Len(V) - Len(line)
  <2>1. Len(line) \in Nat \ {0} /\ Len(line) <= Whole(V)
    BY <1>1, <1>2, <1>5 DEF Playing
  <2> QED
    BY <1>5, <2>1 DEF Whole, Place
<1>7. HeadIs(d, V) /\ b \in Buffers /\ Head(line) = b /\ b.samples \in Nat \ {0}
  BY <1>1, <1>2, <1>5 DEF Playing, Buffers, S16Frame
<1>8. /\ p % 2 = 1 => /\ f.rms > 0 /\ f.samples = FrameSamples
                      /\ b.samples % FrameSamples = 0
                      /\ V[(p + 1) \div 2] \in Digits
                      /\ g # NoDigit => g = V[(p + 1) \div 2]
      /\ p % 2 # 1 => f.rms = 0 /\ g = NoDigit
  <2>1. p \in 1 .. 2 * Len(V)
    BY <1>6
  <2>2. HeadIs(d, V) /\ line # <<>> /\ Place(V) \in 1 .. 2 * Len(V)
    BY <1>1, <1>7, <2>1
  <2> HIDE DEF p
  <2> QED
    BY <1>5, <2>2, NextDigitIs DEF p
<1>9. ASSUME p % 2 = 1
      PROVE  /\ b.samples < FrameSamples => FALSE
             /\ frameMs(f) = FramesMs(FrameSamples)
             /\ b.samples > FrameSamples =>
                  FramesMs(b.samples) = FramesMs(b.samples - FrameSamples) + frameMs(f)
             /\ b.samples > FrameSamples => FramesMs(b.samples - FrameSamples) \in Nat
             /\ p \div 2 \in 0 .. Len(V) - 1 /\ (p + 1) \div 2 = (p \div 2) + 1
  <2> DEFINE n == b.samples
             unit == (FrameSamples * 1000) \div sampleRate
  <2>1. n \in Nat \ {0} /\ n % FrameSamples = 0 /\ f.samples = FrameSamples
    BY <1>7, <1>8, <1>9
  <2>2. frameMs(f) = unit /\ unit \in Nat
    BY <1>4, <2>1 DEF frameMs
  <2> HIDE DEF n, unit
  <2>3. n < FrameSamples => FALSE
    <3> SUFFICES ASSUME n < FrameSamples PROVE FALSE
      OBVIOUS
    <3>1. n % FrameSamples = n
      BY <1>2, <2>1
    <3> QED
      BY <2>1, <3>1
  <2>4. FramesMs(FrameSamples) = unit
    <3>1. FrameSamples \div FrameSamples = 1
      BY <1>2
    <3> QED
      BY <2>2, <3>1 DEF FramesMs, unit
  <2>5. ASSUME n > FrameSamples
        PROVE  /\ FramesMs(n) = FramesMs(n - FrameSamples) + unit
               /\ FramesMs(n - FrameSamples) \in Nat
    <3> DEFINE k == n \div FrameSamples
               j == (n - FrameSamples) \div FrameSamples
    <3>1. k \in Nat /\ j \in Nat /\ n \in Nat /\ n % FrameSamples = 0
      BY <1>2, <2>1, <2>5
    <3>4. j = k - 1
      BY <1>2, <2>5, <3>1, LessByOne
    <3>2. FramesMs(n) = k * unit /\ FramesMs(n - FrameSamples) = j * unit
      BY DEF FramesMs, unit
    <3> HIDE DEF k, j
    <3>3. k * unit = j * unit + unit /\ j * unit \in Nat
      BY <2>2, <3>1, <3>4
    <3> QED
      BY <3>2, <3>3
  <2>6. p \div 2 \in 0 .. Len(V) - 1 /\ (p + 1) \div 2 = (p \div 2) + 1
    BY <1>6, <1>9
  <2> QED
    BY <2>2, <2>3, <2>4, <2>5, <2>6 DEF n
<1>10. /\ Counted(V) = (p \div 2) + IF p % 2 = 1 /\ o # NoDigit THEN 1 ELSE 0
       /\ ~reports.disturbed => reports.digits = First(V, Counted(V))
       /\ ~reports.disturbed /\ p % 2 = 1 =>
            \/ x.digit = NoDigit /\ minDurationMs <= FramesMs(b.samples)
            \/ x.digit = V[(p + 1) \div 2] /\ minDurationMs <= x.ms + FramesMs(b.samples)
  BY <1>5, <1>6 DEF Playing, Counted, ToneWillLast
<1>11. /\ x.ms \in Nat /\ (p % 2 = 1 => V[(p + 1) \div 2] # NoDigit)
       /\ y.digit = g /\ (g = NoDigit => q = NoDigit)
       /\ g # NoDigit => y.ms = IF g = x.digit THEN x.ms + frameMs(f) ELSE frameMs(f)
       /\ q = IF g # NoDigit /\ minDurationMs <= y.ms THEN g ELSE NoDigit
  BY <1>3, <1>4, <1>8, NoDigitIs DEF updateDuration, FreshDetector, Detected
<1>12. /\ f.rms > 0 /\ g = NoDigit => reports'.disturbed
       /\ reports.disturbed => reports'.disturbed
       /\ reports'.digits = IF q = NoDigit \/ o # NoDigit THEN reports.digits
                            ELSE Append(reports.digits, q)
  BY <1>1
<1> HIDE DEF f, x, o, y, q, g, p, b
\* What has been heard after the frame, if it was not disturbed.
<1> DEFINE more == IF p % 2 = 1 /\ q # NoDigit THEN 1 ELSE 0
           lasts == \/ y.digit = V[(p + 1) \div 2]
                       /\ minDurationMs <= y.ms + FramesMs(b.samples - FrameSamples)
                       /\ b.samples > FrameSamples
                    \/ b.samples = FrameSamples /\ q # NoDigit
<1>13. ASSUME ~reports'.disturbed
       PROVE  /\ reports'.digits = First(V, (p \div 2) + more)
              /\ p % 2 = 1 => lasts
              /\ p % 2 # 1 => y.digit = NoDigit /\ q = NoDigit
  <2>1. ~reports.disturbed /\ ~(f.rms > 0 /\ g = NoDigit)
    BY <1>12, <1>13
  <2>2. CASE p % 2 # 1
    BY <1>8, <1>10, <1>11, <1>12, <2>1, <2>2
  <2>3. CASE p % 2 = 1
    <3> DEFINE digit == V[(p + 1) \div 2]
               n == b.samples
               k == p \div 2
               left == FramesMs(n - FrameSamples)
    <3>1. g = digit /\ digit # NoDigit /\ digit \in Digits /\ y.digit = digit
      BY <1>8, <1>11, <2>1, <2>3
    <3>2. /\ k \in 0 .. Len(V) - 1 /\ digit = V[k + 1] /\ ~(n < FrameSamples)
          /\ n \in Nat /\ frameMs(f) = FramesMs(FrameSamples)
          /\ n > FrameSamples => left \in Nat /\ FramesMs(n) = left + frameMs(f)
      BY <1>7, <1>9, <2>3
    <3>3. \/ x.digit = NoDigit /\ minDurationMs <= FramesMs(n)
          \/ x.digit = digit /\ minDurationMs <= x.ms + FramesMs(n)
      BY <1>10, <2>1, <2>3
    <3>4. First(V, k + 1) = Append(First(V, k), digit)
      <4>1. k \in 0 .. Len(V) /\ k < Len(V)
        BY <1>6, <3>2
      <4> HIDE DEF k, digit
      <4> QED
        BY <1>5, <3>2, <4>1, FirstIs
    <3>5. reports.digits = First(V, k + IF o # NoDigit THEN 1 ELSE 0)
      BY <1>10, <2>1, <2>3
    <3> HIDE DEF digit, n, k, left
    <3>6. CASE o # NoDigit
      <4>1. x.digit = digit /\ minDurationMs <= x.ms
        BY <1>4, <3>3, <3>6
      <4>2. y.ms = x.ms + frameMs(f) /\ q = digit /\ minDurationMs <= y.ms
        BY <1>4, <1>11, <3>1, <4>1
      <4>3. reports'.digits = First(V, k + 1)
        BY <1>12, <3>5, <3>6
      <4>4. n > FrameSamples => minDurationMs <= y.ms + left
        BY <1>4, <1>11, <3>2, <4>1, <4>2
      <4>5. n > FrameSamples \/ n = FrameSamples
        BY <1>2, <3>2
      <4> QED
        BY <2>3, <3>1, <4>2, <4>3, <4>4, <4>5 DEF digit, n, k, left
    <3>7. CASE o = NoDigit
      <4>1. y.ms = IF digit = x.digit THEN x.ms + frameMs(f) ELSE frameMs(f)
        BY <1>11, <3>1
      <4>2. reports'.digits = First(V, k + IF q # NoDigit THEN 1 ELSE 0)
        <5>1. q = NoDigit \/ q = digit
          BY <1>11, <3>1
        <5>2. First(V, k + 0) = First(V, k)
          BY <3>2
        <5> QED
          BY <1>12, <3>4, <3>5, <3>7, <5>1, <5>2
      <4>3. ASSUME n > FrameSamples PROVE minDurationMs <= y.ms + left
        BY <1>4, <1>11, <3>1, <3>2, <3>3, <4>1, <4>3
      <4>4. ASSUME n = FrameSamples PROVE q # NoDigit
        BY <1>4, <1>11, <3>1, <3>2, <3>3, <4>1, <4>4
      <4>5. n > FrameSamples \/ n = FrameSamples
        BY <1>2, <3>2
      <4> QED
        BY <2>3, <3>1, <4>2, <4>3, <4>4, <4>5 DEF digit, n, k, left
    <3> QED
      BY <3>6, <3>7
  <2> QED
    BY <2>2, <2>3
<1> HIDE DEF more, lasts
<1>14. /\ Place(V)' = 2 * Len(V) - Len(line') /\ p \in Int
       /\ Counted(V)' = (Place(V)' \div 2)
                        + IF Place(V)' % 2 = 1 /\ q # NoDigit THEN 1 ELSE 0
       /\ \A j \in 2 .. Len(line) : line[j] = At(d, V, p + j - 1)
       /\ b = [At(d, V, p) EXCEPT !.samples = b.samples]
       /\ Len(line) <= Whole(V) /\ dialled = d.digits
  BY <1>5, <1>6, <1>7 DEF Place, Counted, q, p, b, Playing, HeadIs
<1>15. CASE b.samples > FrameSamples
  <2> DEFINE n == b.samples - FrameSamples
             c == [b EXCEPT !.samples = n]
  <2>1. line' = [line EXCEPT ![1] = c]
    BY <1>1, <1>2, <1>7, <1>15 DEF afterFrame, b
  <2>2. Len(line') = Len(line) /\ line'[1] = c /\ \A j \in 2 .. Len(line') : line'[j] = line[j]
    BY <1>2, <1>6, <2>1
  <2>3. Place(V)' = p /\ Counted(V)' = (p \div 2) + more
    BY <1>6, <1>14, <2>2 DEF more
  <2>4. c.samples = n /\ c = [At(d, V, p) EXCEPT !.samples = n]
    <3> DEFINE a == At(d, V, p)
    <3>1. b \in S16Frame /\ b = [a EXCEPT !.samples = b.samples]
      BY <1>7, <1>14 DEF Buffers
    <3> HIDE DEF a, n
    <3> QED
      BY <3>1 DEF S16Frame, a
  <2>5. HeadIs(d, V)'
    BY <2>2, <2>3, <2>4 DEF HeadIs
  <2>6. ASSUME ~reports'.disturbed
        PROVE  reports'.digits = First(V, Counted(V)') /\ ToneWillLast(V)'
    <3>1. p % 2 = 1 => y.digit = V[(p + 1) \div 2] /\ minDurationMs <= y.ms + FramesMs(n)
      BY <1>2, <1>7, <1>13, <1>15, <2>6 DEF lasts
    <3> QED
      BY <1>13, <2>2, <2>3, <2>4, <2>6, <3>1 DEF ToneWillLast, y
  <2>7. Playing(d, V)'
    BY <1>1, <1>14, <2>2, <2>3, <2>5, <2>6 DEF Playing
  <2> QED
    BY <2>7 DEF DialInv, V
<1>16. CASE ~(b.samples > FrameSamples)
  <2>1. line' = Tail(line)
    BY <1>1, <1>7, <1>16 DEF afterFrame, b
  <2>2. /\ Len(line') = Len(line) - 1 /\ Len(line') \in Nat
        /\ \A j \in 1 .. Len(line') : line'[j] = line[j + 1]
    BY <1>2, <1>6, <2>1
  <2>3. /\ Place(V)' = p + 1
        /\ p % 2 = 1 => Place(V)' % 2 # 1 /\ Counted(V)' = (p \div 2) + 1
        /\ p % 2 # 1 => Place(V)' % 2 = 1
                        /\ Counted(V)' = (p \div 2) + IF q # NoDigit THEN 1 ELSE 0
    <3>1. Place(V)' = p + 1
      BY <1>6, <1>14, <2>2
    <3>2. /\ p % 2 = 1 => (p + 1) % 2 # 1 /\ (p + 1) \div 2 = (p \div 2) + 1
          /\ p % 2 # 1 => (p + 1) % 2 = 1 /\ (p + 1) \div 2 = p \div 2
      BY <1>6
    <3> DEFINE pp == Place(V)'
    <3>3. pp = p + 1 /\ Counted(V)' = (pp \div 2) + IF pp % 2 = 1 /\ q # NoDigit THEN 1 ELSE 0
      BY <1>14, <3>1
    <3>4. p \div 2 \in Int /\ (p \div 2) + 1 \in Int /\ (p \div 2) + 1 + 0 = (p \div 2) + 1
      BY <1>6
    <3> HIDE DEF pp
    <3>5. pp % 2 = (p + 1) % 2 /\ pp \div 2 = (p + 1) \div 2
      BY <3>3
    <3>6. CASE p % 2 = 1
      BY <3>2, <3>3, <3>4, <3>5, <3>6 DEF pp
    <3>7. CASE p % 2 # 1
      BY <3>2, <3>3, <3>4, <3>5, <3>7 DEF pp
    <3> QED
      BY <3>1, <3>6, <3>7
  <2>4. \A j \in 1 .. Len(line') : line'[j] = At(d, V, p + j)
    <3> TAKE j \in 1 .. Len(line')
    <3>1. j + 1 \in 2 .. Len(line) /\ p + (j + 1) - 1 = p + j
      BY <1>6, <2>2
    <3> QED
      BY <1>14, <2>2, <3>1
  <2>5. ASSUME Len(line') > 0
        PROVE  /\ line'[1] = At(d, V, p + 1)
               /\ line'[1] = [At(d, V, p + 1) EXCEPT !.samples = line'[1].samples]
               /\ p % 2 # 1 => minDurationMs <= FramesMs(line'[1].samples)
    <3>1. line'[1] = At(d, V, p + 1)
      BY <2>2, <2>4, <2>5
    <3> DEFINE a == At(d, V, p + 1)
    <3>2. a = [a EXCEPT !.samples = a.samples]
      BY DEF At, ToneOf, GapOf
    <3>3. ASSUME p % 2 # 1 PROVE minDurationMs <= FramesMs(a.samples)
      <4>1. (p + 1) % 2 = 1
        BY <1>6, <3>3
      <4>2. a.samples = ToneSamples(d)
        BY <4>1 DEF At, ToneOf
      <4> QED
        BY <4>2, DialIs
    <3> HIDE DEF a
    <3> QED
      BY <3>1, <3>2, <3>3 DEF a
  <2>6. HeadIs(d, V)'
    BY <2>3, <2>5 DEF HeadIs
  <2>7. \A j \in 2 .. Len(line') : line'[j] = At(d, V, Place(V)' + j - 1)
    <3> TAKE j \in 2 .. Len(line')
    <3>1. j \in 1 .. Len(line') /\ (p + 1) + j - 1 = p + j
      BY <1>6, <2>2
    <3> QED
      BY <2>3, <2>4, <3>1
  <2>8. ASSUME ~reports'.disturbed
        PROVE  reports'.digits = First(V, Counted(V)') /\ ToneWillLast(V)'
    <3>1. p % 2 = 1 => q # NoDigit
      BY <1>2, <1>7, <1>13, <1>16, <2>8 DEF lasts
    <3>2. p % 2 # 1 => q = NoDigit /\ y.digit = NoDigit
      BY <1>13, <2>8
    <3>3. Counted(V)' = (p \div 2) + more
      BY <2>3, <3>1, <3>2 DEF more
    <3>4. ToneWillLast(V)'
      BY <2>3, <2>5, <3>2 DEF ToneWillLast, y
    <3> QED
      BY <1>13, <2>8, <3>3, <3>4
  <2>9. Len(line') <= Whole(V)
    BY <1>6, <1>14, <2>2 DEF Whole
  <2>10. Playing(d, V)'
    BY <1>1, <1>14, <2>6, <2>7, <2>8, <2>9 DEF Playing
  <2> QED
    BY <2>10 DEF DialInv, V
<1> QED
  BY <1>15, <1>16

\* A frame that arrives leaves the dialled sequence alone.
LEMMA ArrivalStands ==
  ASSUME TapsInv, DialInv, NEW dir \in Directions, NEW f \in Frames[dir] \cup {NoBuffer},
         arrive(dir, f)
  PROVE  DialInv'
<1>1. /\ handle(dir, f) /\ UNCHANGED <<line, asked, dialled, reports>>
      /\ dir = "incoming" => line = <<>>
  BY DEF arrive
<1>2. CASE dir = "incoming"
  BY <1>1, <1>2, PlayingStands DEF TapsInv
<1>3. CASE dir # "incoming"
  <2>1. detector'["incoming"] = detector["incoming"] /\ out'["incoming"] = out["incoming"]
    <3>1. CASE f = NoBuffer
      BY <1>1, <3>1 DEF handle, taps
    <3>2. CASE f # NoBuffer
      <4>1. f \in Frames[dir] /\ f \in S16Frame /\ minDurationMs \in Nat
        BY <3>2, CallAssumption, DetectorAssumption
      <4>2. f.samples # 0 => minDurationMs <= 2 * frameMs(f)
        BY <4>1, TwoFramesSuffice DEF S16Frame
      <4>3. ToneAsked(f)
        BY <4>2 DEF ToneAsked, LongEnough, DigitOf
      <4>4. "incoming" \in Directions \ {dir}
        BY <1>3 DEF Directions
      <4> QED
        BY <1>1, <4>1, <4>3, <4>4, HandleInv
    <3> QED
      BY <3>1, <3>2
  <2> QED
    BY <1>1, <2>1, PlayingStands DEF TapsInv
<1> QED
  BY <1>2, <1>3

LEMMA ResetStands ==
  ASSUME TapsInv, DialInv, NEW dir \in Directions, reset(dir)
  PROVE  DialInv'
<1>1. UNCHANGED <<line, dialled>> /\ TapsTyped
  BY DEF reset, TapsInv
<1>2. CASE UNCHANGED <<detector, out, reports>>
  BY <1>1, <1>2, PlayingStands
<1>3. CASE resetDetector(dir) /\ reports' = [reports EXCEPT !.disturbed = @ \/ dir = "incoming"]
           /\ out' = [out EXCEPT ![dir].readable = FALSE, ![dir].reported = NoDigit]
  <2>1. CASE dir = "incoming"
    <3>1. reports' = [reports EXCEPT !.disturbed = TRUE] /\ reports'.disturbed
      BY <1>1, <1>3, <2>1 DEF TapsTyped
    <3> QED
      BY <1>1, <3>1, PlayingStands
  <2>2. CASE dir # "incoming"
    <3>1. reports' = reports
      BY <1>1, <1>3, <2>2 DEF TapsTyped
    <3>2. detector'["incoming"] = detector["incoming"] /\ out'["incoming"] = out["incoming"]
      BY <1>1, <1>3, <2>2 DEF resetDetector, TapsTyped, Directions
    <3> QED
      BY <1>1, <3>1, <3>2, PlayingStands
  <2> QED
    BY <2>1, <2>2
<1> QED
  BY <1>2, <1>3 DEF reset

LEMMA TapsNextInv == TapsInv /\ DialInv /\ [TapsNext]_tapsVars => TapsInv' /\ DialInv'
<1> SUFFICES ASSUME TapsInv, DialInv, [TapsNext]_tapsVars PROVE TapsInv' /\ DialInv'
  OBVIOUS
<1>1. ASSUME NEW dir \in Directions, reset(dir) PROVE TapsInv' /\ DialInv'
  BY <1>1, ResetInv, ResetStands
<1>2. ASSUME NEW dir \in Directions, NEW f \in Frames[dir] \cup {NoBuffer}, arrive(dir, f)
      PROVE  TapsInv' /\ DialInv'
  BY <1>2, ArriveInv, ArrivalStands
<1>3. ASSUME NEW d \in Dials, dial(d) PROVE TapsInv' /\ DialInv'
  BY <1>3, DialKeepsInv, DialPlaying
<1>4. CASE play
  BY <1>4, PlayInv, PlayStep
<1>5. CASE control
  <2>1. UNCHANGED <<line, dialled, reports, detector, out>> /\ TapsTyped
    BY <1>5 DEF control, TapsInv
  <2> QED
    BY <1>5, <2>1, ControlInv, PlayingStands
<1>6. CASE UNCHANGED tapsVars
  <2>1. UNCHANGED <<line, dialled, reports, detector, out>> /\ TapsTyped
    BY <1>6 DEF tapsVars, taps, TapsInv
  <2>2. DialInv'
    BY <2>1, PlayingStands
  <2> QED
    BY <1>6, <2>2 DEF TapsInv, TapsTyped, GainAsAsked, VadInStep, ReportStands,
      TalkspurtsAreMarked, ReportedIffSteady, Steady, tapsVars, taps
<1> QED
  BY <1>1, <1>2, <1>3, <1>4, <1>5, <1>6 DEF TapsNext

LEMMA TapsInvariance == TapsSpec => [](TapsInv /\ DialInv)
<1>1. TapsInit => DialInv
  BY DEF TapsInit, DialInv
<1> QED
  BY <1>1, TapsInitInv, TapsNextInv, PTL DEF TapsSpec

\* Played to its end, a sequence has been counted to its end.
LEMMA PlayedIsHeard == TapsInv /\ DialInv => DialledIsHeard
<1> SUFFICES ASSUME TapsInv, DialInv, line = <<>>, ~reports.disturbed
             PROVE  reports.digits = ValidDigits(dialled)
  BY DEF DialledIsHeard
<1>1. CASE dialled = <<>> /\ reports.digits = <<>>
  <2>1. <<>> \in Seq(Nat \X Nat) /\ Len(<<>>) = 0
    OBVIOUS
  <2>2. ValidDigits(<<>>) = <<>>
    BY <2>1, ValidsAre
  <2> QED
    BY <1>1, <2>2
<1>2. ASSUME NEW d \in Dials, Playing(d, ValidDigits(d.digits))
      PROVE  reports.digits = ValidDigits(dialled)
  <2> DEFINE V == ValidDigits(d.digits)
  <2>1. V \in Seq(Digits) /\ dialled = d.digits
    BY <1>2, GeneratedLine DEF Playing
  <2> HIDE DEF V
  <2>2. Place(V) = 2 * Len(V) /\ Len(V) \in Nat
    BY <2>1 DEF Place
  <2>3. Counted(V) = Len(V)
    BY <2>2 DEF Counted
  <2>4. reports.digits = First(V, Len(V))
    BY <1>2, <2>3 DEF Playing, V
  <2> QED
    BY <2>1, <2>2, <2>4, FirstIs DEF V
<1> QED
  BY <1>1, <1>2 DEF DialInv

-----------------------------------------------------------------------------
\* Every variable keeps its type, and the gain in force is the one that was asked for:
\* unmute() brings back what setGain() set last.
THEOREM GainKept == TapsSpec => [](TapsTyped /\ GainAsAsked)
<1>1. TapsInv => TapsTyped /\ GainAsAsked
  BY DEF TapsInv
<1> QED
  BY <1>1, TapsInvariance, PTL

\* VadHandler drops and marks the frames of each direction as the speech in them asks,
\* at the gain that was asked for, whatever the other direction, reset() and mute() do.
THEOREM TalkspurtsMarked == TapsSpec => []TalkspurtsAreMarked
<1>1. TapsInv => TalkspurtsAreMarked
  BY DEF TapsInv
<1> QED
  BY <1>1, TapsInvariance, PTL

\* GoertzelHandler reports a digit for the frames at which it has lasted long enough, and
\* for no others.
THEOREM OnlySteadyReported == TapsSpec => []ReportedIffSteady
<1>1. TapsInv => ReportedIffSteady
  BY DEF TapsInv
<1> QED
  BY <1>1, TapsInvariance, PTL

\* What generateSequence() makes of the digits dialled is heard as those digits.
THEOREM DialledHeard == TapsSpec => []DialledIsHeard
  BY PlayedIsHeard, TapsInvariance, PTL


=============================================================================

--------------------------- MODULE AudioMixerHandler ---------------------------
(***************************************************************************)
(* The conference stage (src/pipeline/audio_mixer_handler.cpp): a bounded  *)
(* queue of frames per participant, and a round that pushes one frame of   *)
(* each into the AudioMixer, hands every participant the mix of the others *)
(* and clears the mixer.  Delivering a mix calls the application, which    *)
(* may call incoming() again before the round goes on.                     *)
(***************************************************************************)
EXTENDS AudioMixer, Sequences

CONSTANTS
  Roles,          \* what may be registered: with an output handler, with a decoder
  kMaxFramesPerParticipant,
  MaxArrivals,    \* bound: frames that arrive
  MaxChanges      \* bound: participants added or removed

ASSUME QueueAssumption ==
  /\ Roles \subseteq [output : BOOLEAN, decoder : BOOLEAN]
  /\ kMaxFramesPerParticipant \in Nat \ {0}
  /\ MaxArrivals \in Nat /\ MaxChanges \in Nat

VARIABLES
  info,           \* _participants of the handler: ParticipantInfo by SSRC
  serving,        \* whether mix() is running
  pending,        \* participants with an output that mix() has yet to serve
  \* The rest records history that the code does not keep.
  arrived,        \* the number of the last frame each sender sent
  gathered,       \* the real frame that each sender has in this round, if any
  heard,          \* what each participant was given in this round
  changes         \* participants added or removed so far

roundVars == <<serving, pending, gathered, heard>>
mixerVars == <<mixer, dominant, told>>
vars == <<params, mixerVars, info, roundVars, arrived, changes>>

NoFrame == 0

Init ==
  /\ params \in ParamChoices
  /\ mixer = [p \in {} |-> FreshState] /\ info = [p \in {} |-> <<>>]
  /\ dominant = Nobody /\ told = [p \in Participants |-> FALSE]
  /\ serving = FALSE /\ pending = {}
  /\ arrived = [p \in Participants |-> 0]
  /\ gathered = [p \in Participants |-> NoFrame]
  /\ heard = [p \in Participants |-> NoMix]
  /\ changes = 0

\* addParticipant(): both maps keep the entry of a participant who is there already.
addParticipant(p, role) ==
  /\ ~serving /\ changes < MaxChanges
  /\ mixer' = WithParticipant(mixer, p)
  /\ info' = [q \in DOMAIN info \cup {p} |->
                IF q \in DOMAIN info THEN info[q]
                ELSE [output |-> role.output, decoder |-> role.decoder, queue |-> <<>>]]
  /\ changes' = changes + 1
  /\ told' = IF p \in DOMAIN info THEN told ELSE [told EXCEPT ![p] = FALSE]
  /\ UNCHANGED <<params, dominant, roundVars, arrived>>

\* removeParticipant(): out of both maps.
removeFromMixer(p) ==
  /\ ~serving /\ changes < MaxChanges
  /\ p \in DOMAIN info
  /\ mixer' = WithoutParticipant(mixer, p)
  /\ changes' = changes + 1
  /\ UNCHANGED <<params, dominant, told, info, roundVars, arrived>>

removeParticipant(p) ==
  /\ ~serving /\ changes < MaxChanges
  /\ p \in DOMAIN info
  /\ mixer' = WithoutParticipant(mixer, p)
  /\ info' = [q \in DOMAIN info \ {p} |-> info[q]]
  /\ changes' = changes + 1
  /\ UNCHANGED <<params, dominant, told, roundVars, arrived>>

\* incoming(): a full queue loses its oldest frame.  Frames of strangers and empty
\* buffers change nothing.
QueuedNewestLost(q, f) == IF Len(q) >= kMaxFramesPerParticipant THEN q ELSE Append(q, f)

Queued(q, f) == Append(IF Len(q) >= kMaxFramesPerParticipant THEN Tail(q) ELSE q, f)

Total(f) == FoldSet(LAMBDA p, n : n + f[p], 0, Participants)

incoming(p, kind) ==
  /\ p \in DOMAIN info
  /\ Total(arrived) < MaxArrivals
  /\ arrived' = [arrived EXCEPT ![p] = @ + 1]
  /\ LET f == [seq |-> arrived[p] + 1, len |-> kind.len, level |-> kind.level]
     IN  info' = [info EXCEPT ![p].queue = Queued(@, f)]
  /\ UNCHANGED <<params, mixerVars, roundVars, changes>>

-----------------------------------------------------------------------------
\* mix(), step 1: the oldest frame of each participant, or what its decoder makes up
\* where there is none.  (A decoder with nothing to offer counts as no decoder.)
Waiting == {p \in DOMAIN info : info[p].queue # <<>>}
Concealed == {p \in DOMAIN info \ Waiting : info[p].decoder}
Concealment == [seq |-> NoFrame, len |-> MaxSamples, level |-> VadThreshold]

Peeked(q) == q

Popped(q) == IF q = <<>> THEN q ELSE Tail(q)

gatherFrames ==
  /\ ~serving /\ DOMAIN info # {}
  /\ mixer' = [p \in DOMAIN mixer |->
                 CASE p \in Waiting -> Pushed(mixer[p], Head(info[p].queue))
                   [] p \in Concealed -> Pushed(mixer[p], Concealment)
                   [] OTHER -> mixer[p]]
  /\ told' = ToldAfter(mixer, mixer')
  /\ info' = [p \in DOMAIN info |->
                [info[p] EXCEPT !.queue = Popped(@)]]
  /\ serving' = TRUE
  /\ pending' = {p \in DOMAIN info : info[p].output}
  /\ gathered' = [p \in Participants |->
                    IF p \in Waiting THEN Head(info[p].queue).seq ELSE NoFrame]
  /\ UNCHANGED <<params, dominant, heard, arrived, changes>>

\* Step 2: the mix for one participant, and its delivery if there is one.
serve(p) ==
  /\ p \in pending
  /\ pending' = pending \ {p}
  /\ dominant' \in DominantOf(mixer)
  /\ heard' = [heard EXCEPT ![p] = MixFor(mixer, p)]
  /\ UNCHANGED <<params, mixer, told, info, serving, arrived, gathered, changes>>

\* Step 3: clear the mixer.
finishRound ==
  /\ serving /\ pending = {}
  /\ mixer' = Cleared(mixer)
  /\ serving' = FALSE
  /\ gathered' = [p \in Participants |-> NoFrame]
  /\ heard' = [p \in Participants |-> NoMix]
  /\ UNCHANGED <<params, dominant, told, info, pending, arrived, changes>>

mix ==
  \/ gatherFrames
  \/ \E p \in pending : serve(p)
  \/ finishRound

Next ==
  \/ \E p \in Participants :
       \/ \E role \in Roles : addParticipant(p, role)
       \/ removeParticipant(p)
       \/ \E kind \in Kinds : incoming(p, kind)
  \/ mix

Spec == Init /\ [][Next]_vars

-----------------------------------------------------------------------------
\* Every variable has its type, the mixer knows exactly the participants of the
\* handler (add and remove change both maps), and outside a round nobody has data.
TypeOK ==
  /\ params \in ParamChoices
  /\ DOMAIN info = DOMAIN mixer /\ DOMAIN info \subseteq Participants
  /\ \A p \in DOMAIN mixer : mixer[p] \in ParticipantState
  /\ \A p \in DOMAIN info : /\ info[p].output \in BOOLEAN /\ info[p].decoder \in BOOLEAN
                            /\ info[p].queue \in Seq(Frame)
  /\ dominant \in Participants \cup {Nobody}
  /\ told \in [Participants -> BOOLEAN]
  /\ serving \in BOOLEAN /\ pending \subseteq DOMAIN info
  /\ arrived \in [Participants -> Nat] /\ gathered \in [Participants -> Nat]
  /\ changes \in 0 .. MaxChanges
  /\ pending # {} => serving

\* A queue is bounded and holds the newest frames of its sender, in order and without
\* a gap, whatever the order of arrivals, rounds, departures and returns.
QueueHoldsNewest ==
  \A p \in DOMAIN info :
    LET q == info[p].queue
    IN  /\ Len(q) <= kMaxFramesPerParticipant
        /\ \A i \in 1 .. Len(q) : q[i].seq = arrived[p] - Len(q) + i

\* Who was served in this round heard frames of this round only, none of its own, and
\* with neither VAD nor a limit on speakers the frame of everybody else: no frame of an
\* earlier round lingers in the mixer, and no two participants hear different frames
\* of one sender.  A mix without a single sample is not delivered.
HearsOthersOfThisRound ==
  \A p \in DOMAIN info : heard[p] # NoMix =>
    LET real == {s \in heard[p].from : s[2] # NoFrame}
        others == {<<q, gathered[q]>> : q \in {o \in DOMAIN info \ {p} : gathered[o] # NoFrame}}
    IN  /\ \A s \in heard[p].from : s[1] # p
        /\ real \subseteq others
        /\ (~params.enableVad /\ params.maxActiveSpeakers = 0) => real = others

\* The speaker limit never prefers the quieter: whoever is louder than somebody in a
\* mix, and has audio in the round, is in it too, save the listener.
LoudestAreHeard ==
  \A p \in DOMAIN info : heard[p] # NoMix =>
    LET in == {s[1] : s \in heard[p].from}
    IN  \A q \in in, r \in WithData(mixer) \ {p} :
          (mixer[r].energy > mixer[q].energy /\ (params.enableVad => mixer[r].speaking)) => r \in in

\* What the callback last said of a participant is what the mixer holds of it: no
\* transition goes unreported, and none is reported that did not happen.
CallbackTellsState ==
  params.enableVad => \A p \in DOMAIN info : told[p] = mixer[p].speaking

\* A frame is mixed in at most one round, and rounds take the frames of a sender in
\* the order in which they came, whatever is lost between them: all that stays queued
\* when a round has taken its frame is newer.
FramesMoveForward ==
  [][serving' /\ ~serving =>
       \A p \in DOMAIN info : /\ info[p].queue # <<>> => gathered'[p] # NoFrame
                             /\ \A i \in 1 .. Len(info'[p].queue) :
                                  info'[p].queue[i].seq > gathered'[p]]_vars

-----------------------------------------------------------------------------
\* Documented, but not what the code does.

\* "When > 0, only the top N loudest participants are mixed": no mix has more sources than
\* maxActiveSpeakers allows, of whatever energy they are.
AtMostMaxActive ==
  \A p \in DOMAIN info : params.maxActiveSpeakers > 0 =>
    Cardinality(heard[p].from) <= params.maxActiveSpeakers

=============================================================================

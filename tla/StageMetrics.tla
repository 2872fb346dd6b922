----------------------------- MODULE StageMetrics -----------------------------
(***************************************************************************)
(* The metrics of one pipeline stage: InstrumentedStage, which times the   *)
(* handler it wraps, and the lock-free counters and latency extremes of    *)
(* StageMetrics (src/pipeline/stage_metrics.cpp).  Media threads record    *)
(* frames of both directions at once; a monitoring thread takes snapshots. *)
(* Each access to an atomic is a step; a weak compare-exchange may fail    *)
(* although the value is the expected one.                                 *)
(***************************************************************************)
EXTENDS Integers, Sequences, FiniteSets

CONSTANTS
  Threads,        \* media threads in the stage
  Latencies,      \* latencies, in microseconds, a frame may have
  Unmeasured,     \* the initial minimum, numeric_limits<int64_t>::max()
  MaxFrames       \* bound: calls of incoming() and outgoing()

ASSUME LatencyAssumption ==
  /\ Latencies \subseteq Nat /\ Unmeasured \in Nat /\ \A l \in Latencies : l < Unmeasured
  /\ MaxFrames \in Nat

VARIABLES
  m,              \* the atomics of StageMetrics
  hasDownstream,  \* _hasDownstream, set when the graph is wired
  call,           \* each thread's call: where it is, the direction and latency of
                  \* its frame, the value its compare-exchange expects
  reading,        \* fields the running snapshot() has still to load
  copy,           \* the fields it has loaded
  \* The rest records history that the code does not keep.
  calls,          \* calls made
  timed           \* how many frames of each latency have been added to the total

recordVars == <<hasDownstream, calls, timed>>
readVars == <<reading, copy>>
vars == <<m, call, recordVars, readVars>>

\* The fields in the order in which snapshot() loads them.
Fields == <<"framesIn", "framesOut", "framesDropped", "errorCount",
            "totalLatencyUs", "maxLatencyUs", "minLatencyUs">>
Empty == [f \in {Fields[i] : i \in DOMAIN Fields} |->
            IF f = "minLatencyUs" THEN Unmeasured ELSE 0]

Idle == [at |-> "idle", dir |-> "incoming", us |-> 0, current |-> 0]
Goto(t, l) == call' = [call EXCEPT ![t].at = l]
Return(t) == call' = [call EXCEPT ![t] = Idle]
At(labels) == {t \in Threads : call[t].at \in labels}

Add(f, n) == m' = [m EXCEPT ![f] = @ + n]

Init ==
  /\ m = Empty
  /\ hasDownstream \in BOOLEAN
  /\ call = [t \in Threads |-> Idle]
  /\ reading = <<>> /\ copy = Empty
  /\ calls = 0
  /\ timed = [l \in Latencies |-> 0]

-----------------------------------------------------------------------------
\* InstrumentedStage::incoming() and outgoing(): run the wrapped handler ...
enter(t, d) ==
  /\ t \in At({"idle"}) /\ calls < MaxFrames
  /\ calls' = calls + 1
  /\ call' = [call EXCEPT ![t].at = "handler", ![t].dir = d]
  /\ UNCHANGED <<m, hasDownstream, timed, readVars>>

\* ... which may throw: the error is counted and thrown on, the frame is not.
recordError(t) ==
  /\ t \in At({"handler"})
  /\ Add("errorCount", 1)
  /\ Return(t)
  /\ UNCHANGED <<recordVars, readVars>>

\* recordIncoming() and recordOutgoing(): count the frame, then its latency.
recordFrame(t, latency) ==
  /\ t \in At({"handler"})
  /\ Add(IF call[t].dir = "incoming" THEN "framesIn" ELSE "framesOut", 1)
  /\ call' = [call EXCEPT ![t].at = "total", ![t].us = latency]
  /\ UNCHANGED <<recordVars, readVars>>

\* updateLatency(): the total,
addTotal(t) ==
  /\ t \in At({"total"})
  /\ Add("totalLatencyUs", call[t].us)
  /\ timed' = [timed EXCEPT ![call[t].us] = @ + 1]
  /\ Goto(t, "loadMax")
  /\ UNCHANGED <<hasDownstream, calls, readVars>>

\* the load before each compare-exchange loop,
loadTotal(t) ==
  /\ t \in At({"loadMax", "loadMin"})
  /\ call' = [call EXCEPT ![t].at = IF @ = "loadMax" THEN "max" ELSE "min",
                          ![t].current = m["totalLatencyUs"]]
  /\ UNCHANGED <<m, recordVars, readVars>>

load(t) ==
  /\ \/ /\ t \in At({"loadMax"})
        /\ call' = [call EXCEPT ![t].at = "max", ![t].current = m["maxLatencyUs"]]
     \/ /\ t \in At({"loadMin"})
        /\ call' = [call EXCEPT ![t].at = "min", ![t].current = m["minLatencyUs"]]
  /\ UNCHANGED <<m, recordVars, readVars>>

\* and the loops.  An exchange succeeds only where the field has the value
\* expected; when it has not, or for no reason, it fails and the value found is
\* expected next.
exchangeBlindly(t, f) == m' = [m EXCEPT ![f] = call[t].us]

exchange(t, f) ==
  /\ m[f] = call[t].current
  /\ m' = [m EXCEPT ![f] = call[t].us]

retry(t, f) ==
  /\ call' = [call EXCEPT ![t].current = m[f]]
  /\ UNCHANGED m

updateMax(t) ==
  /\ t \in At({"max"})
  /\ \/ call[t].us > call[t].current /\ exchange(t, "maxLatencyUs") /\ Goto(t, "loadMin")
     \/ call[t].us > call[t].current /\ retry(t, "maxLatencyUs")
     \/ call[t].us <= call[t].current /\ Goto(t, "loadMin") /\ UNCHANGED m
  /\ UNCHANGED <<recordVars, readVars>>

\* An incoming frame of a stage without a downstream handler counts as dropped.
dropsEvery(t) == ~hasDownstream
drops(t) == call[t].dir = "incoming" /\ ~hasDownstream

leaveMin(t) == IF drops(t) THEN Goto(t, "drop") ELSE Return(t)

updateMin(t) ==
  /\ t \in At({"min"})
  /\ \/ call[t].us < call[t].current /\ exchange(t, "minLatencyUs") /\ leaveMin(t)
     \/ call[t].us < call[t].current /\ retry(t, "minLatencyUs")
     \/ call[t].us >= call[t].current /\ leaveMin(t) /\ UNCHANGED m
  /\ UNCHANGED <<recordVars, readVars>>

recordDrop(t) ==
  /\ t \in At({"drop"})
  /\ Add("framesDropped", 1)
  /\ Return(t)
  /\ UNCHANGED <<recordVars, readVars>>

\* snapshot(): field after field.
snapshot ==
  /\ reading = <<>>
  /\ reading' = Fields
  /\ copy' = Empty
  /\ UNCHANGED <<m, call, recordVars>>

loadField ==
  /\ reading # <<>>
  /\ copy' = [copy EXCEPT ![Head(reading)] = m[Head(reading)]]
  /\ reading' = Tail(reading)
  /\ UNCHANGED <<m, call, recordVars>>

step(t) ==
  \/ recordError(t)
  \/ \E l \in Latencies : recordFrame(t, l)
  \/ addTotal(t) \/ load(t) \/ updateMax(t) \/ updateMin(t) \/ recordDrop(t)

Next ==
  \/ \E t \in Threads : step(t) \/ \E d \in {"incoming", "outgoing"} : enter(t, d)
  \/ snapshot \/ loadField

Spec == Init /\ [][Next]_vars

-----------------------------------------------------------------------------
\* Every variable has its type.
TypeOK ==
  /\ \A f \in DOMAIN Empty : m[f] \in Nat /\ copy[f] \in Nat
  /\ hasDownstream \in BOOLEAN
  /\ call \in [Threads -> [at : {"idle", "handler", "total", "loadMax", "max", "loadMin", "min", "drop"},
                           dir : {"incoming", "outgoing"},
                           us : Latencies \cup {0},
                           current : Latencies \cup {0, Unmeasured}]]
  /\ calls \in 0 .. MaxFrames

\* Whatever the interleaving of the compare-exchange loops, the extremes are
\* those of the latencies recorded: each is one of them (or still the initial
\* value) and none lies beyond, save those whose thread is still in the loop.
ExtremesExact ==
  LET seen == {l \in Latencies : timed[l] > 0}
  IN  /\ m["maxLatencyUs"] \in seen \cup {0} /\ m["minLatencyUs"] \in seen \cup {Unmeasured}
      /\ \A l \in seen :
           /\ \/ l <= m["maxLatencyUs"]
              \/ \E t \in At({"loadMax", "max"}) : call[t].us = l
           /\ \/ l >= m["minLatencyUs"]
              \/ \E t \in At({"loadMax", "max", "loadMin", "min"}) : call[t].us = l

\* Every call is accounted for once: as a frame, as an error, or as a thread
\* that is still in its handler; and every incoming frame of a terminal stage,
\* and no other, is also a drop once its call is over.
CallsAccounted ==
  /\ calls = m["framesIn"] + m["framesOut"] + m["errorCount"] + Cardinality(At({"handler"}))
  /\ LET pending == {t \in At({"total", "loadMax", "max", "loadMin", "min", "drop"}) :
                       call[t].dir = "incoming"}
     IN  m["framesDropped"] = IF hasDownstream THEN 0
                              ELSE m["framesIn"] - Cardinality(pending)

\* A snapshot mixes fields of different moments, but the metrics never go back
\* behind what a monitor has loaded: counters do not fall, nor do the extremes
\* move inwards, so that each snapshot is at least as far as the one before.
SnapshotsAdvance ==
  \A f \in DOMAIN Empty :
    f \in {reading[i] : i \in DOMAIN reading} \/
    IF f = "minLatencyUs" THEN m[f] <= copy[f] ELSE m[f] >= copy[f]

=============================================================================

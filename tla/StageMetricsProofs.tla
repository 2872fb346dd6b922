-------------------------- MODULE StageMetricsProofs --------------------------
(***************************************************************************)
(* The metrics of a stage for any set of threads, finite or not, and any   *)
(* latencies.  What the runs check is not inductive: it takes, of a thread *)
(* in a compare-exchange loop, that its latency has been added to the      *)
(* total, and that the value it expects lies behind the extreme, which     *)
(* only moves outwards (InLoop); and, of a thread about to count a drop,   *)
(* that it has reason to (Accounted).                                      *)
(***************************************************************************)
EXTENDS StageMetrics, FiniteSetTheorems, TLAPS

FieldNames == {"framesIn", "framesOut", "framesDropped", "errorCount",
               "totalLatencyUs", "maxLatencyUs", "minLatencyUs"}
Labels == {"idle", "handler", "total", "loadMax", "max", "loadMin", "min", "drop"}
Call == [at : Labels, dir : {"incoming", "outgoing"},
         us : Latencies \cup {0}, current : Latencies \cup {0, Unmeasured}]

Typed ==
  /\ m \in [FieldNames -> Nat] /\ copy \in [FieldNames -> Nat]
  /\ hasDownstream \in BOOLEAN
  /\ call \in [Threads -> Call]
  /\ m["maxLatencyUs"] \in Latencies \cup {0}
  /\ m["minLatencyUs"] \in Latencies \cup {Unmeasured}
  /\ reading \in Seq(FieldNames)
  /\ calls \in 0 .. MaxFrames
  /\ timed \in [Latencies -> Nat]
  /\ \A t \in At({"total", "loadMax", "max", "loadMin", "min"}) : call[t].us \in Latencies

\* A thread between the total and the end of its loops.
InLoop(t) ==
  /\ call[t].at \in {"loadMax", "max", "loadMin", "min"} => timed[call[t].us] > 0
  /\ call[t].at = "max" => call[t].current <= m["maxLatencyUs"]
  /\ call[t].at = "min" => call[t].current >= m["minLatencyUs"]

LoopInv == ExtremesExact /\ \A t \in Threads : InLoop(t)

\* ExtremesExact in its two halves.
Seen == {l \in Latencies : timed[l] > 0}
Maximizing == At({"loadMax", "max"})
Minimizing == At({"loadMax", "max", "loadMin", "min"})
MaxExact ==
  /\ m["maxLatencyUs"] \in Seen \cup {0}
  /\ \A l \in Seen : l <= m["maxLatencyUs"] \/ \E t \in Maximizing : call[t].us = l
MinExact ==
  /\ m["minLatencyUs"] \in Seen \cup {Unmeasured}
  /\ \A l \in Seen : l >= m["minLatencyUs"] \/ \E t \in Minimizing : call[t].us = l

Pending == {t \in At({"total", "loadMax", "max", "loadMin", "min", "drop"}) :
              call[t].dir = "incoming"}

Accounted ==
  /\ CallsAccounted
  /\ IsFiniteSet(At({"handler"})) /\ IsFiniteSet(Pending)
  /\ \A t \in At({"drop"}) : drops(t)

IInv == Typed /\ LoopInv /\ Accounted /\ SnapshotsAdvance

-----------------------------------------------------------------------------
LEMMA FieldsAre == Fields \in Seq(FieldNames) /\ {Fields[i] : i \in DOMAIN Fields} = FieldNames
<1>1. DOMAIN Fields = 1 .. 7 /\ Len(Fields) = 7
  BY DEF Fields
<1>2. \A i \in 1 .. 7 : Fields[i] \in FieldNames
  BY DEF Fields, FieldNames
<1>3. \A f \in FieldNames : \E i \in 1 .. 7 : Fields[i] = f
  BY DEF Fields, FieldNames
<1>4. Fields \in Seq(FieldNames)
  BY DEF Fields, FieldNames
<1>. QED
  BY <1>1, <1>2, <1>3, <1>4

LEMMA EmptyIs ==
  /\ Empty \in [FieldNames -> Nat] /\ DOMAIN Empty = FieldNames
  /\ \A f \in FieldNames : Empty[f] = IF f = "minLatencyUs" THEN Unmeasured ELSE 0
BY FieldsAre, LatencyAssumption DEF Empty

\* All of it are numbers.
LEMMA Numbers ==
  ASSUME Typed
  PROVE  /\ m["maxLatencyUs"] \in Nat /\ m["minLatencyUs"] \in Nat
         /\ \A t \in Threads : call[t].us \in Nat /\ call[t].current \in Nat
<1>1. m["maxLatencyUs"] \in Nat /\ m["minLatencyUs"] \in Nat
  BY DEF Typed, FieldNames
<1>2. Latencies \cup {0} \subseteq Nat /\ Latencies \cup {0, Unmeasured} \subseteq Nat
  BY LatencyAssumption
<1>3. \A t \in Threads :
        call[t].us \in Latencies \cup {0} /\ call[t].current \in Latencies \cup {0, Unmeasured}
  BY DEF Typed, Call
<1> QED
  BY <1>1, <1>2, <1>3

\* Changing one field of a thread's record changes the record.
LEMMA LabelChange ==
  ASSUME Typed, NEW t \in Threads, NEW a \in Labels
  PROVE  /\ [call[t] EXCEPT !.at = a] \in Call
         /\ [call[t] EXCEPT !.at = a].us = call[t].us
         /\ [call EXCEPT ![t].at = a] = [call EXCEPT ![t] = [call[t] EXCEPT !.at = a]]
BY DEF Typed, Call

LEMMA ExpectedChange ==
  ASSUME Typed, NEW t \in Threads, NEW n \in Latencies \cup {0, Unmeasured}
  PROVE  /\ [call[t] EXCEPT !.current = n] \in Call
         /\ [call[t] EXCEPT !.current = n].us = call[t].us
         /\ [call EXCEPT ![t].current = n] = [call EXCEPT ![t] = [call[t] EXCEPT !.current = n]]
BY DEF Typed, Call

\* A thread's step keeps the types if the thread's own record and the metrics do.
LEMMA TypedStep ==
  ASSUME Typed, NEW t \in Threads, UNCHANGED <<hasDownstream, readVars>>,
         NEW c \in Call,
         call' = [call EXCEPT ![t] = c],
         c.at \in {"total", "loadMax", "max", "loadMin", "min"} => c.us \in Latencies,
         calls' \in 0 .. MaxFrames,
         m' \in [FieldNames -> Nat], m'["maxLatencyUs"] \in Latencies \cup {0},
         m'["minLatencyUs"] \in Latencies \cup {Unmeasured},
         timed' \in [Latencies -> Nat]
  PROVE  Typed'
<1>1. \A u \in Threads : call'[u] = IF u = t THEN c ELSE call[u]
  BY DEF Typed
<1>2. \A u \in At({"total", "loadMax", "max", "loadMin", "min"})' : call'[u].us \in Latencies
  BY <1>1 DEF At, Typed
<1>3. call' \in [Threads -> Call]
  BY DEF Typed
<1>. QED
  BY <1>2, <1>3 DEF Typed, readVars

\* The actions that record, each as one change of the thread's record and of the metrics.
LEMMA TypedNext == Typed /\ [Next]_vars => Typed'
<1> SUFFICES ASSUME Typed, [Next]_vars PROVE Typed'
  OBVIOUS
<1>1. /\ m \in [FieldNames -> Nat] /\ copy \in [FieldNames -> Nat]
      /\ call \in [Threads -> Call] /\ timed \in [Latencies -> Nat]
  BY DEF Typed
<1>2. Idle \in Call /\ Idle.at = "idle"
  BY DEF Idle, Call, Labels
<1>3. \A f \in FieldNames, n \in Nat : [m EXCEPT ![f] = @ + n] \in [FieldNames -> Nat]
  BY <1>1
<1>4. ASSUME NEW t \in Threads, NEW d \in {"incoming", "outgoing"}, enter(t, d)
      PROVE  Typed'
  <2> DEFINE c == [call[t] EXCEPT !.at = "handler", !.dir = d]
  <2>1. c \in Call /\ c.at = "handler"
    BY <1>1 DEF Call, Labels
  <2>2. call' = [call EXCEPT ![t] = c]
    BY <1>1, <1>4 DEF enter
  <2>3. calls' \in 0 .. MaxFrames
    BY <1>4, LatencyAssumption DEF enter, Typed
  <2> HIDE DEF c
  <2> QED
    BY <1>4, <2>1, <2>2, <2>3, TypedStep DEF enter, Typed
<1>5. ASSUME NEW t \in Threads, recordError(t)
      PROVE  Typed'
  <2>1. /\ m' \in [FieldNames -> Nat]
        /\ m'["maxLatencyUs"] = m["maxLatencyUs"] /\ m'["minLatencyUs"] = m["minLatencyUs"]
    BY <1>1, <1>5 DEF recordError, Add, FieldNames
  <2> QED
    BY <1>2, <1>5, <2>1, TypedStep DEF recordError, Return, recordVars, Typed
<1>6. ASSUME NEW t \in Threads, NEW l \in Latencies, recordFrame(t, l)
      PROVE  Typed'
  <2> DEFINE c == [call[t] EXCEPT !.at = "total", !.us = l]
  <2>1. c \in Call /\ c.us = l
    BY <1>1 DEF Call, Labels
  <2>2. call' = [call EXCEPT ![t] = c]
    BY <1>1, <1>6 DEF recordFrame
  <2>3. /\ m' \in [FieldNames -> Nat]
        /\ m'["maxLatencyUs"] = m["maxLatencyUs"] /\ m'["minLatencyUs"] = m["minLatencyUs"]
    BY <1>1, <1>6 DEF recordFrame, Add, FieldNames
  <2> HIDE DEF c
  <2> QED
    BY <1>6, <2>1, <2>2, <2>3, TypedStep DEF recordFrame, recordVars, Typed
<1>7. ASSUME NEW t \in Threads, addTotal(t)
      PROVE  Typed'
  <2> DEFINE c == [call[t] EXCEPT !.at = "loadMax"]
  <2>1. call[t].us \in Latencies
    BY <1>7 DEF addTotal, At, Typed
  <2>2. c \in Call /\ c.us = call[t].us
    BY <1>1 DEF Call, Labels
  <2>3. call' = [call EXCEPT ![t] = c]
    BY <1>1, <1>7 DEF addTotal, Goto
  <2>4. /\ m' \in [FieldNames -> Nat]
        /\ m'["maxLatencyUs"] = m["maxLatencyUs"] /\ m'["minLatencyUs"] = m["minLatencyUs"]
    <3>1. call[t].us \in Nat
      BY <2>1, LatencyAssumption
    <3> QED
      BY <1>1, <1>7, <3>1 DEF addTotal, Add, FieldNames
  <2>5. timed' \in [Latencies -> Nat]
    BY <1>1, <1>7, <2>1 DEF addTotal
  <2> HIDE DEF c
  <2> QED
    BY <1>7, <2>1, <2>2, <2>3, <2>4, <2>5, TypedStep DEF addTotal, Typed
<1>8. ASSUME NEW t \in Threads, load(t)
      PROVE  Typed'
  <2>1. PICK a \in {"max", "min"}, n \in Latencies \cup {0, Unmeasured} :
          call' = [call EXCEPT ![t].at = a, ![t].current = n]
    BY <1>8 DEF load, Typed
  <2> DEFINE c == [call[t] EXCEPT !.at = a, !.current = n]
  <2>2. c \in Call /\ c.us = call[t].us /\ call[t].us \in Latencies
    BY <1>1, <1>8 DEF Call, Labels, load, At, Typed
  <2>3. call' = [call EXCEPT ![t] = c]
    BY <1>1, <2>1
  <2> HIDE DEF c
  <2> QED
    BY <1>8, <2>2, <2>3, TypedStep DEF load, recordVars, Typed
<1>9. ASSUME NEW t \in Threads, updateMax(t)
      PROVE  Typed'
  <2>1. call[t] \in Call /\ call[t].us \in Latencies
    BY <1>1, <1>9 DEF updateMax, At, Typed
  <2>2. /\ m' \in [FieldNames -> Nat]
        /\ m'["maxLatencyUs"] \in Latencies \cup {0} /\ m'["minLatencyUs"] = m["minLatencyUs"]
    BY <1>1, <1>9, <2>1, LatencyAssumption DEF updateMax, exchange, retry, FieldNames, Typed
  <2>3. PICK c \in Call : call' = [call EXCEPT ![t] = c] /\ c.us = call[t].us
    <3>1. CASE call' = [call EXCEPT ![t].at = "loadMin"]
      BY <3>1, LabelChange DEF Labels
    <3>2. CASE call' = [call EXCEPT ![t].current = m["maxLatencyUs"]]
      <4>1. m["maxLatencyUs"] \in Latencies \cup {0, Unmeasured}
        BY DEF Typed
      <4> QED
        BY <3>2, <4>1, ExpectedChange
    <3> QED
      BY <1>9, <3>1, <3>2 DEF updateMax, Goto, retry
  <2> QED
    BY <1>9, <2>1, <2>2, <2>3, TypedStep DEF updateMax, recordVars, Typed
<1>10. ASSUME NEW t \in Threads, updateMin(t)
      PROVE  Typed'
  <2>1. call[t] \in Call /\ call[t].us \in Latencies
    BY <1>1, <1>10 DEF updateMin, At, Typed
  <2>2. /\ m' \in [FieldNames -> Nat]
        /\ m'["minLatencyUs"] \in Latencies \cup {Unmeasured}
        /\ m'["maxLatencyUs"] = m["maxLatencyUs"]
    BY <1>1, <1>10, <2>1, LatencyAssumption DEF updateMin, exchange, retry, FieldNames, Typed
  <2>3. PICK c \in Call : call' = [call EXCEPT ![t] = c] /\ (c.us = call[t].us \/ c.at = "idle")
    <3>1. CASE call' = [call EXCEPT ![t].at = "drop"]
      BY <3>1, LabelChange DEF Labels
    <3>2. CASE call' = [call EXCEPT ![t].current = m["minLatencyUs"]]
      <4>1. m["minLatencyUs"] \in Latencies \cup {0, Unmeasured}
        BY DEF Typed
      <4> QED
        BY <3>2, <4>1, ExpectedChange
    <3>3. CASE call' = [call EXCEPT ![t] = Idle]
      BY <1>2, <3>3
    <3> QED
      BY <1>10, <3>1, <3>2, <3>3 DEF updateMin, leaveMin, Return, Goto, retry
  <2> QED
    BY <1>10, <2>1, <2>2, <2>3, TypedStep DEF updateMin, recordVars, Typed
<1>11. ASSUME NEW t \in Threads, recordDrop(t)
      PROVE  Typed'
  <2>1. /\ m' \in [FieldNames -> Nat]
        /\ m'["maxLatencyUs"] = m["maxLatencyUs"] /\ m'["minLatencyUs"] = m["minLatencyUs"]
    BY <1>1, <1>11 DEF recordDrop, Add, FieldNames
  <2> QED
    BY <1>2, <1>11, <2>1, TypedStep DEF recordDrop, Return, recordVars, Typed
<1>12. CASE snapshot
  BY <1>12, FieldsAre, EmptyIs DEF snapshot, recordVars, Typed, At
<1>13. CASE loadField
  <2>1. /\ Head(reading) \in FieldNames /\ Tail(reading) \in Seq(FieldNames)
    BY <1>13 DEF loadField, Typed
  <2>2. copy' \in [FieldNames -> Nat]
    BY <1>1, <1>13, <2>1 DEF loadField
  <2> QED
    BY <1>13, <2>1, <2>2 DEF loadField, recordVars, Typed, At
<1>14. CASE UNCHANGED vars
  BY <1>14 DEF vars, recordVars, readVars, Typed, At
<1> QED
  BY <1>4, <1>5, <1>6, <1>7, <1>8, <1>9, <1>10, <1>11, <1>12, <1>13, <1>14 DEF Next, step

-----------------------------------------------------------------------------
\* A thread's step leaves the other threads where they are.
Moves(t) == \A u \in Threads \ {t} : call'[u] = call[u]

LEMMA ExtremesInHalves == ExtremesExact <=> MaxExact /\ MinExact
BY DEF ExtremesExact, MaxExact, MinExact, Seen, Maximizing, Minimizing

\* The extremes only move outwards, to latencies that have been seen.
Outwards ==
  /\ m'["maxLatencyUs"] >= m["maxLatencyUs"] /\ m'["minLatencyUs"] <= m["minLatencyUs"]
  /\ m'["maxLatencyUs"] \in Seen' \cup {0} /\ m'["minLatencyUs"] \in Seen' \cup {Unmeasured}

\* A step that moves the extremes outwards and lets a thread out of a loop only once the
\* extreme has taken in its latency.
LEMMA ExtremesStep ==
  ASSUME Typed, Typed', ExtremesExact, Outwards, NEW t \in Threads, Moves(t),
         \A l \in Seen' : l \in Seen \/ (t \in Maximizing' /\ call'[t].us = l),
         t \in Maximizing => \/ t \in Maximizing' /\ call'[t].us = call[t].us
                             \/ call[t].us <= m'["maxLatencyUs"],
         t \in Minimizing => \/ t \in Minimizing' /\ call'[t].us = call[t].us
                             \/ call[t].us >= m'["minLatencyUs"]
  PROVE  ExtremesExact'
<1>1. MaxExact /\ MinExact
  BY ExtremesInHalves
<1>2. Maximizing \subseteq Minimizing /\ (Maximizing \subseteq Minimizing)'
  BY DEF Maximizing, Minimizing, At
<1>3. /\ \A u \in Maximizing \ {t} : u \in Maximizing' /\ call'[u].us = call[u].us
      /\ \A u \in Minimizing \ {t} : u \in Minimizing' /\ call'[u].us = call[u].us
  BY DEF Maximizing, Minimizing, At, Moves
<1>4. /\ Seen \subseteq Nat /\ Seen' \subseteq Nat
      /\ m["maxLatencyUs"] \in Nat /\ m["minLatencyUs"] \in Nat
      /\ m'["maxLatencyUs"] \in Nat /\ m'["minLatencyUs"] \in Nat
  <2>1. Seen \subseteq Latencies /\ Seen' \subseteq Latencies
    BY DEF Seen
  <2>2. m'["maxLatencyUs"] \in Nat /\ m'["minLatencyUs"] \in Nat
    BY DEF Typed, FieldNames
  <2> QED
    BY <2>1, <2>2, Numbers, LatencyAssumption
<1>5. MaxExact'
  <2> SUFFICES ASSUME NEW l \in Seen'
               PROVE  l <= m'["maxLatencyUs"] \/ \E u \in Maximizing' : call'[u].us = l
    BY DEF Outwards, MaxExact
  <2>1. CASE l \in Seen /\ l <= m["maxLatencyUs"]
    BY <1>4, <2>1 DEF Outwards
  <2>2. CASE \E u \in Maximizing : call[u].us = l
    BY <1>3, <2>2
  <2> QED
    BY <1>1, <2>1, <2>2 DEF MaxExact
<1>6. MinExact'
  <2> SUFFICES ASSUME NEW l \in Seen'
               PROVE  l >= m'["minLatencyUs"] \/ \E u \in Minimizing' : call'[u].us = l
    BY DEF Outwards, MinExact
  <2>1. CASE l \in Seen /\ l >= m["minLatencyUs"]
    BY <1>4, <2>1 DEF Outwards
  <2>2. CASE \E u \in Minimizing : call[u].us = l
    BY <1>3, <2>2
  <2> QED
    BY <1>1, <1>2, <2>1, <2>2 DEF MinExact
<1> QED
  BY <1>5, <1>6, ExtremesInHalves DEF ExtremesExact, MaxExact, MinExact, Seen, Maximizing, Minimizing

\* A thread in a loop is not disturbed by another's step.
LEMMA OthersInLoop ==
  ASSUME Typed, Typed', NEW t \in Threads, Moves(t), Outwards, Seen \subseteq Seen',
         NEW u \in Threads \ {t}, InLoop(u)
  PROVE  InLoop(u)'
<1>1. call'[u] = call[u]
  BY DEF Moves
<1>2. /\ m["maxLatencyUs"] \in Nat /\ m["minLatencyUs"] \in Nat
      /\ m'["maxLatencyUs"] \in Nat /\ m'["minLatencyUs"] \in Nat /\ call[u].current \in Nat
  <2>1. m'["maxLatencyUs"] \in Nat /\ m'["minLatencyUs"] \in Nat
    BY DEF Typed, FieldNames
  <2> QED
    BY <2>1, Numbers
<1>3. call[u].at \in {"loadMax", "max", "loadMin", "min"} =>
        call[u].us \in Latencies /\ timed'[call[u].us] > 0
  BY DEF InLoop, Typed, At, Seen
<1> QED
  BY <1>1, <1>2, <1>3 DEF InLoop, Outwards

\* The steps that change neither the extremes nor what has been seen.
LEMMA OutwardsIfSame ==
  ASSUME Typed, ExtremesExact, timed' = timed,
         m'["maxLatencyUs"] = m["maxLatencyUs"], m'["minLatencyUs"] = m["minLatencyUs"]
  PROVE  Outwards /\ Seen' = Seen
<1>1. m["maxLatencyUs"] \in Nat /\ m["minLatencyUs"] \in Nat
  BY Numbers
<1> QED
  BY <1>1, ExtremesInHalves DEF Outwards, MaxExact, MinExact, Seen

\* What the loops' threads do, put together.
LEMMA LoopStep ==
  ASSUME Typed, Typed', LoopInv, Outwards, NEW t \in Threads, Moves(t), InLoop(t)',
         Seen \subseteq Seen',
         \A l \in Seen' : l \in Seen \/ (t \in Maximizing' /\ call'[t].us = l),
         t \in Maximizing => \/ t \in Maximizing' /\ call'[t].us = call[t].us
                             \/ call[t].us <= m'["maxLatencyUs"],
         t \in Minimizing => \/ t \in Minimizing' /\ call'[t].us = call[t].us
                             \/ call[t].us >= m'["minLatencyUs"]
  PROVE  LoopInv'
<1>1. ExtremesExact'
  BY ExtremesStep DEF LoopInv
<1>2. \A u \in Threads \ {t} : InLoop(u)'
  BY OthersInLoop DEF LoopInv
<1> QED
  BY <1>1, <1>2 DEF LoopInv

LEMMA LoopNext == Typed /\ LoopInv /\ [Next]_vars => LoopInv'
<1> SUFFICES ASSUME Typed, LoopInv, [Next]_vars PROVE LoopInv'
  OBVIOUS
<1>1. Typed' /\ ExtremesExact
  BY TypedNext DEF LoopInv
<1>2. /\ m \in [FieldNames -> Nat] /\ call \in [Threads -> Call]
      /\ timed \in [Latencies -> Nat]
  BY DEF Typed
<1>3. ASSUME NEW t \in Threads, NEW d \in {"incoming", "outgoing"}, enter(t, d)
      PROVE  LoopInv'
  <2>1. /\ Moves(t) /\ call'[t].at = "handler"
        /\ t \notin Maximizing /\ t \notin Minimizing
    BY <1>2, <1>3 DEF enter, Moves, At, Maximizing, Minimizing
  <2>2. Outwards /\ Seen' = Seen
    BY <1>1, <1>3, OutwardsIfSame DEF enter
  <2> QED
    BY <1>1, <2>1, <2>2, LoopStep DEF InLoop
<1>4. ASSUME NEW t \in Threads, recordError(t)
      PROVE  LoopInv'
  <2>1. /\ Moves(t) /\ call'[t].at = "idle"
        /\ t \notin Maximizing /\ t \notin Minimizing
    BY <1>2, <1>4 DEF recordError, Return, Idle, Moves, At, Maximizing, Minimizing
  <2>2. Outwards /\ Seen' = Seen
    BY <1>1, <1>2, <1>4, OutwardsIfSame DEF recordError, Add, FieldNames, recordVars
  <2> QED
    BY <1>1, <2>1, <2>2, LoopStep DEF InLoop
<1>5. ASSUME NEW t \in Threads, NEW l \in Latencies, recordFrame(t, l)
      PROVE  LoopInv'
  <2>1. /\ Moves(t) /\ call'[t].at = "total"
        /\ t \notin Maximizing /\ t \notin Minimizing
    BY <1>2, <1>5 DEF recordFrame, Moves, At, Maximizing, Minimizing, Call
  <2>2. Outwards /\ Seen' = Seen
    BY <1>1, <1>2, <1>5, OutwardsIfSame DEF recordFrame, Add, FieldNames, recordVars
  <2> QED
    BY <1>1, <2>1, <2>2, LoopStep DEF InLoop
<1>6. ASSUME NEW t \in Threads, addTotal(t)
      PROVE  LoopInv'
  <2>1. /\ Moves(t) /\ call'[t].at = "loadMax" /\ call'[t].us = call[t].us
        /\ t \notin Maximizing /\ t \notin Minimizing
        /\ t \in Maximizing' /\ call[t].us \in Latencies
    BY <1>2, <1>6 DEF addTotal, Goto, Moves, At, Maximizing, Minimizing, Call, Typed
  <2>2. \A l \in Latencies : timed'[l] = IF l = call[t].us THEN timed[l] + 1 ELSE timed[l]
    BY <1>2, <1>6 DEF addTotal
  <2>3. Seen' = Seen \cup {call[t].us}
    BY <1>2, <2>1, <2>2 DEF Seen
  <2>4. /\ m'["maxLatencyUs"] = m["maxLatencyUs"] /\ m'["minLatencyUs"] = m["minLatencyUs"]
        /\ m["maxLatencyUs"] \in Nat /\ m["minLatencyUs"] \in Nat
    BY <1>2, <1>6 DEF addTotal, Add, FieldNames
  <2>5. Outwards
    BY <1>1, <2>3, <2>4, ExtremesInHalves DEF Outwards, MaxExact, MinExact
  <2>6. InLoop(t)'
    BY <1>2, <2>1, <2>2 DEF InLoop
  <2> QED
    BY <1>1, <2>1, <2>3, <2>5, <2>6, LoopStep
<1>7. ASSUME NEW t \in Threads, load(t)
      PROVE  LoopInv'
  <2>1. /\ Moves(t) /\ call'[t].us = call[t].us
        /\ \/ /\ call[t].at = "loadMax" /\ call'[t].at = "max"
              /\ call'[t].current = m["maxLatencyUs"]
           \/ /\ call[t].at = "loadMin" /\ call'[t].at = "min"
              /\ call'[t].current = m["minLatencyUs"]
    BY <1>2, <1>7 DEF load, Moves, At, Call
  <2>2. /\ t \in Maximizing => t \in Maximizing'
        /\ t \in Minimizing => t \in Minimizing'
    BY <2>1 DEF Maximizing, Minimizing, At
  <2>3. Outwards /\ Seen' = Seen /\ m' = m /\ timed' = timed
    BY <1>1, <1>7, OutwardsIfSame DEF load, recordVars
  <2>4. InLoop(t)'
    BY <1>2, <2>1, <2>3 DEF InLoop, LoopInv, FieldNames
  <2> QED
    BY <1>1, <2>1, <2>2, <2>3, <2>4, LoopStep
<1>8. ASSUME NEW t \in Threads, updateMax(t)
      PROVE  LoopInv'
  <2>1. /\ call[t].at = "max" /\ call[t] \in Call /\ call[t].us \in Latencies
        /\ call[t].us \in Nat /\ call[t].current \in Nat
    <3>1. /\ call[t].at = "max" /\ call[t] \in Call /\ call[t].us \in Latencies
      BY <1>2, <1>8 DEF updateMax, At, Typed
    <3> QED
      BY <3>1, Numbers
  <2>2. /\ m["maxLatencyUs"] \in Nat /\ m["minLatencyUs"] \in Nat
        /\ timed[call[t].us] > 0 /\ call[t].us \in Seen
        /\ call[t].current <= m["maxLatencyUs"]
    BY <1>2, <2>1 DEF FieldNames, LoopInv, InLoop, Seen
  <2>3. Seen' = Seen /\ timed' = timed
    BY <1>8 DEF updateMax, recordVars, Seen
  <2>4. m["maxLatencyUs"] \in Seen \cup {0} /\ m["minLatencyUs"] \in Seen \cup {Unmeasured}
    BY <1>1, ExtremesInHalves DEF MaxExact, MinExact
  <2>5. CASE call[t].us > call[t].current /\ exchange(t, "maxLatencyUs") /\ Goto(t, "loadMin")
    <3>1. /\ m'["maxLatencyUs"] = call[t].us /\ m'["minLatencyUs"] = m["minLatencyUs"]
          /\ call[t].us > m["maxLatencyUs"]
      BY <1>2, <2>5 DEF exchange, FieldNames
    <3>2. Outwards
      BY <2>1, <2>2, <2>3, <2>4, <3>1 DEF Outwards
    <3>3. Moves(t) /\ call'[t].at = "loadMin" /\ call'[t].us = call[t].us
      BY <1>2, <2>5 DEF Goto, Moves, Call
    <3>4. t \in Minimizing' /\ InLoop(t)'
      BY <2>2, <2>3, <3>3 DEF Minimizing, At, InLoop
    <3> QED
      BY <1>1, <2>1, <2>3, <3>1, <3>2, <3>3, <3>4, LoopStep
  <2>6. CASE call[t].us > call[t].current /\ retry(t, "maxLatencyUs")
    <3>1. /\ Moves(t) /\ call'[t].at = "max" /\ call'[t].us = call[t].us
          /\ call'[t].current = m["maxLatencyUs"] /\ m' = m
      BY <1>2, <2>1, <2>6 DEF retry, Moves, Call
    <3>2. Outwards
      BY <1>1, <2>3, <3>1, OutwardsIfSame
    <3>3. t \in Minimizing' /\ t \in Maximizing' /\ InLoop(t)'
      BY <2>2, <2>3, <3>1 DEF Minimizing, Maximizing, At, InLoop
    <3> QED
      BY <1>1, <2>3, <3>1, <3>2, <3>3, LoopStep
  <2>7. CASE call[t].us <= call[t].current /\ Goto(t, "loadMin") /\ UNCHANGED m
    <3>1. Moves(t) /\ call'[t].at = "loadMin" /\ call'[t].us = call[t].us
      BY <1>2, <2>7 DEF Goto, Moves, Call
    <3>2. Outwards
      BY <1>1, <2>3, <2>7, OutwardsIfSame
    <3>3. t \in Minimizing' /\ InLoop(t)'
      BY <2>2, <2>3, <3>1 DEF Minimizing, At, InLoop
    <3>4. call[t].us <= m'["maxLatencyUs"]
      BY <2>1, <2>2, <2>7
    <3> QED
      BY <1>1, <2>3, <3>1, <3>2, <3>3, <3>4, LoopStep
  <2> QED
    BY <1>8, <2>5, <2>6, <2>7 DEF updateMax
<1>9. ASSUME NEW t \in Threads, updateMin(t)
      PROVE  LoopInv'
  <2>1. /\ call[t].at = "min" /\ call[t] \in Call /\ call[t].us \in Latencies
        /\ call[t].us \in Nat /\ call[t].current \in Nat
    <3>1. /\ call[t].at = "min" /\ call[t] \in Call /\ call[t].us \in Latencies
      BY <1>2, <1>9 DEF updateMin, At, Typed
    <3> QED
      BY <3>1, Numbers
  <2>2. /\ m["maxLatencyUs"] \in Nat /\ m["minLatencyUs"] \in Nat
        /\ timed[call[t].us] > 0 /\ call[t].us \in Seen
        /\ call[t].current >= m["minLatencyUs"]
    BY <1>2, <2>1 DEF FieldNames, LoopInv, InLoop, Seen
  <2>3. Seen' = Seen /\ timed' = timed
    BY <1>9 DEF updateMin, recordVars, Seen
  <2>4. /\ m["maxLatencyUs"] \in Seen \cup {0} /\ m["minLatencyUs"] \in Seen \cup {Unmeasured}
        /\ t \notin Maximizing
    BY <1>1, <2>1, ExtremesInHalves DEF MaxExact, MinExact, Maximizing, At
  <2>5. leaveMin(t) => Moves(t) /\ InLoop(t)'
    <3> SUFFICES ASSUME leaveMin(t) PROVE Moves(t) /\ InLoop(t)'
      OBVIOUS
    <3>1. call'[t].at \in {"drop", "idle"} /\ Moves(t)
      BY <1>2 DEF leaveMin, Goto, Return, Idle, Moves, Call
    <3> QED
      BY <3>1 DEF InLoop
  <2>6. CASE call[t].us < call[t].current /\ exchange(t, "minLatencyUs") /\ leaveMin(t)
    <3>1. /\ m'["minLatencyUs"] = call[t].us /\ m'["maxLatencyUs"] = m["maxLatencyUs"]
          /\ call[t].us < m["minLatencyUs"]
      BY <1>2, <2>6 DEF exchange, FieldNames
    <3>2. Outwards
      BY <2>1, <2>2, <2>3, <2>4, <3>1 DEF Outwards
    <3> QED
      BY <1>1, <2>1, <2>3, <2>4, <2>5, <2>6, <3>1, <3>2, LoopStep
  <2>7. CASE call[t].us < call[t].current /\ retry(t, "minLatencyUs")
    <3>1. /\ Moves(t) /\ call'[t].at = "min" /\ call'[t].us = call[t].us
          /\ call'[t].current = m["minLatencyUs"] /\ m' = m
      BY <1>2, <2>1, <2>7 DEF retry, Moves, Call
    <3>2. Outwards
      BY <1>1, <2>3, <3>1, OutwardsIfSame
    <3>3. t \in Minimizing' /\ InLoop(t)'
      BY <2>2, <2>3, <3>1 DEF Minimizing, At, InLoop
    <3> QED
      BY <1>1, <2>3, <2>4, <3>1, <3>2, <3>3, LoopStep
  <2>8. CASE call[t].us >= call[t].current /\ leaveMin(t) /\ UNCHANGED m
    <3>1. Outwards
      BY <1>1, <2>3, <2>8, OutwardsIfSame
    <3>2. call[t].us >= m'["minLatencyUs"]
      BY <2>1, <2>2, <2>8
    <3> QED
      BY <1>1, <2>3, <2>4, <2>5, <2>8, <3>1, <3>2, LoopStep
  <2> QED
    BY <1>9, <2>6, <2>7, <2>8 DEF updateMin
<1>10. ASSUME NEW t \in Threads, recordDrop(t)
      PROVE  LoopInv'
  <2>1. /\ Moves(t) /\ call'[t].at = "idle"
        /\ t \notin Maximizing /\ t \notin Minimizing
    BY <1>2, <1>10 DEF recordDrop, Return, Idle, Moves, At, Maximizing, Minimizing
  <2>2. Outwards /\ Seen' = Seen
    BY <1>1, <1>2, <1>10, OutwardsIfSame DEF recordDrop, Add, FieldNames, recordVars
  <2> QED
    BY <1>1, <2>1, <2>2, LoopStep DEF InLoop
<1>11. CASE UNCHANGED <<m, call, recordVars>>
  BY <1>11 DEF recordVars, LoopInv, ExtremesExact, InLoop, At
<1> QED
  BY <1>3, <1>4, <1>5, <1>6, <1>7, <1>8, <1>9, <1>10, <1>11
  DEF Next, step, snapshot, loadField, vars

-----------------------------------------------------------------------------
Recording == {"total", "loadMax", "max", "loadMin", "min", "drop"}

Counters == <<m["framesIn"], m["framesOut"], m["framesDropped"], m["errorCount"]>>

\* The sums of CallsAccounted, and how a step of one thread changes the sets they count.
LEMMA SumsAre ==
  CallsAccounted <=>
    /\ calls = m["framesIn"] + m["framesOut"] + m["errorCount"] + Cardinality(At({"handler"}))
    /\ m["framesDropped"] = IF hasDownstream THEN 0 ELSE m["framesIn"] - Cardinality(Pending)
BY DEF CallsAccounted, Pending

LEMMA SumsAreNext ==
  CallsAccounted' <=>
    /\ calls' = m'["framesIn"] + m'["framesOut"] + m'["errorCount"] + Cardinality(At({"handler"})')
    /\ m'["framesDropped"] =
         IF hasDownstream' THEN 0 ELSE m'["framesIn"] - Cardinality(Pending')
BY DEF CallsAccounted, Pending

Pends(t) == call[t].at \in Recording /\ call[t].dir = "incoming"

LEMMA HandlersStep ==
  ASSUME NEW t \in Threads, Moves(t), Accounted
  PROVE  /\ IsFiniteSet(At({"handler"})')
         /\ Cardinality(At({"handler"})) \in Nat
         /\ call[t].at # "handler" /\ call'[t].at = "handler" =>
              Cardinality(At({"handler"})') = Cardinality(At({"handler"})) + 1
         /\ call[t].at = "handler" /\ call'[t].at # "handler" =>
              Cardinality(At({"handler"})') = Cardinality(At({"handler"})) - 1
         /\ call[t].at # "handler" /\ call'[t].at # "handler" => At({"handler"})' = At({"handler"})
<1> DEFINE H == At({"handler"})
<1>1. /\ H' = IF call'[t].at = "handler" THEN H \cup {t} ELSE H \ {t}
      /\ t \in H <=> call[t].at = "handler"
  BY DEF Moves, At
<1>2. IsFiniteSet(H) /\ Cardinality(H) \in Nat
  BY FS_CardinalityType DEF Accounted
<1> HIDE DEF H
<1>3. /\ IsFiniteSet(H \cup {t}) /\ IsFiniteSet(H \ {t})
      /\ t \notin H => Cardinality(H \cup {t}) = Cardinality(H) + 1
      /\ t \in H => Cardinality(H \ {t}) = Cardinality(H) - 1
  BY <1>2, FS_AddElement, FS_RemoveElement
<1>4. H' = H \cup {t} \/ H' = H \ {t}
  BY <1>1
<1>5. IsFiniteSet(H')
  BY <1>3, <1>4
<1>6. call[t].at # "handler" /\ call'[t].at # "handler" => H' = H
  BY <1>1
<1> QED
  BY <1>1, <1>2, <1>3, <1>5, <1>6 DEF H

LEMMA PendingStep ==
  ASSUME NEW t \in Threads, Moves(t), Accounted
  PROVE  /\ IsFiniteSet(Pending')
         /\ Cardinality(Pending) \in Nat
         /\ ~Pends(t) /\ Pends(t)' => Cardinality(Pending') = Cardinality(Pending) + 1
         /\ Pends(t) /\ ~Pends(t)' => Cardinality(Pending') = Cardinality(Pending) - 1
         /\ (Pends(t)' <=> Pends(t)) => Pending' = Pending
<1>1. /\ Pending' = IF Pends(t)' THEN Pending \cup {t} ELSE Pending \ {t}
      /\ t \in Pending <=> Pends(t)
  BY DEF Moves, At, Pending, Pends, Recording
<1>2. IsFiniteSet(Pending) /\ Cardinality(Pending) \in Nat
  BY FS_CardinalityType DEF Accounted
<1>3. /\ IsFiniteSet(Pending \cup {t}) /\ IsFiniteSet(Pending \ {t})
      /\ t \notin Pending => Cardinality(Pending \cup {t}) = Cardinality(Pending) + 1
      /\ t \in Pending => Cardinality(Pending \ {t}) = Cardinality(Pending) - 1
  BY <1>2, FS_AddElement, FS_RemoveElement
<1>4. Pending' = Pending \cup {t} \/ Pending' = Pending \ {t}
  BY <1>1
<1>5. IsFiniteSet(Pending')
  BY <1>3, <1>4
<1>6. (Pends(t)' <=> Pends(t)) => Pending' = Pending
  BY <1>1
<1> QED
  BY <1>1, <1>2, <1>3, <1>5, <1>6

LEMMA OthersDrop ==
  ASSUME Accounted, NEW t \in Threads, Moves(t), UNCHANGED hasDownstream,
         call'[t].at = "drop" => drops(t)'
  PROVE  \A u \in At({"drop"})' : drops(u)'
BY DEF Accounted, Moves, At, drops

\* A step within recordFrame's part of a call counts nothing.
LEMMA AccountedQuiet ==
  ASSUME Typed, Accounted, NEW t \in Threads, Moves(t), UNCHANGED <<hasDownstream, calls, Counters>>,
         call[t].at \in Recording, call'[t].at \in Recording, call'[t].dir = call[t].dir,
         call'[t].at = "drop" => drops(t)'
  PROVE  Accounted'
<1>1. /\ call[t].at # "handler" /\ call'[t].at # "handler"
  BY DEF Recording
<1>2. /\ At({"handler"})' = At({"handler"}) /\ Pending' = Pending
  BY <1>1, HandlersStep, PendingStep DEF Pends
<1> QED
  BY <1>2, OthersDrop, SumsAre, SumsAreNext DEF Accounted, Counters

LEMMA AccountedNext == Typed /\ Accounted /\ [Next]_vars => Accounted'
<1> SUFFICES ASSUME Typed, Accounted, [Next]_vars PROVE Accounted'
  OBVIOUS
<1>1. /\ m \in [FieldNames -> Nat] /\ call \in [Threads -> Call]
      /\ m["framesIn"] \in Nat /\ m["framesOut"] \in Nat /\ m["framesDropped"] \in Nat
      /\ m["errorCount"] \in Nat /\ calls \in Nat
  BY DEF Typed, FieldNames
<1>2. /\ calls = m["framesIn"] + m["framesOut"] + m["errorCount"] + Cardinality(At({"handler"}))
      /\ m["framesDropped"] = IF hasDownstream THEN 0 ELSE m["framesIn"] - Cardinality(Pending)
  BY SumsAre DEF Accounted
<1>3. ASSUME NEW t \in Threads, NEW d \in {"incoming", "outgoing"}, enter(t, d)
      PROVE  Accounted'
  <2>1. /\ Moves(t) /\ call[t].at = "idle" /\ call'[t].at = "handler"
        /\ calls' = calls + 1 /\ UNCHANGED <<m, hasDownstream>>
    BY <1>1, <1>3 DEF enter, Moves, At, Call
    <2>2. /\ Cardinality(At({"handler"})') = Cardinality(At({"handler"})) + 1
          /\ Cardinality(Pending') = Cardinality(Pending)
          /\ Cardinality(At({"handler"})) \in Nat /\ Cardinality(Pending) \in Nat
          /\ IsFiniteSet(At({"handler"})') /\ IsFiniteSet(Pending')
      BY <2>1, HandlersStep, PendingStep DEF Pends, Recording
    <2>3. CallsAccounted'
      BY <1>1, <1>2, <2>1, <2>2, SumsAreNext
    <2> QED
      BY <2>1, <2>2, <2>3, OthersDrop DEF Accounted
<1>4. ASSUME NEW t \in Threads, recordError(t)
      PROVE  Accounted'
  <2>1. /\ Moves(t) /\ call[t].at = "handler" /\ call'[t].at = "idle"
        /\ UNCHANGED <<calls, hasDownstream>>
    BY <1>1, <1>4 DEF recordError, Return, Idle, Moves, At, recordVars
  <2>2. /\ m'["errorCount"] = m["errorCount"] + 1
        /\ m'["framesIn"] = m["framesIn"] /\ m'["framesOut"] = m["framesOut"]
        /\ m'["framesDropped"] = m["framesDropped"]
    BY <1>1, <1>4 DEF recordError, Add, FieldNames
    <2>3. /\ Cardinality(At({"handler"})') = Cardinality(At({"handler"})) - 1
          /\ Cardinality(Pending') = Cardinality(Pending)
          /\ Cardinality(At({"handler"})) \in Nat /\ Cardinality(Pending) \in Nat
          /\ IsFiniteSet(At({"handler"})') /\ IsFiniteSet(Pending')
      BY <2>1, HandlersStep, PendingStep DEF Pends, Recording
    <2>4. CallsAccounted'
      BY <1>1, <1>2, <2>1, <2>2, <2>3, SumsAreNext
    <2> QED
      BY <2>1, <2>3, <2>4, OthersDrop DEF Accounted
<1>5. ASSUME NEW t \in Threads, NEW l \in Latencies, recordFrame(t, l)
      PROVE  Accounted'
  <2>1. /\ Moves(t) /\ call[t].at = "handler" /\ call'[t].at = "total"
        /\ call'[t].dir = call[t].dir /\ call[t].dir \in {"incoming", "outgoing"}
        /\ UNCHANGED <<calls, hasDownstream>>
    BY <1>1, <1>5 DEF recordFrame, Moves, At, recordVars, Call
  <2>2. /\ m'["framesIn"] = m["framesIn"] + (IF call[t].dir = "incoming" THEN 1 ELSE 0)
        /\ m'["framesOut"] = m["framesOut"] + (IF call[t].dir = "incoming" THEN 0 ELSE 1)
        /\ m'["errorCount"] = m["errorCount"] /\ m'["framesDropped"] = m["framesDropped"]
    BY <1>1, <1>5 DEF recordFrame, Add, FieldNames
    <2>3. /\ Cardinality(At({"handler"})') = Cardinality(At({"handler"})) - 1
          /\ Cardinality(Pending') = Cardinality(Pending) + (IF call[t].dir = "incoming" THEN 1 ELSE 0)
          /\ Cardinality(At({"handler"})) \in Nat /\ Cardinality(Pending) \in Nat
          /\ IsFiniteSet(At({"handler"})') /\ IsFiniteSet(Pending')
      BY <2>1, HandlersStep, PendingStep DEF Pends, Recording
    <2>4. CallsAccounted'
      BY <1>1, <1>2, <2>1, <2>2, <2>3, SumsAreNext
    <2> QED
      BY <2>1, <2>3, <2>4, OthersDrop DEF Accounted
<1>6. ASSUME NEW t \in Threads, addTotal(t) \/ load(t) \/ updateMax(t)
      PROVE  Accounted'
  <2>1. /\ Moves(t) /\ call[t].at \in Recording /\ call'[t].at \in Recording \ {"drop"}
        /\ call'[t].dir = call[t].dir
    BY <1>1, <1>6 DEF addTotal, load, updateMax, Goto, retry, Moves, At, Call, Recording
  <2>2. UNCHANGED <<hasDownstream, calls, Counters>>
    BY <1>1, <1>6 DEF addTotal, load, updateMax, exchange, retry, Add, Counters, FieldNames, recordVars
  <2> QED
    BY <2>1, <2>2, AccountedQuiet
<1>7. ASSUME NEW t \in Threads, updateMin(t)
      PROVE  Accounted'
  <2>1. UNCHANGED <<hasDownstream, calls, Counters>> /\ call[t].at = "min"
    BY <1>1, <1>7 DEF updateMin, exchange, retry, Counters, FieldNames, recordVars, At
  <2>2. CASE drops(t) \/ retry(t, "minLatencyUs")
    <3>1. /\ Moves(t) /\ call'[t].at \in {"min", "drop"} /\ call'[t].dir = call[t].dir
          /\ call'[t].at = "drop" => drops(t)
      BY <1>1, <1>7, <2>1, <2>2 DEF updateMin, leaveMin, Goto, retry, Moves, Call
    <3>2. call'[t].at = "drop" => drops(t)'
      BY <2>1, <3>1 DEF drops
    <3> QED
      BY <2>1, <3>1, <3>2, AccountedQuiet DEF Recording
  <2>3. CASE ~drops(t) /\ ~retry(t, "minLatencyUs")
    <3>1. Moves(t) /\ call'[t].at = "idle"
      BY <1>1, <1>7, <2>3 DEF updateMin, leaveMin, Return, Idle, Moves
    <3>2. hasDownstream \/ call[t].dir # "incoming"
      BY <2>3 DEF drops
    <3>3. /\ m'["framesIn"] = m["framesIn"] /\ m'["framesOut"] = m["framesOut"]
          /\ m'["errorCount"] = m["errorCount"] /\ m'["framesDropped"] = m["framesDropped"]
      BY <2>1 DEF Counters
      <3>4. /\ Cardinality(At({"handler"})') = Cardinality(At({"handler"}))
            /\ Cardinality(Pending') = Cardinality(Pending) - (IF call[t].dir = "incoming" THEN 1 ELSE 0)
            /\ Cardinality(At({"handler"})) \in Nat /\ Cardinality(Pending) \in Nat
            /\ IsFiniteSet(At({"handler"})') /\ IsFiniteSet(Pending')
        BY <2>1, <3>1, HandlersStep, PendingStep DEF Pends, Recording
      <3>5. CallsAccounted'
        BY <1>1, <1>2, <2>1, <3>1, <3>2, <3>3, <3>4, SumsAreNext
      <3> QED
        BY <2>1, <3>1, <3>4, <3>5, OthersDrop DEF Accounted
  <2> QED
    BY <2>2, <2>3
<1>8. ASSUME NEW t \in Threads, recordDrop(t)
      PROVE  Accounted'
  <2>1. /\ Moves(t) /\ call[t].at = "drop" /\ call'[t].at = "idle"
        /\ UNCHANGED <<calls, hasDownstream>>
    BY <1>1, <1>8 DEF recordDrop, Return, Idle, Moves, At, recordVars
  <2>2. ~hasDownstream /\ call[t].dir = "incoming"
    BY <1>8 DEF recordDrop, Accounted, drops
  <2>3. /\ m'["framesDropped"] = m["framesDropped"] + 1
        /\ m'["framesIn"] = m["framesIn"] /\ m'["framesOut"] = m["framesOut"]
        /\ m'["errorCount"] = m["errorCount"]
    BY <1>1, <1>8 DEF recordDrop, Add, FieldNames
    <2>4. /\ Cardinality(At({"handler"})') = Cardinality(At({"handler"}))
          /\ Cardinality(Pending') = Cardinality(Pending) - 1
          /\ Cardinality(At({"handler"})) \in Nat /\ Cardinality(Pending) \in Nat
          /\ IsFiniteSet(At({"handler"})') /\ IsFiniteSet(Pending')
      BY <2>1, <2>2, HandlersStep, PendingStep DEF Pends, Recording
    <2>5. CallsAccounted'
      BY <1>1, <1>2, <2>1, <2>2, <2>3, <2>4, SumsAreNext
    <2> QED
      BY <2>1, <2>2, <2>4, <2>5, OthersDrop DEF Accounted
<1>9. CASE UNCHANGED <<m, call, recordVars>>
  BY <1>9 DEF recordVars, Accounted, CallsAccounted, Pending, At, drops
<1> QED
  BY <1>3, <1>4, <1>5, <1>6, <1>7, <1>8, <1>9 DEF Next, step, snapshot, loadField, vars

-----------------------------------------------------------------------------
\* No step takes a metric back: counters do not fall and the extremes move outwards.
Advance(f) == IF f = "minLatencyUs" THEN m'[f] <= m[f] ELSE m'[f] >= m[f]

LEMMA AddAdvances ==
  ASSUME Typed, NEW g \in FieldNames \ {"minLatencyUs"}, NEW n \in Nat, Add(g, n)
  PROVE  \A f \in FieldNames : Advance(f)
<1>1. \A f \in FieldNames : m[f] \in Nat /\ m'[f] = IF f = g THEN m[f] + n ELSE m[f]
  BY DEF Add, Typed
<1> QED
  BY <1>1 DEF Advance

LEMMA MetricsAdvance ==
  ASSUME Typed, LoopInv, [Next]_vars
  PROVE  \A f \in FieldNames : Advance(f)
<1>1. m \in [FieldNames -> Nat] /\ \A f \in FieldNames : m[f] \in Nat
  BY DEF Typed
<1>2. CASE m' = m
  BY <1>1, <1>2 DEF Advance
<1>3. ASSUME NEW t \in Threads, recordError(t) \/ (\E l \in Latencies : recordFrame(t, l))
                                \/ addTotal(t) \/ recordDrop(t)
      PROVE  \A f \in FieldNames : Advance(f)
  <2>1. call[t].us \in Nat
    BY Numbers
  <2>2. PICK g \in FieldNames \ {"minLatencyUs"}, n \in Nat : Add(g, n)
    BY <1>3, <2>1 DEF recordError, recordFrame, addTotal, recordDrop, FieldNames
  <2> QED
    BY <2>2, AddAdvances
<1>4. ASSUME NEW t \in Threads, updateMax(t), m' # m
      PROVE  \A f \in FieldNames : Advance(f)
  <2>1. /\ call[t].us > call[t].current /\ m["maxLatencyUs"] = call[t].current
        /\ m' = [m EXCEPT !["maxLatencyUs"] = call[t].us]
    BY <1>4 DEF updateMax, exchange, retry
  <2>2. call[t].us \in Nat /\ call[t].current \in Nat
    BY Numbers
  <2> QED
    BY <1>1, <2>1, <2>2 DEF Advance, FieldNames
<1>5. ASSUME NEW t \in Threads, updateMin(t), m' # m
      PROVE  \A f \in FieldNames : Advance(f)
  <2>1. /\ call[t].us < call[t].current /\ m["minLatencyUs"] = call[t].current
        /\ m' = [m EXCEPT !["minLatencyUs"] = call[t].us]
    BY <1>5 DEF updateMin, exchange, retry
  <2>2. call[t].us \in Nat /\ call[t].current \in Nat
    BY Numbers
  <2> QED
    BY <1>1, <2>1, <2>2 DEF Advance, FieldNames
<1> QED
  BY <1>2, <1>3, <1>4, <1>5 DEF Next, step, enter, load, snapshot, loadField, vars

\* What a monitor has loaded, the metrics have not gone back behind.
Ahead(f) == IF f = "minLatencyUs" THEN m[f] <= copy[f] ELSE m[f] >= copy[f]
Unread == {reading[i] : i \in DOMAIN reading}

LEMMA SnapshotsAre == SnapshotsAdvance <=> \A f \in FieldNames : f \in Unread \/ Ahead(f)
BY EmptyIs DEF SnapshotsAdvance, Unread, Ahead

LEMMA SnapshotsNext ==
  Typed /\ LoopInv /\ SnapshotsAdvance /\ [Next]_vars => SnapshotsAdvance'
<1> SUFFICES ASSUME Typed, LoopInv, SnapshotsAdvance, [Next]_vars,
                    NEW f \in FieldNames, f \notin Unread'
             PROVE  Ahead(f)'
  BY EmptyIs DEF SnapshotsAdvance, Unread, Ahead
<1>1. m[f] \in Nat /\ m'[f] \in Nat /\ copy[f] \in Nat /\ Advance(f)
  BY TypedNext, MetricsAdvance DEF Typed
<1>2. f \in Unread \/ Ahead(f)
  BY SnapshotsAre
<1>3. CASE UNCHANGED readVars
  BY <1>1, <1>2, <1>3 DEF readVars, Unread, Ahead, Advance
<1>4. CASE snapshot
  <2>1. Unread' = FieldNames
    BY <1>4, FieldsAre DEF snapshot, Unread
  <2> QED
    BY <2>1
<1>5. CASE loadField
  <2>1. \A x \in Unread : x = Head(reading) \/ x \in Unread'
    <3>1. /\ reading \in Seq(FieldNames) /\ reading # <<>> /\ reading' = Tail(reading)
      BY <1>5 DEF loadField, Typed
    <3>2. /\ Len(reading) \in Nat /\ Len(reading') = Len(reading) - 1
          /\ \A i \in 1 .. Len(reading) - 1 : reading'[i] = reading[i + 1]
          /\ Head(reading) = reading[1]
      BY <3>1
    <3>3. DOMAIN reading = 1 .. Len(reading) /\ DOMAIN reading' = 1 .. Len(reading) - 1
      BY <3>1, <3>2
    <3>4. ASSUME NEW i \in 2 .. Len(reading)
          PROVE  reading[i] \in Unread'
      <4>1. i - 1 \in 1 .. Len(reading) - 1 /\ reading'[i - 1] = reading[i]
        BY <3>2
      <4> QED
        BY <3>3, <4>1 DEF Unread
    <3>5. \A i \in DOMAIN reading : i = 1 \/ i \in 2 .. Len(reading)
      BY <3>2, <3>3
    <3> QED
      BY <3>2, <3>4, <3>5 DEF Unread
  <2>2. CASE f = Head(reading)
    <3>1. copy'[f] = m[f] /\ m' = m
      BY <1>5, <2>2 DEF loadField, Typed
    <3> QED
      BY <1>1, <3>1 DEF Ahead
  <2>3. CASE f # Head(reading)
    <3>1. copy'[f] = copy[f] /\ m' = m
      BY <1>5, <2>3 DEF loadField, Typed
    <3> QED
      BY <1>2, <2>1, <2>3, <3>1 DEF Ahead
  <2> QED
    BY <2>2, <2>3
<1> QED
  BY <1>3, <1>4, <1>5 DEF Next, step, enter, recordError, recordFrame, addTotal, load,
                          updateMax, updateMin, recordDrop, vars

-----------------------------------------------------------------------------
LEMMA InitInv == Init => IInv
<1> SUFFICES ASSUME Init PROVE IInv
  OBVIOUS
<1>1. \A f \in FieldNames : /\ m[f] = IF f = "minLatencyUs" THEN Unmeasured ELSE 0
                            /\ copy[f] = m[f]
  BY EmptyIs DEF Init
<1>2. /\ m["framesIn"] = 0 /\ m["framesOut"] = 0 /\ m["framesDropped"] = 0 /\ m["errorCount"] = 0
      /\ m["maxLatencyUs"] = 0 /\ m["minLatencyUs"] = Unmeasured
  BY <1>1 DEF FieldNames
<1>3. \A t \in Threads : call[t] = Idle /\ call[t].at = "idle"
  BY DEF Init, Idle
<1>4. /\ At({"total", "loadMax", "max", "loadMin", "min"}) = {} /\ At({"handler"}) = {}
      /\ At({"drop"}) = {} /\ Pending = {}
  BY <1>3 DEF At, Pending
<1>5. Typed
  <2>1. Idle \in Call
    BY DEF Idle, Call, Labels
  <2> QED
    BY <1>2, <1>4, <2>1, EmptyIs, LatencyAssumption DEF Init, Typed
<1>6. LoopInv
  <2>1. MaxExact /\ MinExact
    BY <1>2 DEF Init, Seen, MaxExact, MinExact
  <2> QED
    BY <1>3, <2>1, ExtremesInHalves DEF LoopInv, InLoop
<1>7. Accounted
  <2>1. CallsAccounted
    <3>1. Cardinality(At({"handler"})) = 0 /\ Cardinality(Pending) = 0
      BY <1>4, FS_EmptySet
    <3>2. calls = 0 /\ hasDownstream \in BOOLEAN
      BY DEF Init
    <3> QED
      BY <1>2, <3>1, <3>2, SumsAre
  <2> QED
    BY <1>4, <2>1, FS_EmptySet DEF Accounted
<1>8. SnapshotsAdvance
  BY <1>1, LatencyAssumption, SnapshotsAre DEF Ahead
<1> QED
  BY <1>5, <1>6, <1>7, <1>8 DEF IInv

LEMMA Invariance == Spec => []IInv
<1>1. IInv /\ [Next]_vars => IInv'
  BY TypedNext, LoopNext, AccountedNext, SnapshotsNext DEF IInv
<1> QED
  BY <1>1, InitInv, PTL DEF Spec

\* Every variable has its type.
THEOREM TypeCorrect == Spec => []TypeOK
<1>1. IInv => TypeOK
  BY EmptyIs, LatencyAssumption DEF IInv, Typed, TypeOK, Call, Labels
<1> QED
  BY <1>1, Invariance, PTL

\* Whatever the interleaving of the compare-exchange loops of however many threads, the
\* minimum and the maximum are those of the latencies that were recorded.
THEOREM LoopsAreExact == Spec => []ExtremesExact
<1>1. IInv => ExtremesExact
  BY DEF IInv, LoopInv
<1> QED
  BY <1>1, Invariance, PTL

\* Every call of a stage is counted exactly once, and the drops are the incoming frames
\* of a terminal stage.
THEOREM EveryCallCounted == Spec => []CallsAccounted
<1>1. IInv => CallsAccounted
  BY DEF IInv, Accounted
<1> QED
  BY <1>1, Invariance, PTL

\* A snapshot that mixes moments is still never ahead of the metrics.
THEOREM SnapshotsNeverAhead == Spec => []SnapshotsAdvance
<1>1. IInv => SnapshotsAdvance
  BY DEF IInv
<1> QED
  BY <1>1, Invariance, PTL

=============================================================================

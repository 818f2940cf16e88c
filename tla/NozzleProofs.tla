----------------------------- MODULE NozzleProofs -----------------------------
(***************************************************************************)
(* Proofs about Nozzle for any number of workers, envelopes and clients    *)
(* and any channel capacities.                                             *)
(***************************************************************************)
EXTENDS Nozzle, FiniteSetTheorems, TLAPS

-----------------------------------------------------------------------------
(* Channels: what a send and a receive do to the elements of a sequence.   *)

\* A send adds one element to the channel, after those it holds.
LEMMA SendElements ==
    ASSUME NEW S, NEW c \in Seq(S), NEW e \in S
    PROVE  /\ Append(c, e) \in Seq(S)
           /\ Len(Append(c, e)) = Len(c) + 1
           /\ Range(Append(c, e)) = Range(c) \cup {e}
           /\ IsInjective(c) /\ e \notin Range(c) => IsInjective(Append(c, e))
<1> DEFINE d == Append(c, e)
<1>1. d \in Seq(S) /\ Len(d) = Len(c) + 1
  OBVIOUS
<1>2. DOMAIN c = 1..Len(c) /\ DOMAIN d = 1..(Len(c) + 1) /\ Len(c) \in Nat
  OBVIOUS
<1>3. /\ d[Len(c) + 1] = e
      /\ \A i \in 1..Len(c) : d[i] = c[i]
  OBVIOUS
<1> HIDE DEF d
<1>4. Range(d) = Range(c) \cup {e}
  <2>1. ASSUME NEW x \in Range(d) PROVE x \in Range(c) \cup {e}
    <3>1. PICK i \in DOMAIN d : x = d[i]
      BY <2>1 DEF Range
    <3>2. QED
      BY <3>1, <1>2, <1>3 DEF Range
  <2>2. ASSUME NEW x \in Range(c) PROVE x \in Range(d)
    <3>1. PICK i \in DOMAIN c : x = c[i]
      BY <2>2 DEF Range
    <3>2. i \in DOMAIN d /\ d[i] = x
      BY <3>1, <1>2, <1>3
    <3>3. QED
      BY <3>2 DEF Range
  <2>3. e \in Range(d)
    <3>1. Len(c) + 1 \in DOMAIN d
      BY <1>2
    <3>2. QED
      BY <3>1, <1>3 DEF Range
  <2>4. QED
    BY <2>1, <2>2, <2>3
<1>5. IsInjective(c) /\ e \notin Range(c) => IsInjective(d)
  BY <1>2, <1>3 DEF IsInjective, Range
<1>6. QED
  BY <1>1, <1>4, <1>5 DEF d

\* A receive takes the oldest element out of the channel.
LEMMA ReceiveElements ==
    ASSUME NEW S, NEW c \in Seq(S), c # <<>>
    PROVE  /\ Head(c) \in S /\ Head(c) \in Range(c)
           /\ Tail(c) \in Seq(S)
           /\ Len(Tail(c)) = Len(c) - 1
           /\ IsInjective(c) => /\ IsInjective(Tail(c))
                                /\ Range(Tail(c)) = Range(c) \ {Head(c)}
<1> DEFINE d == Tail(c)
<1>1. d \in Seq(S) /\ Len(d) = Len(c) - 1 /\ Len(c) \in Nat /\ Len(c) > 0
  OBVIOUS
<1>2. DOMAIN c = 1..Len(c) /\ DOMAIN d = 1..(Len(c) - 1)
  OBVIOUS
<1>3. Head(c) = c[1] /\ \A i \in 1..(Len(c) - 1) : d[i] = c[i + 1]
  OBVIOUS
<1>4. Head(c) \in S /\ Head(c) \in Range(c)
  BY <1>1, <1>2, <1>3 DEF Range
<1> HIDE DEF d
<1>5. ASSUME IsInjective(c) PROVE IsInjective(d) /\ Range(d) = Range(c) \ {Head(c)}
  <2>1. IsInjective(d)
    <3> SUFFICES ASSUME NEW i \in DOMAIN d, NEW j \in DOMAIN d, d[i] = d[j] PROVE i = j
      BY DEF IsInjective
    <3>1. /\ i + 1 \in DOMAIN c /\ j + 1 \in DOMAIN c /\ c[i + 1] = c[j + 1]
          /\ i \in Nat /\ j \in Nat
      BY <1>1, <1>2, <1>3
    <3>2. QED
      BY <1>5, <3>1 DEF IsInjective
  <2>2. ASSUME NEW x \in Range(d) PROVE x \in Range(c) \ {Head(c)}
    <3>1. PICK i \in DOMAIN d : x = d[i]
      BY <2>2 DEF Range
    <3>2. i + 1 \in DOMAIN c /\ 1 \in DOMAIN c /\ x = c[i + 1] /\ i + 1 # 1
      BY <3>1, <1>1, <1>2, <1>3
    <3>3. QED
      BY <3>2, <1>3, <1>5 DEF Range, IsInjective
  <2>3. ASSUME NEW x \in Range(c) \ {Head(c)} PROVE x \in Range(d)
    <3>1. PICK i \in DOMAIN c : x = c[i]
      BY <2>3 DEF Range
    <3>2. i # 1
      BY <3>1, <1>3, <2>3
    <3>3. i - 1 \in DOMAIN d /\ d[i - 1] = x
      BY <3>1, <3>2, <1>1, <1>2, <1>3
    <3>4. QED
      BY <3>3 DEF Range
  <2>4. QED
    BY <2>1, <2>2, <2>3
<1>6. QED
  BY <1>1, <1>4, <1>5 DEF d

-----------------------------------------------------------------------------
(* Types and capacities.                                                   *)

LEMMA NumTokensType == NumTokens \in Nat /\ IsFiniteSet(Goroutines)
<1>1. IsFiniteSet(Workers) /\ Cardinality(Workers) \in Nat
  BY WorkersAssumption, FS_CardinalityType
<1>2. IsFiniteSet(Readers)
  BY FS_Singleton, FS_EmptySet, FS_Union DEF Readers
<1>3. IsFiniteSet(Goroutines)
  BY <1>1, <1>2, FS_Union DEF Goroutines
<1>4. NumTokens \in Nat
  BY <1>1 DEF NumTokens
<1>5. QED
  BY <1>3, <1>4

\* The part of the inductive invariant that the types need: HandOK says that a
\* goroutine that stores or sends really holds an envelope.
TypeInv == TypeOK /\ HandOK

LEMMA InitType == Init => TypeInv
<1> SUFFICES ASSUME Init PROVE TypeInv
  OBVIOUS
<1> USE SizesAssumption, ConfigAssumption, NumTokensType DEF Init
<1>1. /\ batch \in Seq(Envelope) /\ messages \in Seq(Envelope)
      /\ processedMetrics \in Seq(Envelope) /\ processedLogs \in Seq(Envelope)
      /\ Len(messages) = 0 /\ Len(processedMetrics) = 0 /\ Len(processedLogs) = 0
  OBVIOUS
<1>2. /\ 0 <= MessagesCap /\ 0 <= MetricsCap /\ 0 <= LogsCap
      /\ 1 \in 1..(NumClients + 1) /\ 0 \in 0..NumTokens
  OBVIOUS
<1>3. /\ pc \in [Goroutines -> {"select", "work", "sendMetrics", "sendLog", "store",
                                "stopped"}]
      /\ hand \in [Goroutines -> Envelope \cup {NoEnvelope}]
      /\ alertSeen \in [1..NumClients -> {0, 1}]
  OBVIOUS
<1>b. streamOpen \in BOOLEAN /\ timedOut \in BOOLEAN /\ tickedOnce \in BOOLEAN
  OBVIOUS
<1>r. received \in 0..NumEnvelopes /\ tokens \in 0..NumTokens
      /\ client \in 1..(NumClients + 1)
  BY <1>2
<1>4. TypeOK
  BY <1>1, <1>2, <1>3, <1>b, <1>r DEF TypeOK
<1>5. HandOK
  BY DEF HandOK
<1>6. QED
  BY <1>4, <1>5 DEF TypeInv

LEMMA NextType == TypeInv /\ [Next]_vars => TypeInv'
<1> SUFFICES ASSUME TypeInv, [Next]_vars PROVE TypeInv'
  OBVIOUS
<1> USE SizesAssumption, ConfigAssumption, NumTokensType
<1> USE DEF TypeInv, TypeOK, HandOK, pipeline, stream, channels, goroutines, buffers,
            flush, shutdown, mainVars
<1>w. /\ Workers \subseteq Goroutines /\ MetricsReader \in Goroutines
      /\ EnableApplicationLogs => LogsReader \in Goroutines
  BY DEF Goroutines, Readers
<1>n. NoEnvelope \notin Envelope
  BY DEF NoEnvelope, Envelope
<1>1. CASE Receive
  <2>1. PICK n \in 1..MaxBatch : /\ received + n <= NumEnvelopes
                                 /\ batch' = [i \in 1..n |-> received + i]
                                 /\ received' = received + n
    BY <1>1 DEF Receive
  <2>2. n \in Nat /\ \A i \in 1..n : received + i \in Envelope
    BY <2>1 DEF Envelope
  <2>3. batch' \in Seq(Envelope)
    BY <2>1, <2>2
  <2>4. received' \in 0..NumEnvelopes
    BY <2>1, <2>2
  <2>5. QED
    BY <1>1, <2>3, <2>4 DEF Receive
<1>2. CASE Deliver
  <2>1. Head(batch) \in Envelope /\ Tail(batch) \in Seq(Envelope)
    BY <1>2, ReceiveElements DEF Deliver
  <2>2. messages' \in Seq(Envelope) /\ Len(messages') <= MessagesCap
    BY <1>2, <2>1, SendElements DEF Deliver, HasRoom
  <2>3. QED
    BY <1>2, <2>1, <2>2 DEF Deliver
<1>3. ASSUME NEW w \in Workers, WorkerStep(w) PROVE TypeInv'
  <2>1. CASE Take(w)
    <3>1. /\ Head(messages) \in Envelope /\ Tail(messages) \in Seq(Envelope)
          /\ Len(Tail(messages)) <= MessagesCap
      BY <2>1, ReceiveElements DEF Take
    <3>2. QED
      BY <2>1, <3>1, <1>w, <1>n DEF Take, Goto
  <2>2. CASE Work(w)
    <3>1. hand[w] \in Envelope
      BY <2>2, <1>w DEF Work
    <3>2. /\ UNCHANGED <<stream, channels, buffers, mainVars>>
          /\ w \in Goroutines
      BY <2>2, <1>w DEF Work
    <3>3. CASE Discard(w)
      BY <3>1, <3>2, <3>3 DEF Discard, Goto
    <3>4. ASSUME NEW label \in {"sendLog", "sendMetrics"}, Goto(w, label, hand[w]),
                 slowConsumerAlert' \in {0, 1}, discarded' = discarded
          PROVE  TypeInv'
      BY <3>1, <3>2, <3>4, <1>n DEF Goto
    <3>5. QED
      BY <2>2, <3>3, <3>4 DEF Work, Filter, ProcessLog, ProcessMetric
  <2>3. CASE SendMetrics(w)
    <3>1. hand[w] \in Envelope
      BY <2>3, <1>w DEF SendMetrics
    <3>2. /\ processedMetrics' \in Seq(Envelope)
          /\ Len(processedMetrics') <= MetricsCap
      BY <2>3, <3>1, SendElements DEF SendMetrics, HasRoom
    <3>3. QED
      BY <2>3, <3>2, <1>w DEF SendMetrics, Goto
  <2>4. CASE SendLog(w)
    <3>1. hand[w] \in Envelope
      BY <2>4, <1>w DEF SendLog
    <3>2. processedLogs' \in Seq(Envelope) /\ Len(processedLogs') <= LogsCap
      BY <2>4, <3>1, SendElements DEF SendLog, HasRoom
    <3>3. QED
      BY <2>4, <3>2, <1>w DEF SendLog, Goto
  <2>5. QED
    BY <1>3, <2>1, <2>2, <2>3, <2>4 DEF WorkerStep
<1>4. CASE ReaderStep
  <2>1. CASE ReceiveMetrics
    <3>1. /\ Head(processedMetrics) \in Envelope
          /\ Tail(processedMetrics) \in Seq(Envelope)
          /\ Len(Tail(processedMetrics)) <= MetricsCap
      BY <2>1, ReceiveElements DEF ReceiveMetrics
    <3>2. QED
      BY <2>1, <3>1, <1>w, <1>n DEF ReceiveMetrics, Goto
  <2>2. CASE StoreMetrics
    <3>1. hand[MetricsReader] \in Envelope
      BY <2>2, <1>w DEF StoreMetrics
    <3>2. QED
      BY <2>2, <3>1, <1>w DEF StoreMetrics, Goto
  <2>3. CASE ReceiveLog
    <3>1. /\ Head(processedLogs) \in Envelope
          /\ Tail(processedLogs) \in Seq(Envelope)
          /\ Len(Tail(processedLogs)) <= LogsCap
      BY <2>3, ReceiveElements DEF ReceiveLog
    <3>2. QED
      BY <2>3, <3>1, <1>w, <1>n DEF ReceiveLog, Goto
  <2>4. CASE StoreLog
    <3>1. hand[LogsReader] \in Envelope
      BY <2>4, <1>w DEF StoreLog
    <3>2. QED
      BY <2>4, <3>1, <1>w DEF StoreLog, Goto
  <2>5. QED
    BY <1>4, <2>1, <2>2, <2>3, <2>4 DEF ReaderStep
<1>5. CASE Tick
  BY <1>5 DEF Tick
<1>6. CASE PostStep
  <2>1. CASE FlushMetrics
    BY <2>1 DEF FlushMetrics, ResetMap
  <2>2. CASE PostToClient
    BY <2>2 DEF PostToClient
  <2>3. CASE FinishMetrics
    BY <2>3 DEF FinishMetrics
  <2>4. CASE FlushLogs
    BY <2>4 DEF FlushLogs
  <2>5. CASE FinishLogs
    BY <2>5 DEF FinishLogs
  <2>6. QED
    BY <1>6, <2>1, <2>2, <2>3, <2>4, <2>5 DEF PostStep
<1>7. CASE RequestStop \/ ReceiveStop \/ CloseStream
  BY <1>7 DEF RequestStop, ReceiveStop, CloseStream
<1>8. CASE StopStep
  <2>1. ASSUME NEW g \in Goroutines, StopGoroutine(g) PROVE TypeInv'
    BY <2>1 DEF StopGoroutine, Goto
  <2>2. CASE StopTimeout \/ WorkersStopped
    BY <2>2 DEF StopTimeout, WorkersStopped
  <2>3. QED
    BY <1>8, <2>1, <2>2 DEF StopStep
<1>9. CASE UNCHANGED vars
  BY <1>9 DEF vars
<1>10. QED
  BY <1>1, <1>2, <1>3, <1>4, <1>5, <1>6, <1>7, <1>8, <1>9 DEF Next, Terminated

\* In every reachable state the variables have their types and no channel holds
\* more than its capacity, for any numbers of goroutines and any capacities.
THEOREM TypeCorrect == Spec => []TypeOK
<1>1. TypeInv => TypeOK
  BY DEF TypeInv
<1>2. QED
  BY <1>1, InitType, NextType, PTL DEF Spec

-----------------------------------------------------------------------------
(* Every envelope stays in exactly one place.                              *)

HandsDiffer == \A g, h \in Goroutines : hand[g] = hand[h] /\ hand[g] # NoEnvelope => g = h

\* What the main goroutine copied out is nonempty only while it posts it.
PostingInv == main \notin {"postMetrics", "postLogs"} => posting = {}

PlaceInv == TypeInv /\ OnePlace /\ PostingInv

\* Goroutine g exchanges what it holds for x, which nobody held before.
LEMMA HandExchange ==
    ASSUME TypeOK, HandsDiffer, NEW g \in Goroutines, NEW x \in Envelope \cup {NoEnvelope},
           x = NoEnvelope \/ ~Held(x),
           hand' = [hand EXCEPT ![g] = x]
    PROVE  /\ HandsDiffer'
           /\ \A e \in Envelope : Held(e)' <=> (e = x \/ (Held(e) /\ e # hand[g]))
<1> USE DEF TypeOK
<1>1. HandsDiffer'
  BY DEF HandsDiffer, Held
<1>2. ASSUME NEW e \in Envelope PROVE Held(e)' <=> (e = x \/ (Held(e) /\ e # hand[g]))
  <2>1. ASSUME Held(e)' PROVE e = x \/ (Held(e) /\ e # hand[g])
    <3>1. PICK h \in Goroutines : hand'[h] = e
      BY <2>1 DEF Held
    <3>2. CASE h = g
      BY <3>1, <3>2
    <3>3. CASE h # g
      <4>1. hand[h] = e
        BY <3>1, <3>3
      <4>2. e # NoEnvelope
        BY DEF Envelope, NoEnvelope
      <4>3. QED
        BY <4>1, <4>2, <3>3 DEF Held, HandsDiffer
    <3>4. QED
      BY <3>2, <3>3
  <2>2. ASSUME e = x PROVE Held(e)'
    <3>1. hand'[g] = e
      BY <2>2
    <3>2. QED
      BY <3>1 DEF Held
  <2>3. ASSUME Held(e), e # hand[g] PROVE Held(e)'
    <3>1. PICK h \in Goroutines : hand[h] = e
      BY <2>3 DEF Held
    <3>2. hand'[h] = e
      BY <3>1, <2>3
    <3>3. QED
      BY <3>2 DEF Held
  <2>4. QED
    BY <2>1, <2>2, <2>3
<1>3. QED
  BY <1>1, <1>2

LEMMA InitPlace == Init => PlaceInv
<1> SUFFICES ASSUME Init PROVE PlaceInv
  OBVIOUS
<1>1. TypeInv
  BY InitType
<1>2. Range(<<>>) = {} /\ IsInjective(<<>>)
  BY DEF Range, IsInjective
<1>3. \A e \in Envelope : ~Held(e) /\ e > received
  BY DEF Init, Held, Envelope, NoEnvelope
<1>4. \A e \in Envelope : Places(e) = 1
  BY <1>2, <1>3 DEF Init, Places, One
<1>5. OnePlace
  BY <1>2, <1>4 DEF Init, OnePlace
<1>6. QED
  BY <1>1, <1>5 DEF PlaceInv, PostingInv, Init

LEMMA NextPlace == PlaceInv /\ [Next]_vars => PlaceInv'
<1> SUFFICES ASSUME PlaceInv, [Next]_vars PROVE PlaceInv'
  OBVIOUS
<1> USE DEF pipeline, stream, channels, goroutines, buffers, flush, shutdown, mainVars
<1>t. TypeInv /\ TypeOK /\ TypeInv' /\ TypeOK'
  BY NextType DEF PlaceInv, TypeInv
<1>p. /\ \A e \in Envelope : Places(e) = 1
      /\ IsInjective(batch) /\ IsInjective(messages)
      /\ IsInjective(processedMetrics) /\ IsInjective(processedLogs)
      /\ HandsDiffer
  BY DEF PlaceInv, OnePlace, HandsDiffer
<1>w. /\ Workers \subseteq Goroutines /\ MetricsReader \in Goroutines
      /\ EnableApplicationLogs => LogsReader \in Goroutines
      /\ NoEnvelope \notin Envelope
  BY DEF Goroutines, Readers, NoEnvelope, Envelope
<1> DEFINE Goal == /\ \A e \in Envelope : Places(e)' = 1
                   /\ IsInjective(batch') /\ IsInjective(messages')
                   /\ IsInjective(processedMetrics') /\ IsInjective(processedLogs')
                   /\ HandsDiffer'
                   /\ PostingInv'
<1>i. SUFFICES ASSUME TypeInv' PROVE Goal
  BY <1>t DEF PlaceInv, OnePlace, HandsDiffer
<1>h. hand' = hand => HandsDiffer' /\ \A e \in Envelope : Held(e)' <=> Held(e)
  BY <1>p DEF HandsDiffer, Held
<1>m. main' = main /\ posting' = posting => PostingInv'
  BY DEF PlaceInv, PostingInv
<1>1. CASE Receive
  <2>1. PICK n \in 1..MaxBatch : /\ received + n <= NumEnvelopes
                                 /\ batch' = [i \in 1..n |-> received + i]
                                 /\ received' = received + n
    BY <1>1 DEF Receive
  <2>2. n \in Nat /\ received \in Nat
    BY <2>1, <1>t, SizesAssumption DEF TypeOK
  <2>3. IsInjective(batch')
    BY <2>1, <2>2 DEF IsInjective
  <2>4. ASSUME NEW e \in Envelope
        PROVE  e \in Range(batch') <=> (e > received /\ ~(e > received'))
    <3>1. ASSUME NEW i \in 1..n PROVE batch'[i] > received /\ ~(batch'[i] > received')
      BY <2>1, <2>2
    <3>2. ASSUME e > received, ~(e > received') PROVE e \in Range(batch')
      <4>1. e - received \in 1..n /\ batch'[e - received] = e
        BY <3>2, <2>1, <2>2 DEF Envelope
      <4>2. QED
        BY <4>1, <2>1 DEF Range
    <3>3. QED
      BY <3>1, <3>2, <2>1 DEF Range
  <2>5. batch = <<>> /\ Range(<<>>) = {}
    BY <1>1 DEF Receive, Range
  <2>6. ASSUME NEW e \in Envelope PROVE Places(e)' = 1
    <3>1. e > received' => e > received
      BY <2>1, <2>2 DEF Envelope
    <3>2. QED
      BY <1>1, <1>p, <1>h, <2>4, <2>5, <3>1 DEF Receive, Places, One
  <2>7. QED
    BY <1>1, <1>p, <1>h, <1>m, <2>3, <2>6 DEF Receive
<1>2. CASE Deliver
  <2>1. /\ Head(batch) \in Envelope /\ Head(batch) \in Range(batch)
        /\ IsInjective(batch') /\ Range(batch') = Range(batch) \ {Head(batch)}
    BY <1>2, <1>t, <1>p, ReceiveElements DEF Deliver, TypeOK
  <2>2. Head(batch) \notin Range(messages)
    BY <1>p, <2>1 DEF Places, One
  <2>3. /\ IsInjective(messages')
        /\ Range(messages') = Range(messages) \cup {Head(batch)}
    BY <1>2, <1>t, <1>p, <2>1, <2>2, SendElements DEF Deliver, TypeOK
  <2>4. ASSUME NEW e \in Envelope PROVE Places(e)' = 1
    BY <1>2, <1>p, <1>h, <2>1, <2>3 DEF Deliver, Places, One
  <2>5. QED
    BY <1>2, <1>p, <1>h, <1>m, <2>1, <2>3, <2>4 DEF Deliver
<1>3. ASSUME NEW w \in Workers, WorkerStep(w) PROVE Goal
  <2>w. w \in Goroutines
    BY <1>w
  <2>1. CASE Take(w)
    <3> DEFINE x == Head(messages)
    <3>1. /\ x \in Envelope /\ x \in Range(messages)
          /\ IsInjective(messages') /\ Range(messages') = Range(messages) \ {x}
      BY <2>1, <1>t, <1>p, ReceiveElements DEF Take, TypeOK
    <3>2. hand[w] = NoEnvelope /\ ~Held(x)
      BY <2>1, <1>t, <1>p, <2>w, <3>1 DEF Take, TypeInv, HandOK, Places, One
    <3>3. hand' = [hand EXCEPT ![w] = x]
      BY <2>1 DEF Take, Goto
    <3> HIDE DEF x
    <3>4. /\ HandsDiffer'
          /\ \A e \in Envelope : Held(e)' <=> (e = x \/ (Held(e) /\ e # hand[w]))
      BY <1>t, <1>p, <2>w, <3>1, <3>2, <3>3, HandExchange
    <3>5. ASSUME NEW e \in Envelope PROVE Places(e)' = 1
      BY <2>1, <1>p, <1>w, <3>1, <3>2, <3>4 DEF Take, Places, One
    <3>6. QED
      BY <2>1, <1>p, <1>m, <3>1, <3>4, <3>5 DEF Take
  <2>2. CASE Work(w)
    <3>1. hand[w] \in Envelope /\ Held(hand[w])
      BY <2>2, <1>t, <2>w DEF Work, TypeInv, TypeOK, HandOK, Held
    <3>2. UNCHANGED <<stream, channels, buffers, mainVars>>
      BY <2>2 DEF Work
    <3>3. CASE Discard(w)
      <4>1. hand' = [hand EXCEPT ![w] = NoEnvelope] /\ discarded' = discarded \cup {hand[w]}
        BY <3>3 DEF Discard, Goto
      <4>2. /\ HandsDiffer'
            /\ \A e \in Envelope : Held(e)' <=> (e = NoEnvelope \/ (Held(e) /\ e # hand[w]))
        BY <1>t, <1>p, <2>w, <4>1, HandExchange
      <4>3. ASSUME NEW e \in Envelope PROVE Places(e)' = 1
        BY <1>p, <1>w, <3>1, <3>2, <4>1, <4>2 DEF Places, One
      <4>4. QED
        BY <1>p, <1>m, <3>2, <4>2, <4>3
    <3>4. CASE hand' = hand /\ discarded' = discarded
      <4>1. ASSUME NEW e \in Envelope PROVE Places(e)' = 1
        BY <1>p, <1>h, <3>2, <3>4 DEF Places, One
      <4>2. QED
        BY <1>p, <1>h, <1>m, <3>2, <3>4, <4>1
    <3>5. ASSUME NEW label, Goto(w, label, hand[w]) PROVE hand' = hand
      BY <3>5, <1>t DEF Goto, TypeOK
    <3>6. QED
      BY <2>2, <3>3, <3>4, <3>5 DEF Work, Filter, ProcessLog, ProcessMetric
  <2>3. CASE SendMetrics(w)
    <3>1. hand[w] \in Envelope /\ Held(hand[w])
      BY <2>3, <1>t, <2>w DEF SendMetrics, TypeInv, TypeOK, HandOK, Held
    <3>2. hand[w] \notin Range(processedMetrics)
      BY <1>p, <3>1 DEF Places, One
    <3>3. /\ IsInjective(processedMetrics')
          /\ Range(processedMetrics') = Range(processedMetrics) \cup {hand[w]}
      BY <2>3, <1>t, <1>p, <3>1, <3>2, SendElements DEF SendMetrics, TypeOK
    <3>4. hand' = [hand EXCEPT ![w] = NoEnvelope]
      BY <2>3 DEF SendMetrics, Goto
    <3>5. /\ HandsDiffer'
          /\ \A e \in Envelope : Held(e)' <=> (e = NoEnvelope \/ (Held(e) /\ e # hand[w]))
      BY <1>t, <1>p, <2>w, <3>4, HandExchange
    <3>6. ASSUME NEW e \in Envelope PROVE Places(e)' = 1
      BY <2>3, <1>p, <1>w, <3>1, <3>3, <3>5 DEF SendMetrics, Places, One
    <3>7. QED
      BY <2>3, <1>p, <1>m, <3>3, <3>5, <3>6 DEF SendMetrics
  <2>4. CASE SendLog(w)
    <3>1. hand[w] \in Envelope /\ Held(hand[w])
      BY <2>4, <1>t, <2>w DEF SendLog, TypeInv, TypeOK, HandOK, Held
    <3>2. hand[w] \notin Range(processedLogs)
      BY <1>p, <3>1 DEF Places, One
    <3>3. /\ IsInjective(processedLogs')
          /\ Range(processedLogs') = Range(processedLogs) \cup {hand[w]}
      BY <2>4, <1>t, <1>p, <3>1, <3>2, SendElements DEF SendLog, TypeOK
    <3>4. hand' = [hand EXCEPT ![w] = NoEnvelope]
      BY <2>4 DEF SendLog, Goto
    <3>5. /\ HandsDiffer'
          /\ \A e \in Envelope : Held(e)' <=> (e = NoEnvelope \/ (Held(e) /\ e # hand[w]))
      BY <1>t, <1>p, <2>w, <3>4, HandExchange
    <3>6. ASSUME NEW e \in Envelope PROVE Places(e)' = 1
      BY <2>4, <1>p, <1>w, <3>1, <3>3, <3>5 DEF SendLog, Places, One
    <3>7. QED
      BY <2>4, <1>p, <1>m, <3>3, <3>5, <3>6 DEF SendLog
  <2>5. QED
    BY <1>3, <2>1, <2>2, <2>3, <2>4 DEF WorkerStep
<1>4. CASE ReaderStep
  <2>1. CASE ReceiveMetrics
    <3> DEFINE x == Head(processedMetrics)
    <3>1. /\ x \in Envelope /\ x \in Range(processedMetrics)
          /\ IsInjective(processedMetrics')
          /\ Range(processedMetrics') = Range(processedMetrics) \ {x}
      BY <2>1, <1>t, <1>p, ReceiveElements DEF ReceiveMetrics, TypeOK
    <3>2. hand[MetricsReader] = NoEnvelope /\ ~Held(x)
      BY <2>1, <1>t, <1>p, <1>w, <3>1 DEF ReceiveMetrics, TypeInv, HandOK, Places, One
    <3>3. hand' = [hand EXCEPT ![MetricsReader] = x]
      BY <2>1 DEF ReceiveMetrics, Goto
    <3> HIDE DEF x
    <3>4. /\ HandsDiffer'
          /\ \A e \in Envelope :
                Held(e)' <=> (e = x \/ (Held(e) /\ e # hand[MetricsReader]))
      BY <1>t, <1>p, <1>w, <3>1, <3>2, <3>3, HandExchange
    <3>5. ASSUME NEW e \in Envelope PROVE Places(e)' = 1
      BY <2>1, <1>p, <1>w, <3>1, <3>2, <3>4 DEF ReceiveMetrics, Places, One
    <3>6. QED
      BY <2>1, <1>p, <1>m, <3>1, <3>4, <3>5 DEF ReceiveMetrics
  <2>2. CASE StoreMetrics
    <3> DEFINE x == hand[MetricsReader]
    <3>1. x \in Envelope /\ Held(x)
      BY <2>2, <1>t, <1>w DEF StoreMetrics, TypeInv, TypeOK, HandOK, Held
    <3>2. /\ hand' = [hand EXCEPT ![MetricsReader] = NoEnvelope]
          /\ metricsMap' = metricsMap \cup {x}
      BY <2>2 DEF StoreMetrics, Goto
    <3>3. /\ HandsDiffer'
          /\ \A e \in Envelope : Held(e)' <=> (e = NoEnvelope \/ (Held(e) /\ e # x))
      BY <1>t, <1>p, <1>w, <3>2, HandExchange
    <3> HIDE DEF x
    <3>4. ASSUME NEW e \in Envelope PROVE Places(e)' = 1
      BY <2>2, <1>p, <1>w, <3>1, <3>2, <3>3 DEF StoreMetrics, Places, One
    <3>5. QED
      BY <2>2, <1>p, <1>m, <3>3, <3>4 DEF StoreMetrics
  <2>3. CASE ReceiveLog
    <3> DEFINE x == Head(processedLogs)
    <3>1. /\ x \in Envelope /\ x \in Range(processedLogs)
          /\ IsInjective(processedLogs') /\ Range(processedLogs') = Range(processedLogs) \ {x}
      BY <2>3, <1>t, <1>p, ReceiveElements DEF ReceiveLog, TypeOK
    <3>2. hand[LogsReader] = NoEnvelope /\ ~Held(x)
      BY <2>3, <1>t, <1>p, <1>w, <3>1 DEF ReceiveLog, TypeInv, HandOK, Places, One
    <3>3. hand' = [hand EXCEPT ![LogsReader] = x]
      BY <2>3 DEF ReceiveLog, Goto
    <3> HIDE DEF x
    <3>4. /\ HandsDiffer'
          /\ \A e \in Envelope :
                Held(e)' <=> (e = x \/ (Held(e) /\ e # hand[LogsReader]))
      BY <2>3, <1>t, <1>p, <1>w, <3>1, <3>2, <3>3, HandExchange DEF ReceiveLog
    <3>5. ASSUME NEW e \in Envelope PROVE Places(e)' = 1
      BY <2>3, <1>p, <1>w, <3>1, <3>2, <3>4 DEF ReceiveLog, Places, One
    <3>6. QED
      BY <2>3, <1>p, <1>m, <3>1, <3>4, <3>5 DEF ReceiveLog
  <2>4. CASE StoreLog
    <3> DEFINE x == hand[LogsReader]
    <3>1. x \in Envelope /\ Held(x)
      BY <2>4, <1>t, <1>w DEF StoreLog, TypeInv, TypeOK, HandOK, Held
    <3>2. /\ hand' = [hand EXCEPT ![LogsReader] = NoEnvelope]
          /\ logsBuffer' = logsBuffer \cup {x}
      BY <2>4 DEF StoreLog, Goto
    <3>3. /\ HandsDiffer'
          /\ \A e \in Envelope : Held(e)' <=> (e = NoEnvelope \/ (Held(e) /\ e # x))
      BY <2>4, <1>t, <1>p, <1>w, <3>2, HandExchange DEF StoreLog
    <3> HIDE DEF x
    <3>4. ASSUME NEW e \in Envelope PROVE Places(e)' = 1
      BY <2>4, <1>p, <1>w, <3>1, <3>2, <3>3 DEF StoreLog, Places, One
    <3>5. QED
      BY <2>4, <1>p, <1>m, <3>3, <3>4 DEF StoreLog
  <2>5. QED
    BY <1>4, <2>1, <2>2, <2>3, <2>4 DEF ReaderStep
<1>5. CASE PostStep
  <2>1. hand' = hand /\ UNCHANGED <<stream, channels, discarded>>
    BY <1>5 DEF PostStep, FlushMetrics, PostToClient, FinishMetrics, FlushLogs, FinishLogs
  <2>2. CASE FlushMetrics
    <3>1. posting = {} /\ posting' = metricsMap /\ metricsMap' = {}
      BY <2>2 DEF FlushMetrics, ResetMap, PlaceInv, PostingInv
    <3>2. ASSUME NEW e \in Envelope PROVE Places(e)' = 1
      BY <2>2, <1>p, <1>h, <2>1, <3>1 DEF FlushMetrics, Places, One
    <3>3. QED
      BY <2>2, <1>p, <1>h, <2>1, <3>2 DEF FlushMetrics, PostingInv
  <2>3. CASE PostToClient
    <3>1. ASSUME NEW e \in Envelope PROVE Places(e)' = 1
      BY <2>3, <1>p, <1>h, <2>1 DEF PostToClient, Places, One
    <3>2. QED
      BY <2>3, <1>p, <1>h, <1>m, <2>1, <3>1 DEF PostToClient
  <2>4. CASE FinishMetrics \/ FinishLogs
    <3>1. posting' = {} /\ submitted' = submitted \cup posting /\ UNCHANGED buffers
      BY <2>4 DEF FinishMetrics, FinishLogs
    <3>2. ASSUME NEW e \in Envelope PROVE Places(e)' = 1
      BY <1>p, <1>h, <2>1, <3>1 DEF Places, One
    <3>3. QED
      BY <1>p, <1>h, <2>1, <3>1, <3>2 DEF PostingInv
  <2>5. CASE FlushLogs
    <3>1. posting = {} /\ posting' = logsBuffer /\ logsBuffer' = {}
      BY <2>5 DEF FlushLogs, PlaceInv, PostingInv
    <3>2. ASSUME NEW e \in Envelope PROVE Places(e)' = 1
      BY <2>5, <1>p, <1>h, <2>1, <3>1 DEF FlushLogs, Places, One
    <3>3. QED
      BY <2>5, <1>p, <1>h, <2>1, <3>2 DEF FlushLogs, PostingInv
  <2>6. QED
    BY <1>5, <2>2, <2>3, <2>4, <2>5 DEF PostStep
<1>6. ASSUME NEW g \in Goroutines, StopGoroutine(g) PROVE Goal
  <2>1. hand[g] = NoEnvelope /\ hand' = [hand EXCEPT ![g] = NoEnvelope]
    BY <1>6, <1>t DEF StopGoroutine, Goto, TypeInv, HandOK
  <2>2. hand' = hand
    BY <2>1, <1>t DEF TypeOK
  <2>3. ASSUME NEW e \in Envelope PROVE Places(e)' = 1
    BY <1>6, <1>p, <1>h, <2>2 DEF StopGoroutine, Places, One
  <2>4. QED
    BY <1>6, <1>p, <1>h, <1>m, <2>2, <2>3 DEF StopGoroutine
<1>7. CASE \/ Tick \/ RequestStop \/ ReceiveStop \/ CloseStream \/ StopTimeout
           \/ WorkersStopped \/ UNCHANGED vars
  <2>1. UNCHANGED <<received, batch, channels, goroutines, buffers, discarded, posting,
                    submitted>>
    BY <1>7 DEF Tick, RequestStop, ReceiveStop, CloseStream, StopTimeout, WorkersStopped,
                vars
  <2>2. PostingInv'
    BY <1>7, <2>1 DEF Tick, RequestStop, ReceiveStop, CloseStream, StopTimeout,
                      WorkersStopped, vars, PlaceInv, PostingInv
  <2>3. ASSUME NEW e \in Envelope PROVE Places(e)' = 1
    BY <1>p, <1>h, <2>1 DEF Places, One
  <2>4. QED
    BY <1>p, <1>h, <2>1, <2>2, <2>3
<1>8. QED
  BY <1>1, <1>2, <1>3, <1>4, <1>5, <1>6, <1>7 DEF Next, StopStep, Terminated

\* No envelope is lost, duplicated or submitted twice, whatever the numbers of
\* workers and envelopes, the capacities and the interleaving.
THEOREM NothingLostOrDuplicated == Spec => []OnePlace
<1>1. PlaceInv => OnePlace
  BY DEF PlaceInv
<1>2. QED
  BY <1>1, InitPlace, NextPlace, PTL DEF Spec

-----------------------------------------------------------------------------
(* The pipeline implements Delivery.                                       *)

\* What Delivery sees of the pipeline.
visible == <<submitted, discarded, posting>>

\* A step is a step of Delivery: what it discards or begins to flush was in
\* another place of the pipeline, hence neither flushed nor discarded before.
LEMMA PromiseStep == PlaceInv /\ [Next]_vars => [Promise!Next]_visible
<1> SUFFICES ASSUME PlaceInv, [Next]_vars
             PROVE  Promise!Next \/ UNCHANGED visible
  OBVIOUS
<1> USE DEF pipeline, stream, channels, goroutines, buffers, flush, shutdown, mainVars, visible
<1>p. TypeInv /\ TypeOK /\ PostingInv /\ \A e \in Envelope : Places(e) = 1
  BY DEF PlaceInv, TypeInv, OnePlace
<1>1. ASSUME NEW w \in Workers, Work(w)
      PROVE  Promise!Next \/ UNCHANGED visible
  <2>1. w \in Goroutines /\ hand[w] \in Envelope /\ Held(hand[w])
    BY <1>1, <1>p DEF Goroutines, Work, TypeInv, TypeOK, HandOK, Held
  <2>2. hand[w] \notin submitted \cup discarded \cup posting
    BY <1>p, <2>1 DEF Places, One
  <2>3. CASE Discard(w) /\ Kind[hand[w]] \notin {"infra", "alert"}
    <3>1. Promise!Discard(hand[w])
      BY <1>1, <2>1, <2>2, <2>3 DEF Work, Discard, Promise!Discard, Promise!Settled
    <3>2. QED
      BY <2>1, <3>1 DEF Promise!Next
  <2>4. QED
    BY <1>1, <2>3 DEF Work, Filter, ProcessLog, ProcessMetric
<1>f. ASSUME NEW items \in SUBSET Envelope, items = metricsMap \/ items = logsBuffer,
             main \in {"flushMetrics", "flushLogs"}, posting' = items,
             UNCHANGED <<submitted, discarded>>
      PROVE  Promise!Next
  <2>1. posting = {}
    BY <1>f, <1>p DEF PostingInv
  <2>2. ASSUME NEW e \in items PROVE e \notin submitted \cup discarded
    <3>1. Places(e) = 1
      BY <1>f, <1>p
    <3>2. QED
      BY <1>f, <3>1 DEF Places, One
  <2>3. Promise!BeginFlush(items)
    BY <1>f, <2>1, <2>2 DEF Promise!BeginFlush, Promise!Settled
  <2>4. QED
    BY <2>3 DEF Promise!Next
<1>2. CASE FlushMetrics \/ FlushLogs
  BY <1>2, <1>f, <1>p DEF FlushMetrics, FlushLogs, TypeOK
<1>3. CASE FinishMetrics \/ FinishLogs
  BY <1>3 DEF FinishMetrics, FinishLogs, Promise!FinishFlush, Promise!Next
<1>4. ASSUME NEW w \in Workers, Take(w) \/ SendMetrics(w) \/ SendLog(w)
      PROVE  UNCHANGED visible
  BY <1>4 DEF Take, SendMetrics, SendLog
<1>5. CASE \/ Receive \/ Deliver \/ ReaderStep \/ Tick \/ PostToClient \/ RequestStop
           \/ ReceiveStop \/ CloseStream \/ StopStep \/ UNCHANGED vars
  BY <1>5 DEF Receive, Deliver, ReaderStep, ReceiveMetrics, StoreMetrics, ReceiveLog,
     StoreLog, Tick, PostToClient, RequestStop, ReceiveStop, CloseStream, StopStep,
     StopGoroutine, StopTimeout, WorkersStopped, vars
<1>6. QED
  BY <1>1, <1>2, <1>3, <1>4, <1>5 DEF Next, WorkerStep, PostStep, Terminated

\* The pipeline keeps the promise of Delivery: each step of it is a discard of an
\* envelope that may be discarded, a flush of envelopes never flushed before, its
\* end, or invisible.
THEOREM KeepsDeliveryPromise == Spec => DeliveryPromise
<1>1. Init => Promise!Init
  BY DEF Init, Promise!Init
<1>2. QED
  BY <1>1, InitPlace, NextPlace, PromiseStep, PTL DEF Spec, DeliveryPromise, Promise!Spec, visible

-----------------------------------------------------------------------------
(* The stop messages of stopWorkers.                                       *)

Stopped == {g \in Goroutines : pc[g] = "stopped"}

\* Each stop message handed over stopped one goroutine, and no goroutine takes
\* two: this is what makes counting messages the same as counting goroutines.
StopInv ==
    /\ tokens = Cardinality(Stopped)
    /\ stop # "received" => ~timedOut /\ main \notin {"closeStream", "stopWorkers", "done"}
    /\ main \in {"closeStream", "stopWorkers"} => ~timedOut
    /\ stop = "received" /\ main \notin {"closeStream", "stopWorkers"} /\ ~timedOut
         => tokens = NumTokens
    /\ timedOut => tokens < NumTokens

LEMMA InitStop == Init => StopInv
<1> SUFFICES ASSUME Init PROVE StopInv
  OBVIOUS
<1>1. Stopped = {}
  BY DEF Init, Stopped
<1>2. QED
  BY <1>1, FS_EmptySet DEF Init, StopInv

LEMMA NextStop == TypeInv /\ StopInv /\ [Next]_vars => StopInv'
<1> SUFFICES ASSUME TypeInv, StopInv, [Next]_vars PROVE StopInv'
  OBVIOUS
<1> USE DEF pipeline, stream, channels, goroutines, buffers, flush, shutdown, mainVars
<1>t. TypeOK /\ IsFiniteSet(Stopped)
  BY NumTokensType, FS_Subset DEF TypeInv, Stopped
<1>1. ASSUME Stopped' = Stopped, UNCHANGED <<stop, tokens, timedOut, main>>
      PROVE  StopInv'
  BY <1>1 DEF StopInv, NumTokens
<1>s. ASSUME NEW g \in Goroutines, pc[g] # "stopped",
             NEW label \in {"select", "work", "sendMetrics", "sendLog", "store"},
             pc' = [pc EXCEPT ![g] = label], UNCHANGED <<stop, tokens, timedOut, main>>
      PROVE  StopInv'
  <2>1. \A h \in Goroutines : pc'[h] = "stopped" <=> pc[h] = "stopped"
    BY <1>s, <1>t DEF TypeOK
  <2>2. Stopped' = Stopped
    BY <2>1 DEF Stopped
  <2>3. QED
    BY <1>1, <1>s, <2>2
<1>2. CASE Receive \/ Deliver \/ UNCHANGED vars
  BY <1>1, <1>2 DEF Receive, Deliver, vars, Stopped
<1>3. ASSUME NEW w \in Workers, WorkerStep(w) PROVE StopInv'
  <2>1. w \in Goroutines /\ UNCHANGED <<stop, tokens, timedOut, main>>
    BY <1>3 DEF Goroutines, WorkerStep, Take, Work, SendMetrics, SendLog
  <2>2. CASE Take(w)
    BY <1>s, <2>1, <2>2 DEF Take, Goto
  <2>3. CASE Work(w)
    <3>1. PICK label \in {"select", "sendMetrics", "sendLog"} : pc' = [pc EXCEPT ![w] = label]
      BY <2>3 DEF Work, Filter, ProcessLog, ProcessMetric, Discard, Goto
    <3>2. QED
      BY <1>s, <2>1, <2>3, <3>1 DEF Work
  <2>4. CASE SendMetrics(w)
    BY <1>s, <2>1, <2>4 DEF SendMetrics, Goto
  <2>5. CASE SendLog(w)
    BY <1>s, <2>1, <2>5 DEF SendLog, Goto
  <2>6. QED
    BY <1>3, <2>2, <2>3, <2>4, <2>5 DEF WorkerStep
<1>4. CASE ReaderStep
  <2>1. UNCHANGED <<stop, tokens, timedOut, main>>
    BY <1>4 DEF ReaderStep, ReceiveMetrics, StoreMetrics, ReceiveLog, StoreLog
  <2>2. /\ MetricsReader \in Goroutines
        /\ EnableApplicationLogs => LogsReader \in Goroutines
    BY DEF Goroutines, Readers
  <2>3. CASE ReceiveMetrics \/ StoreMetrics
    <3>1. PICK label \in {"select", "store"} : pc' = [pc EXCEPT ![MetricsReader] = label]
      BY <2>3 DEF ReceiveMetrics, StoreMetrics, Goto
    <3>2. QED
      BY <1>s, <2>1, <2>2, <2>3, <3>1 DEF ReceiveMetrics, StoreMetrics
  <2>4. CASE ReceiveLog \/ StoreLog
    <3>1. PICK label \in {"select", "store"} : pc' = [pc EXCEPT ![LogsReader] = label]
      BY <2>4 DEF ReceiveLog, StoreLog, Goto
    <3>2. QED
      BY <1>s, <2>1, <2>2, <2>4, <3>1 DEF ReceiveLog, StoreLog
  <2>5. QED
    BY <1>4, <2>3, <2>4 DEF ReaderStep
<1>5. CASE \/ Tick \/ PostStep \/ RequestStop \/ ReceiveStop \/ CloseStream
           \/ StopTimeout \/ WorkersStopped
  <2>1. Stopped' = Stopped
    BY <1>5 DEF Tick, PostStep, FlushMetrics, PostToClient, FinishMetrics, FlushLogs,
       FinishLogs, RequestStop, ReceiveStop, CloseStream, StopTimeout, WorkersStopped, Stopped
  <2>2. CASE Tick \/ PostStep
    BY <2>1, <2>2 DEF Tick, PostStep, FlushMetrics, PostToClient, FinishMetrics, FlushLogs,
       FinishLogs, StopInv, NumTokens
  <2>3. CASE RequestStop \/ ReceiveStop \/ CloseStream \/ StopTimeout \/ WorkersStopped
    BY <2>1, <2>3 DEF RequestStop, ReceiveStop, CloseStream, StopTimeout, WorkersStopped,
       StopInv, NumTokens
  <2>4. QED
    BY <1>5, <2>2, <2>3
<1>6. ASSUME NEW g \in Goroutines, StopGoroutine(g) PROVE StopInv'
  <2>1. g \notin Stopped /\ Stopped' = Stopped \cup {g}
    BY <1>6, <1>t DEF StopGoroutine, Goto, Stopped, TypeOK
  <2>2. Cardinality(Stopped') = Cardinality(Stopped) + 1
    BY <1>t, <2>1, FS_AddElement
  <2>3. QED
    BY <1>6, <2>2 DEF StopGoroutine, StopInv, NumTokens
<1>7. QED
  BY <1>2, <1>3, <1>4, <1>5, <1>6 DEF Next, StopStep, Terminated

\* With logs configured consistently there is a stop message for every goroutine.
LEMMA TokenPerGoroutine ==
    ASSUME EnableApplicationLogs = LogIntakeConfigured
    PROVE  NumTokens = Cardinality(Goroutines)
<1>1. IsFiniteSet(Workers) /\ Cardinality(Workers) \in Nat
  BY WorkersAssumption, FS_CardinalityType
<1>2. IsFiniteSet({MetricsReader}) /\ Cardinality({MetricsReader}) = 1
  BY FS_Singleton
<1>3. /\ IsFiniteSet({MetricsReader, LogsReader})
      /\ Cardinality({MetricsReader, LogsReader}) = 2
  <2>1. {MetricsReader, LogsReader} = {MetricsReader} \cup {LogsReader}
    OBVIOUS
  <2>2. LogsReader \notin {MetricsReader}
    BY DEF LogsReader, MetricsReader
  <2>3. QED
    BY <1>2, <2>1, <2>2, FS_AddElement
<1>4. /\ IsFiniteSet(Readers) /\ Workers \cap Readers = {}
      /\ Cardinality(Readers) = 1 + (IF LogIntakeConfigured THEN 1 ELSE 0)
  BY <1>2, <1>3, WorkersAssumption DEF Readers
<1>5. Cardinality(Goroutines) = Cardinality(Workers) + Cardinality(Readers)
  BY <1>1, <1>4, FS_Union, FS_EmptySet DEF Goroutines
<1>6. QED
  BY <1>1, <1>4, <1>5 DEF NumTokens

\* When every stop message was taken, every goroutine has stopped.
LEMMA AllTokensAllStopped ==
    ASSUME EnableApplicationLogs = LogIntakeConfigured, TypeInv, StopInv
    PROVE  StoppedBeforeFinalFlush /\ TimeoutMeansRunning
<1>1. /\ IsFiniteSet(Goroutines) /\ Stopped \subseteq Goroutines
      /\ NumTokens = Cardinality(Goroutines)
  BY NumTokensType, TokenPerGoroutine DEF Stopped
<1>2. tokens = NumTokens => Stopped = Goroutines
  BY <1>1, FS_Subset DEF StopInv
<1>3. tokens < NumTokens => Stopped # Goroutines
  BY <1>1, NumTokensType DEF StopInv
<1>4. QED
  BY <1>2, <1>3 DEF StopInv, Stopped, StoppedBeforeFinalFlush, TimeoutMeansRunning

\* If no stop message timed out, all workers and readers stopped before the final
\* flush, for any number of workers, provided that logs are enabled exactly when a
\* log intake is configured.
THEOREM StopsBeforeFinalFlush ==
    ASSUME EnableApplicationLogs = LogIntakeConfigured
    PROVE  Spec => []StoppedBeforeFinalFlush
<1>1. TypeInv /\ StopInv => StoppedBeforeFinalFlush
  BY AllTokensAllStopped
<1>2. QED
  BY <1>1, InitType, NextType, InitStop, NextStop, PTL DEF Spec

\* stopWorkers never gives up although every goroutine stopped, under the same
\* condition on the configuration.
THEOREM TimeoutIsJustified ==
    ASSUME EnableApplicationLogs = LogIntakeConfigured
    PROVE  Spec => []TimeoutMeansRunning
<1>1. TypeInv /\ StopInv => TimeoutMeansRunning
  BY AllTokensAllStopped
<1>2. QED
  BY <1>1, InitType, NextType, InitStop, NextStop, PTL DEF Spec

-----------------------------------------------------------------------------
(* The final flush.                                                        *)

\* What the final flush took away never comes back: a reader that could refill
\* metricsMap or logsBuffer has stopped by then.
CacheInv ==
    /\ ~EnableApplicationLogs => logsBuffer = {}
    /\ stop = "received" /\ ~timedOut =>
          /\ main \in {"postMetrics", "flushLogs", "postLogs", "done"} => metricsMap = {}
          /\ main \in {"postLogs", "done"} => logsBuffer = {}

LEMMA NextCache ==
    /\ TypeInv /\ StopInv /\ StoppedBeforeFinalFlush /\ CacheInv /\ [Next]_vars
    => CacheInv'
<1> SUFFICES ASSUME TypeInv, StopInv, StoppedBeforeFinalFlush, CacheInv, [Next]_vars
             PROVE  CacheInv'
  OBVIOUS
<1> USE DEF pipeline, stream, channels, goroutines, buffers, flush, shutdown, mainVars
<1>1. ASSUME NEW w \in Workers, WorkerStep(w) PROVE CacheInv'
  BY <1>1 DEF WorkerStep, Take, Work, SendMetrics, SendLog, CacheInv
<1>2. CASE ReaderStep
  <2>1. MetricsReader \in Goroutines /\ (EnableApplicationLogs => LogsReader \in Goroutines)
    BY DEF Goroutines, Readers
  <2>2. CASE ReceiveMetrics \/ ReceiveLog
    BY <2>2 DEF ReceiveMetrics, ReceiveLog, CacheInv
  <2>3. CASE StoreMetrics
    BY <2>1, <2>3 DEF StoreMetrics, CacheInv, StoppedBeforeFinalFlush
  <2>4. CASE StoreLog
    BY <2>1, <2>4 DEF StoreLog, CacheInv, StoppedBeforeFinalFlush
  <2>5. QED
    BY <1>2, <2>2, <2>3, <2>4 DEF ReaderStep
<1>3. CASE PostStep
  BY <1>3 DEF PostStep, FlushMetrics, ResetMap, PostToClient, FinishMetrics, FlushLogs,
     FinishLogs, CacheInv
<1>4. CASE \/ Receive \/ Deliver \/ Tick \/ RequestStop \/ ReceiveStop \/ CloseStream
           \/ StopStep \/ UNCHANGED vars
  BY <1>4 DEF Receive, Deliver, Tick, RequestStop, ReceiveStop, CloseStream, StopStep,
     StopGoroutine, StopTimeout, WorkersStopped, vars, CacheInv, StopInv
<1>5. QED
  BY <1>1, <1>2, <1>3, <1>4 DEF Next, Terminated

\* Start returns with metricsMap and logsBuffer flushed, if no stop message timed
\* out and logs are enabled exactly when a log intake is configured.
THEOREM FinalFlushEmptiesCache ==
    ASSUME EnableApplicationLogs = LogIntakeConfigured
    PROVE  Spec => []NothingLeftInCache
<1>1. Init => CacheInv
  BY DEF Init, CacheInv
<1>2. TypeInv /\ StopInv => StoppedBeforeFinalFlush
  BY AllTokensAllStopped
<1>3. StopInv /\ CacheInv => NothingLeftInCache
  BY ConfigAssumption DEF StopInv, CacheInv, NothingLeftInCache
<1>4. QED
  BY <1>1, <1>2, <1>3, InitType, NextType, InitStop, NextStop, NextCache, PTL DEF Spec

-----------------------------------------------------------------------------
(* The total that postMetrics publishes.                                   *)

\* The envelopes that went through StoreMetrics or StoreLog.
Counted == submitted \cup posting \cup metricsMap \cup logsBuffer

\* totalMessagesReceived counts each stored envelope once: a flush moves stored
\* envelopes, it stores none and loses none.
TotalInv == totalMessagesReceived = Cardinality(Counted) /\ TotalMatchesSnapshot

LEMMA CountedFinite ==
    ASSUME TypeOK, NEW S \in SUBSET Counted
    PROVE  IsFiniteSet(S) /\ Cardinality(S) \in Nat /\ Cardinality(S) <= Cardinality(Counted)
<1>1. IsFiniteSet(Envelope)
  BY SizesAssumption, FS_Interval DEF Envelope
<1>2. Counted \subseteq Envelope
  BY DEF Counted, TypeOK
<1>3. IsFiniteSet(Counted)
  BY <1>1, <1>2, FS_Subset
<1>4. QED
  BY <1>3, FS_Subset, FS_CardinalityType

\* A reader that stores what it holds adds one envelope, not stored before.
LEMMA StoreCounts ==
    ASSUME PlaceInv, NEW g \in Goroutines, pc[g] = "store"
    PROVE  /\ hand[g] \notin Counted
           /\ Cardinality(Counted \cup {hand[g]}) = Cardinality(Counted) + 1
<1>1. TypeOK /\ hand[g] \in Envelope /\ Held(hand[g])
  BY DEF PlaceInv, TypeInv, TypeOK, HandOK, Held
<1>2. Places(hand[g]) = 1
  BY <1>1 DEF PlaceInv, OnePlace
<1>3. hand[g] \notin Counted
  BY <1>1, <1>2 DEF Places, One, Counted
<1>4. QED
  BY <1>1, <1>3, CountedFinite, FS_AddElement

\* The bounds of TotalMatchesSnapshot survive a log stored meanwhile.
LEMMA MoreLogs ==
    ASSUME TypeOK, TypeOK', TotalMatchesSnapshot, logsBuffer \subseteq logsBuffer',
           UNCHANGED <<main, submitted, posting, postedTotal>>
    PROVE  TotalMatchesSnapshot'
<1> DEFINE Logged == submitted \cup posting \cup logsBuffer
<1>1. Logged \subseteq Logged'
  BY DEF Logged
<1>2. IsFiniteSet(Envelope)
  BY SizesAssumption, FS_Interval DEF Envelope
<1>3. IsFiniteSet(Logged')
  BY <1>2, FS_Subset DEF TypeOK
<1>4. /\ Cardinality(Logged) \in Nat /\ Cardinality(Logged') \in Nat
      /\ Cardinality(Logged) <= Cardinality(Logged')
  BY <1>1, <1>3, FS_Subset, FS_CardinalityType
<1>5. postedTotal \in Nat
  BY DEF TypeOK
<1> HIDE DEF Logged
<1>6. main = "postMetrics" => postedTotal <= Cardinality(Logged)
  BY DEF TotalMatchesSnapshot, Logged
<1>7. main' = "postMetrics" => postedTotal' <= Cardinality(Logged')
  BY <1>4, <1>5, <1>6
<1>8. QED
  BY <1>7 DEF TotalMatchesSnapshot, Logged

LEMMA InitTotal == Init => TotalInv
BY FS_EmptySet DEF Init, TotalInv, Counted, TotalMatchesSnapshot

LEMMA NextTotal == PlaceInv /\ TotalInv /\ [Next]_vars => TotalInv'
<1> SUFFICES ASSUME PlaceInv, TotalInv, [Next]_vars PROVE TotalInv'
  OBVIOUS
<1> USE DEF pipeline, stream, channels, goroutines, buffers, flush, shutdown, mainVars
<1>t. TypeOK /\ TypeOK' /\ PostingInv
  BY NextType DEF PlaceInv, TypeInv
<1>w. MetricsReader \in Goroutines /\ (EnableApplicationLogs => LogsReader \in Goroutines)
  BY DEF Goroutines, Readers
<1>u. totalMessagesReceived = Cardinality(Counted) /\ TotalMatchesSnapshot
  BY DEF TotalInv
<1>1. CASE StoreMetrics
  <2>1. Counted' = Counted \cup {hand[MetricsReader]}
    BY <1>1 DEF StoreMetrics, Counted
  <2>2. totalMessagesReceived' = Cardinality(Counted')
    BY <1>1, <1>u, <1>w, <2>1, StoreCounts DEF StoreMetrics
  <2>3. QED
    BY <1>1, <1>t, <1>u, <2>2, MoreLogs DEF StoreMetrics, TotalInv
<1>2. CASE StoreLog
  <2>1. Counted' = Counted \cup {hand[LogsReader]}
    BY <1>2 DEF StoreLog, Counted
  <2>2. totalMessagesReceived' = Cardinality(Counted')
    BY <1>2, <1>u, <1>w, <2>1, StoreCounts DEF StoreLog
  <2>3. QED
    BY <1>2, <1>t, <1>u, <2>2, MoreLogs DEF StoreLog, TotalInv
<1>3. CASE FlushMetrics
  <2>1. posting = {} /\ posting' = metricsMap /\ metricsMap' = {}
    BY <1>3, <1>t DEF FlushMetrics, ResetMap, PostingInv
  <2>2. /\ Counted' = Counted
        /\ submitted' \cup posting' \cup logsBuffer' = Counted
        /\ submitted' \cup posting' \subseteq Counted
    BY <1>3, <2>1 DEF FlushMetrics, Counted
  <2>3. postedTotal' = Cardinality(Counted) /\ totalMessagesReceived' = Cardinality(Counted)
    BY <1>3, <1>u DEF FlushMetrics
  <2>4. /\ Cardinality(submitted' \cup posting') <= Cardinality(Counted)
        /\ Cardinality(Counted) \in Nat
    BY <1>t, <2>2, CountedFinite
  <2>5. QED
    BY <2>2, <2>3, <2>4 DEF TotalInv, TotalMatchesSnapshot
<1>4. CASE FinishMetrics \/ FlushLogs \/ FinishLogs
  <2>1. Counted' = Counted
    BY <1>4, <1>t DEF FinishMetrics, FlushLogs, FinishLogs, PostingInv, Counted
  <2>2. main' # "postMetrics" /\ totalMessagesReceived' = totalMessagesReceived
    BY <1>4 DEF FinishMetrics, FlushLogs, FinishLogs
  <2>3. QED
    BY <1>u, <2>1, <2>2 DEF TotalInv, TotalMatchesSnapshot
<1>5. ASSUME UNCHANGED <<submitted, posting, metricsMap, logsBuffer, totalMessagesReceived,
                         postedTotal>>,
             main' = "postMetrics" => main = "postMetrics"
      PROVE  TotalInv'
  BY <1>5, <1>u DEF TotalInv, Counted, TotalMatchesSnapshot
<1>6. ASSUME NEW w \in Workers, WorkerStep(w) PROVE TotalInv'
  BY <1>5, <1>6 DEF WorkerStep, Take, Work, SendMetrics, SendLog
<1>7. CASE \/ Receive \/ Deliver \/ ReceiveMetrics \/ ReceiveLog \/ Tick \/ PostToClient
           \/ RequestStop \/ ReceiveStop \/ CloseStream \/ StopStep \/ UNCHANGED vars
  BY <1>5, <1>7 DEF Receive, Deliver, ReceiveMetrics, ReceiveLog, Tick, PostToClient,
     RequestStop, ReceiveStop, CloseStream, StopStep, StopGoroutine, StopTimeout,
     WorkersStopped, vars
<1>8. QED
  BY <1>1, <1>2, <1>3, <1>4, <1>6, <1>7 DEF Next, ReaderStep, PostStep, Terminated

\* The total that postMetrics publishes with a map counts every message flushed with
\* it or before, and otherwise only waiting logs, whatever the interleaving of the
\* readers with the flush and for any numbers of workers, envelopes and clients.
THEOREM TotalBelongsToSnapshot == Spec => []TotalMatchesSnapshot
<1>1. TotalInv => TotalMatchesSnapshot
  BY DEF TotalInv
<1>2. QED
  BY <1>1, InitPlace, NextPlace, InitTotal, NextTotal, PTL DEF Spec
=============================================================================

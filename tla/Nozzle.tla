-------------------------------- MODULE Nozzle --------------------------------
(***************************************************************************)
(* The pipeline of internal/nozzle: the goroutine that copies the firehose *)
(* stream into the messages channel, the workers that turn envelopes into  *)
(* metric packages or log messages, the two readers that collect these     *)
(* into metricsMap and logsBuffer under mapLock, and the main goroutine,   *)
(* which flushes both at every tick and stops everything on Stop().        *)
(*                                                                         *)
(* An envelope is a number, its position in the firehose stream, and keeps *)
(* that name through the pipeline: the package or the log message made     *)
(* from it, and its part of metricsMap or logsBuffer, are the same number. *)
(* A region that holds mapLock never blocks, so it is a single action.     *)
(***************************************************************************)
EXTENDS Naturals, Sequences, FiniteSets, Functions

CONSTANTS
    Workers,                \* one model value per goroutine running work()
    NumEnvelopes,           \* bound: how many envelopes the stream delivers
    Kind,                   \* what each envelope holds, see Kinds
    MaxBatch,               \* bound: longest slice one es() call returns
    MessagesCap,            \* capacity of messages (10000 in the code)
    MetricsCap,             \* capacity of processedMetrics (1000)
    LogsCap,                \* capacity of processedLogs (1000)
    NumClients,             \* length of ddClients
    EnableApplicationLogs,  \* config.EnableApplicationLogs
    LogIntakeConfigured     \* a log intake URL or endpoint is configured

MetricsReader == "readProcessedMetrics"
LogsReader == "readProcessedLogs"
Readers == {MetricsReader} \cup
           (IF EnableApplicationLogs THEN {LogsReader} ELSE {})
Goroutines == Workers \cup Readers

Envelope == 1..NumEnvelopes
NoEnvelope == 0

\* "filtered": another deployment; "infra": a counter or gauge; "alert": the
\* counter "dropped" of loggregator.rlp, egress, with a positive delta;
\* "container": a container metric; "log"; "other": a timer or an event.
Kinds == {"filtered", "infra", "alert", "container", "log", "other"}

ASSUME WorkersAssumption ==
    IsFiniteSet(Workers) /\ Workers \cap {MetricsReader, LogsReader} = {}
ASSUME SizesAssumption ==
    /\ NumEnvelopes \in Nat
    /\ {MaxBatch, MessagesCap, MetricsCap, LogsCap, NumClients} \subseteq Nat \ {0}
ASSUME KindAssumption == Kind \in [Envelope -> Kinds]
ASSUME ConfigAssumption == {EnableApplicationLogs, LogIntakeConfigured} \subseteq BOOLEAN

VARIABLES
    received,               \* envelopes the stream has returned so far
    batch,                  \* rest of the slice es() returned last
    streamOpen,             \* the stream's context is not cancelled
    messages,
    processedMetrics,
    processedLogs,
    pc,                     \* where each worker and reader goroutine is
    hand,                   \* the envelope, package or log message it holds
    metricsMap,
    logsBuffer,
    totalMessagesReceived,
    slowConsumerAlert,
    main,                   \* where the main goroutine is
    posting,                \* its copy of metricsMap or logsBuffer
    postedTotal,            \* its copy of totalMessagesReceived
    client,                 \* its index into ddClients
    alertSeen,              \* value of slowConsumerAlert last sent to a client
    stop,                   \* "no", "requested" by a caller of Stop, "received"
    tokens,                 \* stop messages taken from workersStopper
    timedOut,
    tickedOnce,             \* the channel tickedOnce is closed
    submitted,              \* envelopes whose data reached PostMetrics or PostLogs
    discarded               \* envelopes a worker dropped

stream == <<received, batch, streamOpen>>
channels == <<messages, processedMetrics, processedLogs>>
goroutines == <<pc, hand>>
buffers == <<metricsMap, logsBuffer, totalMessagesReceived>>
pipeline == <<stream, channels, goroutines, buffers, discarded>>
flush == <<posting, postedTotal, client, alertSeen, submitted>>
shutdown == <<stop, tokens, timedOut>>
mainVars == <<main, flush, shutdown, tickedOnce>>
vars == <<pipeline, slowConsumerAlert, mainVars>>

\* A send on a buffered channel of the given capacity does not block.
HasRoomOffByOne(channel, cap) == Len(channel) <= cap   \* mutant
HasRoomTooEarly(channel, cap) == Len(channel) < cap - 1   \* mutant
HasRoom(channel, cap) == Len(channel) < cap

\* The stop messages stopWorkers wants to hand over: one per worker, one for
\* the metrics reader, one for the logs reader if a log intake is configured.
NumTokensNoReader == Cardinality(Workers) + (IF LogIntakeConfigured THEN 1 ELSE 0)   \* mutant
NumTokensTwoReaders == Cardinality(Workers) + 2 + (IF LogIntakeConfigured THEN 1 ELSE 0)   \* mutant
NumTokens == Cardinality(Workers) + 1 + (IF LogIntakeConfigured THEN 1 ELSE 0)

Init ==
    /\ received = 0 /\ batch = <<>> /\ streamOpen = TRUE
    /\ messages = <<>> /\ processedMetrics = <<>> /\ processedLogs = <<>>
    /\ pc = [g \in Goroutines |-> "select"]
    /\ hand = [g \in Goroutines |-> NoEnvelope]
    /\ metricsMap = {} /\ logsBuffer = {} /\ totalMessagesReceived = 0
    /\ slowConsumerAlert = 0
    /\ main = "run" /\ posting = {} /\ postedTotal = 0 /\ client = 1
    /\ alertSeen = [c \in 1..NumClients |-> 0]
    /\ stop = "no" /\ tokens = 0 /\ timedOut = FALSE /\ tickedOnce = FALSE
    /\ submitted = {} /\ discarded = {}

-----------------------------------------------------------------------------
(* The goroutine of startFirehoseConsumer.                                 *)

\* es() returns the next envelopes of the stream; once the context is
\* cancelled it returns nil, and the loop spins.
Receive ==
    /\ batch = <<>> /\ streamOpen
    /\ \E n \in 1..MaxBatch :
          /\ received + n <= NumEnvelopes
          /\ batch' = [i \in 1..n |-> received + i]
          /\ received' = received + n
    /\ UNCHANGED <<streamOpen, channels, goroutines, buffers, discarded,
                   slowConsumerAlert, mainVars>>

\* messages <- e
Deliver ==
    /\ batch # <<>> /\ HasRoom(messages, MessagesCap)
    /\ messages' = Append(messages, Head(batch))
    /\ batch' = Tail(batch)
    /\ UNCHANGED <<received, streamOpen, processedMetrics, processedLogs,
                   goroutines, buffers, discarded, slowConsumerAlert, mainVars>>

-----------------------------------------------------------------------------
(* work()                                                                  *)

Goto(g, label, e) ==
    /\ pc' = [pc EXCEPT ![g] = label]
    /\ hand' = [hand EXCEPT ![g] = e]

\* case envelope := <-d.messages
Take(w) ==
    /\ pc[w] = "select" /\ messages # <<>>
    /\ Goto(w, "work", Head(messages))
    /\ messages' = Tail(messages)
    /\ UNCHANGED <<stream, processedMetrics, processedLogs, buffers, discarded,
                   slowConsumerAlert, mainVars>>

Discard(w) ==
    /\ Goto(w, "select", NoEnvelope)
    /\ discarded' = discarded \cup {hand[w]}
    /\ UNCHANGED slowConsumerAlert

\* !d.keepMessage(envelope)
Filter(w) ==
    /\ Kind[hand[w]] = "filtered"
    /\ Discard(w)

\* ProcessLog: a log message, or nothing when the app turned its logs off.
ProcessLog(w) ==
    /\ Kind[hand[w]] = "log" /\ EnableApplicationLogs
    /\ \/ Discard(w)
       \/ Goto(w, "sendLog", hand[w]) /\ UNCHANGED <<discarded, slowConsumerAlert>>

\* handleMessage and then ProcessMetric: counters and gauges give a package;
\* a container metric gives one when the app cache is ready and knows the app;
\* anything else is not a metric.
ProcessMetric(w) ==
    LET kind == Kind[hand[w]] IN
    /\ kind # "filtered"
    /\ ~ (kind = "log" /\ EnableApplicationLogs)
    /\ \/ /\ kind \in {"infra", "alert", "container"}
          /\ Goto(w, "sendMetrics", hand[w])
          /\ slowConsumerAlert' = IF kind = "alert" THEN 1 ELSE slowConsumerAlert
          /\ UNCHANGED discarded
       \/ /\ kind \in {"container", "log", "other"}
          /\ Discard(w)

Work(w) ==
    /\ pc[w] = "work"
    /\ Filter(w) \/ ProcessLog(w) \/ ProcessMetric(w)
    /\ UNCHANGED <<stream, channels, buffers, mainVars>>

\* p.processedMetrics <- metricsPackages
SendMetrics(w) ==
    /\ pc[w] = "sendMetrics" /\ HasRoom(processedMetrics, MetricsCap)
    /\ processedMetrics' = Append(processedMetrics, hand[w])
    /\ Goto(w, "select", NoEnvelope)
    /\ UNCHANGED <<stream, messages, processedLogs, buffers, discarded,
                   slowConsumerAlert, mainVars>>

\* p.processedLogs <- logsMessage
SendLog(w) ==
    /\ pc[w] = "sendLog" /\ HasRoom(processedLogs, LogsCap)
    /\ processedLogs' = Append(processedLogs, hand[w])
    /\ Goto(w, "select", NoEnvelope)
    /\ UNCHANGED <<stream, messages, processedMetrics, buffers, discarded,
                   slowConsumerAlert, mainVars>>

-----------------------------------------------------------------------------
(* readProcessedMetrics() and readProcessedLogs()                          *)

ReceiveMetrics ==
    /\ pc[MetricsReader] = "select" /\ processedMetrics # <<>>
    /\ Goto(MetricsReader, "store", Head(processedMetrics))
    /\ processedMetrics' = Tail(processedMetrics)
    /\ UNCHANGED <<stream, messages, processedLogs, buffers, discarded,
                   slowConsumerAlert, mainVars>>

\* under mapLock
StoreMetrics ==
    /\ pc[MetricsReader] = "store"
    /\ metricsMap' = metricsMap \cup {hand[MetricsReader]}
    /\ totalMessagesReceived' = totalMessagesReceived + 1
    /\ Goto(MetricsReader, "select", NoEnvelope)
    /\ UNCHANGED <<stream, channels, logsBuffer, discarded, slowConsumerAlert,
                   mainVars>>

ReceiveLog ==
    /\ EnableApplicationLogs
    /\ pc[LogsReader] = "select" /\ processedLogs # <<>>
    /\ Goto(LogsReader, "store", Head(processedLogs))
    /\ processedLogs' = Tail(processedLogs)
    /\ UNCHANGED <<stream, messages, processedMetrics, buffers, discarded,
                   slowConsumerAlert, mainVars>>

\* under mapLock
StoreLog ==
    /\ EnableApplicationLogs
    /\ pc[LogsReader] = "store"
    /\ logsBuffer' = logsBuffer \cup {hand[LogsReader]}
    /\ totalMessagesReceived' = totalMessagesReceived + 1
    /\ Goto(LogsReader, "select", NoEnvelope)
    /\ UNCHANGED <<stream, channels, metricsMap, discarded, slowConsumerAlert,
                   mainVars>>

-----------------------------------------------------------------------------
(* The main goroutine: run(), postMetrics(), postLogs() and the end of     *)
(* Start().                                                                *)

\* case <-ticker.C
Tick ==
    /\ main = "run"
    /\ main' = "flushMetrics"
    /\ UNCHANGED <<pipeline, slowConsumerAlert, flush, shutdown, tickedOnce>>

KeepMap == UNCHANGED metricsMap   \* mutant
ResetMap == metricsMap' = {}

\* under mapLock: copy metricsMap and the total, reset the map
FlushMetrics ==
    /\ main = "flushMetrics"
    /\ posting' = metricsMap
    /\ postedTotal' = totalMessagesReceived
    /\ ResetMap
    /\ client' = 1
    /\ main' = "postMetrics"
    /\ UNCHANGED <<stream, channels, goroutines, logsBuffer, totalMessagesReceived,
                   discarded, slowConsumerAlert, alertSeen, submitted, shutdown,
                   tickedOnce>>

PostToClientCurrentTotal ==   \* mutant: the total is read outside the lock
    /\ main = "postMetrics" /\ client <= NumClients
    /\ alertSeen' = [alertSeen EXCEPT ![client] = slowConsumerAlert]
    /\ postedTotal' = totalMessagesReceived
    /\ client' = client + 1
    /\ UNCHANGED <<pipeline, slowConsumerAlert, main, posting, submitted, shutdown,
                   tickedOnce>>

PostToClientResetAlert ==   \* mutant: the alert is reset in the loop
    /\ main = "postMetrics" /\ client <= NumClients
    /\ alertSeen' = [alertSeen EXCEPT ![client] = slowConsumerAlert]
    /\ slowConsumerAlert' = 0
    /\ client' = client + 1
    /\ UNCHANGED <<pipeline, main, posting, postedTotal, submitted, shutdown, tickedOnce>>

\* One iteration of the loop over ddClients: load the alert into the client's
\* internal metrics, and post.
PostToClient ==
    /\ main = "postMetrics" /\ client <= NumClients
    /\ alertSeen' = [alertSeen EXCEPT ![client] = slowConsumerAlert]
    /\ client' = client + 1
    /\ UNCHANGED <<pipeline, slowConsumerAlert, main, posting, postedTotal,
                   submitted, shutdown, tickedOnce>>

\* The last client answered; ResetSlowConsumerError ends postMetrics.  The
\* final flush of Start posts logs only when they are enabled.
FinishMetrics ==
    /\ main = "postMetrics" /\ client > NumClients
    /\ submitted' = submitted \cup posting
    /\ posting' = {}
    /\ slowConsumerAlert' = 0
    /\ main' = IF stop = "received" /\ ~EnableApplicationLogs THEN "done" ELSE "flushLogs"
    /\ UNCHANGED <<pipeline, postedTotal, client, alertSeen, shutdown, tickedOnce>>

\* under mapLock: copy and reset logsBuffer
FlushLogs ==
    /\ main = "flushLogs"
    /\ posting' = logsBuffer
    /\ logsBuffer' = {}
    /\ main' = "postLogs"
    /\ UNCHANGED <<stream, channels, goroutines, metricsMap, totalMessagesReceived,
                   discarded, slowConsumerAlert, postedTotal, client, alertSeen,
                   submitted, shutdown, tickedOnce>>

\* Every client got the logs; ResetSlowConsumerError ends postLogs, and the
\* first tick closes tickedOnce.
FinishLogs ==
    /\ main = "postLogs"
    /\ submitted' = submitted \cup posting
    /\ posting' = {}
    /\ slowConsumerAlert' = 0
    /\ IF stop = "received"
         THEN main' = "done" /\ UNCHANGED tickedOnce
         ELSE main' = "run" /\ tickedOnce' = TRUE
    /\ UNCHANGED <<pipeline, postedTotal, client, alertSeen, shutdown>>

\* Another goroutine calls Stop() and blocks on the unbuffered stopper.
RequestStop ==
    /\ stop = "no"
    /\ stop' = "requested"
    /\ UNCHANGED <<pipeline, slowConsumerAlert, main, flush, tokens, timedOut,
                   tickedOnce>>

\* case <-n.stopper
ReceiveStop ==
    /\ main = "run" /\ stop = "requested"
    /\ stop' = "received"
    /\ main' = "closeStream"
    /\ UNCHANGED <<pipeline, slowConsumerAlert, flush, tokens, timedOut,
                   tickedOnce>>

\* n.loggregatorClient.Stop()
CloseStream ==
    /\ main = "closeStream"
    /\ streamOpen' = FALSE
    /\ main' = "stopWorkers"
    /\ UNCHANGED <<received, batch, channels, goroutines, buffers, discarded,
                   slowConsumerAlert, flush, shutdown, tickedOnce>>

\* d.workersStopper <- true, taken by whichever goroutine is at its select.
StopGoroutine(g) ==
    /\ main = "stopWorkers" /\ tokens < NumTokens
    /\ pc[g] = "select"
    /\ Goto(g, "stopped", NoEnvelope)
    /\ tokens' = tokens + 1
    /\ UNCHANGED <<stream, channels, buffers, discarded, slowConsumerAlert, main,
                   flush, stop, timedOut, tickedOnce>>

StopTimeoutNever == FALSE   \* mutant: a plain blocking send

\* case <-time.After(WorkerTimeoutSeconds): give up on the remaining ones
StopTimeout ==
    /\ main = "stopWorkers" /\ tokens < NumTokens
    /\ timedOut' = TRUE
    /\ main' = "flushMetrics"
    /\ UNCHANGED <<pipeline, slowConsumerAlert, flush, stop, tokens, tickedOnce>>

\* The loop over numWorkers is over; the final flush follows.
WorkersStopped ==
    /\ main = "stopWorkers" /\ tokens = NumTokens
    /\ main' = "flushMetrics"
    /\ UNCHANGED <<pipeline, slowConsumerAlert, flush, shutdown, tickedOnce>>

\* Start() has returned; the process normally exits.
Terminated == main = "done" /\ UNCHANGED vars

WorkerStep(w) == Take(w) \/ Work(w) \/ SendMetrics(w) \/ SendLog(w)
ReaderStep == ReceiveMetrics \/ StoreMetrics \/ ReceiveLog \/ StoreLog
StopStep == (\E g \in Goroutines : StopGoroutine(g)) \/ StopTimeout \/ WorkersStopped
PostStep == FlushMetrics \/ PostToClient \/ FinishMetrics \/ FlushLogs \/ FinishLogs

Next ==
    \/ Receive \/ Deliver
    \/ \E w \in Workers : WorkerStep(w)
    \/ ReaderStep
    \/ Tick \/ PostStep
    \/ RequestStop \/ ReceiveStop \/ CloseStream \/ StopStep
    \/ Terminated

Spec == Init /\ [][Next]_vars

\* The Go scheduler runs every goroutine that can run, a select picks among its
\* ready cases at random, the ticker keeps ticking and the timeouts fire.  Nothing
\* forces anybody to call Stop().
Fairness ==
    /\ WF_vars(Receive) /\ WF_vars(Deliver)
    /\ \A w \in Workers : WF_vars(WorkerStep(w))
    /\ WF_vars(ReceiveMetrics \/ StoreMetrics)
    /\ WF_vars(ReceiveLog \/ StoreLog)
    /\ WF_vars(Tick \/ PostStep) /\ SF_vars(ReceiveStop)
    /\ WF_vars(CloseStream \/ StopStep)

FairSpec == Spec /\ Fairness

-----------------------------------------------------------------------------
(* Properties                                                              *)

TypeOK ==
    /\ received \in 0..NumEnvelopes
    /\ batch \in Seq(Envelope) /\ streamOpen \in BOOLEAN
    /\ messages \in Seq(Envelope) /\ Len(messages) <= MessagesCap
    /\ processedMetrics \in Seq(Envelope) /\ Len(processedMetrics) <= MetricsCap
    /\ processedLogs \in Seq(Envelope) /\ Len(processedLogs) <= LogsCap
    /\ pc \in [Goroutines -> {"select", "work", "sendMetrics", "sendLog", "store",
                              "stopped"}]
    /\ hand \in [Goroutines -> Envelope \cup {NoEnvelope}]
    /\ metricsMap \subseteq Envelope /\ logsBuffer \subseteq Envelope
    /\ posting \subseteq Envelope /\ submitted \subseteq Envelope
    /\ discarded \subseteq Envelope
    /\ totalMessagesReceived \in Nat /\ postedTotal \in Nat
    /\ slowConsumerAlert \in {0, 1}
    /\ main \in {"run", "flushMetrics", "postMetrics", "flushLogs", "postLogs",
                 "closeStream", "stopWorkers", "done"}
    /\ client \in 1..(NumClients + 1)
    /\ alertSeen \in [1..NumClients -> {0, 1}]
    /\ stop \in {"no", "requested", "received"}
    /\ tokens \in 0..NumTokens
    /\ timedOut \in BOOLEAN /\ tickedOnce \in BOOLEAN

\* A goroutine holds something exactly while it is not waiting in its select.
HandOK == \A g \in Goroutines :
    hand[g] = NoEnvelope <=> pc[g] \in {"select", "stopped"}

One(P) == IF P THEN 1 ELSE 0

Held(e) == \E g \in Goroutines : hand[g] = e

\* In how many places of the pipeline envelope e is.
Places(e) ==
      One(e > received) + One(e \in Range(batch)) + One(e \in Range(messages))
    + One(Held(e))
    + One(e \in Range(processedMetrics)) + One(e \in Range(processedLogs))
    + One(e \in metricsMap) + One(e \in logsBuffer) + One(e \in posting)
    + One(e \in submitted) + One(e \in discarded)

\* Every envelope is in exactly one place of the pipeline: whatever the
\* interleaving of the stream, the workers, the readers, the flushes and the
\* shutdown, no envelope is lost, duplicated or handed over twice, and no
\* channel or goroutine holds two copies of it.
OnePlace ==
    /\ \A e \in Envelope : Places(e) = 1
    /\ \A c \in {batch, messages, processedMetrics, processedLogs} : IsInjective(c)
    /\ \A g, h \in Goroutines : hand[g] = hand[h] /\ hand[g] # NoEnvelope => g = h

\* The pipeline keeps the promise of Delivery: nothing is submitted twice, and
\* only envelopes keepMessage, the parsers or an app's log setting reject are
\* thrown away.
Promise == INSTANCE Delivery WITH
    Item <- Envelope,
    Droppable <- {e \in Envelope : Kind[e] \notin {"infra", "alert"}}
DeliveryPromise == Promise!Spec

\* The totalMessagesReceived that postMetrics publishes belongs to the map it
\* publishes: it counts every message flushed so far, and otherwise only logs
\* that still wait in logsBuffer.
TotalMatchesSnapshot ==
    main = "postMetrics" =>
        /\ Cardinality(submitted \cup posting) <= postedTotal
        /\ postedTotal <= Cardinality(submitted \cup posting \cup logsBuffer)

\* stopWorkers: if no stop message timed out, then no worker and no reader runs
\* any more when the final flush begins.
StoppedBeforeFinalFlush ==
    stop = "received" /\ main \notin {"closeStream", "stopWorkers"} /\ ~timedOut
        => \A g \in Goroutines : pc[g] = "stopped"

\* stopWorkers gives up on a stop message only when some goroutine has not
\* taken one ("No worker responded in time to get the stop message").
TimeoutMeansRunning == timedOut => \E g \in Goroutines : pc[g] # "stopped"

\* Start submits the metrics and logs left in the cache before it returns: when
\* the goroutines all stopped, nothing is left in metricsMap or logsBuffer.
NothingLeftInCache ==
    main = "done" /\ ~timedOut => metricsMap = {} /\ logsBuffer = {}

\* The slow-consumer alert is unset only after it was sent to a client.
AlertUnsetAfterSending ==
    [][slowConsumerAlert = 1 /\ slowConsumerAlert' = 0
          => \E c \in 1..NumClients : alertSeen[c] = 1]_vars

\* An alert raised while the main goroutine waits in its select is sent to every
\* client, the first as well as the last.
IdleAlertReachesEveryClient ==
    \A c \in 1..NumClients :
        main = "run" /\ slowConsumerAlert = 1 ~> alertSeen[c] = 1

\* While nobody stops the nozzle, the data of every counter and gauge the stream
\* returned is submitted in the end, however full the channels are.
MetricsReachDatadog ==
    \A e \in Envelope :
        Kind[e] \in {"infra", "alert"} /\ e <= received
            ~> e \in submitted \/ stop # "no"

\* A call of Stop() makes Start return, even when workers hang on full channels
\* that nobody reads any more.
ShutdownTerminates == stop = "requested" ~> main = "done"
=============================================================================

--------------------------- MODULE LifecycleProofs ---------------------------
(***************************************************************************)
(* Proofs about Lifecycle and OrgCollector for any configurations, orgs,   *)
(* quotas, number of collections, capacity of the channel and number of    *)
(* retries.                                                                *)
(***************************************************************************)
EXTENDS Lifecycle, SequenceTheorems, TLAPS

-----------------------------------------------------------------------------
(* Definitions                                                             *)

Package == Pushes \X SUBSET Orgs

\* The org collector: its types, and a loop that waits for its jitter has a collection
\* left to start.
CollectorInv ==
    /\ OrgTypeOK
    /\ processedMetrics \in Seq(Package)
    /\ run = "jitter" => started < NumPushes

\* Start creates the collector in its last call of ClientMade and goes through the
\* shutdown in order: it asks the collector to stop only in "stopCollector", and goes on
\* from there when the collector has.
StopInv ==
    /\ main \in Startup \cup {"run", "close", "stopWorkers"} => stop = "no"
    /\ stop = "received" <=> run = "stopped"
    /\ main = "stopCollector" => collector /\ stop # "received"
    /\ main \in {"flush", "returned"} => collector = (stop = "received")
    /\ MakingClient => ~collector
    /\ ~collector => run = "first"

\* A request has a token, good or expired, unless access control is disabled.
TokenInv == conn # "closed" => config.DisableAccessControl \/ token # ""

StartTypes ==
    /\ config \in Configs /\ attempts \in 0..VersionRetries
    /\ {tickDue, collector} \subseteq BOOLEAN
    /\ main \in Startup \cup {"run", "close", "stopWorkers", "stopCollector", "flush",
                              "returned", "failed", "exited"}

StreamTypes ==
    /\ conn \in {"closed", "sent", "refused", "resent", "open"}
    /\ token \in {"", "valid", "expired"}

LifecycleInv == CollectorInv /\ StartTypes /\ StreamTypes /\ StopInv /\ TokenInv

-----------------------------------------------------------------------------
(* The org collector                                                       *)

\* What OrgTypeOK says of the channel, from what the channel is.
LEMMA PackagesTyped ==
    ASSUME NEW s \in Seq(Package), NEW k \in DOMAIN s
    PROVE  s[k][1] \in Pushes /\ s[k][2] \subseteq Orgs
<1>2. QED
  BY DEF Package

LEMMA OrgInitInv == OrgInit => CollectorInv
<1> SUFFICES ASSUME OrgInit PROVE CollectorInv
  OBVIOUS
<1>1. processedMetrics = <<>> /\ run = "first"
  BY DEF OrgInit
<1>2. processedMetrics \in Seq(Package) /\ Len(processedMetrics) = 0 /\ DOMAIN processedMetrics = {}
  BY <1>1
<1>3. OrgTypeOK
  <2>1. NumPushes \in Nat /\ MetricsCap \in Nat
    BY OrgCollectorAssumption
  <2>2. started \in 0..NumPushes /\ Len(processedMetrics) <= MetricsCap
    BY <2>1 DEF OrgInit
  <2>4. QED
    BY <1>2, <2>2 DEF OrgInit, OrgTypeOK
<1>4. QED
  BY <1>1, <1>3 DEF CollectorInv

\* The steps that leave the channel, the answers and what was stored alone.
LEMMA LoopKeepsInv ==
    ASSUME CollectorInv, RunStep \/ ReceiveStop \/ RequestStop
    PROVE  CollectorInv'
<1>1. /\ UNCHANGED <<requests, processedMetrics, readerRunning, stored>>
      /\ run' \in {"select", "jitter", "stopped"} \cup {run}
      /\ stop' \in {"requested", "received"} \cup {stop}
  BY DEF RunStep, FirstPush, Tick, PushAgain, ReceiveStop, RequestStop
<1>2. /\ started' \in 0..NumPushes /\ push' \in [Pushes -> {"none", "fetch", "send", "done"}]
      /\ run' = "jitter" => started' < NumPushes
  <2>1. CASE UNCHANGED <<started, push>> /\ (run' = "jitter" => started < NumPushes)
    BY <2>1 DEF CollectorInv, OrgTypeOK
  <2>2. CASE StartPush /\ started < NumPushes /\ run' = "select"
    BY <2>2, OrgCollectorAssumption DEF CollectorInv, OrgTypeOK, StartPush, Pushes
  <2>3. QED
    BY <2>1, <2>2 DEF RunStep, FirstPush, Tick, PushAgain, ReceiveStop, RequestStop,
       CollectorInv
<1>3. QED
  BY <1>1, <1>2 DEF CollectorInv, OrgTypeOK, requests

LEMMA PushKeepsInv ==
    ASSUME CollectorInv, NEW p \in Pushes, PushStep(p)
    PROVE  CollectorInv'
<1>1. CASE FetchOrgs(p)
  <2>1. PICK orgs \in OrgAnswers : allOrgs' = [allOrgs EXCEPT ![p] = orgs]
    BY <1>1 DEF FetchOrgs
  <2>2. orgs \in SUBSET Orgs
    BY OrgCollectorAssumption
  <2>3. allOrgs' \in [Pushes -> SUBSET Orgs] /\ answered' \in [Pushes -> SUBSET {"orgs", "quotas"}]
    BY <1>1, <2>1, <2>2 DEF FetchOrgs, CollectorInv, OrgTypeOK
  <2>4. QED
    BY <1>1, <2>3 DEF FetchOrgs, CollectorInv, OrgTypeOK
<1>2. CASE FetchQuotas(p)
  <2>1. PICK quotas \in QuotaAnswers : allQuotas' = [allQuotas EXCEPT ![p] = quotas]
    BY <1>2 DEF FetchQuotas
  <2>2. quotas \in SUBSET Quotas
    BY OrgCollectorAssumption
  <2>3. allQuotas' \in [Pushes -> SUBSET Quotas] /\ answered' \in [Pushes -> SUBSET {"orgs", "quotas"}]
    BY <1>2, <2>1, <2>2 DEF FetchQuotas, CollectorInv, OrgTypeOK
  <2>4. QED
    BY <1>2, <2>3 DEF FetchQuotas, CollectorInv, OrgTypeOK
<1>3. CASE Join(p)
  <2>1. WithQuota(p) \in SUBSET Orgs
    BY DEF WithQuota, CollectorInv, OrgTypeOK
  <2>2. metricsPackages' \in [Pushes -> SUBSET Orgs]
    BY <1>3, <2>1 DEF Join, CollectorInv, OrgTypeOK
  <2>3. QED
    BY <1>3, <2>2 DEF Join, CollectorInv, OrgTypeOK
<1>4. CASE Send(p)
  <2>1. /\ processedMetrics \in Seq(Package) /\ Len(processedMetrics) < MetricsCap
        /\ processedMetrics' = Append(processedMetrics, <<p, metricsPackages[p]>>)
        /\ <<p, metricsPackages[p]>> \in Package
    BY <1>4 DEF Send, HasRoom, CollectorInv, OrgTypeOK, Package
  <2>2. processedMetrics' \in Seq(Package) /\ Len(processedMetrics') <= MetricsCap
    BY <2>1, OrgCollectorAssumption
  <2>4. QED
    BY <1>4, <2>2 DEF Send, CollectorInv, OrgTypeOK
<1>5. QED
  BY <1>1, <1>2, <1>3, <1>4 DEF PushStep

LEMMA StoreKeepsInv ==
    ASSUME CollectorInv, Store
    PROVE  CollectorInv'
<1>1. processedMetrics \in Seq(Package) /\ processedMetrics # <<>> /\ Len(processedMetrics) <= MetricsCap
  BY DEF Store, CollectorInv, OrgTypeOK
<1>2. /\ Head(processedMetrics) \in Package /\ Tail(processedMetrics) \in Seq(Package)
      /\ Len(Tail(processedMetrics)) <= MetricsCap
  BY <1>1, OrgCollectorAssumption
<1>4. processedMetrics' \in Seq(Package) /\ Len(processedMetrics') <= MetricsCap
  BY <1>2 DEF Store
<1>5. QED
  BY <1>4 DEF Store, CollectorInv, OrgTypeOK, requests

\* The nozzle starts and stops the reader.
LEMMA ReaderKeepsInv ==
    ASSUME CollectorInv, readerRunning' \in BOOLEAN,
           UNCHANGED <<run, stop, started, push, requests, processedMetrics, stored>>
    PROVE  CollectorInv'
BY DEF CollectorInv, OrgTypeOK, requests

-----------------------------------------------------------------------------
(* The nozzle                                                              *)

LEMMA LifecycleInitInv == LifecycleInit => LifecycleInv
<1> SUFFICES ASSUME LifecycleInit PROVE LifecycleInv
  OBVIOUS
<1>1. CollectorInv
  BY OrgInitInv DEF LifecycleInit
<1>2. StartTypes
  <2>1. 0 \in 0..VersionRetries
    BY LifecycleAssumption
  <2>2. QED
    BY <2>1 DEF LifecycleInit, StartTypes, Startup
<1>3. StreamTypes /\ StopInv /\ TokenInv
  BY DEF LifecycleInit, OrgInit, StreamTypes, StopInv, TokenInv
<1>4. QED
  BY <1>1, <1>2, <1>3 DEF LifecycleInv

LEMMA OrgKept ==
    ASSUME CollectorInv, UNCHANGED orgVars
    PROVE  CollectorInv' /\ run' = run /\ stop' = stop
<1>1. UNCHANGED <<run, stop, started, push, requests, processedMetrics, readerRunning, stored>>
  BY DEF orgVars
<1>2. readerRunning' \in BOOLEAN
  BY <1>1 DEF CollectorInv, OrgTypeOK
<1>3. QED
  BY <1>1, <1>2, ReaderKeepsInv

LEMMA StartupKeepsInv ==
    ASSUME LifecycleInv, StartupStep
    PROVE  LifecycleInv'
<1>1. ASSUME MakingClient, NEW ok \in BOOLEAN, ClientMade(ok)
      PROVE  LifecycleInv'
  <2>1. CollectorInv' /\ run' = run /\ stop' = stop
    BY <1>1, OrgKept DEF LifecycleInv, ClientMade
  <2>2. /\ attempts' = 0 /\ UNCHANGED <<config, tickDue, conn, token>>
        /\ \/ main = "nozzleClient" /\ main' = "collectorClient" /\ collector' = collector
           \/ main = "collectorClient" /\ main' = "consumer" /\ collector' = ok
    BY <1>1 DEF ClientMade, MakingClient, streamVars
  <2>3. StartTypes'
    BY <2>2, LifecycleAssumption DEF LifecycleInv, StartTypes, Startup
  <2>4. StreamTypes' /\ TokenInv'
    BY <2>2 DEF LifecycleInv, StreamTypes, TokenInv
  <2>5. StopInv'
    BY <2>1, <2>2 DEF LifecycleInv, StopInv, Startup, MakingClient
  <2>6. QED
    BY <2>1, <2>3, <2>4, <2>5 DEF LifecycleInv
<1>2. CASE GetVersionFails \/ VersionTick \/ StartFirehoseConsumer
  <2>1. CollectorInv' /\ run' = run /\ stop' = stop /\ UNCHANGED streamVars
    BY <1>2, OrgKept DEF LifecycleInv, GetVersionFails, VersionTick, StartFirehoseConsumer
  <2>2. UNCHANGED <<config, collector>>
    BY <1>2 DEF GetVersionFails, VersionTick, StartFirehoseConsumer, Exit, startVars
  <2>3. main' = main \/ (main \in Startup /\ main' \in {"workers", "failed", "exited"})
    BY <1>2 DEF GetVersionFails, VersionTick, StartFirehoseConsumer, CallingVersion,
       MakingClient, Exit, Startup
  <2>4. attempts' \in 0..VersionRetries /\ tickDue' \in BOOLEAN
    <3>1. VersionRetries \in Nat /\ attempts \in 0..VersionRetries /\ tickDue \in BOOLEAN
      BY LifecycleAssumption DEF LifecycleInv, StartTypes
    <3>2. CASE GetVersionFails
      <4>1. CASE attempts = VersionRetries
        BY <3>1, <3>2, <4>1 DEF GetVersionFails, Exit, startVars
      <4>2. CASE attempts # VersionRetries
        <5>1. attempts' = attempts + 1 /\ tickDue' = TRUE
          BY <3>2, <4>2 DEF GetVersionFails, CountAttempt
        <5>2. QED
          BY <3>1, <4>2, <5>1
      <4>3. QED
        BY <4>1, <4>2
    <3>3. CASE VersionTick \/ StartFirehoseConsumer
      BY <3>1, <3>3 DEF VersionTick, StartFirehoseConsumer, startVars
    <3>4. QED
      BY <1>2, <3>2, <3>3
  <2>5. StartTypes'
    BY <2>2, <2>3, <2>4 DEF LifecycleInv, StartTypes, Startup
  <2>6. StopInv' /\ TokenInv' /\ StreamTypes'
    BY <2>1, <2>2, <2>3 DEF LifecycleInv, StopInv, TokenInv, StreamTypes, streamVars,
       MakingClient
  <2>7. QED
    BY <2>1, <2>5, <2>6 DEF LifecycleInv
<1>3. CASE StartWorkers
  <2>1. CollectorInv' /\ run' = run /\ stop' = stop
    BY <1>3, ReaderKeepsInv DEF LifecycleInv, StartWorkers
  <2>2. StartTypes' /\ StreamTypes' /\ StopInv' /\ TokenInv'
    BY <1>3 DEF LifecycleInv, StartWorkers, StartTypes, StreamTypes, StopInv, TokenInv,
       startVars, streamVars, MakingClient
  <2>3. QED
    BY <2>1, <2>2 DEF LifecycleInv
<1>4. QED
  BY <1>1, <1>2, <1>3 DEF StartupStep, NewClient, NewDCAClientFails, GetVersionSucceeds,
     CallingVersion

LEMMA ShutdownKeepsInv ==
    ASSUME LifecycleInv, StopNozzle \/ ShutdownStep \/ CollectorStopped
    PROVE  LifecycleInv'
<1>1. UNCHANGED <<startVars, streamVars>>
  BY DEF StopNozzle, ShutdownStep, CloseStream, StopWorkers, StopCollector, FinalFlush,
     CollectorStopped, mainVars
<1>2. CollectorInv'
  BY OrgKept, LoopKeepsInv, ReaderKeepsInv DEF LifecycleInv, StopNozzle, ShutdownStep,
     CloseStream, StopWorkers, StopCollector, FinalFlush, CollectorStopped
<1>3. StartTypes' /\ StreamTypes' /\ TokenInv'
  <2>1. main' \in {main, "close", "stopWorkers", "stopCollector", "flush", "returned"}
    BY DEF StopNozzle, ShutdownStep, CloseStream, StopWorkers, StopCollector, FinalFlush,
       CollectorStopped, mainVars
  <2>2. QED
    BY <1>1, <2>1 DEF LifecycleInv, StartTypes, StreamTypes, TokenInv, startVars, streamVars
<1>4. StopInv'
  <2>1. CASE StopNozzle \/ CloseStream \/ StopWorkers \/ FinalFlush
    <3>1. run' = run /\ stop' = stop
      BY <2>1 DEF StopNozzle, CloseStream, StopWorkers, FinalFlush, orgVars
    <3>2. QED
      BY <2>1, <3>1 DEF LifecycleInv, StopInv, StartTypes, StopNozzle, CloseStream,
         StopWorkers, FinalFlush, startVars, Startup, MakingClient
  <2>2. CASE StopCollector
    BY <2>2 DEF LifecycleInv, StopInv, StopCollector, RequestStop, mainVars, startVars,
       Startup, MakingClient
  <2>3. CASE CollectorStopped
    BY <2>3 DEF LifecycleInv, StopInv, CollectorStopped, ReceiveStop, startVars, Startup,
       MakingClient
  <2>4. QED
    BY <2>1, <2>2, <2>3 DEF ShutdownStep
<1>5. QED
  BY <1>2, <1>3, <1>4 DEF LifecycleInv

LEMMA StreamKeepsInv ==
    ASSUME LifecycleInv, StreamStep
    PROVE  LifecycleInv'
<1>1. UNCHANGED orgVars
  BY DEF StreamStep, SendRequest, Answer, Accept, Refuse, NoAnswer, RefreshToken, BreakOff,
     ExpireToken
<1>2. CollectorInv' /\ run' = run /\ stop' = stop
  BY <1>1, OrgKept DEF LifecycleInv
<1>3. UNCHANGED startVars /\ main' \in {main, "exited"}
  BY DEF StreamStep, SendRequest, Answer, Accept, Refuse, NoAnswer, RefreshToken, Refresh,
     FetchAuthToken, GetAuthToken, Exit, BreakOff, ExpireToken, mainVars
<1>4. StartTypes' /\ StopInv'
  BY <1>2, <1>3 DEF LifecycleInv, StartTypes, StopInv, startVars, Startup, MakingClient
<1>5. StreamTypes' /\ TokenInv'
  BY <1>3 DEF LifecycleInv, StreamTypes, TokenInv, StreamStep, SendRequest, Answer, Accept,
     Refuse, NoAnswer, RefreshToken, Refresh, FetchAuthToken, GetAuthToken, BreakOff,
     ExpireToken, startVars, streamVars
<1>6. QED
  BY <1>2, <1>4, <1>5 DEF LifecycleInv

\* The collector runs beside the main goroutine, and only if it was started.
LEMMA CollectorKeepsInv ==
    ASSUME LifecycleInv, CollectorStep \/ (\E p \in Pushes : CollectionStep(p)) \/ StorePackage
    PROVE  LifecycleInv'
<1>1. Beside
  BY DEF CollectorStep, CollectionStep, StorePackage
<1>2. CollectorInv'
  BY LoopKeepsInv, PushKeepsInv, StoreKeepsInv DEF LifecycleInv, CollectorStep,
     CollectionStep, StorePackage
<1>3. StartTypes' /\ StreamTypes' /\ TokenInv'
  BY <1>1 DEF LifecycleInv, Beside, mainVars, startVars, streamVars, StartTypes,
     StreamTypes, TokenInv
<1>4. StopInv'
  <2>1. CASE run' = run /\ stop' = stop
    BY <1>1, <2>1 DEF LifecycleInv, Beside, mainVars, startVars, StopInv, MakingClient
  <2>2. CASE RunStep /\ collector
    BY <1>1, <2>2 DEF LifecycleInv, Beside, mainVars, startVars, StopInv, MakingClient,
       RunStep, FirstPush, Tick, PushAgain, LoopReady
  <2>3. QED
    BY <2>1, <2>2 DEF CollectorStep, CollectionStep, StorePackage, Collecting, PushStep,
       FetchOrgs, FetchQuotas, Join, Send, Store
<1>5. QED
  BY <1>2, <1>3, <1>4 DEF LifecycleInv

LEMMA LifecycleNextKeepsInv ==
    ASSUME LifecycleInv, [LifecycleNext]_lifecycleVars
    PROVE  LifecycleInv'
<1>1. CASE UNCHANGED lifecycleVars
  <2>1. CollectorInv' /\ run' = run /\ stop' = stop
    BY <1>1, OrgKept DEF LifecycleInv, lifecycleVars
  <2>2. QED
    BY <1>1, <2>1 DEF LifecycleInv, lifecycleVars, mainVars, startVars, streamVars,
       StartTypes, StreamTypes, StopInv, TokenInv, MakingClient
<1>2. QED
  BY <1>1, StartupKeepsInv, ShutdownKeepsInv, StreamKeepsInv, CollectorKeepsInv DEF
     LifecycleNext

LEMMA LifecycleInvAlways == LifecycleSpec => []LifecycleInv
BY LifecycleInitInv, LifecycleNextKeepsInv, PTL DEF LifecycleSpec

-----------------------------------------------------------------------------
(* Theorems                                                                *)

\* The variables of the org collector, of Start and of the stream keep their types; in
\* particular the channel of packages never holds more than its capacity, and
\* NewDCAClient never retries more often than it should.
THEOREM LifecycleTypes == LifecycleSpec => []LifecycleTypeOK
<1>1. LifecycleInv => LifecycleTypeOK
  BY DEF LifecycleInv, LifecycleTypeOK, CollectorInv, StartTypes, StreamTypes
<1>2. QED
  BY <1>1, LifecycleInvAlways, PTL

\* Start, stop: once it flushes for the last time, the org collector it started has
\* taken the stop message and its loop is over, whenever the message was sent.
CollectorStoppedFirst ==
    main \in {"flush", "returned"} => IF collector THEN run = "stopped" ELSE run = "first"

THEOREM CollectorStopsBeforeNozzle == LifecycleSpec => []CollectorStoppedFirst
<1>1. LifecycleInv => CollectorStoppedFirst
  BY DEF LifecycleInv, StopInv, CollectorStoppedFirst
<1>2. QED
  BY <1>1, LifecycleInvAlways, PTL

\* Do: no request is on its way, answered or retried without a token, unless access
\* control is disabled.
THEOREM RequestsCarryToken == LifecycleSpec => []TokenInv
<1>1. LifecycleInv => TokenInv
  BY DEF LifecycleInv
<1>2. QED
  BY <1>1, LifecycleInvAlways, PTL
=============================================================================

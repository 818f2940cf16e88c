--------------------------- MODULE TelemetryProofs ---------------------------
(***************************************************************************)
(* Proofs about Telemetry for any number of clients and any sizes.         *)
(***************************************************************************)
EXTENDS Telemetry, Integers, FiniteSetTheorems, TLAPS

\* A flush under way is not yet counted.
Base == TypeOK /\ CountsAddUp /\ (phase # "idle" => cycles < MaxCycles)

\* What the clients do not report as unsent, and what they do, moves by whole posts.
LEMMA FatesAre ==
    ASSUME TypeOK, NEW kind \in Kinds, NEW n \in Nat, NEW unsent \in Nat, NEW omitted \in Nat,
           unsent + omitted <= n, Fates(kind, n, unsent, omitted)
    PROVE  /\ delivered' \in [Kinds -> Nat] /\ refused' \in [Kinds -> Nat]
           /\ dropped' \in [Kinds -> Nat]
           /\ Sent'[kind] = Sent[kind] + (n - unsent)
           /\ refused'[kind] = refused[kind] + unsent
           /\ dropped'[kind] = dropped[kind] + omitted
           /\ \A k \in Kinds \ {kind} : Sent'[k] = Sent[k] /\ refused'[k] = refused[k]
                                        /\ dropped'[k] = dropped[k]
BY DEF TypeOK, Fates, Sent

LEMMA SentKept ==
    ASSUME UNCHANGED fates PROVE UNCHANGED Sent
BY DEF fates, Sent

\* A COUNT metric takes the value of its counter, whether it arrives or not.
LEMMA PublishedOrLost ==
    ASSUME TypeOK, NEW arrived \in SUBSET CountMetrics, PublishCounters(arrived)
    PROVE  /\ published' \in [Counters -> Nat] /\ lost' \in [Counters -> Nat]
           /\ \A c \in Counters :
                 published'[c] + lost'[c] =
                     published[c] + lost[c] + IF c \in CountMetrics THEN Counter[c] ELSE 0
           /\ CountMetrics \ arrived = {} => lost' = lost
<1>1. \A c \in Counters : Counter[c] \in Nat
  BY DEF TypeOK, Counters, Counter
<1>2. QED
  BY <1>1 DEF TypeOK, PublishCounters

\* A counter is either in a COUNT metric and restarts, or kept.
LEMMA RestartsIfPublished ==
    ASSUME TypeOK
    PROVE  /\ Kept(totalMetricsSent, metricsSent) +
                 (IF "metricsSent" \in CountMetrics THEN Counter["metricsSent"] ELSE 0) = metricsSent
           /\ Kept(totalMetricsSent, metricsDropped) +
                 (IF "metricsDropped" \in CountMetrics THEN Counter["metricsDropped"] ELSE 0)
                    = metricsDropped
           /\ Kept(totalLogsSent, logsSent) +
                 (IF "logsSent" \in CountMetrics THEN Counter["logsSent"] ELSE 0) = logsSent
           /\ Kept(totalLogsSent, logsDropped) +
                 (IF "logsDropped" \in CountMetrics THEN Counter["logsDropped"] ELSE 0) = logsDropped
BY DEF TypeOK, Kept, CountMetrics, Counter

\* One call of PostMetrics, with its choices named.
LEMMA PostMetricsIs ==
    ASSUME TypeOK, PostMetrics
    PROVE  \E n, unsent, omitted \in Nat, arrived \in SUBSET CountMetrics :
              /\ unsent + omitted <= n
              /\ CountMetrics \ arrived # {} => unsent # 0 \/ omitted # 0
              /\ PublishCounters(arrived)
              /\ metricsSent' = Kept(totalMetricsSent, metricsSent) + (n - unsent)
              /\ metricsDropped' = Kept(totalMetricsSent, metricsDropped) + unsent
              /\ Fates("metrics", n, unsent, omitted)
<1> DEFINE n == items + InternalMetrics
<1>1. n \in Nat
  BY DEF TypeOK, InternalMetrics
<1>2. PICK unsent, omitted \in 0..MaxLosses, arrived \in SUBSET CountMetrics :
         /\ Cardinality(CountMetrics \ arrived) <= unsent + omitted
         /\ Cardinality(arrived) + unsent + omitted <= n
         /\ PublishCounters(arrived)
         /\ metricsSent' = Kept(totalMetricsSent, metricsSent) + (n - unsent)
         /\ metricsDropped' = Kept(totalMetricsSent, metricsDropped) + unsent
         /\ Fates("metrics", n, unsent, omitted)
  BY DEF PostMetrics
<1>3. IsFiniteSet(Counters)
  <2>1. Counters = {} \cup {"metricsSent"} \cup {"metricsDropped"} \cup {"logsSent"} \cup {"logsDropped"}
    BY DEF Counters
  <2>2. QED
    BY <2>1, FS_EmptySet, FS_AddElement
<1>4. CountMetrics \subseteq Counters
  BY DEF CountMetrics, Counters
<1>5. /\ IsFiniteSet(arrived) /\ Cardinality(arrived) \in Nat
      /\ IsFiniteSet(CountMetrics \ arrived) /\ Cardinality(CountMetrics \ arrived) \in Nat
  BY <1>3, <1>4, FS_Subset, FS_CardinalityType
<1>6. CountMetrics \ arrived # {} => Cardinality(CountMetrics \ arrived) # 0
  BY <1>5, FS_EmptySet
<1> HIDE DEF n
<1>7. unsent + omitted <= n
  BY <1>1, <1>2, <1>5
<1>8. CountMetrics \ arrived # {} => unsent # 0 \/ omitted # 0
  BY <1>2, <1>5, <1>6
<1>9. QED
  BY <1>1, <1>2, <1>7, <1>8

\* One call of PostLogs.
LEMMA SentLogs ==
    ASSUME TypeOK, PostLogs
    PROVE  /\ logsSent' \in Nat /\ logsDropped' \in Nat
           /\ delivered' \in [Kinds -> Nat] /\ refused' \in [Kinds -> Nat]
           /\ dropped' \in [Kinds -> Nat]
           /\ Sent'["logs"] = Sent["logs"] + (logsSent' - logsSent)
           /\ refused'["logs"] = refused["logs"] + (logsDropped' - logsDropped)
           /\ Sent'["metrics"] = Sent["metrics"] /\ refused'["metrics"] = refused["metrics"]
           /\ dropped'["metrics"] = dropped["metrics"]
<1>1. PICK unsent, omitted \in 0..MaxLosses :
         /\ unsent + omitted <= items
         /\ logsSent' = logsSent + (items - unsent)
         /\ logsDropped' = logsDropped + unsent
         /\ Fates("logs", items, unsent, omitted)
  BY DEF PostLogs
<1>2. items \in Nat /\ unsent \in Nat /\ omitted \in Nat /\ items - unsent \in Nat
  BY <1>1 DEF TypeOK
<1>3. /\ delivered' \in [Kinds -> Nat] /\ refused' \in [Kinds -> Nat]
      /\ dropped' \in [Kinds -> Nat]
      /\ Sent'["logs"] = Sent["logs"] + (items - unsent) /\ Sent'["metrics"] = Sent["metrics"]
      /\ refused'["logs"] = refused["logs"] + unsent /\ refused'["metrics"] = refused["metrics"]
      /\ dropped'["metrics"] = dropped["metrics"]
  BY <1>1, <1>2, FatesAre DEF Kinds
<1>4. Sent["logs"] \in Nat /\ refused["logs"] \in Nat /\ logsSent \in Nat /\ logsDropped \in Nat
  BY DEF TypeOK, Sent, Kinds
<1>5. QED
  BY <1>1, <1>2, <1>3, <1>4

LEMMA InitTelemetry == Init => Base
<1> SUFFICES ASSUME Init PROVE Base
  OBVIOUS
<1> USE TelemetryAssumption DEF Init, Kinds, Counters
<1>1. CountsAddUp
  BY DEF CountsAddUp, Sent
<1>2. TypeOK
  BY DEF TypeOK
<1>3. QED
  BY <1>1, <1>2 DEF Base

LEMMA CountsKept ==
    ASSUME CountsAddUp, UNCHANGED <<metricsSent, metricsDropped, logsSent, logsDropped, history>>
    PROVE  CountsAddUp'
<1>1. UNCHANGED <<published, lost, refused, dropped, Sent>>
  BY SentKept DEF history, fates
<1>2. QED
  BY <1>1 DEF CountsAddUp

\* Each counter moves from "still waiting" to "published" or "lost" in one piece.
LEMMA PostMetricsKeepsCounts ==
    ASSUME TypeOK, CountsAddUp, PostMetrics
    PROVE  TypeOK' /\ CountsAddUp'
<1>1. PICK n, unsent, omitted \in Nat, arrived \in SUBSET CountMetrics :
         /\ unsent + omitted <= n
         /\ CountMetrics \ arrived # {} => unsent # 0 \/ omitted # 0
         /\ PublishCounters(arrived)
         /\ metricsSent' = Kept(totalMetricsSent, metricsSent) + (n - unsent)
         /\ metricsDropped' = Kept(totalMetricsSent, metricsDropped) + unsent
         /\ Fates("metrics", n, unsent, omitted)
  BY PostMetricsIs
<1>2. /\ delivered' \in [Kinds -> Nat] /\ refused' \in [Kinds -> Nat]
      /\ dropped' \in [Kinds -> Nat]
      /\ Sent'["metrics"] = Sent["metrics"] + (n - unsent) /\ Sent'["logs"] = Sent["logs"]
      /\ refused'["metrics"] = refused["metrics"] + unsent /\ refused'["logs"] = refused["logs"]
      /\ dropped'["metrics"] = dropped["metrics"] + omitted
  BY <1>1, FatesAre DEF Kinds
<1>3. /\ published' \in [Counters -> Nat] /\ lost' \in [Counters -> Nat]
      /\ \A c \in Counters :
            published'[c] + lost'[c] =
                published[c] + lost[c] + IF c \in CountMetrics THEN Counter[c] ELSE 0
      /\ CountMetrics \ arrived = {} => lost' = lost
  BY <1>1, PublishedOrLost
<1>4. /\ logsSent' = Kept(totalLogsSent, logsSent)
      /\ logsDropped' = Kept(totalLogsSent, logsDropped)
  BY <1>1 DEF PublishCounters
<1>5. TypeOK'
  <2>1. /\ metricsSent' \in Nat /\ metricsDropped' \in Nat
        /\ logsSent' \in Nat /\ logsDropped' \in Nat
    BY <1>1, <1>4 DEF TypeOK, Kept
  <2>2. client' \in 1..(NumClients + 1)
    BY TelemetryAssumption DEF TypeOK, PostMetrics, MoreClients
  <2>3. QED
    BY <1>2, <1>3, <2>1, <2>2 DEF TypeOK, PostMetrics
<1>6. CountsAddUp'
  <2>1. /\ Sent["metrics"] \in Nat /\ Sent["logs"] \in Nat
        /\ refused["metrics"] \in Nat /\ refused["logs"] \in Nat /\ dropped["metrics"] \in Nat
    BY DEF TypeOK, Sent, Kinds
  <2>2. \A c \in Counters : /\ published[c] \in Nat /\ lost[c] \in Nat /\ Counter[c] \in Nat
                            /\ published'[c] \in Nat /\ lost'[c] \in Nat
    BY <1>3 DEF TypeOK, Counters, Counter
  <2>3. /\ published'["metricsSent"] + lost'["metricsSent"] + metricsSent' = Sent'["metrics"]
        /\ published'["metricsDropped"] + lost'["metricsDropped"] + metricsDropped' = refused'["metrics"]
    BY <1>1, <1>2, <1>3, <2>2, RestartsIfPublished DEF CountsAddUp, Counters, Kept, TypeOK
  <2>4. /\ published'["logsSent"] + lost'["logsSent"] + logsSent' = Sent'["logs"]
        /\ published'["logsDropped"] + lost'["logsDropped"] + logsDropped' = refused'["logs"]
    BY <1>2, <1>3, <1>4, <2>2, RestartsIfPublished DEF CountsAddUp, Counters, Kept
  <2>5. ASSUME refused'["metrics"] = 0, dropped'["metrics"] = 0, NEW c \in Counters
        PROVE  lost'[c] = 0
    <3>1. refused["metrics"] = 0 /\ unsent = 0
      BY <1>2, <2>1, <2>5
    <3>2. dropped["metrics"] = 0 /\ omitted = 0
      BY <1>2, <2>1, <2>5
    <3>3. lost' = lost
      BY <1>1, <1>3, <3>1, <3>2
    <3>4. QED
      BY <3>1, <3>2, <3>3 DEF CountsAddUp
  <2>6. QED
    BY <2>3, <2>4, <2>5 DEF CountsAddUp
<1>7. QED
  BY <1>5, <1>6

LEMMA PostLogsKeepsCounts ==
    ASSUME TypeOK, CountsAddUp, PostLogs
    PROVE  TypeOK' /\ CountsAddUp'
<1>1. TypeOK'
  <2>1. client' \in 1..(NumClients + 1)
    BY TelemetryAssumption DEF TypeOK, PostLogs, MoreClients
  <2>2. QED
    BY <2>1, SentLogs DEF TypeOK, PostLogs, metricCounters
<1>2. CountsAddUp'
  <2>1. \A c \in Counters : published[c] \in Nat /\ lost[c] \in Nat
    BY DEF TypeOK
  <2>2. logsSent \in Nat /\ logsDropped \in Nat
    BY DEF TypeOK
  <2>3. UNCHANGED <<published, lost, metricsSent, metricsDropped>>
    BY DEF PostLogs, metricCounters
  <2>4. QED
    BY <2>1, <2>2, <2>3, SentLogs DEF CountsAddUp, Counters
<1>3. QED
  BY <1>1, <1>2

LEMMA NextTelemetry == Base /\ [Next]_vars => Base'
<1> SUFFICES ASSUME Base, [Next]_vars PROVE Base'
  OBVIOUS
<1> USE TelemetryAssumption
<1> USE DEF Base, loop, metricCounters, logCounters, history, fates, MoreClients
<1>1. CASE StartMetrics
  <2>1. CountsAddUp'
    BY <1>1, CountsKept DEF StartMetrics
  <2>2. QED
    BY <1>1, <2>1 DEF StartMetrics, TypeOK
<1>2. CASE PostMetrics
  BY <1>2, PostMetricsKeepsCounts DEF PostMetrics
<1>3. CASE EndMetrics
  <2>1. CountsAddUp'
    BY <1>3, CountsKept DEF EndMetrics
  <2>2. QED
    BY <1>3, <2>1 DEF EndMetrics, TypeOK
<1>4. CASE PostLogs
  BY <1>4, PostLogsKeepsCounts DEF PostLogs
<1>5. CASE EndLogs
  <2>1. CountsAddUp'
    BY <1>5, CountsKept DEF EndLogs
  <2>2. QED
    BY <1>5, <2>1 DEF EndLogs, TypeOK
<1>6. CASE UNCHANGED vars
  <2>1. CountsAddUp'
    BY <1>6, CountsKept DEF vars
  <2>2. QED
    BY <1>6, <2>1 DEF vars, TypeOK
<1>7. QED
  BY <1>1, <1>2, <1>3, <1>4, <1>5, <1>6 DEF Next, Stopped

\* postMetrics and postLogs: the counters are never negative and the loops over ddClients
\* never run past the last client, for any number of clients and any sizes.
THEOREM TelemetryTypes == Spec => []TypeOK
<1>1. Base => TypeOK
  BY DEF Base
<1>2. QED
  BY <1>1, InitTelemetry, NextTelemetry, PTL DEF Spec

\* Whatever the number of clients and whatever they refuse or drop, every metric or log
\* is counted once, as sent or as dropped: in a COUNT metric that was delivered, in one
\* that was not, whose value postMetrics had already cleared, or in the counter.  No
\* count is lost before a metric was refused or dropped.
THEOREM CountsNeverDrift == Spec => []CountsAddUp
<1>1. Base => CountsAddUp
  BY DEF Base
<1>2. QED
  BY <1>1, InitTelemetry, NextTelemetry, PTL DEF Spec

-----------------------------------------------------------------------------
(* totalLogsSent.                                                          *)

\* postMetrics resets logsSent for its first client, before postLogs adds to it;
\* it does so unless totalLogsSent, and with it logsSent, is still zero.
LogsInv ==
    /\ phase \in {"idle", "metrics"} =>
          totalLogsSent = Sent["logs"] /\ (totalLogsSent = 0 => logsSent = 0)
    /\ phase = "metrics" /\ client > 1 => logsSent = 0
    /\ phase = "logs" => totalLogsSent + logsSent = Sent["logs"]

LEMMA NextLogs == Base /\ LogsInv /\ [Next]_vars => LogsInv'
<1> SUFFICES ASSUME Base, LogsInv, [Next]_vars PROVE LogsInv'
  OBVIOUS
<1> USE TelemetryAssumption
<1> USE DEF Base, LogsInv, loop, metricCounters, logCounters, history, MoreClients
<1>1. Sent["logs"] \in Nat /\ totalLogsSent \in Nat /\ logsSent \in Nat /\ client \in Nat
  BY DEF TypeOK
<1>2. CASE StartMetrics
  BY <1>2, SentKept DEF StartMetrics
<1>3. CASE PostMetrics
  <2>1. Sent'["logs"] = Sent["logs"]
    BY <1>3, PostMetricsIs, FatesAre DEF Kinds
  <2>2. logsSent' = Kept(totalLogsSent, logsSent)
    BY <1>3 DEF PostMetrics, PublishCounters
  <2>3. QED
    BY <1>1, <1>3, <2>1, <2>2 DEF PostMetrics, Kept
<1>4. CASE EndMetrics
  BY <1>1, <1>4, SentKept DEF EndMetrics
<1>5. CASE PostLogs
  BY <1>1, <1>5, SentLogs DEF PostLogs
<1>6. CASE EndLogs
  BY <1>1, <1>6, SentKept DEF EndLogs
<1>7. CASE UNCHANGED vars
  BY <1>7, SentKept DEF vars
<1>8. QED
  BY <1>2, <1>3, <1>4, <1>5, <1>6, <1>7 DEF Next, Stopped

\* totalLogsSent counts the logs that no client reported as unsent, delivered or dropped
\* by its formatter, for any number of clients.
THEOREM TotalLogsCorrect == Spec => []TotalLogsExact
<1>1. Init => LogsInv
  BY DEF Init, LogsInv, Sent, Kinds
<1>2. Base /\ LogsInv => TotalLogsExact
  BY DEF Base, TypeOK, LogsInv, TotalLogsExact
<1>3. QED
  BY <1>1, <1>2, InitTelemetry, NextTelemetry, NextLogs, PTL DEF Spec

-----------------------------------------------------------------------------
(* totalMetricsSent, with one client.                                      *)

MetricsInv ==
    /\ phase # "metrics" \/ client = 1 =>
          totalMetricsSent = Sent["metrics"] /\ (totalMetricsSent = 0 => metricsSent = 0)
    /\ phase = "metrics" /\ client > 1 => totalMetricsSent + metricsSent = Sent["metrics"]

LEMMA NextMetrics ==
    ASSUME NumClients = 1 PROVE Base /\ MetricsInv /\ [Next]_vars => MetricsInv'
<1> SUFFICES ASSUME Base, MetricsInv, [Next]_vars PROVE MetricsInv'
  OBVIOUS
<1> USE TelemetryAssumption
<1> USE DEF Base, MetricsInv, loop, metricCounters, logCounters, history, MoreClients
<1>1. Sent["metrics"] \in Nat /\ totalMetricsSent \in Nat /\ metricsSent \in Nat /\ client \in Nat
  BY DEF TypeOK
<1>2. CASE StartMetrics
  BY <1>2, SentKept DEF StartMetrics
<1>3. CASE PostMetrics
  <2>1. client = 1 /\ client' = 2 /\ phase' = "metrics"
    BY <1>3 DEF PostMetrics, TypeOK
  <2>2. PICK n, unsent \in Nat : /\ metricsSent' = Kept(totalMetricsSent, metricsSent) + (n - unsent)
                                 /\ Sent'["metrics"] = Sent["metrics"] + (n - unsent)
    <3>1. PICK n, unsent, omitted \in Nat :
             /\ unsent + omitted <= n
             /\ metricsSent' = Kept(totalMetricsSent, metricsSent) + (n - unsent)
             /\ Fates("metrics", n, unsent, omitted)
      BY <1>3, PostMetricsIs
    <3>2. Sent'["metrics"] = Sent["metrics"] + (n - unsent)
      BY <3>1, FatesAre DEF Kinds
    <3>3. QED
      BY <3>1, <3>2
  <2>3. Kept(totalMetricsSent, metricsSent) = 0
    BY <1>1, <2>1 DEF Kept
  <2>4. QED
    BY <1>3, <2>1, <2>2, <2>3 DEF PostMetrics
<1>4. CASE EndMetrics
  BY <1>1, <1>4, SentKept DEF EndMetrics
<1>5. CASE PostLogs
  BY <1>5, SentLogs DEF PostLogs
<1>6. CASE EndLogs
  BY <1>6, SentKept DEF EndLogs
<1>7. CASE UNCHANGED vars
  BY <1>7, SentKept DEF vars
<1>8. QED
  BY <1>2, <1>3, <1>4, <1>5, <1>6, <1>7 DEF Next, Stopped

\* With one client totalMetricsSent counts the metrics it did not report as unsent,
\* delivered or dropped by its formatter.
THEOREM TotalMetricsCorrect == ASSUME NumClients = 1 PROVE Spec => []TotalMetricsExact
<1>1. Init => MetricsInv
  BY DEF Init, MetricsInv, Sent, Kinds
<1>2. Base /\ MetricsInv => TotalMetricsExact
  BY DEF MetricsInv, TotalMetricsExact
<1>3. QED
  BY <1>1, <1>2, InitTelemetry, NextTelemetry, NextMetrics, PTL DEF Spec
=============================================================================

------------------------------ MODULE Telemetry ------------------------------
(***************************************************************************)
(* What the nozzle reports about itself: the counters of sent and dropped  *)
(* metrics and logs that postMetrics and postLogs keep while they post the *)
(* same data to every Datadog client, and the internal metrics made from   *)
(* them.  Only the main goroutine touches these counters.                  *)
(*                                                                         *)
(* An item given to a client has one of three fates.  It is delivered, in  *)
(* a post that Datadog accepts.  It is refused, in a post that the client  *)
(* sees fail after its retries and reports as unsent (that Datadog may yet *)
(* have accepted it is left to Formatter).  Or the formatter drops it, too *)
(* large or impossible to format, and nobody reports it: for the nozzle it *)
(* is sent.  How many items have which fate is arbitrary.                  *)
(***************************************************************************)
EXTENDS Naturals, FiniteSets

CONSTANTS
    NumClients,   \* length of ddClients
    MaxItems,     \* bound: metrics in metricsMap, logs in logsBuffer
    MaxLosses,    \* bound: items of a post that are refused, and that are dropped
    MaxCycles     \* bound: flushes

ASSUME TelemetryAssumption ==
    /\ NumClients \in Nat \ {0} /\ MaxItems \in Nat
    /\ MaxLosses \in Nat /\ MaxCycles \in Nat

VARIABLES
    phase,              \* "idle", "metrics" in postMetrics, "logs" in postLogs
    items,              \* entries of the copied metricsMap or logsBuffer
    client,             \* index into ddClients
    cycles,             \* flushes done
    totalMetricsSent, metricsSent, metricsDropped,
    totalLogsSent, logsSent, logsDropped,
    published,          \* for each counter, the sum of its COUNT metrics delivered
    lost,               \* the sum of those refused or dropped, whose value is gone
    delivered,          \* items in posts that Datadog accepted
    refused,            \* items in posts that failed, reported as unsent
    dropped             \* items the formatter left out, reported by nobody

loop == <<phase, items, client, cycles>>
metricCounters == <<totalMetricsSent, metricsSent, metricsDropped>>
logCounters == <<totalLogsSent, logsSent, logsDropped>>
fates == <<delivered, refused, dropped>>
history == <<published, lost, fates>>
vars == <<loop, metricCounters, logCounters, history>>

Kinds == {"metrics", "logs"}
Counters == {"metricsSent", "metricsDropped", "logsSent", "logsDropped"}
Counter == [metricsSent |-> metricsSent, metricsDropped |-> metricsDropped,
            logsSent |-> logsSent, logsDropped |-> logsDropped]

Init ==
    /\ phase = "idle" /\ items = 0 /\ client = 1 /\ cycles = 0
    /\ totalMetricsSent = 0 /\ metricsSent = 0 /\ metricsDropped = 0
    /\ totalLogsSent = 0 /\ logsSent = 0 /\ logsDropped = 0
    /\ published = [c \in Counters |-> 0] /\ lost = [c \in Counters |-> 0]
    /\ delivered = [k \in Kinds |-> 0] /\ refused = [k \in Kinds |-> 0]
    /\ dropped = [k \in Kinds |-> 0]

\* for _, client := range n.ddClients
MoreClientsOffByOne == client <= NumClients + 1   \* mutant
MoreClients == client <= NumClients

\* postMetrics copies metricsMap.
StartMetrics ==
    /\ phase = "idle" /\ cycles < MaxCycles
    /\ phase' = "metrics" /\ client' = 1
    /\ items' \in 0..MaxItems
    /\ UNCHANGED <<cycles, metricCounters, logCounters, history>>

\* The fates of n items of a kind given to a client, of which it reports unsent
\* and its formatter drops omitted.
Fates(kind, n, unsent, omitted) ==
    /\ delivered' = [delivered EXCEPT ![kind] = @ + (n - unsent - omitted)]
    /\ refused' = [refused EXCEPT ![kind] = @ + unsent]
    /\ dropped' = [dropped EXCEPT ![kind] = @ + omitted]

\* A COUNT metric is made, and its counter restarts, only once a total is positive.
CountMetrics ==
    (IF totalMetricsSent > 0 THEN {"metricsSent", "metricsDropped"} ELSE {}) \cup
    (IF totalLogsSent > 0 THEN {"logsSent", "logsDropped"} ELSE {})
KeptAlways(total, counter) == counter   \* mutant: no reset after reporting
Kept(total, counter) == IF total > 0 THEN 0 ELSE counter

\* Four gauges, and two counts for each total that is positive.
InternalMetrics == 4 + (IF totalMetricsSent > 0 THEN 2 ELSE 0)
                     + (IF totalLogsSent > 0 THEN 2 ELSE 0)

\* The counters restart before the post; only the COUNT metrics that arrive tell
\* Datadog what they were.
PublishCounters(arrived) ==
    /\ published' = [c \in Counters |->
           IF c \in arrived THEN published[c] + Counter[c] ELSE published[c]]
    /\ lost' = [c \in Counters |->
           IF c \in CountMetrics \ arrived THEN lost[c] + Counter[c] ELSE lost[c]]
    /\ logsSent' = Kept(totalLogsSent, logsSent)
    /\ logsDropped' = Kept(totalLogsSent, logsDropped)

\* One iteration of the loop over ddClients: the post of metrics and internal metrics,
\* each of which arrives or is among the unsent or omitted ones.
PostMetrics ==
    /\ phase = "metrics" /\ MoreClients
    /\ \E unsent, omitted \in 0..MaxLosses, arrived \in SUBSET CountMetrics :
          LET n == items + InternalMetrics IN
          /\ Cardinality(CountMetrics \ arrived) <= unsent + omitted
          /\ Cardinality(arrived) + unsent + omitted <= n
          /\ PublishCounters(arrived)
          /\ metricsSent' = Kept(totalMetricsSent, metricsSent) + (n - unsent)
          /\ metricsDropped' = Kept(totalMetricsSent, metricsDropped) + unsent
          /\ Fates("metrics", n, unsent, omitted)
    /\ client' = client + 1
    /\ UNCHANGED <<phase, items, cycles, totalMetricsSent, totalLogsSent>>

\* The end of postMetrics, and the copy of logsBuffer that begins postLogs.
EndMetrics ==
    /\ phase = "metrics" /\ ~MoreClients
    /\ totalMetricsSent' = totalMetricsSent + metricsSent
    /\ phase' = "logs" /\ client' = 1
    /\ items' \in 0..MaxItems
    /\ UNCHANGED <<cycles, metricsSent, metricsDropped, logCounters, history>>

\* One iteration of the loop of postLogs.
PostLogs ==
    /\ phase = "logs" /\ MoreClients
    /\ \E unsent, omitted \in 0..MaxLosses :
          /\ unsent + omitted <= items
          /\ logsSent' = logsSent + (items - unsent)
          /\ logsDropped' = logsDropped + unsent
          /\ Fates("logs", items, unsent, omitted)
    /\ client' = client + 1
    /\ UNCHANGED <<phase, items, cycles, metricCounters, totalLogsSent, published, lost>>

EndLogsPerClient ==   \* mutant: the total is updated as if logsSent were per cycle
    /\ phase = "logs" /\ ~MoreClients
    /\ totalLogsSent' = totalLogsSent + items
    /\ phase' = "idle" /\ cycles' = cycles + 1
    /\ UNCHANGED <<items, client, metricCounters, logsSent, logsDropped, history>>

EndLogs ==
    /\ phase = "logs" /\ ~MoreClients
    /\ totalLogsSent' = totalLogsSent + logsSent
    /\ phase' = "idle" /\ cycles' = cycles + 1
    /\ UNCHANGED <<items, client, metricCounters, logsSent, logsDropped, history>>

\* The nozzle was stopped after the last flush of the instance.
Stopped == phase = "idle" /\ cycles = MaxCycles /\ UNCHANGED vars

Next == StartMetrics \/ PostMetrics \/ EndMetrics \/ PostLogs \/ EndLogs \/ Stopped

Spec == Init /\ [][Next]_vars

-----------------------------------------------------------------------------
(* Properties                                                              *)

TypeOK ==
    /\ phase \in {"idle", "metrics", "logs"} /\ items \in 0..MaxItems
    /\ client \in 1..(NumClients + 1) /\ cycles \in 0..MaxCycles
    /\ totalMetricsSent \in Nat /\ metricsSent \in Nat /\ metricsDropped \in Nat
    /\ totalLogsSent \in Nat /\ logsSent \in Nat /\ logsDropped \in Nat
    /\ published \in [Counters -> Nat] /\ lost \in [Counters -> Nat]
    /\ delivered \in [Kinds -> Nat] /\ refused \in [Kinds -> Nat] /\ dropped \in [Kinds -> Nat]

\* What the nozzle takes for sent: the client did not report it as unsent.
Sent == [k \in Kinds |-> delivered[k] + dropped[k]]

\* The COUNT metrics of postMetrics, with any number of clients: every item posted is
\* counted exactly once, as sent or as dropped, in a COUNT metric that Datadog has, in
\* one that did not arrive (the counters restart before the post, so its value is not
\* sent again), or in the counter; and none is missing as long as every metric, the
\* internal ones included, arrives.
CountsAddUp ==
    /\ published["metricsSent"] + lost["metricsSent"] + metricsSent = Sent["metrics"]
    /\ published["metricsDropped"] + lost["metricsDropped"] + metricsDropped = refused["metrics"]
    /\ published["logsSent"] + lost["logsSent"] + logsSent = Sent["logs"]
    /\ published["logsDropped"] + lost["logsDropped"] + logsDropped = refused["logs"]
    /\ refused["metrics"] = 0 /\ dropped["metrics"] = 0 => \A c \in Counters : lost[c] = 0

\* Between two flushes of logs, totalLogsSent is the number of logs that no client
\* reported as unsent, although logsSent is reset in the middle of postMetrics: the
\* logs delivered, and those the formatter dropped, which PostLogs does not report.
TotalLogsExact == phase # "logs" => totalLogsSent = Sent["logs"]

\* Between two flushes of metrics, totalMetricsSent is the number of metrics that no
\* client reported as unsent.
TotalMetricsExact == phase # "metrics" => totalMetricsSent = Sent["metrics"]
=============================================================================

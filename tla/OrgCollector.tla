----------------------------- MODULE OrgCollector -----------------------------
(***************************************************************************)
(* internal/orgcollector: a goroutine that starts a collection at once and *)
(* then one per tick, each in a goroutine of its own that fetches orgs and *)
(* quotas concurrently, joins them, and sends one package of metrics into  *)
(* processedMetrics.  Lifecycle composes it with the nozzle that starts    *)
(* and stops it.                                                           *)
(***************************************************************************)
EXTENDS Naturals, Sequences, FiniteSets

CONSTANTS
    Orgs,
    Quotas,
    QuotaOf,      \* the quota of each org
    OrgAnswers,   \* sets of orgs, and of quotas, that a request may result in: an
    QuotaAnswers, \* error leaves none, or those that could be parsed
    NumPushes,    \* bound: calls of pushMetrics
    MetricsCap    \* free places of processedMetrics (at most 1000)

Pushes == 1..NumPushes

ASSUME OrgCollectorAssumption ==
    /\ QuotaOf \in [Orgs -> Quotas]
    /\ OrgAnswers \subseteq SUBSET Orgs /\ QuotaAnswers \subseteq SUBSET Quotas
    /\ NumPushes \in Nat /\ MetricsCap \in Nat \ {0}

VARIABLES
    run,                 \* where run() is
    stop,                \* "no", "requested" by the nozzle, "received"
    started,             \* calls of pushMetrics so far
    push,                \* where each one is
    answered,            \* which of its two requests were
    allOrgs,             \* what they answered; both local to the push
    allQuotas,
    metricsPackages,     \* the orgs it has a package for
    processedMetrics,    \* packages: the push that made it and its orgs
    readerRunning,       \* readProcessedMetrics
    stored               \* pairs of a push and an org in metricsMap

requests == <<answered, allOrgs, allQuotas, metricsPackages>>
orgVars == <<run, stop, started, push, requests, processedMetrics, readerRunning, stored>>

\* go o.pushMetrics()
StartPush ==
    /\ started' = started + 1
    /\ push' = [push EXCEPT ![started + 1] = "fetch"]

OrgInit ==
    /\ run = "first" /\ stop = "no" /\ started = 0
    /\ push = [p \in Pushes |-> "none"]
    /\ answered = [p \in Pushes |-> {}]
    /\ allOrgs = [p \in Pushes |-> {}] /\ allQuotas = [p \in Pushes |-> {}]
    /\ metricsPackages = [p \in Pushes |-> {}]
    /\ processedMetrics = <<>> /\ readerRunning = FALSE /\ stored = {}

-----------------------------------------------------------------------------
(* run()                                                                   *)

\* After go o.pushMetrics() the loop is back in its select.
PushRunning == \E p \in Pushes : push[p] \in {"fetch", "send"}
LoopBlocked == run = "select" /\ ~PushRunning   \* mutant: pushMetrics is called without go
LoopReady == run = "select"

FirstPush ==
    /\ run = "first" /\ started < NumPushes
    /\ StartPush
    /\ run' = "select"
    /\ UNCHANGED <<stop, requests, processedMetrics, readerRunning, stored>>

\* case <-ticker.C
Tick ==
    /\ LoopReady /\ started < NumPushes
    /\ run' = "jitter"
    /\ UNCHANGED <<stop, started, push, requests, processedMetrics, readerRunning, stored>>

\* jitterWait() returns
PushAgain ==
    /\ run = "jitter"
    /\ StartPush
    /\ run' = "select"
    /\ UNCHANGED <<stop, requests, processedMetrics, readerRunning, stored>>

\* case <-o.stopper
ReceiveStop ==
    /\ LoopReady /\ stop = "requested"
    /\ stop' = "received" /\ run' = "stopped"
    /\ UNCHANGED <<started, push, requests, processedMetrics, readerRunning, stored>>

-----------------------------------------------------------------------------
(* pushMetrics()                                                           *)

\* GetV3Orgs
FetchOrgs(p) ==
    /\ push[p] = "fetch" /\ "orgs" \notin answered[p]
    /\ answered' = [answered EXCEPT ![p] = @ \cup {"orgs"}]
    /\ \E orgs \in OrgAnswers : allOrgs' = [allOrgs EXCEPT ![p] = orgs]
    /\ UNCHANGED <<run, stop, started, push, allQuotas, metricsPackages, processedMetrics,
                   readerRunning, stored>>

\* GetV2OrgQuotas
FetchQuotas(p) ==
    /\ push[p] = "fetch" /\ "quotas" \notin answered[p]
    /\ answered' = [answered EXCEPT ![p] = @ \cup {"quotas"}]
    /\ \E quotas \in QuotaAnswers : allQuotas' = [allQuotas EXCEPT ![p] = quotas]
    /\ UNCHANGED <<run, stop, started, push, allOrgs, metricsPackages, processedMetrics,
                   readerRunning, stored>>

Answered(p) == answered[p] = {"orgs", "quotas"}

\* "failed to get quota for org": the org is skipped.
WithQuotaOrNone(p) ==   \* mutant: return instead of continue
    IF \A o \in allOrgs[p] : QuotaOf[o] \in allQuotas[p] THEN allOrgs[p] ELSE {}
WithQuota(p) == {o \in allOrgs[p] : QuotaOf[o] \in allQuotas[p]}

\* After wg.Wait() the answers are joined; they are not used any more after that.
Join(p) ==
    /\ push[p] = "fetch" /\ Answered(p)
    /\ metricsPackages' = [metricsPackages EXCEPT ![p] = WithQuota(p)]
    /\ answered' = [answered EXCEPT ![p] = {}]
    /\ allOrgs' = [allOrgs EXCEPT ![p] = {}] /\ allQuotas' = [allQuotas EXCEPT ![p] = {}]
    /\ push' = [push EXCEPT ![p] = "send"]
    /\ UNCHANGED <<run, stop, started, processedMetrics, readerRunning, stored>>

HasRoomOffByOne == Len(processedMetrics) <= MetricsCap   \* mutant
HasRoom == Len(processedMetrics) < MetricsCap

\* o.processedMetrics <- metricsPackages
Send(p) ==
    /\ push[p] = "send" /\ HasRoom
    /\ processedMetrics' = Append(processedMetrics, <<p, metricsPackages[p]>>)
    /\ metricsPackages' = [metricsPackages EXCEPT ![p] = {}]
    /\ push' = [push EXCEPT ![p] = "done"]
    /\ UNCHANGED <<run, stop, started, answered, allOrgs, allQuotas, readerRunning, stored>>

-----------------------------------------------------------------------------
(* The nozzle                                                              *)

\* readProcessedMetrics stores a package in metricsMap.
Store ==
    /\ readerRunning /\ processedMetrics # <<>>
    /\ LET package == Head(processedMetrics) IN
          stored' = stored \cup ({package[1]} \X package[2])
    /\ processedMetrics' = Tail(processedMetrics)
    /\ UNCHANGED <<run, stop, started, push, requests, readerRunning>>

\* orgCollector.Stop() blocks on the unbuffered stopper.
RequestStop ==
    /\ stop = "no"
    /\ stop' = "requested"
    /\ UNCHANGED <<run, started, push, requests, processedMetrics, readerRunning, stored>>

PushStep(p) == FetchOrgs(p) \/ FetchQuotas(p) \/ Join(p) \/ Send(p)

RunStep == FirstPush \/ Tick \/ PushAgain

-----------------------------------------------------------------------------
(* Properties                                                              *)

OrgTypeOK ==
    /\ run \in {"first", "select", "jitter", "stopped"}
    /\ stop \in {"no", "requested", "received"} /\ started \in 0..NumPushes
    /\ push \in [Pushes -> {"none", "fetch", "send", "done"}]
    /\ answered \in [Pushes -> SUBSET {"orgs", "quotas"}]
    /\ allOrgs \in [Pushes -> SUBSET Orgs] /\ allQuotas \in [Pushes -> SUBSET Quotas]
    /\ metricsPackages \in [Pushes -> SUBSET Orgs]
    /\ Len(processedMetrics) <= MetricsCap
    /\ \A k \in DOMAIN processedMetrics :
          processedMetrics[k][1] \in Pushes /\ processedMetrics[k][2] \subseteq Orgs
    /\ readerRunning \in BOOLEAN /\ stored \subseteq Pushes \X Orgs
=============================================================================

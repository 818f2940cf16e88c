------------------------------ MODULE Lifecycle ------------------------------
(***************************************************************************)
(* The life of the nozzle process: Nozzle.Start with the clients it        *)
(* creates, the org collector it starts, the stream of envelopes with its  *)
(* authorization token, and the shutdown.  The main goroutine runs Start,  *)
(* the org collector and the stream run beside it.                         *)
(*                                                                         *)
(* What the workers, readers and flushes do with envelopes is Nozzle; here *)
(* the reader of processedMetrics is running or not.  main returns when    *)
(* Start does, and the process ends.                                       *)
(***************************************************************************)
EXTENDS OrgCollector

CONSTANTS
    Configs,         \* configurations to start with
    VersionRetries   \* nbrAttempts of NewDCAClient (10 in the code)

Config == [DCAEnabled : BOOLEAN, DCAToken : BOOLEAN,   \* is DCAToken set?
           CloudControllerEndpoint : BOOLEAN, RLPGatewayURL : BOOLEAN,   \* set?
           DisableAccessControl : BOOLEAN]

ASSUME LifecycleAssumption == Configs \subseteq Config /\ VersionRetries \in Nat

VARIABLES
    config,
    main,          \* where Start is
    attempts,      \* calls of GetVersion that failed in this NewDCAClient
    tickDue,       \* NewDCAClient waits for its ticker before it tries again
    collector,     \* is there an orgCollector?
    conn,          \* the stream: the call of Do it is in, "open" or "closed"
    token          \* rlpGatewayClientDoer.token: "", "valid" or "expired"

startVars == <<config, attempts, tickDue, collector>>
mainVars == <<main, startVars>>
streamVars == <<conn, token>>
lifecycleVars == <<mainVars, streamVars, orgVars>>

LifecycleInit ==
    /\ config \in Configs
    /\ main = "nozzleClient" /\ attempts = 0 /\ tickDue = FALSE /\ collector = FALSE
    /\ conn = "closed" /\ token = ""
    /\ OrgInit

Startup == {"nozzleClient", "collectorClient", "consumer", "workers"}
Ended == main \in {"returned", "failed", "exited"}

\* os.Exit, or Fatalf of the logger: no goroutine goes on.
Exit == main' = "exited" /\ UNCHANGED startVars

-----------------------------------------------------------------------------
(* Start, up to the loop                                                   *)

\* NewClient or NewDCAClient has returned.  The nozzle goes on without a client, and
\* without a collector when there is none for it; otherwise it starts the collector.
ClientMade(ok) ==
    /\ attempts' = 0
    /\ IF main = "nozzleClient"
         THEN main' = "collectorClient" /\ UNCHANGED collector
         ELSE main' = "consumer" /\ collector' = ok
    /\ UNCHANGED <<config, tickDue, streamVars, orgVars>>

MakingClient == main \in {"nozzleClient", "collectorClient"}

\* NewClient asks the Cloud Controller for its endpoints.
NewClient ==
    /\ MakingClient /\ ~config.DCAEnabled
    /\ \/ config.CloudControllerEndpoint /\ ClientMade(TRUE)
       \/ ClientMade(FALSE)

\* "missing authentication token for the Cluster Agent Client"
NewDCAClientFails ==
    /\ MakingClient /\ config.DCAEnabled /\ ~config.DCAToken
    /\ ClientMade(FALSE)

CallingVersion == MakingClient /\ config.DCAEnabled /\ config.DCAToken /\ ~tickDue

GetVersionSucceeds == CallingVersion /\ ClientMade(TRUE)

\* The first call and VersionRetries more, one per tick; then os.Exit(1).
CountAttemptNever == attempts' = attempts   \* mutant: nbrAttempts is not decremented
CountAttempt == attempts' = attempts + 1

GetVersionFails ==
    /\ CallingVersion
    /\ IF attempts = VersionRetries
         THEN Exit
         ELSE CountAttempt /\ tickDue' = TRUE /\ UNCHANGED <<config, main, collector>>
    /\ UNCHANGED <<streamVars, orgVars>>

VersionTick ==
    /\ tickDue
    /\ tickDue' = FALSE
    /\ UNCHANGED <<config, main, attempts, collector, streamVars, orgVars>>

\* Without a URL to stream from Start returns the error.
StartFirehoseConsumer ==
    /\ main = "consumer"
    /\ main' = IF config.RLPGatewayURL \/ config.CloudControllerEndpoint
                 THEN "workers" ELSE "failed"
    /\ UNCHANGED <<startVars, streamVars, orgVars>>

StartWorkers ==
    /\ main = "workers"
    /\ main' = "run" /\ readerRunning' = TRUE
    /\ UNCHANGED <<startVars, streamVars, run, stop, started, push,
                   requests, processedMetrics, stored>>

-----------------------------------------------------------------------------
(* The shutdown                                                            *)

Streaming == main \in {"workers", "run", "close"}

\* Somebody called Stop().
StopNozzle ==
    /\ main = "run"
    /\ main' = "close"
    /\ UNCHANGED <<startVars, streamVars, orgVars>>

\* loggregatorClient.Stop() cancels the stream.
CloseStream ==
    /\ main = "close"
    /\ main' = "stopWorkers"
    /\ UNCHANGED <<startVars, streamVars, orgVars>>

\* stopWorkers() may time out before the reader of processedMetrics was stopped.
StopWorkers ==
    /\ main = "stopWorkers"
    /\ main' = IF collector THEN "stopCollector" ELSE "flush"
    /\ readerRunning' \in BOOLEAN
    /\ UNCHANGED <<startVars, streamVars, run, stop, started, push,
                   requests, processedMetrics, stored>>

StopCollector ==
    /\ main = "stopCollector"
    /\ RequestStop
    /\ UNCHANGED <<mainVars, streamVars>>

\* The loop of the collector takes the stop message, and Stop() returns.
CollectorStopped ==
    /\ main = "stopCollector"
    /\ ReceiveStop
    /\ main' = "flush"
    /\ UNCHANGED <<startVars, streamVars>>

FinalFlush ==
    /\ main = "flush"
    /\ main' = "returned"
    /\ UNCHANGED <<startVars, streamVars, orgVars>>

-----------------------------------------------------------------------------
(* The stream: go-loggregator calls Do again and again until it is         *)
(* cancelled, and the copier waits for what it reads.                      *)

\* GetAuthToken: the answer of UAA is a token; when it expires is not kept.
GetAuthToken(next) == token' = "valid" /\ conn' = next /\ UNCHANGED mainVars

\* FetchAuthToken: without a token the process ends.
FetchAuthToken(next) == GetAuthToken(next) \/ (Exit /\ UNCHANGED streamVars)

\* Do fetches a token when it has none.
SendRequest ==
    /\ Streaming /\ conn = "closed"
    /\ IF ~config.DisableAccessControl /\ token = ""
         THEN FetchAuthToken("sent")
         ELSE conn' = "sent" /\ UNCHANGED <<token, mainVars>>
    /\ UNCHANGED orgVars

Authorized == config.DisableAccessControl \/ token = "valid"

\* The gateway accepts a request that carries a good token, unless it is cancelled.
Accept(request) ==
    /\ conn = request /\ Streaming /\ Authorized
    /\ conn' = "open"
    /\ UNCHANGED <<token, mainVars, orgVars>>

\* A status from 400 on, whatever it means: Do waits and has the token refreshed.
Refuse ==
    /\ conn = "sent"
    /\ conn' = IF config.DisableAccessControl THEN "closed" ELSE "refused"
    /\ UNCHANGED <<token, mainVars, orgVars>>

RefreshIfMissing ==   \* mutant: the token is fetched only if there is none
    IF token = "" THEN FetchAuthToken("resent")
    ELSE conn' = "resent" /\ UNCHANGED <<token, mainVars>>
Refresh == FetchAuthToken("resent")

\* This happens as well when the stream was cancelled in the meantime.
RefreshToken ==
    /\ ~Ended /\ conn = "refused"
    /\ Refresh
    /\ UNCHANGED orgVars

\* No answer to a request (within a minute), or no good one to the second.
NoAnswer ==
    /\ conn \in {"sent", "resent"}
    /\ conn' = "closed"
    /\ UNCHANGED <<token, mainVars, orgVars>>

\* An open stream breaks off, or is cancelled.
BreakOff ==
    /\ conn = "open"
    /\ conn' = "closed"
    /\ UNCHANGED <<token, mainVars, orgVars>>

ExpireToken ==
    /\ token = "valid"
    /\ token' = "expired"
    /\ UNCHANGED <<conn, mainVars, orgVars>>

Answer == Accept("sent") \/ Accept("resent") \/ Refuse

StreamStep ==
    ~Ended /\ (SendRequest \/ Answer \/ NoAnswer \/ RefreshToken \/ BreakOff \/ ExpireToken)

-----------------------------------------------------------------------------
(* The org collector, once it is started                                   *)

Beside == UNCHANGED <<mainVars, streamVars>>
Collecting == collector /\ ~Ended

CollectorStep == Collecting /\ RunStep /\ Beside
CollectionStep(p) == Collecting /\ PushStep(p) /\ Beside
StorePackage == ~Ended /\ Store /\ Beside

-----------------------------------------------------------------------------

StartupStep ==
    \/ NewClient \/ NewDCAClientFails \/ GetVersionSucceeds \/ GetVersionFails
    \/ VersionTick \/ StartFirehoseConsumer \/ StartWorkers

ShutdownStep == CloseStream \/ StopWorkers \/ StopCollector \/ FinalFlush

\* Once the process has ended nothing happens any more.
LifecycleNext ==
    \/ StartupStep \/ StopNozzle \/ ShutdownStep \/ CollectorStopped
    \/ StreamStep
    \/ CollectorStep \/ (\E p \in Pushes : CollectionStep(p)) \/ StorePackage

\* Start is sequential code whose requests are answered; nothing forces Stop().  A
\* select picks each ready case again and again, jitterWait is finite, a place that
\* becomes free in the channel again and again is taken.  go-loggregator reconnects
\* for ever, every request times out, and a gateway that is asked again and again
\* answers, and accepts a good token.
LifecycleFairness ==
    /\ WF_lifecycleVars(StartupStep) /\ WF_lifecycleVars(ShutdownStep)
    /\ SF_lifecycleVars(CollectorStopped)
    /\ WF_lifecycleVars(CollectorStep) /\ WF_lifecycleVars(StorePackage)
    /\ \A p \in Pushes : SF_lifecycleVars(CollectionStep(p))
    /\ WF_lifecycleVars(SendRequest) /\ WF_lifecycleVars(RefreshToken)
    /\ WF_lifecycleVars(~Ended /\ (Answer \/ NoAnswer))
    /\ SF_lifecycleVars(~Ended /\ (Accept("sent") \/ Refuse))
    /\ SF_lifecycleVars(Accept("sent") \/ Accept("resent"))

LifecycleSpec == LifecycleInit /\ [][LifecycleNext]_lifecycleVars /\ LifecycleFairness

-----------------------------------------------------------------------------
(* Properties                                                              *)

LifecycleTypeOK ==
    /\ OrgTypeOK
    /\ config \in Configs /\ attempts \in 0..VersionRetries /\ {tickDue, collector} \subseteq BOOLEAN
    /\ main \in Startup \cup {"run", "close", "stopWorkers", "stopCollector", "flush",
                              "returned", "failed", "exited"}
    /\ conn \in {"closed", "sent", "refused", "resent", "open"}
    /\ token \in {"", "valid", "expired"}

Serving == main \in Startup \cup {"run"}

\* Start gets to its loop or ends the process, whichever clients cannot be made: it
\* makes a client twice, and NewDCAClient retries.
StartupEnds == <>(main \notin Startup)

\* The stream is open again sooner or later after it broke off or the token expired,
\* unless somebody stops the nozzle or the process ends because no token was given.
StreamRecovers == main = "run" ~> conn = "open" \/ main # "run"

\* An org that a collection listed together with its quota gets its metric, although
\* the quotas of other orgs are unknown, collections overlap, the channel is full or
\* nobody reads it yet; unless the nozzle stops.
OrgsReported ==
    \A p \in Pushes, o \in Orgs :
        Answered(p) /\ o \in allOrgs[p] /\ QuotaOf[o] \in allQuotas[p]
            ~> <<p, o>> \in stored \/ ~Serving

\* Start returns after Stop(), although collections are blocked on the channel that
\* nobody reads any more, or wait for their jitter, and Do is in the middle of a
\* request.
ShutdownCompletes == main = "close" ~> Ended
=============================================================================

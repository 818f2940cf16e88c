# A TLA+ model of the Datadog Firehose Nozzle

The nozzle reads envelopes (metrics and logs) from the Cloud Foundry firehose, turns them into
Datadog metrics and logs, and posts them to one or more Datadog accounts at every flush. This
directory models the Go code of this repository in TLA+, checks it with TLC on small instances,
and proves the main results with TLAPS for every value of the constants. `PROJECT.json` gives, for
each definition, the lines of code it models, and lists the hazards of the code and the runs.

Run from this directory, for example

    tlc -config MCNozzle_safety.cfg MCNozzle.tla
    tlapm NozzleProofs.tla

## 1. Inventory

### Components, their state and operations

| Component | Code | State | Operations |
|---|---|---|---|
| Nozzle pipeline | `internal/nozzle/nozzle.go`, `workers.go` | the channels `messages`, `processedMetrics`, `processedLogs`, `stopper`, `workersStopper`; `metricsMap`, `logsBuffer`, `totalMessagesReceived` under `mapLock`; the atomic `slowConsumerAlert` | `Start`, `Stop`, `run`, `work`, the two readers, `postMetrics`, `postLogs`, `startWorkers`, `stopWorkers` |
| Delivery accounting | `nozzle.go` | `metricsSent`, `metricsDropped`, `totalMetricsSent` and the same for logs, of the main goroutine | the loops of `postMetrics` and `postLogs` over `ddClients` |
| Datadog formatter | `client/datadog/formatter.go` | none (recursive functions) | `FormatMetrics`, `FormatLogs` and their halving |
| Datadog client | `client/datadog/client.go` | the retrying HTTP client | `PostMetrics`, `PostLogs`, `MakeInternalMetric`, `NewClients` |
| Processor | `processor/processor.go` | references to the app cache and custom tags | `ProcessMetric`, `ProcessLog`, `StopAppMetrics` |
| Application cache | `processor/parser/app.go` | `apps`, `warmedUp` under the cache lock; the fields of each `App` under its own lock; `stopper`, `done` | `Add`, `Get`, `SetWarmedUp`, `updateCacheLoop`, `warmupCache`, `getAppData`, `Parse`, `Stop` |
| Infrastructure parser | `processor/parser/infra.go`, `util.go` | none | `ParseMetrics`, `ParseLog` |
| Cloud Foundry client | `client/cloudfoundry/client.go` | `ApiVersion` | `GetApplications` (v3 with fallback to v2), `GetApplication`, `GetV3Orgs`, `GetV2OrgQuotas` |
| Cluster Agent client | `client/cloudfoundry/dca_client.go` | its version and headers | `NewDCAClient` with its retries; the same requests, over the Cluster Agent |
| Loggregator client | `client/cloudfoundry/loggregator_client.go` | the token, the cancel function | `EnvelopeStream`, `Stop`, `Do` (token refresh) |
| UAA token fetcher | `uaatokenfetcher/*.go` | none | `FetchAuthToken`, which ends the process when it fails |
| Org collector | `orgcollector/orgcollector.go` | `stopper`, the shared `processedMetrics` | `Start`, `Stop`, `run`, `pushMetrics` |
| Metric map | `metric/metric.go` | none of its own | `MetricsMap.Add`, `Point.MarshalJSON` |
| Configuration | `config/config.go` | a global `NozzleConfig` | `Parse` |
| BOSH tags, logger, util, main | `tags`, `logger`, `util`, `main.go` | none that lasts | formatting, output, a jittered ticker |

### How they interact

    firehose --es()--> copier --messages--> workers --processedMetrics--> reader --metricsMap--+
                                              |  \---processedLogs------> reader --logsBuffer--+-> main: flush
                              app cache <-----+          ^                                     |
                                  ^                      |                                     v
            updater --GetApplications--> CF client   org collector              formatter -> Datadog clients

Everything but the two locks of the cache, `mapLock` and the atomic alert is passed over channels.
The main goroutine flushes at every tick and, on `Stop()`, cancels the stream, stops the updater of
the cache, hands one stop message per goroutine over the shared `workersStopper` (giving up after
`WorkerTimeoutSeconds`), stops the org collector and flushes once more. `main` returns when `Start`
does, and a token that cannot be fetched, or a Cluster Agent that never answers, ends the process
from any goroutine.

### What is hard, and what makes each component correct

* **Pipeline.** A dozen goroutines and three bounded channels, flushes concurrent with the readers,
  a stop message that any goroutine may take. Correct when no envelope is lost, doubled or handed
  over twice; when what is published about a flush belongs to it; when a shutdown terminates, stops
  every goroutine before the final flush unless it timed out, and leaves nothing in the buffers; and
  when an alert is reported before it is unset.
* **Accounting.** Counters that are reset in the middle of the loop over the clients, before the post
  that carries their values. Correct when every item is counted exactly once, as sent or as dropped,
  and when the totals agree with these counts. A post that fails loses the counts in it, and what the
  formatter drops counts as sent: the code does not claim more.
* **Formatter and Datadog client.** Recursive halving of odd sizes, partial failures, retries of
  requests that may have been accepted. Correct when splitting partitions the data, when the number
  reported as unsent is right, when copies are bounded, and when posting ends.
* **Application cache.** Two locks that do not exclude each other, fetches in flight that overwrite
  newer data, updates that fail half-way. Correct when packages carry complete tags and their own
  host, when the flag does not promise what is not there, and when the cache converges.
* **Log tags.** `append` on slices that share an array with the app cache, with other workers and
  with the custom tags. Correct when a log carries its own instance index and only tags of its app.
* **Cloud Foundry client.** Four concurrent requests against a changing world; pages that shift
  while they are read; parallel paging. Correct when what existed all along is listed completely, as
  far as reading page by page allows it, labels follow their precedence, no page is skipped or fetched
  twice, and the paging ends.
* **Org collector.** Overlapping collections on a bounded channel whose reader is stopped first.
  Correct when orgs are reported until then and `Stop()` returns nevertheless.
* **Start and stream.** A client is made twice, with retries that may end the process; the token
  expires unnoticed until the gateway refuses a request. Correct when startup ends, the stream comes
  back, and a shutdown completes whatever collector and stream are in the middle of.

## 2. Modules

| Module | Extends / instantiates | Models |
|---|---|---|
| `Delivery` | | abstract: what the nozzle promises about an envelope |
| `Nozzle` | `Delivery` (refinement) | the pipeline and the shutdown |
| `NozzleProofs` | `Nozzle`, TLAPS | its theorems |
| `Telemetry`, `TelemetryProofs` | | the accounting and its theorems |
| `Formatter`, `FormatterProofs` | | formatter and Datadog client, and their theorems |
| `AppCache`, `AppCacheProofs` | | application cache and parser, and its theorems |
| `LogTags`, `LogTagsProofs` | | the tags of a log in `ProcessLog`, and its theorems |
| `CFClient`, `CFClientProofs` | | `GetApplications` and the v3 join, and its theorems |
| `V3Paging` | | the paging of one v3 list |
| `V2Listing` | | the parallel v2 paging inside `getV2Applications` |
| `OrgCollector` | | the org collector, as a component |
| `Lifecycle`, `LifecycleProofs` | `OrgCollector` | startup, stream, org collector and shutdown together, and their theorems |
| `MCNozzle`, `MCLifecycle`, `MCLogTags` | the module named | values of constants and symmetry for TLC |
| `MCListing` | `CFClient`, `V3Paging`, `V2Listing` | the three parts of a listing, side by side |
| `ListingProofs` | `MCListing`, `CFClientProofs` | theorems of `V3Paging`, `V2Listing` and `MCListing` |

A definition marked `mutant` is a deliberately wrong variant of the one that follows it, the kind of
bug the property named in `PROJECT.json` is there to catch. No specification uses it.

### Nozzle

An envelope is its position in the stream and keeps this name as a package or log message, so that
"lost" and "duplicated" can be said at all. `pc[g]` says where a goroutine is (`select`, `work`,
`sendMetrics`, `sendLog`, `store`, `stopped`) and `hand[g]` what it holds between two steps; `main`
is the program counter of `Start`/`run`. A region under `mapLock` never blocks and touches only what
the lock protects, so each is one action (`StoreMetrics`, `StoreLog`, `FlushMetrics`, `FlushLogs`).
Sends and receives are separate actions, since a goroutine can be held up at each. The load of the
alert and the post to one client are one action per client (`PostToClient`), its reset another
(`FinishMetrics`, `FinishLogs`), so that a worker can raise it in between. `Kind` says what an
envelope holds, which fixes the branches of `work`; whether the app cache knows an app, and whether
an app turned its logs off, are choices here. A worker's time-out in `stopWorkers` may happen at any
moment of the wait (`StopTimeout`), also when a goroutine is just slow.

### Telemetry

Only the main goroutine touches these counters, so a client's turn is one action; how many items
there are is arbitrary, and so is what becomes of each. `delivered`, `refused` and `dropped` are
history variables with the three fates an item can have: it is in a post that succeeds, in one that
fails and is reported as unsent, or the formatter leaves it out (too large, or impossible to format),
which `PostMetrics` and `PostLogs` report to nobody. `Formatter` is where these fates come about. The internal metrics have a fate as well: the
counters restart before the post that carries their values, so `published` sums the COUNT metrics that
arrive and `lost` those that do not; no later metric makes up for them. `InternalMetrics` is
the number of entries an iteration adds to the map; all clients share deployment, IP and tags, so
the entries of the next client replace them.

### Formatter

`logs`, chosen at the start, says whether the call is `PostLogs` or `PostMetrics`. The recursion is
an explicit stack (`todo`), so that the module has no recursive operator. Whether
the compressed batch fits is decided either way when it is formatted. The map order is random in
Go, hence `FirstHalves` for metrics is any half and `BareSets` any set of metrics that can follow a
`bosh.healthmonitor` metric; logs are halved by position. A request that is retried (no answer, 429,
or the 500 range) may or may not have been accepted. `backoff` is the wait before the next retry,
doubled each time and cut to `WaitMax`, and `waited` what one request has waited so far. A
`Retry-After` header, which the library obeys instead, is not modelled, and the requests themselves
take time as well: `RetriesWithinFlush` is about the waits of one request only.

### AppCache

The data of an app is abstracted to a version. `setAppData` holds the cache lock and `Parse` the
App's lock, which do not exclude each other: `AddExisting`/`Set` are the two ends of an update, and
a `Parse` in between reads the old version, the new one or a mixture, per part. Adding a new app is
one action because the object is not shared before it enters the map. `Incomplete` versions lack one
of the six required tags: `setAppData` then changes the figures and leaves the tags.

### LogTags

`cfapp.Tags`, `append(appTags, ...)` and `append(p.customTags, ...)` are slices, and `append` writes
into the array of its argument when that has room. `spare` is how many places there are behind the
tags of an app. For tags that are appended one by one the Go runtime gives capacities 1, 2, 4, 8, 16,
32, and an app has six tags at least: there are three free places or more with 9 to 13 or 17 to 29
tags, one or two with 6, 7, 14, 15, 30 or 31, and none with 8, 16 or 32.
`customRoom` is the same for the custom tags, which need room for all the tags of an app. `shared[w]` says whether a worker's `appTags` is
still the array of the cached app, in which case every worker with a log of this app writes to the
same places. `cached[a]` keeps all arrays an app has had, as a worker may still use an old one.
`AppendTag`, `CopyTag` and `JoinTag` are one entry each, since other workers may run between any two.

The array of an app with three free places is shared to the end, and a log may then carry the
instance index of another log of the same app; with room behind the custom tags, the tags of
different apps may mix. The properties state what holds in between, and their preconditions
(`spare < 3`, `~customRoom`) are exact: TLC refutes both without them.

### CFClient, V3Paging and V2Listing

The Cloud Controller creates and deletes apps, spaces and orgs at any moment (an org is deleted
after its spaces, a space after its apps). In `CFClient` each of the four goroutines reads its list page
after page (`FetchPageOf`), interleaved with the others and with these changes. `Rank` is the order in
which the API sorts a list, a constant, so that a page is what stands between two positions at the
moment it is asked for. Labels and annotations are treated alike in the code and are one thing here.
`stable` collects what existed during the whole call, and `shifted` the lists from which an entry of a
page already read was deleted: what follows then moves to the front, and an entry that existed
throughout may move into that page and be skipped. `StableAppsComplete` says that nothing else makes an
app incomplete: for each part of the result, its list was not `shifted`. The condition is needed, as TLC
refutes the property without it. `CFClient` joins sets, so that an entry that is listed twice is
`V3Paging`'s.

`V3Paging` looks into one list: its entries may appear anywhere, the request of a page and the
conversion of its entries are separate steps, and with `advancedTagging` each app costs a further
request in between, which fails when the
app is gone. `V2Listing` has the arithmetic of the page ranges as written, the unsynchronised
read and write of `append` as two steps, and pages that fail.

The three share no state. `MCListing` lets the initial state choose which part runs, so that one run
covers them all.

### OrgCollector and Lifecycle

Each `pushMetrics` is a process of its own; its two requests return anything from `OrgAnswers` and
`QuotaAnswers`, the empty list of an error included.

`Lifecycle` is the process around it. `main` is where `Start` is: it makes a client for itself and
one for the collector (`NewClient`, or `NewDCAClient` with its retried `GetVersion` and the
`os.Exit(1)` after the last), starts the stream, the workers and the loop, and shuts down in the
order of `nozzle.go`. `conn` and `token` are the stream: `go-loggregator` calls
`rlpGatewayClientDoer.Do` over and over, `Do` fetches a token when it has none, and after any status
from 400 on it fetches one and sends the request once more. `readerRunning` is all it keeps
of the workers and readers, which `Nozzle` models; the flushes are `Nozzle`'s as well. The reader of
`processedMetrics` is stopped before the collector, so collections may hang on a full channel until
the process ends. After `returned`, `failed` or `exited` nothing happens, and deadlock is not checked.

## 3. What the runs check

| Run | Shows |
|---|---|
| `MCNozzle_safety` | `TypeOK`, `OnePlace`, `TotalMatchesSnapshot`, `StoppedBeforeFinalFlush`, `TimeoutMeansRunning`, `NothingLeftInCache`; `DeliveryPromise`: every step is a step of `Delivery` (a discard, the begin of a flush of what was never flushed before, its end) or a stutter |
| `MCNozzle_live` | `MetricsReachDatadog`, `ShutdownTerminates`, `IdleAlertReachesEveryClient`, with two clients |
| `Telemetry_many` | `CountsAddUp` (every item is counted once, in a COUNT metric that arrived, in one that was lost, or in a counter), `TotalLogsExact` (the logs no client reported as unsent), with several clients |
| `Formatter_posts` | `SplitPartitions`, `UnsentExact`, `CopiesBounded`, `RetriesWithinFlush`, `PostingEnds`, for metrics and for logs |
| `AppCache_races` | `PackagesTagged`, `HostMatchesEnvelope`, `WarmedUpMeansLoaded`, `CacheConverges`, `UpdaterStops` |
| `MCLogTags` | `OwnInstanceIndex`: a log has its own instance index where `append` copies; `OnlyTagsOfItsApp`: tags of apps do not mix |
| `MCListing` | `LabelPrecedence`, `StableAppsComplete`, `FallbackOnlyOnce` (CFClient); `PagesAddUp`, `PagingEnds` (V3Paging); `EveryPageOnce` (V2Listing) |
| `MCLifecycle` | `StartupEnds`, `StreamRecovers`, `OrgsReported`, `ShutdownCompletes` |

`PagesAddUp` says what shifting pages can do and no more: an entry is skipped only after a deletion,
and collected twice only after an insertion. `setV3ProcessData` counts a process that was collected
twice twice; the code has no protection, and the next listing repairs it.

Four runs end in a violation, on purpose: they state what a comment or a test of the repository says
and the code does not do.

| Run | What it shows |
|---|---|
| `MCNozzle_tokens_missing` | application logs on, no log intake: one stop message is missing and a goroutine runs on during the final flush |
| `MCNozzle_alert` | an alert raised while a flush is being posted is reset without being sent |
| `Telemetry_total` | with two clients, `totalMetricsSent` counts only the last client's metrics once it is positive |
| `Formatter_prefix` | a `bosh.healthmonitor` metric strips the prefix from the metrics after it in the same payload |

The opposite mismatch of the configuration (a log intake, but no application logs) makes
`stopWorkers` wait for a logs reader that was never started: all goroutines have stopped, the last
stop message times out, and the log reports a crashed worker.

### Bounds, and why they are enough

* Nozzle: two workers (the least at which envelopes overtake each other and a worker can stop while
  the other works), channels of capacity 1 (every blocking send occurs), batches of up to 2, 3 to 5
  envelopes (one of each kind that `work` tells apart, and more than a channel holds), 1 or 2
  clients. Workers are symmetric in the safety runs; the proofs cover all other values.
* Telemetry: 2 clients and 2 flushes of up to one item besides the internal metrics; in each post up
  to 2 items are refused and 2 dropped (1 each in `Telemetry_total`), the COUNT metrics among them or
  not. A counter's reset and its next use are one flush apart. Proved for every value.
* Formatter: up to 5 items (odd and even halves, three levels), one malformed and one
  `bosh.healthmonitor` metric, the code's 3 retries, and a flush of 15 units, which is divisible
  neither by 7 nor by 2. Proved for every number of items and every interval.
* AppCache: two workers and one app (all races are about one App object; apps are only ever added),
  two hosts, three versions of which the middle one is incomplete, so that an update can fail between
  two that succeed.
* LogTags: two workers, two logs of one app and one of another, so that arrays are shared within an
  app and not between apps; two and three free places (the last that copies and the first that does
  not); one update per app. Proved for every value.
* CFClient: two apps in different spaces of one org, in pages of one entry (a page
  behind and a page ahead, which is empty after a deletion), processes sorted the other way round than
  their apps, a label for every set of levels. The number of listings is not bounded; only their count is cut
  off at 2.
* V3Paging: up to 5 entries in pages of 2, hence up to three pages; up to 5 entries at the start or
  created later, any number of them deleted.
* V2Listing: every number of pages and of workers up to the bounds, zero workers and more workers
  than pages included.
* Lifecycle: two overlapping collections, two orgs with different quotas, answers that lack one quota
  or everything, capacity 1, 2 retries of `GetVersion`, and four configurations: a Cluster Agent with
  its token and a gateway or with neither (then there is nothing to stream from), and a Cloud
  Controller with access control or without.

### Fairness

Weak fairness of each goroutine's steps: the Go scheduler runs every goroutine that can run, and
requests end (they have time-outs). Strong fairness where a `select` competes with other ready
cases: it picks one at random, so a case that is ready again and again is taken (`ReceiveStop`,
`StopUpdater`, `CollectorStopped`); a sender on a full channel is served in turn (the steps of a
collection); an API that is asked again and again answers at some time (`List`, needed only for
`CacheConverges`), and a gateway that is asked again and again answers, and accepts a good token
(`StreamRecovers`). That a token is fetched again and again without ending the process is not
assumed: the end of the process is one of the outcomes these properties allow. The locks of the
cache need no more than weak fairness: a cached app is never fetched again, so workers take the write
lock only finitely often. Nothing forces anyone to call `Stop()`, an app to change, an envelope to
arrive for an app, a list to settle or a retry to succeed.

## 4. What is proved

Eight modules of proofs are checked by TLAPS, from the named `ASSUME`s of the modules only, which TLC
evaluates on every run. They say no more than what the constants are: the workers are finitely many and
none of them is a reader, the updater or "nobody"; sizes are naturals, those of channels, batches and
pages positive; `Kind`, `AppOf`, `SpaceOf`, `OrgOf` and `QuotaOf` are total functions; `Bosh`,
`Malformed`, `Configs` and the answers of the API are sets of the right things; no app has the GUID of a
space; and the apps, spaces and orgs are finitely many, in an order of their own in each list (`Rank`). In each module the invariant that is proved inductive was first checked by TLC on the run of its
component.

* `TypeCorrect`: `Spec => []TypeOK`. `TypeOK` is strengthened with `HandOK` (a goroutine holds
  something exactly outside its `select`), without which a send could append "no envelope".
* `NothingLostOrDuplicated`: `Spec => []OnePlace`. The inductive invariant `PlaceInv` adds the type
  invariant and that `posting` is empty outside a flush, which the next flush overwrites. `OnePlace` itself carries the count of places and the
  injectivity of the channels: the count alone is not inductive, since a channel with two copies
  counts once. Each action moves envelopes from one place to another; the lemmas `SendElements` and
  `ReceiveElements` say what that does to a channel, `HandExchange` what it does to the hands.
* `KeepsDeliveryPromise`: `Spec => DeliveryPromise`, step by step from `PlaceInv`: what a flush takes
  from `metricsMap` or `logsBuffer`, or a worker discards, was in no other place, hence never flushed
  or discarded before.
* `StopsBeforeFinalFlush`, `TimeoutIsJustified`, `FinalFlushEmptiesCache`: under
  `EnableApplicationLogs = LogIntakeConfigured`, which `MCNozzle_tokens_missing` shows to be needed. The
  invariant `StopInv` counts stop messages: their number is that of the stopped goroutines, so that as
  many messages as goroutines mean that all have stopped.
* `TotalBelongsToSnapshot`: `TotalInv` says that `totalMessagesReceived` is the number of envelopes in
  `submitted`, `posting`, `metricsMap` and `logsBuffer`. A reader that stores adds one that was in none
  of them, by `PlaceInv`, and a flush moves envelopes among them, because `posting` is empty before.
* `TelemetryTypes`, `CountsNeverDrift`, `TotalLogsCorrect`, and `TotalMetricsCorrect` for one client (with
  two, `Telemetry_total` refutes it), from invariants
  that relate the counters to the history variables at each phase. Both exactness results are about
  what no client reported as unsent; they do not say that Datadog has it, because a formatter may have
  dropped it. `CountsNeverDrift` adds that no count is lost before some metric is refused or dropped:
  `PublishedOrLost` says that a counter goes to one of the two sums, and `FatesAre` what a post adds.

* `FormatterTypes`, `SplittingPartitions`: the invariant `Base` says that the batches of `todo` and
  `payloads`, the dropped and the lost items are pairwise disjoint (`Apart`), and together the data.
  Counting occurrences, as `SplitPartitions` does, follows from disjointness by `CountOnce`; lemmas on
  `Head`/`Tail` and `Append` say which items a sequence of batches holds after a step.
* `CopiesAreBounded`: the items of payload `next` have at most `attempt` copies, those after it none;
  an item in two payloads would get twice as many, so this needs the partition. `UnsentIsExact`: the
  sum over the posted payloads, again because they are disjoint.
* `RetriesFitFlush`: for `RetryMax <= 3` the waits are at most 1, 2 and 4 sevenths of the flush
  interval, the last cut to half of it. A fourth retry would wait half an interval more, and exceed it.
* `LogTagTypes`, `OwnInstance`, `TagsOfOwnApp`: every write into an array, by whichever worker, puts
  an entry there that belongs to the app and the place (`CachedOK`, `Progress`), so a place that was
  filled stays filled, although its entry may change. A worker whose app has fewer than three places
  left has had to copy before its last entry, which from then on only it can change (`OwnIndex`).

* `CacheTypes`, `HostIsOwn`, `PackagesComplete`, `WarmupIsComplete` of AppCache, from one invariant that
  says what each program counter implies: `AppCache.lock` is held exactly during `setAppData` on a cached
  App (`Locked`); a worker reaches `Parse` with an app that is cached, and in it has that app's lock and
  its own host in the App (`AtWork`); a cached App has figures and tags, the tags of complete versions
  only (`Loaded`), and a mixture of two such versions is still of complete ones. Until the flag is raised,
  each complete app of the first listing is in the cache, in the rest of the listing, or in the updater's
  hand (`WarmingUp`).
* `ClientTypes`, `LabelsOfMostSpecific`, `StableAppsListed`, `FallbackOnce` of CFClient. An app that stays
  is complete because the Cloud Controller keeps an app with its space and a space with its org, hence
  what stays is closed under that (`Closed`, `StableClosed`), and each list that was not `shifted` has so
  far all of it that stands before the next page (`Listed`): a creation moves entries to later pages
  only (`CreationMovesBack`), and a deletion behind the pages read leaves those in them
  (`DeletionBehind`). After the last page that is the whole list (`LastPageIsLast`). The labels follow from lemmas about `Merge`, level by level. `VersionChosen` says that the
  version is 0 or 3 between calls, and 3 after the first success: version 2 is never kept.
* `PagesAddUpAlways`: what was collected is counted against places in the list. The first `Seen` places
  lose no entry without a deletion, and an entry that stays moves out of them only by an insertion;
  `NoneSkipped` and `NoneTwice` say so of every state between two pages, while `SameList` says that
  without changes the pages collected are a prefix of the list. The lemmas say what inserting, removing
  and cutting out a page do to a sequence.
* `EveryPageOnceAlways`: the ranges, of the quotient rounded up and cut off after the last page (so that the
  last ones may be empty), partition the pages from 2 on for every number of pages and workers; `RangeInv` keeps a
  goroutine in its range, `MutexInv` says that who holds the mutex has read the results as they are, so
  that no append is lost, and `ResultsInv` adds up what the goroutines tried.
* `ListingTypes`: the three parts of `MCListing` keep their types side by side.
* `LifecycleTypes`, `CollectorStopsBeforeNozzle` (the final flush comes after the end of the collector's
  loop, if the collector was started) and `RequestsCarryToken` (no request without a token unless access
  control is disabled). `StopInv` relates the place of `Start` to the collector's stop message and loop,
  which run in different goroutines.

Only model-checked: the liveness properties (`MetricsReachDatadog`, `ShutdownTerminates`,
`IdleAlertReachesEveryClient`, `PostingEnds`, `CacheConverges`, `UpdaterStops`, `PagingEnds`, `StartupEnds`,
`StreamRecovers`, `OrgsReported`, `ShutdownCompletes`), since fairness and `ENABLED` are out of the
prover's reach. Every other property of a passing run is proved for every value of the constants.

## 5. What is not modelled

* Names, tags, hosts, JSON and zlib: data the properties do not tell apart. A metric keeps its
  envelope's name; merging points of equal keys is not visible.
* In LogTags an update keeps the number of tags of an app. With another number, a worker may read the
  new pointer with the old length (`atomicity` at `processor.go:133`), whose outcome is undefined.
* What is left in the channels at shutdown is not submitted. The model shows where it stays
  (`OnePlace`), but nothing in the repository promises that channels are drained.
* The configuration (`config.go`): sequential parsing without later state. Two values are worth a
  remark: `FlushDurationSeconds` of zero makes `time.NewTicker` panic (`nozzle.go:204`), and a number
  of workers from the environment is not checked.
* `NewClients`, proxies and URL building of the Datadog client. Additional endpoints are a map and
  their log intakes a list (`client.go:143`), paired in the random order of the map.
* The requests of the Cluster Agent client: one each, without state. `GetApplications` of this client
  changes copies of the entries it received (`dca_client.go:160`), so that the change is lost.
* Flushes and channels of logs in `Lifecycle`, which `Nozzle` has, and the updater of the cache in it:
  its `Stop()` is `UpdaterStops` of AppCache.
* `Fatalf` of the logger and `os.Exit` are taken to end the process at once.
* Apps are never removed from the cache, deleted ones included. It is meant to hold every app.
* Overlapping collections may send the older answer last; nothing in the code orders them.
* The order in which the API sorts lists: it is not known from this code. The theorems of CFClient hold
  for every order, as long as it does not change; V3Paging lets new entries appear anywhere.
* In Telemetry a post that is refused counts as such even if Datadog accepted it and the answer was
  lost; copies are `Formatter`'s.
* Logging, BOSH tags, tag hashing and filtering: pure functions on strings, or output.

## 6. Plan

The pipeline with its refinement and proofs came first, then accounting, formatter, cache, client and
collector, then the tags of logs, v3 paging, and the life of the process with stream and token.
The safety properties of all of them are proved.
Next, in this order:

1. An abstract specification of a listing (at least what stays, at most what was there), which `CFClient`
   and `V3Paging` implement as long as nothing is deleted from a page already read, with the refinements
   proved.
2. Action properties of `Lifecycle` and `OrgCollector` about what was sent and stored: a collection that
   returned with orgs and quotas is stored once.

------------------------------- MODULE AppCache -------------------------------
(***************************************************************************)
(* The cache of applications of internal/processor/parser/app.go: the      *)
(* goroutine that refills it from the API at every tick, and the workers   *)
(* that parse container metrics with it and fetch the apps it misses.      *)
(*                                                                         *)
(* The data the API gives for an app is abstracted to a version number,    *)
(* which grows with every change.  setAppData writes it into the App in    *)
(* two parts: figures (instances, disk, memory, names) and then tags.  It  *)
(* runs under the cache's lock, while Parse reads under the App's lock, so *)
(* that a read may meet a half-written part: a part read is the set of the *)
(* versions it is made of.                                                 *)
(***************************************************************************)
EXTENDS Naturals, FiniteSets

CONSTANTS
    Workers,       \* goroutines that call ProcessMetric
    Apps,          \* GUIDs
    Hosts,         \* hosts an app's instances run on
    MaxVersion,    \* bound: changes of an app's data
    Incomplete,    \* versions without one of the six tags every app must have
    Updater,       \* the goroutine of updateCacheLoop
    Nobody         \* no goroutine holds the lock

Goroutines == Workers \cup {Updater}
Version == 1..MaxVersion
Complete == Version \ Incomplete
NotCreated == 0

ASSUME AppCacheAssumption ==
    /\ MaxVersion \in Nat
    /\ Updater \notin Workers /\ Nobody \notin Goroutines

VARIABLES
    api,           \* version of each app at the API, NotCreated at first
    apps,          \* keys of AppCache.apps
    figures,       \* the two parts of each App
    tags,
    host,          \* App.Host
    warmedUp,
    lock,          \* who holds AppCache.lock for writing between two steps
    appLock,       \* who holds App.lock
    pc,
    listing,       \* apps the warmup still has to add
    item,          \* the app and version a goroutine is adding
    envelope,      \* the app and host of the last envelope a worker parsed
    package,       \* what Parse returned for it
    listed,        \* complete apps of the first listing the API returned
    stopper,       \* messages in the channel stopper, of capacity 1
    done           \* the channel done is closed

cache == <<apps, figures, tags>>
workerVars == <<host, appLock, envelope, package>>
stopVars == <<stopper, done>>
vars == <<api, cache, workerVars, warmedUp, lock, pc, listing, item, listed, stopVars>>

NoData == {}
NoItem == <<>>
NoPackage == <<>>

Init ==
    /\ api = [a \in Apps |-> NotCreated]
    /\ apps = {} /\ figures = [a \in Apps |-> NoData] /\ tags = [a \in Apps |-> NoData]
    /\ host = [a \in Apps |-> Nobody]
    /\ warmedUp = FALSE /\ lock = Nobody /\ appLock = [a \in Apps |-> Nobody]
    /\ pc = [g \in Goroutines |-> IF g = Updater THEN "list" ELSE "idle"]
    /\ listing = {} /\ item = [g \in Goroutines |-> NoItem]
    /\ envelope = [w \in Workers |-> NoItem] /\ package = [w \in Workers |-> NoPackage]
    /\ listed = {} /\ stopper = 0 /\ done = FALSE

Goto(g, label) == pc' = [pc EXCEPT ![g] = label]

-----------------------------------------------------------------------------
(* The API                                                                 *)

\* Somebody creates the app or changes its data.
ChangeApp(a) ==
    /\ api[a] < MaxVersion
    /\ api' = [api EXCEPT ![a] = @ + 1]
    /\ UNCHANGED <<cache, workerVars, warmedUp, lock, pc, listing, item, listed, stopVars>>

-----------------------------------------------------------------------------
(* AppCache.Add, for the warmup and for a worker.                          *)

GotoAdded(g) == Goto(g, IF g = Updater THEN "add" ELSE "lockApp")
GotoFailed(g) == Goto(g, IF g = Updater THEN "add" ELSE "idle")

\* A new App enters the map once setAppData succeeded on it.
EntersFirst(v) == TRUE   \* mutant: it enters before that
Enters(v) == v \in Complete

AddNew(g) ==
    LET a == item[g][1]  v == item[g][2] IN
    /\ pc[g] = "adding" /\ lock = Nobody /\ a \notin apps
    /\ IF Enters(v)
         THEN /\ apps' = apps \cup {a}
              /\ figures' = [figures EXCEPT ![a] = {v}]
              /\ tags' = [tags EXCEPT ![a] = IF v \in Complete THEN {v} ELSE @]
         ELSE UNCHANGED cache
    /\ IF v \in Complete THEN GotoAdded(g) ELSE GotoFailed(g)
    /\ item' = [item EXCEPT ![g] = NoItem]
    /\ UNCHANGED <<api, workerVars, warmedUp, lock, listing, listed, stopVars>>

\* The cached App is overwritten field by field, whatever its version is.
AddExisting(g) ==
    /\ pc[g] = "adding" /\ lock = Nobody /\ item[g][1] \in apps
    /\ lock' = g
    /\ Goto(g, "set")
    /\ UNCHANGED <<api, cache, workerVars, warmedUp, listing, item, listed, stopVars>>

\* The end of setAppData: tags are assigned only if six were found, and figures
\* in any case.
SetTagsOnce(a, v) == tags' = [tags EXCEPT ![a] = IF @ = NoData THEN {v} ELSE @]   \* mutant
SetTags(a, v) == tags' = [tags EXCEPT ![a] = IF v \in Complete THEN {v} ELSE @]

Set(g) ==
    LET a == item[g][1]  v == item[g][2] IN
    /\ pc[g] = "set"
    /\ figures' = [figures EXCEPT ![a] = {v}]
    /\ SetTags(a, v)
    /\ lock' = Nobody
    /\ IF v \in Complete THEN GotoAdded(g) ELSE GotoFailed(g)
    /\ item' = [item EXCEPT ![g] = NoItem]
    /\ UNCHANGED <<api, apps, workerVars, warmedUp, listing, listed, stopVars>>

-----------------------------------------------------------------------------
(* updateCacheLoop and warmupCache                                         *)

\* GetApplications of the CF or the DCA client.
List ==
    /\ pc[Updater] = "list"
    /\ listing' = {<<a, api[a]>> : a \in {a \in Apps : api[a] # NotCreated}}
    /\ listed' = IF warmedUp THEN listed ELSE {a \in Apps : api[a] \in Complete}
    /\ Goto(Updater, "add")
    /\ UNCHANGED <<api, cache, workerVars, warmedUp, lock, item, stopVars>>

ListFails ==
    /\ pc[Updater] = "list"
    /\ Goto(Updater, "wait")
    /\ UNCHANGED <<api, cache, workerVars, warmedUp, lock, listing, item, listed, stopVars>>

\* The next app of the listing.
NextListed ==
    /\ pc[Updater] = "add"
    /\ \E app \in listing :
          /\ item' = [item EXCEPT ![Updater] = app]
          /\ listing' = listing \ {app}
    /\ Goto(Updater, "adding")
    /\ UNCHANGED <<api, cache, workerVars, warmedUp, lock, listed, stopVars>>

\* SetWarmedUp, after the last one.
WarmedUpFirst ==   \* mutant: the flag is set before the apps are added
    /\ pc[Updater] = "add" /\ lock = Nobody
    /\ warmedUp' = TRUE
    /\ Goto(Updater, IF listing = {} THEN "wait" ELSE "add")
    /\ UNCHANGED <<api, cache, workerVars, lock, listing, item, listed, stopVars>>
WarmedUp ==
    /\ pc[Updater] = "add" /\ listing = {} /\ lock = Nobody
    /\ warmedUp' = TRUE
    /\ Goto(Updater, "wait")
    /\ UNCHANGED <<api, cache, workerVars, lock, listing, item, listed, stopVars>>

\* case <-ticker.C, and jitterWait
Tick ==
    /\ pc[Updater] = "wait"
    /\ Goto(Updater, "list")
    /\ UNCHANGED <<api, cache, workerVars, warmedUp, lock, listing, item, listed, stopVars>>

\* Stop(), called once by stopWorkers: the channel is empty, it does not block.
StopCalledAgain == TRUE   \* mutant: every call of Stop sends, and none blocks
StopCalledOnce == stopper = 0 /\ ~done
Stop ==
    /\ StopCalledOnce
    /\ stopper' = stopper + 1
    /\ UNCHANGED <<api, cache, workerVars, warmedUp, lock, pc, listing, item, listed, done>>

\* case <-am.stopper
StopUpdaterBreak ==   \* mutant: break leaves the select and not the loop
    /\ pc[Updater] = "wait" /\ stopper = 1
    /\ stopper' = 0
    /\ UNCHANGED <<api, cache, workerVars, warmedUp, lock, pc, listing, item, listed, done>>
StopUpdater ==
    /\ pc[Updater] = "wait" /\ stopper = 1
    /\ stopper' = 0 /\ done' = TRUE
    /\ Goto(Updater, "stopped")
    /\ UNCHANGED <<api, cache, workerVars, warmedUp, lock, listing, item, listed>>

-----------------------------------------------------------------------------
(* parseAppMetric, getAppData and Parse                                    *)

\* A container metric of an app arrives; it is skipped until IsWarmedUp().
Arrive(w) ==
    /\ pc[w] = "idle" /\ lock = Nobody /\ warmedUp
    /\ \E a \in Apps, h \in Hosts : envelope' = [envelope EXCEPT ![w] = <<a, h>>]
    /\ package' = [package EXCEPT ![w] = NoPackage]
    /\ Goto(w, "get")
    /\ UNCHANGED <<api, cache, host, appLock, warmedUp, lock, listing, item,
                   listed, stopVars>>

\* AppCache.Get
Get(w) ==
    /\ pc[w] = "get" /\ lock = Nobody
    /\ Goto(w, IF envelope[w][1] \in apps THEN "lockApp" ELSE "fetch")
    /\ UNCHANGED <<api, cache, workerVars, warmedUp, lock, listing, item, listed, stopVars>>

\* GetApplication of the client
Fetch(w) ==
    LET a == envelope[w][1] IN
    /\ pc[w] = "fetch" /\ api[a] # NotCreated
    /\ item' = [item EXCEPT ![w] = <<a, api[a]>>]
    /\ Goto(w, "adding")
    /\ UNCHANGED <<api, cache, workerVars, warmedUp, lock, listing, listed, stopVars>>

FetchFails(w) ==
    /\ pc[w] = "fetch"
    /\ Goto(w, "idle")
    /\ UNCHANGED <<api, cache, workerVars, warmedUp, lock, listing, item, listed, stopVars>>

\* App.lock is free.
AppFreeAlways(a) == TRUE   \* mutant: Parse does not lock the App
AppFree(a) == appLock[a] = Nobody

\* app.lock.Lock(); app.Host = parseHost(envelope)
LockApp(w) ==
    LET a == envelope[w][1] IN
    /\ pc[w] = "lockApp" /\ AppFree(a)
    /\ appLock' = [appLock EXCEPT ![a] = w]
    /\ host' = [host EXCEPT ![a] = envelope[w][2]]
    /\ Goto(w, "parse")
    /\ UNCHANGED <<api, cache, envelope, package, warmedUp, lock, listing, item, listed,
                   stopVars>>

\* What a read of a part of App a gives: while setAppData is writing it, the old
\* value, the new one or a mixture.
Read(part, a) ==
    LET written == {item[g][2] : g \in {g \in Goroutines : pc[g] = "set" /\ item[g][1] = a}}
    IN  {part[a], part[a] \cup written} \cup {{v} : v \in written}

\* A tag list is written only if the version is complete.
ReadTags(a) == {read \in Read(tags, a) : read \subseteq tags[a] \cup Complete}

\* getMetrics and parseContainerMetric, and the deferred Unlock.
Parse(w) ==
    LET a == envelope[w][1] IN
    /\ pc[w] = "parse"
    /\ \E f \in Read(figures, a), t \in ReadTags(a) :
          package' = [package EXCEPT ![w] =
              [host |-> host[a], figures |-> f, tags |-> t]]
    /\ appLock' = [appLock EXCEPT ![a] = Nobody]
    /\ Goto(w, "idle")
    /\ UNCHANGED <<api, cache, host, envelope, warmedUp, lock, listing, item, listed, stopVars>>

-----------------------------------------------------------------------------
\* The updater has returned and no metric is being parsed.
Terminated == done /\ (\A w \in Workers : pc[w] = "idle") /\ UNCHANGED vars

AddStep(g) == AddNew(g) \/ AddExisting(g) \/ Set(g)
UpdaterStep == List \/ ListFails \/ NextListed \/ WarmedUp \/ Tick \/ AddStep(Updater)
ParseStep(w) == Get(w) \/ Fetch(w) \/ FetchFails(w) \/ AddStep(w) \/ LockApp(w) \/ Parse(w)

Next ==
    \/ \E a \in Apps : ChangeApp(a)
    \/ UpdaterStep \/ Stop \/ StopUpdater \/ Terminated
    \/ \E w \in Workers : Arrive(w) \/ ParseStep(w)

Spec == Init /\ [][Next]_vars

\* Every goroutine that can run does, the ticker ticks, a select picks each of its
\* ready cases again and again, and the API does not fail for ever.  A worker that
\* began to add an app goes on; nothing forces it to fetch one.  The writers of the
\* cache need no strong fairness: a cached app is never fetched again, so only
\* finitely often does a worker hold the lock.
Fairness ==
    /\ WF_vars(UpdaterStep) /\ SF_vars(List) /\ SF_vars(StopUpdater)
    /\ \A w \in Workers : WF_vars(AddStep(w))

FairSpec == Spec /\ Fairness

-----------------------------------------------------------------------------
(* Properties                                                              *)

TypeOK ==
    /\ api \in [Apps -> 0..MaxVersion] /\ apps \subseteq Apps
    /\ figures \in [Apps -> SUBSET Version] /\ tags \in [Apps -> SUBSET Version]
    /\ host \in [Apps -> Hosts \cup {Nobody}]
    /\ warmedUp \in BOOLEAN /\ lock \in Goroutines \cup {Nobody}
    /\ appLock \in [Apps -> Workers \cup {Nobody}]
    /\ pc \in [Goroutines -> {"list", "add", "adding", "set", "wait", "stopped",
                              "idle", "get", "fetch", "lockApp", "parse"}]
    /\ listing \subseteq Apps \X Version
    /\ item \in [Goroutines -> (Apps \X Version) \cup {NoItem}]
    /\ envelope \in [Workers -> (Apps \X Hosts) \cup {NoItem}]
    /\ listed \subseteq Apps /\ stopper \in {0, 1} /\ done \in BOOLEAN

\* setAppData: a package is never made from an app without data, nor with the tags
\* of a version that lacks one of the six, whichever goroutine added the app and
\* whether or not an update of it failed half-way.
PackagesTagged ==
    \A w \in Workers : package[w] # NoPackage =>
        /\ package[w].figures # NoData
        /\ package[w].tags # NoData /\ package[w].tags \subseteq Complete

\* Parse: the host of a package is that of the instance its envelope came from,
\* although the workers store it in the App they share.
HostMatchesEnvelope ==
    \A w \in Workers : package[w] # NoPackage => package[w].host = envelope[w][2]

\* IsWarmedUp: "the cache has completed its first warmup cycle", so every app of
\* the first listing that has all its tags is in the cache, even if adding another
\* one failed.
WarmedUpMeansLoaded == warmedUp => listed \subseteq apps

\* Once an app's data changes no more, the cache ends up with it for good, although
\* a worker may overwrite it with older data it fetched; the updater is running.
CacheConverges ==
    \A a \in Apps : <>[](
        \/ stopper = 1 \/ done
        \/ /\ a \in apps => figures[a] = {api[a]}
           /\ api[a] \in Complete => a \in apps /\ tags[a] = {api[a]})

\* Stop() makes the updater return, even in the middle of a warmup.
UpdaterStops == stopper = 1 ~> done
=============================================================================

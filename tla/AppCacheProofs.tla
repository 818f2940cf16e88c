---------------------------- MODULE AppCacheProofs ----------------------------
(***************************************************************************)
(* Proofs about AppCache for any number of workers, apps, hosts and        *)
(* versions, whichever of these are incomplete.                            *)
(*                                                                         *)
(* The inductive invariant says what each program counter implies: who     *)
(* holds which lock, which item a goroutine adds, and that a worker gets   *)
(* to Parse with an app that is in the cache and has all its data.         *)
(***************************************************************************)
EXTENDS AppCache, TLAPS

Adding == {"adding", "set"}
WithEnvelope == {"get", "fetch", "adding", "set", "lockApp", "parse"}

\* The updater and the workers run different code.
Places ==
    /\ pc[Updater] \in {"list", "add", "adding", "set", "wait", "stopped"}
    /\ \A w \in Workers : pc[w] \in {"idle"} \cup WithEnvelope

\* AppCache.lock is held exactly while setAppData runs on a cached App.
Locked == \A g \in Goroutines : pc[g] = "set" <=> lock = g

Items ==
    \A g \in Goroutines : pc[g] \in Adding =>
        /\ item[g] \in Apps \X Version
        /\ pc[g] = "set" => item[g][1] \in apps

\* What a worker is doing to the app of its envelope.
AtWork(w) ==
    /\ pc[w] \in WithEnvelope => envelope[w] \in Apps \X Hosts
    /\ pc[w] \in Adding => item[w][1] = envelope[w][1]
    /\ pc[w] \in {"lockApp", "parse"} => envelope[w][1] \in apps
    /\ pc[w] = "parse" => /\ appLock[envelope[w][1]] = w
                          /\ host[envelope[w][1]] = envelope[w][2]

Loaded ==
    /\ \A a \in apps : figures[a] # NoData /\ tags[a] # NoData
    /\ \A a \in Apps : tags[a] \subseteq Complete

\* The updater still has to add the app, with all its tags.
Pending(a) ==
    \/ \E v \in Complete : <<a, v>> \in listing
    \/ pc[Updater] \in Adding /\ item[Updater][1] = a /\ item[Updater][2] \in Complete

WarmingUp ==
    ~warmedUp /\ pc[Updater] \in {"add"} \cup Adding =>
        \A a \in listed : a \in apps \/ Pending(a)

Base == TypeOK /\ Places /\ Locked /\ Items /\ (\A w \in Workers : AtWork(w)) /\ Loaded

Inv ==
    /\ Base
    /\ PackagesTagged /\ HostMatchesEnvelope
    /\ WarmedUpMeansLoaded /\ WarmingUp
-----------------------------------------------------------------------------
(* The goroutines, their locks and items: each step keeps Base.            *)

LEMMA ChangeAppKeepsBase ==
    ASSUME Base, NEW a \in Apps, ChangeApp(a)
    PROVE  Base'
<1>1. TypeOK'
  BY AppCacheAssumption DEF Base, ChangeApp, cache, workerVars, stopVars, TypeOK
<1>2. Places'
  BY DEF Base, ChangeApp, Places
<1>3. Locked'
  BY DEF Base, ChangeApp, Locked
<1>4. Items'
  BY DEF Base, ChangeApp, cache, Items
<1>5. \A u \in Workers : AtWork(u)'
  BY DEF Base, ChangeApp, cache, workerVars, AtWork
<1>6. Loaded'
  BY DEF Base, ChangeApp, cache, Loaded
<1>7. QED
  BY <1>1, <1>2, <1>3, <1>4, <1>5, <1>6 DEF Base

(* AppCache.Add *)

\* A new App gets its figures and, as it is complete, its tags.
LEMMA AddNewKeepsBase ==
    ASSUME Base, NEW g \in Goroutines, AddNew(g)
    PROVE  Base'
<1>1. item[g] \in Apps \X Version /\ item[g][1] \in Apps /\ item[g][2] \in Version
  BY DEF Base, AddNew, Items, Adding
<1>2. {item[g][2]} \in SUBSET Version /\ {item[g][2]} # NoData
  BY <1>1 DEF NoData
<1>3. \/ /\ item[g][2] \in Complete
         /\ apps' = apps \cup {item[g][1]}
         /\ figures' = [figures EXCEPT ![item[g][1]] = {item[g][2]}]
         /\ tags' = [tags EXCEPT ![item[g][1]] = {item[g][2]}]
      \/ UNCHANGED <<apps, figures, tags>>
  BY DEF AddNew, Enters, cache
<1>4. TypeOK'
  <2>1. apps' \subseteq Apps /\ {figures', tags'} \subseteq [Apps -> SUBSET Version]
    BY <1>1, <1>3 DEF Base, TypeOK
  <2>2. pc' \in [Goroutines -> {"list", "add", "adding", "set", "wait", "stopped",
                               "idle", "get", "fetch", "lockApp", "parse"}]
    BY DEF Base, TypeOK, AddNew, GotoAdded, GotoFailed, Goto
  <2>4. QED
    BY <2>1, <2>2 DEF Base, TypeOK, AddNew, workerVars, stopVars
<1>5. Places'
  BY AppCacheAssumption DEF Base, AddNew, GotoAdded, GotoFailed, Goto, TypeOK, Places,
     WithEnvelope, Goroutines
<1>6. Locked'
  BY DEF Base, AddNew, GotoAdded, GotoFailed, Goto, TypeOK, Locked
<1>7. Items'
  BY DEF Base, AddNew, GotoAdded, GotoFailed, Goto, cache, TypeOK, Items, Adding
<1>8. \A u \in Workers : AtWork(u)'
  BY DEF Base, AddNew, GotoAdded, GotoFailed, Enters, Goto, cache, workerVars, TypeOK,
     AtWork, WithEnvelope, Adding, Goroutines
<1>9. Loaded'
  BY <1>1, <1>2, <1>3 DEF Base, TypeOK, Loaded
<1>10. QED
  BY <1>4, <1>5, <1>6, <1>7, <1>8, <1>9 DEF Base

LEMMA AddExistingKeepsBase ==
    ASSUME Base, NEW g \in Goroutines, AddExisting(g)
    PROVE  Base'
<1>1. TypeOK'
  BY DEF Base, AddExisting, Goto, cache, workerVars, stopVars, TypeOK
<1>2. Places'
  BY DEF Base, AddExisting, Goto, Places, WithEnvelope
<1>3. Locked'
  BY AppCacheAssumption DEF Base, AddExisting, Goto, TypeOK, Locked
<1>4. Items'
  BY DEF Base, AddExisting, Goto, cache, Items, Adding
<1>5. \A u \in Workers : AtWork(u)'
  BY DEF Base, AddExisting, Goto, cache, workerVars, AtWork, WithEnvelope, Adding
<1>6. Loaded'
  BY DEF Base, AddExisting, cache, Loaded
<1>7. QED
  BY <1>1, <1>2, <1>3, <1>4, <1>5, <1>6 DEF Base

\* setAppData on a cached App: incomplete data leaves the tags it had.
LEMMA SetKeepsBase ==
    ASSUME Base, NEW g \in Goroutines, Set(g)
    PROVE  Base'
<1>1. item[g] \in Apps \X Version /\ item[g][1] \in Apps /\ item[g][2] \in Version
  BY DEF Base, Set, Items, Adding
<1>3. TypeOK'
  <2>1. {figures', tags'} \subseteq [Apps -> SUBSET Version]
    BY <1>1 DEF Base, TypeOK, Set, SetTags
  <2>2. pc' \in [Goroutines -> {"list", "add", "adding", "set", "wait", "stopped",
                               "idle", "get", "fetch", "lockApp", "parse"}]
    BY DEF Base, TypeOK, Set, GotoAdded, GotoFailed, Goto
  <2>4. QED
    BY <2>1, <2>2 DEF Base, TypeOK, Set, workerVars, stopVars
<1>4. Places'
  BY AppCacheAssumption DEF Base, Set, GotoAdded, GotoFailed, Goto, TypeOK, Places,
     WithEnvelope, Goroutines
<1>5. Locked'
  BY AppCacheAssumption DEF Base, Set, GotoAdded, GotoFailed, Goto, TypeOK, Locked
<1>6. Items'
  BY DEF Base, Set, GotoAdded, GotoFailed, Goto, TypeOK, Items, Adding
<1>7. \A u \in Workers : AtWork(u)'
  BY DEF Base, Set, GotoAdded, GotoFailed, Goto, workerVars, TypeOK, AtWork, WithEnvelope,
     Adding, Goroutines, Items
<1>8. Loaded'
  BY DEF Base, Set, SetTags, Loaded, NoData
<1>9. QED
  BY <1>3, <1>4, <1>5, <1>6, <1>7, <1>8 DEF Base

(* updateCacheLoop and warmupCache *)

LEMMA ListKeepsBase ==
    ASSUME Base, List
    PROVE  Base'
<1>1. TypeOK'
  BY DEF Base, List, Goto, cache, workerVars, stopVars, TypeOK, Goroutines, Version,
     NotCreated
<1>2. Places'
  BY DEF Base, List, Goto, Places, WithEnvelope
<1>3. Locked'
  BY DEF Base, List, Goto, Locked
<1>4. Items'
  BY DEF Base, List, Goto, cache, Items, Adding
<1>5. \A u \in Workers : AtWork(u)'
  BY DEF Base, List, Goto, cache, workerVars, AtWork, WithEnvelope, Adding
<1>6. Loaded'
  BY DEF Base, List, cache, Loaded
<1>7. QED
  BY <1>1, <1>2, <1>3, <1>4, <1>5, <1>6 DEF Base

LEMMA ListFailsKeepsBase ==
    ASSUME Base, ListFails
    PROVE  Base'
<1>1. TypeOK'
  BY DEF Base, ListFails, Goto, cache, workerVars, stopVars, TypeOK
<1>2. Places'
  BY DEF Base, ListFails, Goto, Places, WithEnvelope
<1>3. Locked'
  BY DEF Base, ListFails, Goto, Locked
<1>4. Items'
  BY DEF Base, ListFails, Goto, cache, Items, Adding
<1>5. \A u \in Workers : AtWork(u)'
  BY DEF Base, ListFails, Goto, cache, workerVars, AtWork, WithEnvelope, Adding
<1>6. Loaded'
  BY DEF Base, ListFails, cache, Loaded
<1>7. QED
  BY <1>1, <1>2, <1>3, <1>4, <1>5, <1>6 DEF Base

LEMMA NextListedKeepsBase ==
    ASSUME Base, NextListed
    PROVE  Base'
<1>1. TypeOK'
  BY DEF Base, NextListed, Goto, cache, workerVars, stopVars, TypeOK
<1>2. Places'
  BY DEF Base, NextListed, Goto, Places, WithEnvelope
<1>3. Locked'
  BY DEF Base, NextListed, Goto, Locked
<1>4. Items'
  BY DEF Base, NextListed, Goto, cache, TypeOK, Items
<1>5. \A u \in Workers : AtWork(u)'
  BY DEF Base, NextListed, Goto, cache, workerVars, AtWork, WithEnvelope, Places
<1>6. Loaded'
  BY DEF Base, NextListed, cache, Loaded
<1>7. QED
  BY <1>1, <1>2, <1>3, <1>4, <1>5, <1>6 DEF Base

LEMMA WarmedUpKeepsBase ==
    ASSUME Base, WarmedUp
    PROVE  Base'
<1>1. TypeOK'
  BY DEF Base, WarmedUp, Goto, cache, workerVars, stopVars, TypeOK
<1>2. Places'
  BY DEF Base, WarmedUp, Goto, Places, WithEnvelope
<1>3. Locked'
  BY DEF Base, WarmedUp, Goto, Locked
<1>4. Items'
  BY DEF Base, WarmedUp, Goto, cache, Items, Adding
<1>5. \A u \in Workers : AtWork(u)'
  BY DEF Base, WarmedUp, Goto, cache, workerVars, AtWork, WithEnvelope, Adding
<1>6. Loaded'
  BY DEF Base, WarmedUp, cache, Loaded
<1>7. QED
  BY <1>1, <1>2, <1>3, <1>4, <1>5, <1>6 DEF Base

LEMMA TickKeepsBase ==
    ASSUME Base, Tick
    PROVE  Base'
<1>1. TypeOK'
  BY DEF Base, Tick, Goto, cache, workerVars, stopVars, TypeOK
<1>2. Places'
  BY DEF Base, Tick, Goto, Places, WithEnvelope
<1>3. Locked'
  BY DEF Base, Tick, Goto, Locked
<1>4. Items'
  BY DEF Base, Tick, Goto, cache, Items, Adding
<1>5. \A u \in Workers : AtWork(u)'
  BY DEF Base, Tick, Goto, cache, workerVars, AtWork, WithEnvelope, Adding
<1>6. Loaded'
  BY DEF Base, Tick, cache, Loaded
<1>7. QED
  BY <1>1, <1>2, <1>3, <1>4, <1>5, <1>6 DEF Base

LEMMA StopKeepsBase ==
    ASSUME Base, Stop
    PROVE  Base'
<1>1. TypeOK'
  BY DEF Base, Stop, StopCalledOnce, cache, workerVars, TypeOK
<1>2. Places'
  BY DEF Base, Stop, Places
<1>3. Locked'
  BY DEF Base, Stop, Locked
<1>4. Items'
  BY DEF Base, Stop, cache, Items
<1>5. \A u \in Workers : AtWork(u)'
  BY DEF Base, Stop, cache, workerVars, AtWork
<1>6. Loaded'
  BY DEF Base, Stop, cache, Loaded
<1>7. QED
  BY <1>1, <1>2, <1>3, <1>4, <1>5, <1>6 DEF Base

LEMMA StopUpdaterKeepsBase ==
    ASSUME Base, StopUpdater
    PROVE  Base'
<1>1. TypeOK'
  BY DEF Base, StopUpdater, Goto, cache, workerVars, TypeOK
<1>2. Places'
  BY DEF Base, StopUpdater, Goto, Places, WithEnvelope
<1>3. Locked'
  BY DEF Base, StopUpdater, Goto, Locked
<1>4. Items'
  BY DEF Base, StopUpdater, Goto, cache, Items, Adding
<1>5. \A u \in Workers : AtWork(u)'
  BY DEF Base, StopUpdater, Goto, cache, workerVars, AtWork, WithEnvelope, Adding
<1>6. Loaded'
  BY DEF Base, StopUpdater, cache, Loaded
<1>7. QED
  BY <1>1, <1>2, <1>3, <1>4, <1>5, <1>6 DEF Base

(* parseAppMetric, getAppData and Parse *)

LEMMA ArriveKeepsBase ==
    ASSUME Base, NEW w \in Workers, Arrive(w)
    PROVE  Base'
<1>1. TypeOK'
  BY DEF Base, Arrive, Goto, cache, stopVars, TypeOK, Goroutines
<1>2. Places'
  BY DEF Base, Arrive, Goto, Places, WithEnvelope
<1>3. Locked'
  BY DEF Base, Arrive, Goto, Locked
<1>4. Items'
  BY DEF Base, Arrive, Goto, cache, Items, Adding
<1>5. \A u \in Workers : AtWork(u)'
  BY DEF Base, Arrive, Goto, cache, TypeOK, AtWork, Adding
<1>6. Loaded'
  BY DEF Base, Arrive, cache, Loaded
<1>7. QED
  BY <1>1, <1>2, <1>3, <1>4, <1>5, <1>6 DEF Base

LEMMA GetKeepsBase ==
    ASSUME Base, NEW w \in Workers, Get(w)
    PROVE  Base'
<1>1. TypeOK'
  BY DEF Base, Get, Goto, cache, workerVars, stopVars, TypeOK
<1>2. Places'
  BY DEF Base, Get, Goto, Places, WithEnvelope
<1>3. Locked'
  BY DEF Base, Get, Goto, Locked
<1>4. Items'
  BY DEF Base, Get, Goto, cache, Items, Adding
<1>5. \A u \in Workers : AtWork(u)'
  BY DEF Base, Get, Goto, cache, workerVars, AtWork, WithEnvelope, Adding
<1>6. Loaded'
  BY DEF Base, Get, cache, Loaded
<1>7. QED
  BY <1>1, <1>2, <1>3, <1>4, <1>5, <1>6 DEF Base

LEMMA FetchKeepsBase ==
    ASSUME Base, NEW w \in Workers, Fetch(w)
    PROVE  Base'
<1>1. TypeOK'
  BY DEF Base, Fetch, Goto, cache, workerVars, stopVars, TypeOK, Goroutines, Version,
     NotCreated, Places, AtWork
<1>2. Places'
  BY DEF Base, Fetch, Goto, Places, WithEnvelope
<1>3. Locked'
  BY DEF Base, Fetch, Goto, Locked
<1>4. Items'
  BY DEF Base, Fetch, Goto, cache, TypeOK, Items, AtWork, WithEnvelope, Version, NotCreated
<1>5. \A u \in Workers : AtWork(u)'
  BY DEF Base, Fetch, Goto, cache, workerVars, TypeOK, AtWork, WithEnvelope
<1>6. Loaded'
  BY DEF Base, Fetch, cache, Loaded
<1>7. QED
  BY <1>1, <1>2, <1>3, <1>4, <1>5, <1>6 DEF Base

LEMMA FetchFailsKeepsBase ==
    ASSUME Base, NEW w \in Workers, FetchFails(w)
    PROVE  Base'
<1>1. TypeOK'
  BY DEF Base, FetchFails, Goto, cache, workerVars, stopVars, TypeOK
<1>2. Places'
  BY DEF Base, FetchFails, Goto, Places
<1>3. Locked'
  BY DEF Base, FetchFails, Goto, Locked
<1>4. Items'
  BY DEF Base, FetchFails, Goto, cache, Items, Adding
<1>5. \A u \in Workers : AtWork(u)'
  BY DEF Base, FetchFails, Goto, cache, workerVars, AtWork, WithEnvelope, Adding
<1>6. Loaded'
  BY DEF Base, FetchFails, cache, Loaded
<1>7. QED
  BY <1>1, <1>2, <1>3, <1>4, <1>5, <1>6 DEF Base

\* No other worker is at Parse with this App, as its lock is free.
LEMMA LockAppKeepsBase ==
    ASSUME Base, NEW w \in Workers, LockApp(w)
    PROVE  Base'
<1>1. TypeOK'
  BY DEF Base, LockApp, Goto, cache, stopVars, TypeOK, Places, AtWork
<1>2. Places'
  BY DEF Base, LockApp, Goto, Places, WithEnvelope
<1>3. Locked'
  BY DEF Base, LockApp, Goto, Locked
<1>4. Items'
  BY DEF Base, LockApp, Goto, cache, Items, Adding
<1>5. \A u \in Workers : AtWork(u)'
  BY AppCacheAssumption DEF Base, LockApp, AppFree, Goto, cache, TypeOK, AtWork,
     WithEnvelope, Adding, Goroutines
<1>6. Loaded'
  BY DEF Base, LockApp, cache, Loaded
<1>7. QED
  BY <1>1, <1>2, <1>3, <1>4, <1>5, <1>6 DEF Base

\* No other worker holds the lock that is released.
LEMMA ParseKeepsBase ==
    ASSUME Base, NEW w \in Workers, Parse(w)
    PROVE  Base'
<1>1. TypeOK'
  BY DEF Base, Parse, Goto, cache, stopVars, TypeOK
<1>2. Places'
  BY DEF Base, Parse, Goto, Places
<1>3. Locked'
  BY DEF Base, Parse, Goto, Locked
<1>4. Items'
  BY DEF Base, Parse, Goto, cache, Items, Adding
<1>5. \A u \in Workers : AtWork(u)'
  BY DEF Base, Parse, Goto, cache, TypeOK, AtWork, WithEnvelope, Adding, Goroutines
<1>6. Loaded'
  BY DEF Base, Parse, cache, Loaded
<1>7. QED
  BY <1>1, <1>2, <1>3, <1>4, <1>5, <1>6 DEF Base

LEMMA InitBase == Init => Base
<1> SUFFICES ASSUME Init PROVE Base
  OBVIOUS
<1>1. TypeOK
  <2>1. NotCreated \in 0..MaxVersion
    BY AppCacheAssumption DEF NotCreated
  <2>2. figures \in [Apps -> SUBSET Version] /\ tags \in [Apps -> SUBSET Version]
    BY DEF Init, NoData
  <2>4. QED
    BY <2>1, <2>2 DEF Init, TypeOK
<1>2. Places /\ Locked /\ Items /\ \A w \in Workers : AtWork(w)
  BY AppCacheAssumption DEF Init, Places, Locked, Items, AtWork, Goroutines, Adding,
     WithEnvelope
<1>3. Loaded
  BY DEF Init, Loaded, NoData
<1>4. QED
  BY <1>1, <1>2, <1>3 DEF Base

LEMMA NextBase == Base /\ [Next]_vars => Base'
<1> SUFFICES ASSUME Base, [Next]_vars PROVE Base'
  OBVIOUS
<1>1. ASSUME NEW g \in Goroutines, AddStep(g) PROVE Base'
  BY <1>1, AddNewKeepsBase, AddExistingKeepsBase, SetKeepsBase DEF AddStep
<1>2. ASSUME NEW a \in Apps, ChangeApp(a) PROVE Base'
  BY <1>2, ChangeAppKeepsBase
<1>3. CASE UpdaterStep
  BY <1>1, <1>3, ListKeepsBase, ListFailsKeepsBase, NextListedKeepsBase, WarmedUpKeepsBase,
     TickKeepsBase DEF UpdaterStep, Goroutines
<1>4. CASE Stop \/ StopUpdater
  BY <1>4, StopKeepsBase, StopUpdaterKeepsBase
<1>5. ASSUME NEW w \in Workers, Arrive(w) \/ ParseStep(w) PROVE Base'
  BY <1>1, <1>5, ArriveKeepsBase, GetKeepsBase, FetchKeepsBase, FetchFailsKeepsBase,
     LockAppKeepsBase, ParseKeepsBase DEF ParseStep, Goroutines
<1>6. CASE UNCHANGED vars
  BY <1>6 DEF vars, cache, workerVars, stopVars, Base, TypeOK, Places, Locked, Items,
     AtWork, Loaded
<1>7. QED
  BY <1>2, <1>3, <1>4, <1>5, <1>6 DEF Next, Terminated

LEMMA BaseAlways == Spec => []Base
<1>1. QED
  BY InitBase, NextBase, PTL DEF Spec

-----------------------------------------------------------------------------
(* Packages                                                                *)

\* Only Arrive and Parse touch the package or the envelope of a worker.
LEMMA PackageSteps ==
    ASSUME [Next]_vars
    PROVE  \/ UNCHANGED <<package, envelope>>
           \/ \E w \in Workers : Arrive(w) \/ Parse(w)
<1>1. ASSUME NEW g \in Goroutines, AddStep(g) PROVE UNCHANGED <<package, envelope>>
  BY <1>1 DEF AddStep, AddNew, AddExisting, Set, workerVars
<1>2. CASE UpdaterStep
  BY <1>1, <1>2 DEF UpdaterStep, List, ListFails, NextListed, WarmedUp, Tick, workerVars,
     Goroutines
<1>3. ASSUME NEW w \in Workers, ParseStep(w), ~Parse(w) PROVE UNCHANGED <<package, envelope>>
  BY <1>1, <1>3 DEF ParseStep, Get, Fetch, FetchFails, LockApp, workerVars, Goroutines
<1>4. CASE Stop \/ StopUpdater \/ Terminated \/ UNCHANGED vars
  BY <1>4 DEF Stop, StopUpdater, Terminated, vars, workerVars
<1>5. ASSUME NEW a \in Apps, ChangeApp(a) PROVE UNCHANGED <<package, envelope>>
  BY <1>5 DEF ChangeApp, workerVars
<1>6. QED
  BY <1>2, <1>3, <1>4, <1>5 DEF Next

\* A read in the middle of setAppData is a mixture of data that is there and of data
\* that is complete.
LEMMA ReadIsLoaded ==
    ASSUME Base, NEW a \in apps
    PROVE  /\ \A f \in Read(figures, a) : f # NoData
           /\ \A t \in ReadTags(a) : t # NoData /\ t \subseteq Complete
<1>1. figures[a] # NoData /\ tags[a] # NoData /\ tags[a] \subseteq Complete
  BY DEF Base, Loaded, TypeOK
<1>2. \A f \in Read(figures, a) : f # NoData
  BY <1>1 DEF Read, NoData
<1>3. \A t \in Read(tags, a) : t # NoData
  BY <1>1 DEF Read, NoData
<1>4. QED
  BY <1>1, <1>2, <1>3 DEF ReadTags

PackagesOK == DOMAIN package = Workers /\ PackagesTagged /\ HostMatchesEnvelope

LEMMA NextPackages == Base /\ PackagesOK /\ [Next]_vars => PackagesOK'
<1> SUFFICES ASSUME Base, PackagesOK, [Next]_vars PROVE PackagesOK'
  OBVIOUS
<1>1. CASE UNCHANGED <<package, envelope>>
  BY <1>1 DEF PackagesOK, PackagesTagged, HostMatchesEnvelope
<1>2. ASSUME NEW w \in Workers, Arrive(w) PROVE PackagesOK'
  <2>1. /\ package'[w] = NoPackage
        /\ \A u \in Workers : u # w => package'[u] = package[u] /\ envelope'[u] = envelope[u]
        /\ DOMAIN package' = Workers
    BY <1>2 DEF Arrive, PackagesOK
  <2>2. QED
    BY <2>1 DEF PackagesOK, PackagesTagged, HostMatchesEnvelope
<1>3. ASSUME NEW w \in Workers, Parse(w) PROVE PackagesOK'
  <2> DEFINE a == envelope[w][1]
  <2>1. a \in apps /\ host[a] = envelope[w][2]
    BY <1>3 DEF Base, AtWork, Parse
  <2>2. PICK f \in Read(figures, a), t \in ReadTags(a) :
            package' = [package EXCEPT ![w] = [host |-> host[a], figures |-> f, tags |-> t]]
    BY <1>3 DEF Parse
  <2>3. f # NoData /\ t # NoData /\ t \subseteq Complete
    BY <2>1, ReadIsLoaded
  <2>5. UNCHANGED envelope
    BY <1>3 DEF Parse
  <2>7. QED
    BY <2>1, <2>2, <2>3, <2>5 DEF PackagesOK, PackagesTagged, HostMatchesEnvelope
<1>4. QED
  BY <1>1, <1>2, <1>3, PackageSteps

-----------------------------------------------------------------------------
(* The warmup                                                              *)

Warmup == WarmedUpMeansLoaded /\ WarmingUp

\* What matters to the warmup, of a step that is not one of the updater: apps only
\* ever enter the cache.
LEMMA OthersKeepWarmup ==
    ASSUME Warmup, apps \subseteq apps',
           UNCHANGED <<warmedUp, listed, listing, pc[Updater], item[Updater]>>
    PROVE  Warmup'
BY DEF Warmup, WarmedUpMeansLoaded, WarmingUp, Pending

LEMMA NextWarmup == Base /\ Warmup /\ [Next]_vars => Warmup'
<1> SUFFICES ASSUME Base, Warmup, [Next]_vars PROVE Warmup'
  OBVIOUS
<1>u. Updater \notin Workers /\ Updater \in Goroutines /\ DOMAIN pc = Goroutines /\ DOMAIN item = Goroutines
  BY AppCacheAssumption DEF Goroutines, Base, TypeOK
<1>1. ASSUME NEW w \in Workers, AddStep(w) PROVE Warmup'
  <2>1. /\ apps \subseteq apps'
        /\ UNCHANGED <<warmedUp, listed, listing, pc[Updater], item[Updater]>>
    BY <1>1, <1>u DEF AddStep, AddNew, AddExisting, Set, GotoAdded, GotoFailed, Goto, cache
  <2>2. QED
    BY <2>1, OthersKeepWarmup
<1>2. ASSUME NEW w \in Workers, Arrive(w) \/ ParseStep(w), ~AddStep(w) PROVE Warmup'
  <2>1. UNCHANGED <<apps, warmedUp, listed, listing, pc[Updater], item[Updater]>>
    BY <1>2, <1>u DEF ParseStep, Arrive, Get, Fetch, FetchFails, LockApp, Parse, Goto, cache
  <2>2. QED
    BY <2>1, OthersKeepWarmup
<1>3. ASSUME NEW a \in Apps, ChangeApp(a) PROVE Warmup'
  BY <1>3, OthersKeepWarmup DEF ChangeApp, cache
<1>4. CASE Stop \/ Terminated \/ UNCHANGED vars
  BY <1>4, OthersKeepWarmup DEF Stop, Terminated, vars, cache
<1>5. CASE ListFails \/ Tick \/ StopUpdater
  <2>1. pc'[Updater] \in {"wait", "list", "stopped"}
    BY <1>5, <1>u DEF ListFails, Tick, StopUpdater, Goto
  <2>2. QED
    BY <1>5, <2>1 DEF ListFails, Tick, StopUpdater, cache, Warmup, WarmedUpMeansLoaded,
       WarmingUp, Adding
<1>6. CASE List
  <2>1. \A a \in Apps : api[a] \in Complete => api[a] \in Version /\ api[a] # NotCreated
    BY DEF Complete, Version, NotCreated
  <2>2. \A a \in Apps : api[a] \in Complete => <<a, api[a]>> \in listing'
    BY <1>6, <2>1 DEF List
  <2>3. ~warmedUp => \A a \in listed' : a \in Apps /\ api[a] \in Complete
    BY <1>6 DEF List
  <2>4. ~warmedUp => \A a \in listed' : Pending(a)'
    BY <2>2, <2>3 DEF Pending
  <2>5. QED
    BY <1>6, <2>4 DEF List, cache, Warmup, WarmedUpMeansLoaded, WarmingUp
<1>7. CASE NextListed
  <2>1. PICK app \in listing : item' = [item EXCEPT ![Updater] = app] /\ listing' = listing \ {app}
    BY <1>7 DEF NextListed
  <2>2. item'[Updater] = app /\ pc'[Updater] = "adding"
    BY <1>7, <1>u, <2>1 DEF NextListed, Goto
  <2>3. ASSUME NEW a \in listed, Pending(a) PROVE Pending(a)'
    <3>1. PICK v \in Complete : <<a, v>> \in listing
      BY <1>7, <2>3 DEF Pending, NextListed, Adding
    <3>2. CASE <<a, v>> = app
      BY <2>2, <3>2 DEF Pending, Adding
    <3>3. CASE <<a, v>> # app
      BY <2>1, <3>1, <3>3 DEF Pending
    <3>4. QED
      BY <3>2, <3>3
  <2>4. QED
    BY <1>7, <2>3 DEF NextListed, cache, Warmup, WarmedUpMeansLoaded, WarmingUp
<1>8. CASE WarmedUp
  <2>1. ~warmedUp => listed \subseteq apps
    BY <1>8 DEF WarmedUp, Warmup, WarmingUp, Pending, Adding
  <2>2. QED
    BY <1>8, <2>1 DEF WarmedUp, cache, Warmup, WarmedUpMeansLoaded, WarmingUp
<1>9. CASE AddStep(Updater)
  <2>1. /\ apps \subseteq apps' /\ UNCHANGED <<warmedUp, listed, listing>>
    BY <1>9 DEF AddStep, AddNew, AddExisting, Set, cache
  <2>2. pc[Updater] \in Adding /\ pc'[Updater] \in {"set", "add"}
    BY <1>9, <1>u DEF AddStep, AddNew, AddExisting, Set, GotoAdded, GotoFailed, Goto, Adding
  <2>3. ASSUME NEW a \in listed, ~warmedUp PROVE a \in apps' \/ Pending(a)'
    <3>1. a \in apps \/ Pending(a)
      BY <2>2, <2>3 DEF Warmup, WarmingUp
    <3>2. CASE a \in apps \/ \E v \in Complete : <<a, v>> \in listing
      BY <2>1, <3>2 DEF Pending
    <3>3. CASE item[Updater][1] = a /\ item[Updater][2] \in Complete
      <4>1. CASE AddNew(Updater)
        BY <3>3, <4>1 DEF AddNew, Enters
      <4>2. CASE AddExisting(Updater)
        BY <2>1, <3>3, <4>2 DEF AddExisting
      <4>3. CASE Set(Updater)
        BY <3>3, <4>3, <1>u DEF Set, Base, Items, Adding
      <4>4. QED
        BY <1>9, <4>1, <4>2, <4>3 DEF AddStep
    <3>4. QED
      BY <3>1, <3>2, <3>3 DEF Pending
  <2>4. QED
    BY <2>1, <2>3 DEF Warmup, WarmedUpMeansLoaded, WarmingUp
<1>10. QED
  BY <1>1, <1>2, <1>3, <1>4, <1>5, <1>6, <1>7, <1>8, <1>9 DEF Next, UpdaterStep

-----------------------------------------------------------------------------
(* Theorems                                                                *)

LEMMA PackagesAlways == Spec => []PackagesOK
<1>1. Init => PackagesOK
  BY DEF Init, PackagesOK, PackagesTagged, HostMatchesEnvelope
<1>2. QED
  BY <1>1, BaseAlways, NextPackages, PTL DEF Spec

\* app.go: the updater and the workers keep the types of the cache they share, whoever
\* holds its lock.
THEOREM CacheTypes == Spec => []TypeOK
<1>1. Base => TypeOK
  BY DEF Base
<1>2. QED
  BY <1>1, BaseAlways, PTL

\* setAppData and Parse: no package is made from an App without data or with the tags
\* of incomplete data, although a worker may read an App while it is being written, and
\* a write may fail half-way.
THEOREM PackagesComplete == Spec => []PackagesTagged
<1>1. PackagesOK => PackagesTagged
  BY DEF PackagesOK
<1>2. QED
  BY <1>1, PackagesAlways, PTL

\* Parse: the lock of the App keeps the host that a worker stores there until it has
\* made its package, for any number of workers.
THEOREM HostIsOwn == Spec => []HostMatchesEnvelope
<1>1. PackagesOK => HostMatchesEnvelope
  BY DEF PackagesOK
<1>2. QED
  BY <1>1, PackagesAlways, PTL

\* warmupCache: the flag is raised when every app of the first listing that has all its
\* tags is in the cache, whatever workers add meanwhile.
THEOREM WarmupIsComplete == Spec => []WarmedUpMeansLoaded
<1>1. Init => Warmup
  BY DEF Init, Warmup, WarmedUpMeansLoaded, WarmingUp
<1>2. Warmup => WarmedUpMeansLoaded
  BY DEF Warmup
<1>3. QED
  BY <1>1, <1>2, BaseAlways, NextWarmup, PTL DEF Spec
=============================================================================

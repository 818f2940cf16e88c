------------------------------- MODULE CFClient -------------------------------
(***************************************************************************)
(* GetApplications of the Cloud Foundry client: which API version it uses, *)
(* and the version 3 listing, which fetches apps, processes, spaces and    *)
(* orgs concurrently, each page by page, and joins them, while apps,       *)
(* spaces and orgs come and go and the pages shift.  Labels stand for      *)
(* labels and annotations, which are treated alike; the value of one is    *)
(* the level ("app", "space" or "org") it comes from.  The requests of     *)
(* one page, its conversion and the sidecars are V3Paging's.               *)
(***************************************************************************)
EXTENDS Naturals, FiniteSets

CONSTANTS
    Apps, Spaces, Orgs,
    SpaceOf,     \* the space of each app
    OrgOf,       \* the org of each space
    LevelsOf,    \* for each label, the levels that define it
    batchSize,   \* cfc.apiBatchSize
    Rank         \* for each list, the order in which the API sorts its entries

Levels == {"app", "space", "org"}
Labels == DOMAIN LevelsOf
Entities == Apps \cup Spaces \cup Orgs
Lists == {"apps", "processes", "spaces", "orgs"}

ASSUME CFClientAssumption ==
    /\ Apps \cap Spaces = {}
    /\ SpaceOf \in [Apps -> Spaces] /\ OrgOf \in [Spaces -> Orgs]
    /\ LevelsOf \in [Labels -> SUBSET Levels]
    /\ IsFiniteSet(Entities) /\ batchSize \in Nat \ {0}
    /\ Rank \in [Lists -> [Entities -> Nat]]
    /\ \A l \in Lists : \A x, y \in Entities : Rank[l][x] = Rank[l][y] => x = y

VARIABLES
    existing,      \* what the Cloud Controller knows now
    ApiVersion,    \* cfc.ApiVersion, 0 when unknown
    pc,            \* the caller: "idle", or listing with "v3" or "v2"
    fetch,         \* how each of the four concurrent requests ended
    pageOf,        \* the page each one is at
    got,           \* the entries each one has collected
    shifted,       \* the lists that lost an entry of a page already read
    results,       \* what GetApplications returned, until it is called again
    listings,      \* successful calls so far, up to 2
    stable         \* what existed all along since the call began

world == <<existing, stable>>
lists == <<fetch, pageOf, got>>
call == <<pc, lists, shifted>>
vars == <<world, ApiVersion, call, results, listings>>

Nothing == <<>>
Failure == [version |-> 0, apps |-> Nothing]

Init ==
    /\ existing = Entities
    /\ ApiVersion = 0 /\ pc = "idle"
    /\ fetch = [l \in Lists |-> "none"] /\ pageOf = [l \in Lists |-> 1]
    /\ got = [l \in Lists |-> {}] /\ shifted = {}
    /\ results = Failure /\ listings = 0 /\ stable = {}

-----------------------------------------------------------------------------
(* The Cloud Controller                                                    *)

Parent(x) == IF x \in Apps THEN {SpaceOf[x]} ELSE IF x \in Spaces THEN {OrgOf[x]} ELSE {}

Create(x) ==
    /\ x \notin existing /\ Parent(x) \subseteq existing
    /\ existing' = existing \cup {x}
    /\ UNCHANGED <<stable, ApiVersion, call, results, listings>>

\* The lists of getV3Apps, getV3Processes (one process per app), getV3Spaces and
\* getV3Orgs as they are now, and where an entry is in one of them.
KindOf(l) ==
    CASE l \in {"apps", "processes"} -> Apps [] l = "spaces" -> Spaces [] l = "orgs" -> Orgs
Entries(l) == existing \cap KindOf(l)
Position(l, x) == Cardinality({y \in Entries(l) : Rank[l][y] < Rank[l][x]})

\* The entries up to the end of a page.
UpTo(l, page) == {x \in Entries(l) : Position(l, x) < page * batchSize}
PageEntriesOf(l) == UpTo(l, pageOf[l]) \ UpTo(l, pageOf[l] - 1)

Delete(x) ==
    /\ x \in existing /\ \A y \in existing : x \notin Parent(y)
    /\ existing' = existing \ {x}
    /\ stable' = stable \ {x}
    /\ shifted' = shifted \cup
           {l \in Lists : fetch[l] = "pending" /\ x \in UpTo(l, pageOf[l] - 1)}
    /\ UNCHANGED <<ApiVersion, pc, lists, results, listings>>

-----------------------------------------------------------------------------
(* GetApplications                                                         *)

Call ==
    /\ pc = "idle"
    /\ pc' = IF ApiVersion = 2 THEN "v2" ELSE "v3"
    /\ fetch' = [l \in Lists |-> "pending"] /\ pageOf' = [l \in Lists |-> 1]
    /\ stable' = existing /\ results' = Failure
    /\ UNCHANGED <<existing, ApiVersion, got, shifted, listings>>

\* The answer to the last page says that there are no more.
LastPageOf(l) == Cardinality(Entries(l)) <= pageOf[l] * batchSize

\* One page of one of the four goroutines of getV3Applications.
FetchPageOf(l) ==
    /\ pc = "v3" /\ fetch[l] = "pending"
    /\ got' = [got EXCEPT ![l] = @ \cup PageEntriesOf(l)]
    /\ IF LastPageOf(l)
         THEN fetch' = [fetch EXCEPT ![l] = "ok"] /\ UNCHANGED pageOf
         ELSE pageOf' = [pageOf EXCEPT ![l] = @ + 1] /\ UNCHANGED fetch
    /\ UNCHANGED <<world, ApiVersion, pc, shifted, results, listings>>

\* A request fails, and with it the list.
FetchFails(l) ==
    /\ pc = "v3" /\ fetch[l] = "pending"
    /\ fetch' = [fetch EXCEPT ![l] = "error"]
    /\ got' = [got EXCEPT ![l] = {}]
    /\ UNCHANGED <<world, ApiVersion, pc, pageOf, shifted, results, listings>>

FetchedAnswered == \E l \in Lists : fetch[l] # "pending"   \* mutant: no wg.Wait()
Fetched == \A l \in Lists : fetch[l] # "pending"

Failed == \E l \in Lists : fetch[l] = "error"

Defined(level) == {k \in Labels : level \in LevelsOf[k]}

\* A level's labels are set only if they are not overridden by the ones before.
MergeOver(labels, level) ==   \* mutant: they are set in any case
    [k \in DOMAIN labels \cup Defined(level) |->
        IF k \in Defined(level) THEN level ELSE labels[k]]
Merge(labels, level) ==
    [k \in DOMAIN labels \cup Defined(level) |->
        IF k \in DOMAIN labels THEN labels[k] ELSE level]

\* setV3SpaceData and setV3OrgData.  The org's GUID is known from the space only.
WithSpace(app, space) ==
    IF space \in got["spaces"]
      THEN [app EXCEPT !.space = TRUE, !.labels = Merge(@, "space")]
      ELSE app
WithOrg(app, org) ==
    IF app.space /\ org \in got["orgs"]
      THEN [app EXCEPT !.org = TRUE, !.labels = Merge(@, "org")]
      ELSE app

\* "Fill space then org data. Order matters for labels and annotations."
Joined(a) ==
    LET app == [processes |-> a \in got["processes"], space |-> FALSE, org |-> FALSE,
                labels |-> Merge(Nothing, "app")]
    IN  WithOrg(WithSpace(app, SpaceOf[a]), OrgOf[SpaceOf[a]])

\* The lists are local to the call.
Forget ==
    /\ fetch' = [l \in Lists |-> "none"] /\ pageOf' = [l \in Lists |-> 1]
    /\ got' = [l \in Lists |-> {}] /\ shifted' = {}

Count == listings' = IF listings < 2 THEN listings + 1 ELSE 2

ReturnV3 ==
    /\ pc = "v3" /\ Fetched /\ ~Failed
    /\ results' = [version |-> 3, apps |-> [a \in got["apps"] |-> Joined(a)]]
    /\ ApiVersion' = 3 /\ Count /\ pc' = "idle" /\ Forget
    /\ UNCHANGED world

\* An error is returned once a version is chosen; before that, v2 is tried.
FallbackAlways == TRUE   \* mutant: it is tried whatever the version is
Fallback == ApiVersion = 0

FailV3 ==
    /\ pc = "v3" /\ Fetched /\ Failed
    /\ IF Fallback
         THEN pc' = "v2"
         ELSE pc' = "idle"
    /\ Forget
    /\ UNCHANGED <<world, ApiVersion, results, listings>>

\* "cfc.ApiVersion = 2", at once overwritten by "cfc.ApiVersion = 3".
VersionAfterV2Next == ApiVersion + 1   \* mutant
VersionAfterV2 == IF ApiVersion = 2 THEN 2 ELSE 3

\* getV2Applications: every app of a page comes with its space and org, without
\* labels; pages that fail are left out.
ReturnV2 ==
    /\ pc = "v2"
    /\ \E listed \in SUBSET (existing \cap Apps) :
          results' = [version |-> 2, apps |->
              [a \in listed |-> [processes |-> TRUE, space |-> TRUE, org |-> TRUE,
                                 labels |-> Nothing]]]
    /\ ApiVersion' = VersionAfterV2
    /\ Count /\ pc' = "idle"
    /\ UNCHANGED <<world, lists, shifted>>

FailV2 ==
    /\ pc = "v2"
    /\ pc' = "idle"
    /\ UNCHANGED <<world, ApiVersion, lists, shifted, results, listings>>

Next ==
    \/ \E x \in Entities : Create(x) \/ Delete(x)
    \/ Call \/ (\E l \in Lists : FetchPageOf(l) \/ FetchFails(l))
    \/ ReturnV3 \/ FailV3 \/ ReturnV2 \/ FailV2

Spec == Init /\ [][Next]_vars

-----------------------------------------------------------------------------
(* Properties                                                              *)

AppData == [processes : BOOLEAN, space : BOOLEAN, org : BOOLEAN,
            labels : UNION {[ks -> Levels] : ks \in SUBSET Labels}]

TypeOK ==
    /\ existing \subseteq Entities /\ stable \subseteq existing
    /\ ApiVersion \in {0, 2, 3} /\ pc \in {"idle", "v3", "v2"}
    /\ fetch \in [Lists -> {"none", "pending", "ok", "error"}]
    /\ pageOf \in [Lists -> Nat \ {0}] /\ shifted \subseteq Lists
    /\ \A l \in Lists : got[l] \subseteq KindOf(l)
    /\ results.version \in {0, 2, 3} /\ listings \in 0..2
    /\ DOMAIN results.apps \subseteq Apps
    /\ \A a \in DOMAIN results.apps : results.apps[a] \in AppData

\* setV3SpaceData and setV3OrgData: "Set org labels and annotations only if they're
\* not overriden per space or application".  A label of an app has the value of the
\* most specific level, among those whose data was found, that defines it.
Precedence(app) ==
    LET found == {"app"} \cup (IF app.space THEN {"space"} ELSE {})
                         \cup (IF app.org THEN {"org"} ELSE {})
    IN  /\ DOMAIN app.labels = {k \in Labels : LevelsOf[k] \cap found # {}}
        /\ \A k \in DOMAIN app.labels :
              app.labels[k] = IF "app" \in LevelsOf[k] THEN "app"
                              ELSE IF "space" \in LevelsOf[k] THEN "space" ELSE "org"

LabelPrecedence ==
    results.version = 3 => \A a \in DOMAIN results.apps : Precedence(results.apps[a])

\* The four lists are read at different moments, page by page, and apps, spaces and
\* orgs come and go meanwhile.  An app that existed during the whole listing is in the
\* result, with its processes, its space and its org, whatever is created, and whatever
\* is deleted but for the entries of a page already read: a deletion there moves the
\* ones that follow to the front, so that the next page may skip them.
StableAppsComplete ==
    [][pc = "v3" /\ pc' = "idle" /\ results'.version = 3 =>
          \A a \in stable \cap Apps :
              /\ "apps" \notin shifted => a \in DOMAIN results'.apps
              /\ a \in DOMAIN results'.apps =>
                    /\ "processes" \notin shifted => results'.apps[a].processes
                    /\ "spaces" \notin shifted => results'.apps[a].space
                    /\ {"spaces", "orgs"} \cap shifted = {} => results'.apps[a].org
      ]_vars

\* The fallback works once: after a successful listing, with either version, the
\* client lists with version 3 only, and returns an error when that fails.
FallbackOnlyOnce == [][listings > 0 /\ results' # results => results'.version # 2]_vars
=============================================================================

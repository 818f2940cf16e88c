---------------------------- MODULE CFClientProofs ----------------------------
(***************************************************************************)
(* Proofs about CFClient for any number of apps, spaces, orgs and labels,  *)
(* whichever levels define a label.                                        *)
(*                                                                         *)
(* That what existed all along is listed completely rests on two facts.    *)
(* The Cloud Controller keeps an app only with its space, and a space only *)
(* with its org.  And the pages of a list that were read hold no entry     *)
(* that existed all along and was not collected, unless an entry was       *)
(* deleted from them: a creation only moves entries to later pages, and a  *)
(* deletion on a page still to be read leaves the others there.            *)
(***************************************************************************)
EXTENDS CFClient, FiniteSetTheorems, TLAPS

-----------------------------------------------------------------------------
(* Definitions                                                             *)

\* The Cloud Controller keeps what an entity belongs to as long as the entity.
Closed == \A x \in existing : Parent(x) \subseteq existing

\* The entries of a list that are before another, and those up to the end of a page,
\* if E is what exists.
Before(E, l, x) == {y \in E \cap KindOf(l) : Rank[l][y] < Rank[l][x]}
Prefix(E, l, n) == {x \in E \cap KindOf(l) : Cardinality(Before(E, l, x)) < n * batchSize}

\* What existed all along is collected with the page it is on.
Listed ==
    pc = "v3" =>
        /\ results = Failure
        /\ \A l \in Lists :
              /\ fetch[l] \in {"pending", "ok", "error"}
              /\ l \notin shifted /\ fetch[l] = "pending" =>
                    stable \cap Prefix(existing, l, pageOf[l] - 1) \subseteq got[l]
              /\ l \notin shifted /\ fetch[l] = "ok" => stable \cap KindOf(l) \subseteq got[l]

\* What existed all along is itself closed.
StableClosed == \A x \in stable : Parent(x) \subseteq stable

\* The version is chosen with the first listing that succeeds.
VersionChosen ==
    /\ ApiVersion \in {0, 3}
    /\ listings > 0 => ApiVersion = 3
    /\ pc = "v2" => ApiVersion = 0

\* TypeOK says of got what each list has, not which lists there are.
Shape == TypeOK /\ got \in [Lists -> SUBSET Entities]

Inv == Shape /\ Closed /\ StableClosed /\ Listed /\ VersionChosen /\ LabelPrecedence

-----------------------------------------------------------------------------
(* Pages                                                                   *)

LEMMA BeforeIs ==
    ASSUME NEW E \in SUBSET Entities, NEW l \in Lists, NEW x
    PROVE  /\ IsFiniteSet(E \cap KindOf(l)) /\ IsFiniteSet(Before(E, l, x))
           /\ Cardinality(E \cap KindOf(l)) \in Nat /\ Cardinality(Before(E, l, x)) \in Nat
<1>1. IsFiniteSet(Entities)
  BY CFClientAssumption
<1>2. E \cap KindOf(l) \in SUBSET Entities /\ Before(E, l, x) \in SUBSET Entities
  BY DEF Before
<1>3. QED
  BY <1>1, <1>2, FS_Subset, FS_CardinalityType

LEMMA NothingBeforeFirstPage ==
    ASSUME NEW E \in SUBSET Entities, NEW l \in Lists
    PROVE  Prefix(E, l, 0) = {}
<1>1. 0 * batchSize = 0
  BY CFClientAssumption
<1>2. \A x : ~(Cardinality(Before(E, l, x)) < 0 * batchSize)
  <2> SUFFICES ASSUME NEW x PROVE ~(Cardinality(Before(E, l, x)) < 0)
    BY <1>1
  <2>1. Cardinality(Before(E, l, x)) \in Nat
    BY BeforeIs
  <2>2. QED
    BY <2>1
<1>3. QED
  BY <1>2 DEF Prefix

\* A creation moves no entry to a page before the one it was on.
LEMMA CreationMovesBack ==
    ASSUME NEW F \in SUBSET Entities, NEW E \in SUBSET F, NEW l \in Lists, NEW n \in Nat
    PROVE  E \cap Prefix(F, l, n) \subseteq Prefix(E, l, n)
<1> SUFFICES ASSUME NEW x \in E, x \in Prefix(F, l, n) PROVE x \in Prefix(E, l, n)
  OBVIOUS
<1>1. Before(E, l, x) \in SUBSET Before(F, l, x)
  BY DEF Before
<1>2. /\ IsFiniteSet(Before(F, l, x)) /\ Cardinality(Before(F, l, x)) \in Nat
      /\ Cardinality(Before(E, l, x)) \in Nat
  BY BeforeIs
<1>3. Cardinality(Before(E, l, x)) <= Cardinality(Before(F, l, x))
  BY <1>1, <1>2, FS_Subset
<1>4. n * batchSize \in Nat
  BY CFClientAssumption
<1>5. QED
  BY <1>2, <1>3, <1>4 DEF Prefix

\* A deletion behind the end of a page moves no entry to that page.
LEMMA DeletionBehind ==
    ASSUME NEW E \in SUBSET Entities, NEW y, NEW l \in Lists, NEW n \in Nat,
           y \notin Prefix(E, l, n)
    PROVE  Prefix(E \ {y}, l, n) \subseteq Prefix(E, l, n)
<1> SUFFICES ASSUME NEW x \in Prefix(E \ {y}, l, n) PROVE x \in Prefix(E, l, n)
  OBVIOUS
<1> DEFINE F == E \ {y}
<1>1. /\ x \in E \cap KindOf(l) /\ x \in Entities /\ Cardinality(Before(F, l, x)) < n * batchSize
  BY DEF Prefix
<1>2. /\ IsFiniteSet(Before(F, l, x)) /\ Cardinality(Before(F, l, x)) \in Nat
      /\ Cardinality(Before(E, l, y)) \in Nat
  BY BeforeIs
<1>3. CASE y \in E \cap KindOf(l) /\ Rank[l][y] < Rank[l][x]
  <2>1. /\ Rank[l][x] \in Nat /\ Rank[l][y] \in Nat
        /\ \A z \in Entities : Rank[l][z] \in Nat
    BY <1>1, <1>3, CFClientAssumption
  <2>2. Before(E, l, y) \in SUBSET Before(F, l, x)
    BY <1>3, <2>1 DEF Before
  <2>3. Cardinality(Before(E, l, y)) <= Cardinality(Before(F, l, x))
    BY <1>2, <2>2, FS_Subset
  <2>4. ~(Cardinality(Before(E, l, y)) < n * batchSize)
    BY <1>3 DEF Prefix
  <2>5. n * batchSize \in Nat
    BY CFClientAssumption
  <2>6. QED
    BY <1>1, <1>2, <2>3, <2>4, <2>5
<1>4. CASE ~(y \in E \cap KindOf(l) /\ Rank[l][y] < Rank[l][x])
  <2>1. Before(F, l, x) = Before(E, l, x)
    BY <1>4 DEF Before
  <2>2. QED
    BY <2>1 DEF Prefix
<1>5. QED
  BY <1>3, <1>4

\* The last page ends behind every entry.
LEMMA LastPageIsLast ==
    ASSUME NEW E \in SUBSET Entities, NEW l \in Lists, NEW n \in Nat,
           Cardinality(E \cap KindOf(l)) <= n * batchSize
    PROVE  E \cap KindOf(l) \subseteq Prefix(E, l, n)
<1> SUFFICES ASSUME NEW x \in E \cap KindOf(l) PROVE x \in Prefix(E, l, n)
  OBVIOUS
<1>1. /\ IsFiniteSet(E \cap KindOf(l)) /\ IsFiniteSet(Before(E, l, x))
      /\ Cardinality(E \cap KindOf(l)) \in Nat /\ Cardinality(Before(E, l, x)) \in Nat
  BY BeforeIs
<1>2. x \notin Before(E, l, x)
  <2>1. Rank[l][x] \in Nat
    BY CFClientAssumption
  <2>2. QED
    BY <2>1 DEF Before
<1>3. Before(E, l, x) \cup {x} \in SUBSET (E \cap KindOf(l))
  BY DEF Before
<1>4. Cardinality(Before(E, l, x)) + 1 <= Cardinality(E \cap KindOf(l))
  <2>1. Cardinality(Before(E, l, x) \cup {x}) = Cardinality(Before(E, l, x)) + 1
    BY <1>1, <1>2, FS_AddElement
  <2>2. Cardinality(Before(E, l, x) \cup {x}) <= Cardinality(E \cap KindOf(l))
    BY <1>1, <1>3, FS_Subset
  <2>3. QED
    BY <2>1, <2>2
<1>5. n * batchSize \in Nat
  BY CFClientAssumption
<1>6. QED
  BY <1>1, <1>4, <1>5 DEF Prefix

LEMMA UpToIs ==
    \A l, n : UpTo(l, n) = Prefix(existing, l, n)
BY DEF UpTo, Prefix, Position, Entries, Before

-----------------------------------------------------------------------------
(* Joining                                                                 *)

LabelType == UNION {[ks -> Levels] : ks \in SUBSET Labels}

LEMMA LabelTypeIs ==
    ASSUME NEW ks \in SUBSET Labels, NEW labels \in [ks -> Levels]
    PROVE  labels \in LabelType
BY DEF LabelType

LEMMA MergeIs ==
    ASSUME NEW labels \in LabelType, NEW level \in Levels
    PROVE  /\ Merge(labels, level) \in LabelType
           /\ DOMAIN Merge(labels, level) = DOMAIN labels \cup Defined(level)
           /\ \A k \in DOMAIN labels : Merge(labels, level)[k] = labels[k]
           /\ \A k \in Defined(level) \ DOMAIN labels : Merge(labels, level)[k] = level
<1>1. DOMAIN labels \in SUBSET Labels /\ \A k \in DOMAIN labels : labels[k] \in Levels
  BY DEF LabelType
<1>2. DOMAIN labels \cup Defined(level) \in SUBSET Labels
  BY <1>1 DEF Defined
<1>3. Merge(labels, level) \in [DOMAIN labels \cup Defined(level) -> Levels]
  BY <1>1 DEF Merge
<1>4. Merge(labels, level) \in LabelType
  BY <1>2, <1>3, LabelTypeIs
<1>5. QED
  BY <1>4 DEF Merge

LEMMA OwnLabels ==
    /\ Merge(Nothing, "app") \in LabelType
    /\ DOMAIN Merge(Nothing, "app") = Defined("app")
    /\ \A k \in Defined("app") : Merge(Nothing, "app")[k] = "app"
<1>1. DOMAIN Nothing = {}
  BY DEF Nothing
<1>2. Merge(Nothing, "app") = [k \in Defined("app") |-> "app"]
  BY <1>1 DEF Merge
<1>3. Defined("app") \in SUBSET Labels /\ [k \in Defined("app") |-> "app"] \in [Defined("app") -> Levels]
  BY DEF Defined, Levels
<1>4. QED
  BY <1>2, <1>3, LabelTypeIs

\* The three ways an app can be joined: without its space, with its space only, and
\* with both.
LEMMA JoinedIs ==
    ASSUME NEW a
    PROVE  /\ Joined(a) \in AppData /\ Precedence(Joined(a))
           /\ a \in got["processes"] => Joined(a).processes
           /\ SpaceOf[a] \in got["spaces"] => Joined(a).space
           /\ SpaceOf[a] \in got["spaces"] /\ OrgOf[SpaceOf[a]] \in got["orgs"] => Joined(a).org
<1> DEFINE p == a \in got["processes"]
           own == Merge(Nothing, "app")
           two == Merge(own, "space")
           all == Merge(two, "org")
           App(sp, og, ls) == [processes |-> p, space |-> sp, org |-> og, labels |-> ls]
           Org == OrgOf[SpaceOf[a]]
<1>1. /\ own \in LabelType /\ DOMAIN own = Defined("app")
      /\ \A k \in Defined("app") : own[k] = "app"
  BY OwnLabels
<1>2. p \in BOOLEAN /\ {"space", "org"} \subseteq Levels
  BY DEF Levels
<1>3. Joined(a) = WithOrg(WithSpace(App(FALSE, FALSE, own), SpaceOf[a]), Org)
  BY DEF Joined
<1> HIDE DEF p, own
<1>4. /\ two \in LabelType /\ DOMAIN two = Defined("app") \cup Defined("space")
      /\ \A k \in Defined("app") : two[k] = "app"
      /\ \A k \in Defined("space") \ Defined("app") : two[k] = "space"
  BY <1>1, <1>2, MergeIs
<1> HIDE DEF two
<1>5. /\ all \in LabelType /\ DOMAIN all = Defined("app") \cup Defined("space") \cup Defined("org")
      /\ \A k \in Defined("app") : all[k] = "app"
      /\ \A k \in Defined("space") \ Defined("app") : all[k] = "space"
      /\ \A k \in Defined("org") \ (Defined("app") \cup Defined("space")) : all[k] = "org"
  <2>1. "org" \in Levels
    BY DEF Levels
  <2>2. QED
    BY <2>1, <1>4, MergeIs
<1> HIDE DEF all
<1>6. CASE SpaceOf[a] \notin got["spaces"]
  <2>1. Joined(a) = App(FALSE, FALSE, own)
    BY <1>3, <1>6 DEF WithSpace, WithOrg
  <2>2. Precedence(App(FALSE, FALSE, own))
    BY <1>1 DEF Precedence, Defined
  <2>3. App(FALSE, FALSE, own) \in AppData
    BY <1>1, <1>2 DEF AppData, LabelType
  <2>4. Joined(a).processes = p
    BY <2>1
  <2>5. a \in got["processes"] => Joined(a).processes
    BY <2>4 DEF p
  <2>6. QED
    BY <1>6, <2>1, <2>2, <2>3, <2>5
<1>7. ASSUME SpaceOf[a] \in got["spaces"]
      PROVE  WithSpace(App(FALSE, FALSE, own), SpaceOf[a]) = App(TRUE, FALSE, two)
  BY <1>7 DEF WithSpace, two
<1>8. CASE SpaceOf[a] \in got["spaces"] /\ Org \notin got["orgs"]
  <2>1. Joined(a) = App(TRUE, FALSE, two)
    BY <1>3, <1>7, <1>8 DEF WithOrg
  <2>2. Precedence(App(TRUE, FALSE, two))
    BY <1>4 DEF Precedence, Defined
  <2>3. App(TRUE, FALSE, two) \in AppData
    BY <1>2, <1>4 DEF AppData, LabelType
  <2>4. Joined(a).processes = p /\ Joined(a).space
    BY <2>1
  <2>5. a \in got["processes"] => Joined(a).processes
    BY <2>4 DEF p
  <2>6. QED
    BY <1>8, <2>1, <2>2, <2>3, <2>5
<1>9. CASE SpaceOf[a] \in got["spaces"] /\ Org \in got["orgs"]
  <2>1. WithOrg(App(TRUE, FALSE, two), Org) = App(TRUE, TRUE, all)
    BY <1>9 DEF WithOrg, all
  <2>2. Joined(a) = App(TRUE, TRUE, all)
    BY <1>3, <1>7, <1>9, <2>1
  <2>3. Precedence(App(TRUE, TRUE, all))
    BY <1>5 DEF Precedence, Defined
  <2>4. App(TRUE, TRUE, all) \in AppData
    BY <1>2, <1>5 DEF AppData, LabelType
  <2>5. Joined(a).processes = p /\ Joined(a).space /\ Joined(a).org
    BY <2>2
  <2>6. a \in got["processes"] => Joined(a).processes
    BY <2>5 DEF p
  <2>7. QED
    BY <2>2, <2>3, <2>4, <2>6
<1>10. QED
  BY <1>6, <1>8, <1>9

-----------------------------------------------------------------------------
(* The steps                                                               *)

LEMMA KindOfIs ==
    /\ KindOf("apps") = Apps /\ KindOf("processes") = Apps
    /\ KindOf("spaces") = Spaces /\ KindOf("orgs") = Orgs
BY DEF KindOf

LEMMA FailureIs ==
    Failure.version = 0 /\ DOMAIN Failure.apps = {}
BY DEF Failure, Nothing

\* What an action leaves alone.
LEMMA LabelsKept ==
    ASSUME LabelPrecedence, results' = results
    PROVE  LabelPrecedence'
BY DEF LabelPrecedence

LEMMA TypeKept ==
    ASSUME Shape, UNCHANGED results,
           existing' \subseteq Entities, stable' \subseteq existing',
           ApiVersion' \in {0, 2, 3}, pc' \in {"idle", "v3", "v2"}, listings' \in 0..2,
           fetch' \in [Lists -> {"none", "pending", "ok", "error"}],
           pageOf' \in [Lists -> Nat \ {0}], shifted' \subseteq Lists,
           got' \in [Lists -> SUBSET Entities], \A l \in Lists : got'[l] \subseteq KindOf(l)
    PROVE  Shape'
BY DEF Shape, TypeOK

LEMMA InitInv == Init => Inv
<1> SUFFICES ASSUME Init PROVE Inv
  OBVIOUS
<1>1. Shape
  BY FailureIs DEF Init, Shape, TypeOK
<1>2. Closed
  BY CFClientAssumption DEF Init, Closed, Parent, Entities
<1>3. StableClosed /\ Listed /\ VersionChosen
  BY DEF Init, StableClosed, Listed, VersionChosen
<1>4. LabelPrecedence
  BY FailureIs DEF Init, LabelPrecedence
<1>5. QED
  BY <1>1, <1>2, <1>3, <1>4 DEF Inv

LEMMA CreateKeepsInv ==
    ASSUME Inv, NEW x \in Entities, Create(x)
    PROVE  Inv'
<1>1. Shape'
  BY DEF Inv, Shape, TypeOK, Create, call, lists
<1>2. Closed'
  BY DEF Inv, Closed, Create
<1>3. StableClosed' /\ VersionChosen'
  BY DEF Inv, StableClosed, VersionChosen, Create, call
<1>4. Listed'
  <2> SUFFICES ASSUME pc = "v3", NEW l \in Lists, l \notin shifted, fetch[l] = "pending"
               PROVE  stable \cap Prefix(existing', l, pageOf[l] - 1) \subseteq got[l]
    BY DEF Inv, Listed, Create, call, lists
  <2>1. stable \subseteq existing /\ existing \subseteq existing' /\ existing' \subseteq Entities
        /\ pageOf[l] - 1 \in Nat
    BY DEF Inv, Shape, TypeOK, Create
  <2>2. existing \cap Prefix(existing', l, pageOf[l] - 1) \subseteq Prefix(existing, l, pageOf[l] - 1)
    BY <2>1, CreationMovesBack
  <2>3. QED
    BY <2>1, <2>2 DEF Inv, Listed
<1>5. LabelPrecedence'
  BY LabelsKept DEF Inv, Create
<1>6. QED
  BY <1>1, <1>2, <1>3, <1>4, <1>5 DEF Inv

LEMMA DeleteKeepsInv ==
    ASSUME Inv, NEW x \in Entities, Delete(x)
    PROVE  Inv'
<1>1. Shape'
  BY DEF Inv, Shape, TypeOK, Delete, lists
<1>2. Closed'
  BY DEF Inv, Closed, Delete
<1>3. StableClosed'
  BY DEF Inv, Shape, TypeOK, StableClosed, Delete
<1>4. Listed'
  <2>1. ASSUME pc = "v3", NEW l \in Lists, l \notin shifted', fetch[l] = "pending"
        PROVE  stable' \cap Prefix(existing', l, pageOf[l] - 1) \subseteq got[l]
    <3>1. x \notin Prefix(existing, l, pageOf[l] - 1) /\ l \notin shifted
      BY <2>1, UpToIs DEF Delete
    <3>2. existing \subseteq Entities /\ pageOf[l] - 1 \in Nat
      BY DEF Inv, Shape, TypeOK
    <3>3. Prefix(existing \ {x}, l, pageOf[l] - 1) \subseteq Prefix(existing, l, pageOf[l] - 1)
      BY <3>1, <3>2, DeletionBehind
    <3>4. existing' = existing \ {x} /\ stable' \subseteq stable
      BY DEF Delete
    <3>5. stable \cap Prefix(existing, l, pageOf[l] - 1) \subseteq got[l]
      BY <2>1, <3>1 DEF Inv, Listed
    <3>6. QED
      BY <3>3, <3>4, <3>5
  <2>2. /\ stable' \subseteq stable /\ shifted \subseteq shifted'
        /\ UNCHANGED <<pc, fetch, pageOf, got, results>>
    BY DEF Delete, lists
  <2>3. QED
    BY <2>1, <2>2 DEF Inv, Listed
<1>5. VersionChosen'
  BY DEF Inv, VersionChosen, Delete
<1>6. LabelPrecedence'
  BY LabelsKept DEF Inv, Delete
<1>7. QED
  BY <1>1, <1>2, <1>3, <1>4, <1>5, <1>6 DEF Inv

LEMMA CallKeepsInv ==
    ASSUME Inv, Call
    PROVE  Inv'
<1>1. Shape'
  BY FailureIs DEF Inv, Shape, TypeOK, Call
<1>2. Closed' /\ StableClosed' /\ VersionChosen'
  BY DEF Inv, Closed, StableClosed, VersionChosen, Call
<1>3. Listed'
  <2>1. \A l \in Lists : Prefix(existing, l, 0) = {}
    BY NothingBeforeFirstPage DEF Inv, Shape, TypeOK
  <2>2. QED
    BY <2>1 DEF Listed, Call
<1>4. LabelPrecedence'
  BY FailureIs DEF LabelPrecedence, Call
<1>5. QED
  BY <1>1, <1>2, <1>3, <1>4 DEF Inv

LEMMA FetchPageOfKeepsInv ==
    ASSUME Inv, NEW l \in Lists, FetchPageOf(l)
    PROVE  Inv'
<1>1. Entries(l) = existing \cap KindOf(l) /\ PageEntriesOf(l) \subseteq Entries(l)
  BY DEF Entries, PageEntriesOf, UpTo
<1>2. Shape'
  BY <1>1 DEF Inv, Shape, TypeOK, FetchPageOf, world
<1>3. Closed' /\ StableClosed' /\ VersionChosen'
  BY DEF Inv, Closed, StableClosed, VersionChosen, FetchPageOf, world
<1>4. Listed'
  <2>1. /\ pc = "v3" /\ UNCHANGED <<pc, existing, stable, shifted, results>>
        /\ \A k \in Lists \ {l} : fetch'[k] = fetch[k] /\ pageOf'[k] = pageOf[k] /\ got'[k] = got[k]
    BY DEF Inv, Shape, TypeOK, FetchPageOf, world
  <2>2. stable \subseteq existing /\ existing \subseteq Entities /\ pageOf[l] \in Nat
    BY DEF Inv, Shape, TypeOK
  <2>3. got'[l] = got[l] \cup PageEntriesOf(l) /\ fetch[l] = "pending"
    BY DEF Inv, Shape, FetchPageOf
  <2>4. l \notin shifted => stable \cap Prefix(existing, l, pageOf[l]) \subseteq got'[l]
    BY <2>1, <2>3, UpToIs DEF Inv, Listed, PageEntriesOf
  <2>5. CASE LastPageOf(l)
    <3>1. existing \cap KindOf(l) \subseteq Prefix(existing, l, pageOf[l])
      BY <1>1, <2>2, <2>5, LastPageIsLast DEF LastPageOf
    <3>2. l \notin shifted => stable \cap KindOf(l) \subseteq got'[l]
      BY <2>2, <2>4, <3>1
    <3>3. fetch'[l] = "ok"
      BY <2>5 DEF Inv, Shape, TypeOK, FetchPageOf
    <3>4. QED
      BY <2>1, <3>2, <3>3 DEF Inv, Listed
  <2>6. CASE ~LastPageOf(l)
    <3>1. fetch'[l] = "pending" /\ pageOf'[l] - 1 = pageOf[l]
      BY <2>6 DEF Inv, Shape, TypeOK, FetchPageOf
    <3>2. QED
      BY <2>1, <2>4, <3>1 DEF Inv, Listed
  <2>7. QED
    BY <2>5, <2>6
<1>5. LabelPrecedence'
  BY LabelsKept DEF Inv, FetchPageOf
<1>6. QED
  BY <1>2, <1>3, <1>4, <1>5 DEF Inv

LEMMA FetchFailsKeepsInv ==
    ASSUME Inv, NEW l \in Lists, FetchFails(l)
    PROVE  Inv'
<1>1. Shape'
  BY DEF Inv, Shape, TypeOK, FetchFails, world
<1>2. Closed' /\ StableClosed' /\ VersionChosen'
  BY DEF Inv, Closed, StableClosed, VersionChosen, FetchFails, world
<1>3. Listed'
  BY DEF Inv, Shape, TypeOK, Listed, FetchFails, world
<1>4. LabelPrecedence'
  BY LabelsKept DEF Inv, FetchFails
<1>5. QED
  BY <1>1, <1>2, <1>3, <1>4 DEF Inv

LEMMA ReturnV3KeepsInv ==
    ASSUME Inv, ReturnV3
    PROVE  Inv'
<1>1. /\ results'.version = 3 /\ DOMAIN results'.apps = got["apps"]
      /\ \A a \in got["apps"] : results'.apps[a] = Joined(a)
  BY DEF ReturnV3
<1>2. Shape'
  <2>1. listings' \in 0..2
    BY DEF Inv, Shape, TypeOK, ReturnV3, Count
  <2>2. got["apps"] \subseteq Apps
    BY KindOfIs DEF Inv, Shape, TypeOK, Lists
  <2>3. \A a \in DOMAIN results'.apps : results'.apps[a] \in AppData
    BY <1>1, JoinedIs
  <2>4. /\ fetch' \in [Lists -> {"none", "pending", "ok", "error"}]
        /\ pageOf' \in [Lists -> Nat \ {0}] /\ shifted' \subseteq Lists
        /\ got' \in [Lists -> SUBSET Entities] /\ \A l \in Lists : got'[l] \subseteq KindOf(l)
    BY DEF ReturnV3, Forget
  <2>5. QED
    BY <2>1, <2>2, <2>3, <2>4 DEF Inv, Shape, TypeOK, ReturnV3, world
<1>3. Closed' /\ StableClosed' /\ Listed' /\ VersionChosen'
  BY DEF Inv, Closed, StableClosed, Listed, VersionChosen, ReturnV3, world
<1>4. LabelPrecedence'
  <2>1. \A a \in DOMAIN results'.apps : Precedence(results'.apps[a])
    BY <1>1, JoinedIs
  <2>2. QED
    BY <2>1 DEF LabelPrecedence
<1>5. QED
  BY <1>2, <1>3, <1>4 DEF Inv

LEMMA FailV3KeepsInv ==
    ASSUME Inv, FailV3
    PROVE  Inv'
<1>1. Shape'
  BY DEF Inv, Shape, TypeOK, FailV3, Forget, world
<1>2. Closed' /\ StableClosed' /\ Listed' /\ VersionChosen'
  BY DEF Inv, Closed, StableClosed, Listed, VersionChosen, FailV3, Fallback, world
<1>3. LabelPrecedence'
  BY LabelsKept DEF Inv, FailV3
<1>4. QED
  BY <1>1, <1>2, <1>3 DEF Inv

LEMMA ReturnV2KeepsInv ==
    ASSUME Inv, ReturnV2
    PROVE  Inv'
<1>1. PICK listed \in SUBSET (existing \cap Apps) :
         results' = [version |-> 2, apps |->
             [a \in listed |-> [processes |-> TRUE, space |-> TRUE, org |-> TRUE,
                                labels |-> Nothing]]]
  BY DEF ReturnV2
<1>2. [processes |-> TRUE, space |-> TRUE, org |-> TRUE, labels |-> Nothing] \in AppData
  <2>1. Nothing \in [{} -> Levels] /\ {} \in SUBSET Labels
    BY DEF Nothing
  <2>2. Nothing \in LabelType
    BY <2>1, LabelTypeIs
  <2>3. QED
    BY <2>2 DEF AppData, LabelType
<1>3. Shape'
  BY <1>2 DEF Inv, Shape, TypeOK, ReturnV2, VersionAfterV2, Count, world, lists
<1>4. Closed' /\ StableClosed' /\ Listed' /\ VersionChosen'
  BY DEF Inv, Closed, StableClosed, Listed, VersionChosen, ReturnV2, VersionAfterV2, world
<1>5. LabelPrecedence'
  BY <1>1 DEF LabelPrecedence
<1>6. QED
  BY <1>3, <1>4, <1>5 DEF Inv

LEMMA FailV2KeepsInv ==
    ASSUME Inv, FailV2
    PROVE  Inv'
<1>1. Shape'
  BY DEF Inv, Shape, TypeOK, FailV2, world, lists
<1>2. Closed' /\ StableClosed' /\ Listed' /\ VersionChosen'
  BY DEF Inv, Closed, StableClosed, Listed, VersionChosen, FailV2, world
<1>3. LabelPrecedence'
  BY LabelsKept DEF Inv, FailV2
<1>4. QED
  BY <1>1, <1>2, <1>3 DEF Inv

LEMMA StutterKeepsInv ==
    ASSUME Inv, UNCHANGED vars
    PROVE  Inv'
<1>1. Shape' /\ LabelPrecedence'
  BY LabelsKept DEF Inv, Shape, TypeOK, vars, world, call, lists
<1>2. Closed' /\ StableClosed' /\ Listed' /\ VersionChosen'
  BY DEF Inv, Closed, StableClosed, Listed, VersionChosen, vars, world, call, lists
<1>3. QED
  BY <1>1, <1>2 DEF Inv

LEMMA NextKeepsInv ==
    ASSUME Inv, [Next]_vars
    PROVE  Inv'
BY CreateKeepsInv, DeleteKeepsInv, CallKeepsInv, FetchPageOfKeepsInv, FetchFailsKeepsInv,
   ReturnV3KeepsInv, FailV3KeepsInv, ReturnV2KeepsInv, FailV2KeepsInv, StutterKeepsInv DEF Next

LEMMA InvAlways == Spec => []Inv
BY InitInv, NextKeepsInv, PTL DEF Spec

-----------------------------------------------------------------------------
(* Theorems                                                                *)

\* The variables of GetApplications keep their types.
THEOREM ClientTypes == Spec => []TypeOK
<1>1. Inv => TypeOK
  BY DEF Inv, Shape
<1>2. QED
  BY <1>1, InvAlways, PTL

\* setV3SpaceData and setV3OrgData: whatever was found for an app, each of its labels
\* has the value of the most specific level that defines it.
THEOREM LabelsOfMostSpecific == Spec => []LabelPrecedence
<1>1. Inv => LabelPrecedence
  BY DEF Inv
<1>2. QED
  BY <1>1, InvAlways, PTL

\* getV3Applications: an app that is there during the whole listing is returned with
\* its processes, space and org, in whatever order the pages of the four lists are
\* answered and whatever else is created, or deleted from the pages still to be read.
THEOREM StableAppsListed == Spec => StableAppsComplete
<1>1. ASSUME Inv, [Next]_vars, pc = "v3", pc' = "idle", results'.version = 3,
             NEW a \in stable \cap Apps
      PROVE  /\ "apps" \notin shifted => a \in DOMAIN results'.apps
             /\ a \in DOMAIN results'.apps =>
                   /\ "processes" \notin shifted => results'.apps[a].processes
                   /\ "spaces" \notin shifted => results'.apps[a].space
                   /\ {"spaces", "orgs"} \cap shifted = {} => results'.apps[a].org
  <2>1. ReturnV3
    <3>1. results' # results
      BY <1>1, FailureIs DEF Inv, Listed
    <3>2. QED
      BY <1>1, <3>1 DEF Next, Create, Delete, Call, FetchPageOf, FetchFails, FailV3,
         ReturnV2, FailV2, vars
  <2>2. \A l \in Lists : l \notin shifted => stable \cap KindOf(l) \subseteq got[l]
    BY <1>1, <2>1 DEF Inv, Listed, ReturnV3, Fetched, Failed
  <2>3. SpaceOf[a] \in stable \cap Spaces
    BY <1>1, CFClientAssumption DEF Inv, StableClosed, Parent
  <2>4. OrgOf[SpaceOf[a]] \in stable \cap Orgs
    BY <1>1, CFClientAssumption DEF Inv, StableClosed, Parent
  <2>5. /\ "apps" \notin shifted => a \in got["apps"]
        /\ "processes" \notin shifted => a \in got["processes"]
        /\ "spaces" \notin shifted => SpaceOf[a] \in got["spaces"]
        /\ "orgs" \notin shifted => OrgOf[SpaceOf[a]] \in got["orgs"]
    BY <2>2, <2>3, <2>4, KindOfIs DEF Lists
  <2>6. /\ DOMAIN results'.apps = got["apps"]
        /\ a \in got["apps"] => results'.apps[a] = Joined(a)
    BY <2>1 DEF ReturnV3
  <2>7. QED
    BY <2>5, <2>6, JoinedIs
<1>2. Inv /\ [Next]_vars => [pc = "v3" /\ pc' = "idle" /\ results'.version = 3 =>
          \A a \in stable \cap Apps :
              /\ "apps" \notin shifted => a \in DOMAIN results'.apps
              /\ a \in DOMAIN results'.apps =>
                    /\ "processes" \notin shifted => results'.apps[a].processes
                    /\ "spaces" \notin shifted => results'.apps[a].space
                    /\ {"spaces", "orgs"} \cap shifted = {} => results'.apps[a].org
      ]_vars
  BY <1>1
<1>3. QED
  BY <1>2, InvAlways, PTL DEF Spec, StableAppsComplete

\* GetApplications: version 2 is used only as long as nothing was listed.
THEOREM FallbackOnce == Spec => FallbackOnlyOnce
<1>1. Inv /\ [Next]_vars
        => [listings > 0 /\ results' # results => results'.version # 2]_vars
  <2> SUFFICES ASSUME Inv, Next, listings > 0, results' # results
               PROVE  results'.version # 2
    OBVIOUS
  <2>1. ~ReturnV2
    BY DEF Inv, VersionChosen, ReturnV2
  <2>2. CASE Call
    BY <2>2, FailureIs DEF Call
  <2>3. CASE ReturnV3
    BY <2>3 DEF ReturnV3
  <2>4. QED
    BY <2>1, <2>2, <2>3 DEF Next, Create, Delete, FetchPageOf, FetchFails, FailV3, FailV2
<1>2. QED
  BY <1>1, InvAlways, PTL DEF Spec, FallbackOnlyOnce
=============================================================================

------------------------------ MODULE MCListing ------------------------------
(***************************************************************************)
(* The three parts of an application listing on small instances: the calls *)
(* of GetApplications, the paging of a version 3 list and the one of       *)
(* version 2.  They share no variable; the initial state chooses the part  *)
(* that runs, and the others stay where they are.                          *)
(***************************************************************************)
EXTENDS CFClient, V2Listing, V3Paging, TLC

CONSTANTS a1, a2, s1, s2, o1

TwoSpaces == (a1 :> s1) @@ (a2 :> s2)
OneOrg == (s1 :> o1) @@ (s2 :> o1)

\* Processes are sorted the other way round than their apps.
AppsFirst == (a1 :> 1) @@ (a2 :> 2) @@ (s1 :> 3) @@ (s2 :> 4) @@ (o1 :> 5)
Ranks == [l \in Lists |-> IF l = "processes" THEN (a1 :> 2) @@ (a2 :> 1) @@ AppsFirst
                                             ELSE AppsFirst]
EveryLabel == [levels \in SUBSET Levels |-> levels]

VARIABLE part

listingVars == <<vars, v2vars, v3vars, part>>

V2Off == V2Init /\ NumWorkers = 0
V3Off == V3Init /\ initial = 0 /\ ~advancedTagging

ListingInit ==
    /\ Init
    /\ \/ part = "client" /\ V2Off /\ V3Off
       \/ part = "v2" /\ V2Init /\ V3Off
       \/ part = "v3" /\ V2Off /\ V3Init

ListingNext ==
    /\ UNCHANGED part
    /\ \/ part = "client" /\ Next /\ UNCHANGED <<v2vars, v3vars>>
       \/ part = "v2" /\ V2Next /\ UNCHANGED <<vars, v3vars>>
       \/ part = "v3" /\ V3Next /\ UNCHANGED <<vars, v2vars>>

PagingStep == part = "v3" /\ V3Step /\ UNCHANGED <<vars, v2vars, part>>

ListingSpec == ListingInit /\ [][ListingNext]_listingVars /\ WF_listingVars(PagingStep)

\* The types of the three parts.
ListingTypeOK == TypeOK /\ V2TypeOK /\ V3TypeOK
=============================================================================

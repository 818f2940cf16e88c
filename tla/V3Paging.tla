------------------------------- MODULE V3Paging -------------------------------
(***************************************************************************)
(* The paging of one version 3 list (getV3Apps, and without the sidecars   *)
(* getV3Processes, getV3Spaces and getV3Orgs): page after page is          *)
(* requested until the last answer says there are no more, while entries   *)
(* are created and deleted and the pages shift.                            *)
(*                                                                         *)
(* Entries are numbered in the order they are created.  Nothing in the     *)
(* client says how the API sorts a list, so a new one may appear anywhere. *)
(* The sidecars of an app are one request.                                 *)
(***************************************************************************)
EXTENDS Naturals, Sequences, Functions, SequencesExt

CONSTANTS
    MaxEntries,    \* bound: entries that ever exist
    apiBatchSize   \* entries of a page

ASSUME V3PagingAssumption == MaxEntries \in Nat /\ apiBatchSize \in Nat \ {0}

VARIABLES
    apiList,          \* the list as the API has it now
    initial,          \* how many entries it had when the call began
    known,            \* entries created so far
    deleted,          \* those deleted since the call began
    advancedTagging,  \* cfc.advancedTagging, for the list of apps
    v3pc,             \* "request" a page, "convert" its entries, or the end
    page,
    totalPages,       \* appResp.Pagination.TotalPages
    resources,        \* entries of the page still to be converted
    cfapps            \* entries collected so far

api == <<apiList, known, deleted>>
v3vars == <<api, initial, advancedTagging, v3pc, page, totalPages, resources, cfapps>>

V3Init ==
    /\ initial \in 0..MaxEntries /\ known = initial
    /\ apiList = [i \in 1..initial |-> i] /\ deleted = {}
    /\ advancedTagging \in BOOLEAN
    /\ v3pc = "request" /\ page = 1 /\ totalPages = 0
    /\ resources = <<>> /\ cfapps = <<>>

-----------------------------------------------------------------------------
(* The API                                                                 *)

V3Done == v3pc \in {"returned", "error"}

CreateEntry ==
    /\ ~V3Done /\ known < MaxEntries
    /\ known' = known + 1
    /\ \E k \in 1..(Len(apiList) + 1) : apiList' = InsertAt(apiList, k, known')
    /\ UNCHANGED <<deleted, initial, advancedTagging, v3pc, page, totalPages, resources, cfapps>>

DeleteEntry ==
    /\ ~V3Done
    /\ \E k \in DOMAIN apiList : /\ apiList' = RemoveAt(apiList, k)
                                 /\ deleted' = deleted \cup {apiList[k]}
    /\ UNCHANGED <<known, initial, advancedTagging, v3pc, page, totalPages, resources, cfapps>>

\* An empty list has one page, and the pages past the last one are empty.
Pages == IF apiList = <<>> THEN 1 ELSE (Len(apiList) + apiBatchSize - 1) \div apiBatchSize
EndOfPage == IF page * apiBatchSize < Len(apiList) THEN page * apiBatchSize ELSE Len(apiList)
PageEntries == SubSeq(apiList, (page - 1) * apiBatchSize + 1, EndOfPage)

-----------------------------------------------------------------------------
(* getV3Apps                                                               *)

RequestPage ==
    /\ v3pc = "request"
    /\ \/ /\ resources' = PageEntries /\ totalPages' = Pages
          /\ v3pc' = "convert"
       \/ v3pc' = "error" /\ UNCHANGED <<resources, totalPages>>
    /\ UNCHANGED <<api, initial, advancedTagging, page, cfapps>>

\* getCFSidecars finds an app only as long as it exists.
SidecarsFound(entry) == entry \notin deleted

\* setV3AppData and, with advanced tagging, getCFSidecars, which may also fail for any
\* other reason, and then fails the whole listing.
ConvertEntry ==
    /\ v3pc = "convert" /\ resources # <<>>
    /\ \/ /\ advancedTagging => SidecarsFound(Head(resources))
          /\ cfapps' = Append(cfapps, Head(resources))
          /\ resources' = Tail(resources)
          /\ UNCHANGED v3pc
       \/ /\ advancedTagging
          /\ v3pc' = "error"
          /\ UNCHANGED <<cfapps, resources>>
    /\ UNCHANGED <<api, initial, advancedTagging, page, totalPages>>

LastPageEarly == totalPages <= page + 1   \* mutant
LastPageExact == totalPages = page        \* mutant
LastPage == totalPages <= page

\* All pages past the last possible one are empty: page stops there.
PageDone ==
    /\ v3pc = "convert" /\ resources = <<>>
    /\ IF LastPage
         THEN v3pc' = "returned" /\ UNCHANGED page
         ELSE v3pc' = "request" /\ page' = IF page > MaxEntries THEN page ELSE page + 1
    /\ UNCHANGED <<api, initial, advancedTagging, totalPages, resources, cfapps>>

V3Returned == V3Done /\ UNCHANGED v3vars

V3Step == RequestPage \/ ConvertEntry \/ PageDone

V3Next == V3Step \/ CreateEntry \/ DeleteEntry \/ V3Returned

\* The loop is sequential code whose requests end; nothing obliges the API to change.
V3Fairness == WF_v3vars(V3Step)

V3Spec == V3Init /\ [][V3Next]_v3vars /\ V3Fairness

-----------------------------------------------------------------------------
(* Properties                                                              *)

V3TypeOK ==
    /\ known \in 0..MaxEntries /\ initial \in 0..known
    /\ IsInjective(apiList) /\ Range(apiList) = (1..known) \ deleted
    /\ advancedTagging \in BOOLEAN
    /\ v3pc \in {"request", "convert", "returned", "error"}
    /\ page \in 1..(MaxEntries + 1) /\ totalPages \in 0..MaxEntries + 1
    /\ {resources, cfapps} \subseteq Seq(1..known)

\* getV3Apps: a deletion during the paging may make it skip an entry, and an
\* insertion may make it collect one twice (setV3ProcessData then counts a process
\* twice), but each does nothing worse: without deletions every entry of the start
\* is collected, without insertions none is collected twice, and a list that does
\* not change is returned as it is.
PagesAddUp ==
    v3pc = "returned" =>
        /\ deleted = {} => 1..initial \subseteq Range(cfapps)
        /\ known = initial => IsInjective(cfapps)
        /\ deleted = {} /\ known = initial => cfapps = apiList

\* The loop ends although the number of pages changes under it: it may have passed
\* the last page when it shrinks, and it grows with every insertion.
PagingEnds == v3pc = "convert" ~> V3Done
=============================================================================

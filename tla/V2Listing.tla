------------------------------ MODULE V2Listing ------------------------------
(***************************************************************************)
(* getV2Applications: the first page tells how many there are, and the     *)
(* others are divided among goroutines, each of which fetches a range and  *)
(* appends every page to the shared results under a mutex.                 *)
(***************************************************************************)
EXTENDS Integers, Sequences, FiniteSets, Functions

CONSTANTS
    MaxPages,      \* bound: pages the API reports
    MaxWorkers     \* bound: config.NumWorkers

ASSUME V2ListingAssumption == MaxPages \in Nat /\ MaxWorkers \in Nat

VARIABLES
    NumWorkers,    \* cfc.NumWorkers
    pages,         \* total pages the first answer reports
    v2pc,          \* where the caller of getV2Applications is
    workerPc,      \* where each goroutine is
    currentPage,
    v2results,     \* the pages appended, in order
    mine,          \* the results a goroutine read before it writes them back
    mutex,
    failed         \* pages whose request failed, which are only logged

v2vars == <<NumWorkers, pages, v2pc, workerPc, currentPage, v2results, mine, mutex, failed>>

Min2(a, b) == IF a <= b THEN a ELSE b
CeilDiv(a, b) == (a + b - 1) \div b

Worker == 0..(MaxWorkers - 1)
Free == -1

\* "We cannot have more workers than pages to fetch"
numWorkers == Min2(NumWorkers, pages)

pagesPerWorkerFloor == IF pages - 1 > 0 THEN (pages - 1) \div numWorkers ELSE 0   \* mutant
pagesPerWorker == IF pages - 1 > 0 THEN CeilDiv(pages - 1, numWorkers) ELSE 0

\* Goroutine w fetches the pages Start(w) to End(w) - 1.
Start(w) == w * pagesPerWorker + 2
EndPastLast(w) == (w + 1) * pagesPerWorker + 2   \* mutant: no cap at the last page
End(w) == Min2((w + 1) * pagesPerWorker + 2, pages + 1)

V2Init ==
    /\ NumWorkers \in 0..MaxWorkers /\ pages = 0
    /\ v2pc = "first" /\ workerPc = [w \in Worker |-> "none"]
    /\ currentPage = [w \in Worker |-> 0]
    /\ v2results = <<>> /\ mine = [w \in Worker |-> <<>>]
    /\ mutex = Free /\ failed = {}

\* Page 1, which an API without apps reports too.
FirstPage ==
    /\ v2pc = "first"
    /\ pages' \in 1..MaxPages
    /\ v2results' = <<1>>
    /\ v2pc' = "start"
    /\ UNCHANGED <<NumWorkers, workerPc, currentPage, mine, mutex, failed>>

FirstPageFails ==
    /\ v2pc = "first"
    /\ failed' = {1}
    /\ v2pc' = "error"
    /\ UNCHANGED <<NumWorkers, pages, workerPc, currentPage, v2results, mine, mutex>>

\* The loop of go statements.
StartWorkers ==
    /\ v2pc = "start"
    /\ workerPc' = [w \in Worker |-> IF w < numWorkers THEN "fetch" ELSE "none"]
    /\ currentPage' = [w \in Worker |-> IF w < numWorkers THEN Start(w) ELSE 0]
    /\ v2pc' = "wait"
    /\ UNCHANGED <<NumWorkers, pages, v2results, mine, mutex, failed>>

NextPage(w) == currentPage' = [currentPage EXCEPT ![w] = @ + 1]

FetchPage(w) ==
    /\ workerPc[w] = "fetch" /\ currentPage[w] < End(w)
    /\ \/ workerPc' = [workerPc EXCEPT ![w] = "lock"] /\ UNCHANGED <<currentPage, failed>>
       \/ /\ failed' = failed \cup {currentPage[w]}
          /\ NextPage(w)
          /\ UNCHANGED workerPc
    /\ UNCHANGED <<NumWorkers, pages, v2pc, v2results, mine, mutex>>

NoMutex == TRUE   \* mutant: the append is not protected
MutexFree == mutex = Free

\* results = append(results, pageResults...) under the mutex: read it, write it.
AppendRead(w) ==
    /\ workerPc[w] = "lock" /\ MutexFree
    /\ mutex' = w
    /\ mine' = [mine EXCEPT ![w] = v2results]
    /\ workerPc' = [workerPc EXCEPT ![w] = "append"]
    /\ UNCHANGED <<NumWorkers, pages, v2pc, currentPage, v2results, failed>>

AppendWrite(w) ==
    /\ workerPc[w] = "append"
    /\ v2results' = Append(mine[w], currentPage[w])
    /\ mine' = [mine EXCEPT ![w] = <<>>]
    /\ mutex' = Free
    /\ NextPage(w)
    /\ workerPc' = [workerPc EXCEPT ![w] = "fetch"]
    /\ UNCHANGED <<NumWorkers, pages, v2pc, failed>>

\* The deferred wg.Done()
Finish(w) ==
    /\ workerPc[w] = "fetch" /\ currentPage[w] >= End(w)
    /\ workerPc' = [workerPc EXCEPT ![w] = "done"]
    /\ UNCHANGED <<NumWorkers, pages, v2pc, currentPage, v2results, mine, mutex, failed>>

\* wg.Wait()
AllDone == \A w \in Worker : workerPc[w] \in {"none", "done"}
V2Return ==
    /\ v2pc = "wait" /\ AllDone
    /\ v2pc' = "returned"
    /\ UNCHANGED <<NumWorkers, pages, workerPc, currentPage, v2results, mine, mutex, failed>>

V2Returned == v2pc \in {"returned", "error"} /\ UNCHANGED v2vars

WorkerStep(w) == FetchPage(w) \/ AppendRead(w) \/ AppendWrite(w) \/ Finish(w)

V2Next ==
    \/ FirstPage \/ FirstPageFails \/ StartWorkers \/ V2Return \/ V2Returned
    \/ \E w \in Worker : WorkerStep(w)

V2Spec == V2Init /\ [][V2Next]_v2vars

-----------------------------------------------------------------------------
(* Properties                                                              *)

V2TypeOK ==
    /\ NumWorkers \in 0..MaxWorkers /\ pages \in 0..MaxPages
    /\ v2pc \in {"first", "start", "wait", "returned", "error"}
    /\ workerPc \in [Worker -> {"none", "fetch", "lock", "append", "done"}]
    /\ currentPage \in [Worker -> 0..(MaxPages + MaxWorkers + 1)]
    /\ v2results \in Seq(1..MaxPages) /\ mine \in [Worker -> Seq(1..MaxPages)]
    /\ mutex \in Worker \cup {Free} /\ failed \subseteq 1..(MaxPages + 1)

\* getV2Applications: no page is fetched twice, nor a page that does not exist, and
\* no goroutine overwrites what another one appended; a page is either in the
\* results or was reported as failed once everybody is done.  With fewer than one
\* worker only the first page is fetched.
EveryPageOnce ==
    /\ IsInjective(v2results) /\ Range(v2results) \cap failed = {}
    /\ Range(v2results) \cup failed \subseteq 1..(IF pages = 0 THEN 1 ELSE pages)
    /\ v2pc = "returned" => Range(v2results) \cup failed = (IF NumWorkers > 0 THEN 1..pages ELSE {1})
=============================================================================

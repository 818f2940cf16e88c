------------------------------ MODULE Formatter ------------------------------
(***************************************************************************)
(* PostMetrics and PostLogs of the Datadog client: the formatter cuts the  *)
(* data into payloads that fit maxPostBytes by halving it recursively, and *)
(* the payloads are posted one by one with retries.                        *)
(*                                                                         *)
(* An item is a metric of the map or a log of the slice, numbered in slice *)
(* order.  A batch is formatted once, so whether its compressed form is    *)
(* larger than maxPostBytes is decided at that moment, either way.  The    *)
(* recursion is its explicit call stack.                                   *)
(***************************************************************************)
EXTENDS Naturals, Sequences, FiniteSets, Functions

CONSTANTS
    NumItems,     \* bound: items to post
    Bosh,         \* items that are, among metrics, named bosh.healthmonitor...
    Malformed,    \* and metrics json.Marshal refuses: a point is infinite
    RetryMax,     \* httpClient.RetryMax (3 in the code)
    FlushDuration \* FlushDurationSeconds, in units of time

Item == 1..NumItems

ASSUME FormatterAssumption ==
    /\ NumItems \in Nat /\ RetryMax \in Nat /\ FlushDuration \in Nat
    /\ Bosh \subseteq Item /\ Malformed \subseteq Item

VARIABLES
    logs,        \* TRUE: the call is PostLogs, FALSE: PostMetrics
    data,        \* the argument of PostMetrics or PostLogs
    todo,        \* calls of FormatMetrics or FormatLogs still to run
    payloads,    \* the result so far: the items of each payload
    bare,        \* metrics formatted without the prefix
    dropped,     \* items whose payload is too big on its own
    lost,        \* items of a payload that could not be formatted
    next,        \* the payload being posted
    attempt,     \* retries sent for it so far
    backoff,     \* the wait before its next retry, before it is capped
    waited,      \* the time it has spent waiting for its retries
    copies,      \* how many requests with an item Datadog accepted
    acked,       \* items of the payloads whose post returned no error
    unsent       \* unsentMetrics or unsentLogs

formatted == <<logs, data, todo, payloads, bare, dropped, lost>>
retrying == <<attempt, backoff, waited>>
sending == <<next, retrying, copies, acked, unsent>>
vars == <<formatted, sending>>

WaitMinThird == FlushDuration \div 3   \* mutant
WaitMin == FlushDuration \div 7
WaitMax == FlushDuration \div 2

Init ==
    /\ logs \in BOOLEAN
    /\ \E n \in 0..NumItems : data = 1..n
    /\ todo = <<data>> /\ payloads = <<>> /\ bare = {} /\ dropped = {} /\ lost = {}
    /\ next = 1 /\ attempt = 0 /\ backoff = WaitMin /\ waited = 0 /\ copies = [i \in Item |-> 0]
    /\ acked = {} /\ unsent = 0

-----------------------------------------------------------------------------
(* FormatMetrics and FormatLogs                                            *)

\* splitMetrics fills its first map with half of the items in map order, which
\* is random; splitLogs returns the later half of the slice first.
FirstHalves(batch) ==
    LET half == Cardinality(batch) \div 2 IN
    IF logs
      THEN {a \in SUBSET batch : /\ Cardinality(a) = Cardinality(batch) - half
                                 /\ \A x \in a, y \in batch \ a : y < x}
      ELSE {a \in SUBSET batch : Cardinality(a) = half}

\* formatMetrics walks the map in random order, and forgets the prefix once it
\* meets a bosh.healthmonitor metric: what comes later is bare as well.
BareSets(batch) ==
    IF logs \/ batch \cap Bosh = {}
      THEN {{}}
      ELSE {set \in SUBSET batch : batch \cap Bosh \subseteq set}

\* len(data) == 0
FormatNothing ==
    /\ todo # <<>> /\ Head(todo) = {}
    /\ todo' = Tail(todo)
    /\ UNCHANGED <<logs, data, payloads, bare, dropped, lost, sending>>

Refused(batch) == ~logs /\ batch \cap Malformed # {}

\* json.Marshal fails: the batch is left out of the result.
FormatError ==
    /\ todo # <<>> /\ Refused(Head(todo))
    /\ lost' = lost \cup Head(todo)
    /\ todo' = Tail(todo)
    /\ UNCHANGED <<logs, data, payloads, bare, dropped, sending>>

Compressed == todo # <<>> /\ Head(todo) # {} /\ ~Refused(Head(todo))

\* len(data) == 1
SingleLogs(batch) == logs /\ Cardinality(batch) = 1   \* mutant: a check FormatMetrics lacks
Single(batch) == Cardinality(batch) = 1

\* A single item that is too big: warn and drop it.
DropItem ==
    /\ Compressed /\ Single(Head(todo))
    /\ dropped' = dropped \cup Head(todo)
    /\ todo' = Tail(todo)
    /\ UNCHANGED <<logs, data, payloads, bare, lost, sending>>

\* The two recursive calls of a batch that is too big.
HalvesSharing(batch, a) ==   \* mutant: the slices data[l/2:] and data[:l/2+1]
    <<a, (batch \ a) \cup {CHOOSE x \in a : TRUE}>>
Halves(batch, a) == <<a, batch \ a>>

Split ==
    /\ Compressed /\ ~Single(Head(todo))
    /\ \E a \in FirstHalves(Head(todo)) : todo' = Halves(Head(todo), a) \o Tail(todo)
    /\ UNCHANGED <<logs, data, payloads, bare, dropped, lost, sending>>

\* The compressed batch fits.
Emit ==
    /\ Compressed
    /\ payloads' = Append(payloads, Head(todo))
    /\ \E set \in BareSets(Head(todo)) : bare' = bare \cup set
    /\ todo' = Tail(todo)
    /\ UNCHANGED <<logs, data, dropped, lost, sending>>

Format == FormatNothing \/ FormatError \/ DropItem \/ Split \/ Emit

-----------------------------------------------------------------------------
(* The loop over the payloads, and httpClient.Do.                          *)

Posting == todo = <<>> /\ next <= Len(payloads)

Received == [i \in Item |-> IF i \in payloads[next] THEN copies[i] + 1 ELSE copies[i]]

NextPayload ==
    /\ next' = next + 1
    /\ attempt' = 0 /\ backoff' = WaitMin /\ waited' = 0

\* An error is returned for this payload.
CountUnsentBatch == unsent' = unsent + 1   \* mutant: one per payload
CountUnsent == unsent' = unsent + Cardinality(payloads[next])

\* Datadog answers with a status of the 200 range.
Accept ==
    /\ Posting
    /\ copies' = Received
    /\ acked' = acked \cup payloads[next]
    /\ NextPayload
    /\ UNCHANGED <<formatted, unsent>>

\* Any other status, unless it is one httpClient retries (429 or the 500 range).
Reject ==
    /\ Posting
    /\ CountUnsent /\ NextPayload
    /\ UNCHANGED <<formatted, copies, acked>>

RetriesLeftOffByOne == attempt <= RetryMax   \* mutant
RetriesLeft == attempt < RetryMax

\* The wait of httpClient.Backoff, which doubles up to RetryWaitMax.
Wait == IF backoff > WaitMax THEN WaitMax ELSE backoff

\* No answer in writeTimeout, or a status that is retried, whether or not Datadog
\* accepted the request: wait and send it again.
Retry ==
    /\ Posting /\ RetriesLeft
    /\ copies' \in {copies, Received}
    /\ attempt' = attempt + 1
    /\ waited' = waited + Wait /\ backoff' = 2 * backoff
    /\ UNCHANGED <<formatted, next, acked, unsent>>

\* The same after the last retry.
GiveUp ==
    /\ Posting /\ ~RetriesLeft
    /\ copies' \in {copies, Received}
    /\ CountUnsent /\ NextPayload
    /\ UNCHANGED <<formatted, acked>>

Post == Accept \/ Reject \/ Retry \/ GiveUp

Done == todo = <<>> /\ next > Len(payloads)

Returned == Done /\ UNCHANGED vars

Next == Format \/ Post \/ Returned

Spec == Init /\ [][Next]_vars

\* PostMetrics is sequential code, and every request times out.
FairSpec == Spec /\ WF_vars(Format \/ Post)

-----------------------------------------------------------------------------
(* Properties                                                              *)

TypeOK ==
    /\ logs \in BOOLEAN /\ data \subseteq Item
    /\ todo \in Seq(SUBSET Item) /\ payloads \in Seq(SUBSET Item)
    /\ {bare, dropped, lost, acked} \subseteq SUBSET Item
    /\ next \in 1..(Len(payloads) + 1)
    /\ attempt \in 0..RetryMax /\ backoff \in Nat /\ waited \in Nat
    /\ copies \in [Item -> Nat] /\ unsent \in Nat

One(P) == IF P THEN 1 ELSE 0

InBatches(i, batches) == Cardinality({k \in DOMAIN batches : i \in batches[k]})

\* Splitting neither loses nor duplicates an item: each one is in exactly one
\* call still to run, payload, dropped item or payload that failed to format.
SplitPartitions ==
    \A i \in data : InBatches(i, todo) + InBatches(i, payloads)
                     + One(i \in dropped) + One(i \in lost) = 1

\* The number PostMetrics returns is that of the items it posted without success.
\* Dropped items and payloads that failed to format are not part of it.
UnsentExact ==
    unsent + Cardinality(acked)
        = Cardinality(UNION {payloads[k] : k \in 1..(next - 1)})

\* Retries duplicate data, but a request is sent at most RetryMax + 1 times, and
\* data whose post returned no error did arrive.
CopiesBounded ==
    /\ \A i \in Item : copies[i] <= RetryMax + 1
    /\ \A i \in acked : copies[i] > 0

\* "Total time for retry should be <= flushDuration" (client.go:75): the waits of
\* one request fit a flush interval.  The requests themselves may each take
\* writeTimeout more, and a flush may post several payloads.
RetriesWithinFlush == waited <= FlushDuration

\* Posted metrics carry the prefix, unless they are bosh.healthmonitor metrics.
PrefixAdded == bare \subseteq Bosh

\* Posting ends, whatever Datadog answers.
PostingEnds == <>Done
=============================================================================

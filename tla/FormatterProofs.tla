--------------------------- MODULE FormatterProofs ---------------------------
(***************************************************************************)
(* Proofs about Formatter for any number of items, any choice of           *)
(* malformed and bosh.healthmonitor metrics, and any number of retries.    *)
(***************************************************************************)
EXTENDS Formatter, Integers, FiniteSetTheorems, TLAPS

-----------------------------------------------------------------------------
(* Sequences of batches: what each step of the formatter does to the items *)
(* they hold.                                                              *)

Items(s) == UNION {s[k] : k \in DOMAIN s}

NoneTwice(s) == \A j, k \in DOMAIN s : j # k => s[j] \cap s[k] = {}

\* Taking the first batch off.
LEMMA TailItems ==
    ASSUME NEW s \in Seq(SUBSET Item), s # <<>>
    PROVE  /\ Head(s) \in SUBSET Item /\ Tail(s) \in Seq(SUBSET Item)
           /\ Items(s) = Head(s) \cup Items(Tail(s))
           /\ NoneTwice(s) => NoneTwice(Tail(s)) /\ Head(s) \cap Items(Tail(s)) = {}
<1> DEFINE t == Tail(s)
<1>1. t \in Seq(SUBSET Item) /\ Len(s) \in Nat /\ Len(s) > 0
  OBVIOUS
<1>2. DOMAIN s = 1..Len(s) /\ DOMAIN t = 1..(Len(s) - 1)
  OBVIOUS
<1>3. Head(s) = s[1] /\ \A k \in 1..(Len(s) - 1) : t[k] = s[k + 1]
  OBVIOUS
<1>4. Head(s) \in SUBSET Item
  BY <1>1, <1>2, <1>3
<1> HIDE DEF t
<1>5. Items(s) = Head(s) \cup Items(t)
  <2>1. ASSUME NEW k \in DOMAIN s PROVE s[k] \subseteq Head(s) \cup Items(t)
    <3>1. CASE k = 1
      BY <3>1, <1>3
    <3>2. CASE k # 1
      <4>1. k - 1 \in DOMAIN t /\ t[k - 1] = s[k]
        BY <3>2, <1>1, <1>2, <1>3
      <4>2. QED
        BY <4>1 DEF Items
    <3>3. QED
      BY <3>1, <3>2
  <2>2. Head(s) \subseteq Items(s)
    <3>1. 1 \in DOMAIN s
      BY <1>1, <1>2
    <3>2. QED
      BY <3>1, <1>3 DEF Items
  <2>3. ASSUME NEW k \in DOMAIN t PROVE t[k] \subseteq Items(s)
    <3>1. k + 1 \in DOMAIN s /\ t[k] = s[k + 1]
      BY <1>1, <1>2, <1>3
    <3>2. QED
      BY <3>1 DEF Items
  <2>4. QED
    BY <2>1, <2>2, <2>3 DEF Items
<1>6. ASSUME NoneTwice(s) PROVE NoneTwice(t) /\ Head(s) \cap Items(t) = {}
  <2>1. \A k \in DOMAIN t : k + 1 \in DOMAIN s /\ t[k] = s[k + 1] /\ k + 1 # 1
    BY <1>1, <1>2, <1>3
  <2>2. NoneTwice(t)
    BY <1>6, <2>1, <1>2 DEF NoneTwice
  <2>3. \A k \in DOMAIN t : Head(s) \cap t[k] = {}
    <3>1. 1 \in DOMAIN s
      BY <1>1, <1>2
    <3>2. QED
      BY <1>6, <2>1, <1>3, <3>1 DEF NoneTwice
  <2>4. QED
    BY <2>2, <2>3 DEF Items
<1>7. QED
  BY <1>1, <1>4, <1>5, <1>6 DEF t

\* Adding a batch at the end.
LEMMA AppendItems ==
    ASSUME NEW s \in Seq(SUBSET Item), NEW b \in SUBSET Item
    PROVE  /\ Append(s, b) \in Seq(SUBSET Item)
           /\ Items(Append(s, b)) = Items(s) \cup b
           /\ NoneTwice(s) /\ b \cap Items(s) = {} => NoneTwice(Append(s, b))
<1> DEFINE t == Append(s, b)
<1>1. t \in Seq(SUBSET Item) /\ Len(s) \in Nat
  OBVIOUS
<1>2. DOMAIN s = 1..Len(s) /\ DOMAIN t = 1..(Len(s) + 1)
  OBVIOUS
<1>3. t[Len(s) + 1] = b /\ \A k \in 1..Len(s) : t[k] = s[k]
  OBVIOUS
<1> HIDE DEF t
<1>4. \A k \in DOMAIN t : (k = Len(s) + 1 /\ t[k] = b) \/ (k \in DOMAIN s /\ t[k] = s[k])
  BY <1>1, <1>2, <1>3
<1>5. Len(s) + 1 \in DOMAIN t /\ DOMAIN s \subseteq DOMAIN t
  BY <1>1, <1>2
<1>6. Items(t) = Items(s) \cup b
  BY <1>2, <1>3, <1>4, <1>5 DEF Items
<1>7. ASSUME NoneTwice(s), b \cap Items(s) = {} PROVE NoneTwice(t)
  <2>1. \A k \in DOMAIN s : b \cap s[k] = {}
    BY <1>7 DEF Items
  <2>2. QED
    BY <1>4, <1>7, <2>1 DEF NoneTwice
<1>8. QED
  BY <1>1, <1>6, <1>7 DEF t

\* Putting two batches in front.
LEMMA FrontItems ==
    ASSUME NEW s \in Seq(SUBSET Item), NEW a \in SUBSET Item, NEW b \in SUBSET Item
    PROVE  /\ <<a, b>> \o s \in Seq(SUBSET Item)
           /\ Items(<<a, b>> \o s) = a \cup b \cup Items(s)
           /\ NoneTwice(s) /\ a \cap b = {} /\ (a \cup b) \cap Items(s) = {}
                => NoneTwice(<<a, b>> \o s)
<1> DEFINE t == <<a, b>> \o s
<1>1. t \in Seq(SUBSET Item) /\ Len(s) \in Nat
  OBVIOUS
<1>2. DOMAIN s = 1..Len(s) /\ DOMAIN t = 1..(Len(s) + 2)
  OBVIOUS
<1>3. t[1] = a /\ t[2] = b /\ \A k \in 3..(Len(s) + 2) : t[k] = s[k - 2]
  OBVIOUS
<1> HIDE DEF t
<1>4. \A k \in DOMAIN t : \/ k = 1 /\ t[k] = a
                          \/ k = 2 /\ t[k] = b
                          \/ k # 1 /\ k # 2 /\ k - 2 \in DOMAIN s /\ t[k] = s[k - 2]
  BY <1>1, <1>2, <1>3
<1>5. 1 \in DOMAIN t /\ 2 \in DOMAIN t
  BY <1>1, <1>2
<1>6. \A k \in DOMAIN s : k + 2 \in DOMAIN t /\ t[k + 2] = s[k]
  BY <1>1, <1>2, <1>3
<1>7. Items(t) = a \cup b \cup Items(s)
  <2>1. ASSUME NEW k \in DOMAIN t PROVE t[k] \subseteq a \cup b \cup Items(s)
    BY <1>4 DEF Items
  <2>2. a \subseteq Items(t) /\ b \subseteq Items(t)
    BY <1>3, <1>5 DEF Items
  <2>3. ASSUME NEW k \in DOMAIN s PROVE s[k] \subseteq Items(t)
    BY <1>6 DEF Items
  <2>4. QED
    BY <2>1, <2>2, <2>3 DEF Items
<1>8. ASSUME NoneTwice(s), a \cap b = {}, (a \cup b) \cap Items(s) = {} PROVE NoneTwice(t)
  <2>1. \A k \in DOMAIN s : a \cap s[k] = {} /\ b \cap s[k] = {}
    BY <1>8 DEF Items
  <2> SUFFICES ASSUME NEW j \in DOMAIN t, NEW k \in DOMAIN t, j # k
               PROVE  t[j] \cap t[k] = {}
    BY DEF NoneTwice
  <2>2. j - 2 \in DOMAIN s /\ k - 2 \in DOMAIN s => j - 2 # k - 2
    BY <1>2
  <2>3. QED
    BY <1>4, <1>8, <2>1, <2>2 DEF NoneTwice
<1>9. QED
  BY <1>1, <1>7, <1>8 DEF t

-----------------------------------------------------------------------------
(* The invariant on which the others rest: where the items are, and that   *)
(* nothing is posted before all batches are formatted.                     *)

Apart ==
    /\ NoneTwice(todo) /\ NoneTwice(payloads)
    /\ Items(todo) \cap Items(payloads) = {}
    /\ dropped \cap lost = {}
    /\ (dropped \cup lost) \cap (Items(todo) \cup Items(payloads)) = {}
    /\ data = Items(todo) \cup Items(payloads) \cup dropped \cup lost

FormatFirst ==
    todo # <<>> =>
        /\ next = 1 /\ attempt = 0 /\ backoff = WaitMin /\ waited = 0
        /\ copies = [i \in Item |-> 0] /\ acked = {} /\ unsent = 0

Base == TypeOK /\ Apart /\ FormatFirst

LEMMA Constants == NumItems \in Nat /\ RetryMax \in Nat /\ WaitMin \in Nat /\ WaitMax \in Nat
BY FormatterAssumption DEF WaitMin, WaitMax

LEMMA InitBase == Init => Base
<1> SUFFICES ASSUME Init PROVE Base
  OBVIOUS
<1> USE Constants
<1>1. data \in SUBSET Item
  BY DEF Init, Item
<1>2. todo = <<data>> /\ payloads = <<>>
  BY DEF Init
<1>3. /\ Items(todo) = data /\ Items(payloads) = {}
      /\ NoneTwice(todo) /\ NoneTwice(payloads)
  <2>1. DOMAIN <<data>> = {1} /\ <<data>>[1] = data
    OBVIOUS
  <2>2. DOMAIN payloads = {}
    BY <1>2
  <2>3. QED
    BY <1>2, <2>1, <2>2 DEF Items, NoneTwice
<1>4. Apart
  BY <1>3 DEF Apart, Init
<1>5. TypeOK
  <2>1. todo \in Seq(SUBSET Item) /\ payloads \in Seq(SUBSET Item)
    BY <1>1, <1>2
  <2>2. QED
    BY <1>1, <1>2, <2>1 DEF TypeOK, Init
<1>6. FormatFirst
  BY DEF FormatFirst, Init
<1>7. QED
  BY <1>4, <1>5, <1>6 DEF Base

\* A step of the formatter leaves what is sent alone.
LEMMA FormatLeavesSending ==
    ASSUME Format
    PROVE  todo # <<>> /\ logs' = logs /\ data' = data /\ UNCHANGED sending
BY DEF Format, FormatNothing, FormatError, DropItem, Split, Emit, Compressed

\* A post leaves what is formatted alone.
LEMMA PostLeavesFormatted ==
    ASSUME Post
    PROVE  Posting /\ UNCHANGED formatted
BY DEF Post, Accept, Reject, Retry, GiveUp

LEMMA FormatKeepsBase ==
    ASSUME Base, Format
    PROVE  Base'
<1> USE Constants DEF Base
<1>1. /\ todo # <<>> /\ UNCHANGED <<logs, data>>
      /\ UNCHANGED <<next, attempt, backoff, waited, copies, acked, unsent>>
  BY FormatLeavesSending DEF sending, retrying
<1>2. FormatFirst'
  BY <1>1 DEF FormatFirst
<1>3. /\ todo \in Seq(SUBSET Item) /\ payloads \in Seq(SUBSET Item)
      /\ {bare, dropped, lost, acked} \subseteq SUBSET Item
  BY DEF TypeOK
<1> DEFINE batch == Head(todo)
           rest == Tail(todo)
<1>4. /\ batch \in SUBSET Item /\ rest \in Seq(SUBSET Item)
      /\ Items(todo) = batch \cup Items(rest)
      /\ NoneTwice(rest) /\ batch \cap Items(rest) = {}
  BY <1>1, <1>3, TailItems DEF Apart
<1> HIDE DEF batch, rest
<1>5. /\ {todo', payloads'} \subseteq Seq(SUBSET Item)
      /\ {bare', dropped', lost'} \subseteq SUBSET Item
      /\ payloads' = payloads \/ payloads' = Append(payloads, batch)
      /\ Apart'
  <2>1. CASE FormatNothing
    <3>1. batch = {} /\ todo' = rest /\ UNCHANGED <<payloads, bare, dropped, lost>>
      BY <2>1 DEF FormatNothing, batch, rest
    <3>2. QED
      BY <1>1, <1>3, <1>4, <3>1 DEF Apart
  <2>2. CASE FormatError
    <3>1. lost' = lost \cup batch /\ todo' = rest /\ UNCHANGED <<payloads, bare, dropped>>
      BY <2>2 DEF FormatError, batch, rest
    <3>2. QED
      BY <1>1, <1>3, <1>4, <3>1 DEF Apart
  <2>3. CASE DropItem
    <3>1. dropped' = dropped \cup batch /\ todo' = rest /\ UNCHANGED <<payloads, bare, lost>>
      BY <2>3 DEF DropItem, batch, rest
    <3>2. QED
      BY <1>1, <1>3, <1>4, <3>1 DEF Apart
  <2>4. CASE Split
    <3>1. PICK a \in FirstHalves(batch) : todo' = <<a, batch \ a>> \o rest
      BY <2>4 DEF Split, Halves, batch, rest
    <3>2. a \subseteq batch
      BY <3>1 DEF FirstHalves
    <3>3. UNCHANGED <<payloads, bare, dropped, lost>>
      BY <2>4 DEF Split
    <3>4. a \in SUBSET Item /\ batch \ a \in SUBSET Item
      BY <1>4, <3>2
    <3>5. /\ todo' \in Seq(SUBSET Item)
          /\ Items(todo') = a \cup (batch \ a) \cup Items(rest)
          /\ NoneTwice(todo')
      BY <1>4, <3>1, <3>2, <3>4, FrontItems
    <3>6. Items(todo') = Items(todo)
      BY <1>4, <3>2, <3>5
    <3>7. QED
      BY <1>1, <1>3, <3>3, <3>5, <3>6 DEF Apart
  <2>5. CASE Emit
    <3>1. payloads' = Append(payloads, batch) /\ todo' = rest /\ UNCHANGED <<dropped, lost>>
      BY <2>5 DEF Emit, batch, rest
    <3>2. PICK set \in BareSets(batch) : bare' = bare \cup set
      BY <2>5 DEF Emit, batch
    <3>3. set \subseteq batch
      BY <3>2 DEF BareSets
    <3>4. /\ payloads' \in Seq(SUBSET Item)
          /\ Items(payloads') = Items(payloads) \cup batch
          /\ NoneTwice(payloads')
      BY <1>3, <1>4, <3>1, AppendItems DEF Apart
    <3>5. Apart'
      BY <1>1, <1>4, <3>1, <3>4 DEF Apart
    <3>6. QED
      BY <1>3, <1>4, <3>1, <3>2, <3>3, <3>4, <3>5
  <2>6. QED
    BY <2>1, <2>2, <2>3, <2>4, <2>5 DEF Format
<1>6. Len(payloads') \in Nat /\ next' \in 1..(Len(payloads') + 1)
  <2>1. Len(payloads') >= Len(payloads) /\ Len(payloads') \in Nat /\ Len(payloads) \in Nat
    BY <1>3, <1>4, <1>5
  <2>2. QED
    BY <1>1, <2>1 DEF TypeOK
<1>7. TypeOK'
  BY <1>1, <1>3, <1>5, <1>6 DEF TypeOK
<1>8. QED
  BY <1>2, <1>5, <1>7

LEMMA PostKeepsBase ==
    ASSUME Base, Post
    PROVE  Base'
<1> USE Constants DEF Base
<1>1. Posting /\ UNCHANGED <<logs, data, todo, payloads, bare, dropped, lost>>
  BY PostLeavesFormatted DEF formatted
<1>2. FormatFirst'
  BY <1>1 DEF FormatFirst, Posting
<1>3. Apart'
  BY <1>1 DEF Apart
<1>4. payloads \in Seq(SUBSET Item) /\ next \in 1..Len(payloads)
  BY <1>1 DEF TypeOK, Posting
<1>5. payloads[next] \in SUBSET Item
  BY <1>4
<1>6. Received \in [Item -> Nat]
  BY DEF Received, TypeOK
<1>7. Cardinality(payloads[next]) \in Nat
  <2>1. IsFiniteSet(Item)
    BY FS_Interval DEF Item
  <2>2. QED
    BY <1>5, <2>1, FS_Subset, FS_CardinalityType
<1>8. Wait \in Nat
  BY DEF Wait, TypeOK
<1>9. TypeOK'
  <2> USE <1>1, <1>4, <1>5, <1>6 DEF TypeOK
  <2>1. CASE Accept
    BY <2>1 DEF Accept, NextPayload
  <2>2. CASE Reject
    BY <2>2, <1>7 DEF Reject, NextPayload, CountUnsent
  <2>3. CASE Retry
    BY <2>3, <1>8 DEF Retry, RetriesLeft
  <2>4. CASE GiveUp
    BY <2>4, <1>7 DEF GiveUp, NextPayload, CountUnsent
  <2>5. QED
    BY <2>1, <2>2, <2>3, <2>4 DEF Post
<1>10. QED
  BY <1>2, <1>3, <1>9

LEMMA NextBase == Base /\ [Next]_vars => Base'
<1> SUFFICES ASSUME Base, [Next]_vars PROVE Base'
  OBVIOUS
<1>1. CASE Format
  BY <1>1, FormatKeepsBase
<1>2. CASE Post
  BY <1>2, PostKeepsBase
<1>3. CASE UNCHANGED vars
  BY <1>3 DEF vars, formatted, sending, retrying, Base, TypeOK, Apart, FormatFirst
<1>4. QED
  BY <1>1, <1>2, <1>3 DEF Next, Returned

-----------------------------------------------------------------------------
(* Copies: an item is only in one payload, so that the requests with it    *)
(* are those for this payload.                                             *)

CopiesOfPayloads ==
    /\ CopiesBounded
    /\ \A i \in Item : copies[i] > 0 =>
          \E k \in 1..next : k <= Len(payloads) /\ i \in payloads[k]
    /\ next <= Len(payloads) => \A i \in payloads[next] : copies[i] <= attempt

LEMMA InitCopies == Init => CopiesOfPayloads
<1> SUFFICES ASSUME Init PROVE CopiesOfPayloads
  OBVIOUS
<1>1. \A i \in Item : copies[i] = 0
  BY DEF Init
<1>2. acked = {} /\ Len(payloads) = 0 /\ next = 1
  BY DEF Init
<1>3. QED
  BY <1>1, <1>2, Constants DEF CopiesOfPayloads, CopiesBounded

LEMMA NextCopies == Base /\ CopiesOfPayloads /\ [Next]_vars => CopiesOfPayloads'
<1> SUFFICES ASSUME Base, CopiesOfPayloads, [Next]_vars PROVE CopiesOfPayloads'
  OBVIOUS
<1> USE Constants DEF Base
<1>1. CASE Format
  <2>1. /\ next' = 1 /\ attempt' = 0 /\ acked' = {}
        /\ copies' = [i \in Item |-> 0]
    BY <1>1, FormatLeavesSending DEF sending, retrying, FormatFirst
  <2>2. Base'
    BY <1>1, FormatKeepsBase
  <2>3. next' <= Len(payloads') => payloads'[next'] \subseteq Item
    BY <2>1, <2>2 DEF TypeOK
  <2>4. \A i \in Item : copies'[i] = 0
    BY <2>1
  <2>5. QED
    BY <2>1, <2>3, <2>4 DEF CopiesOfPayloads, CopiesBounded
<1>2. CASE Post
  <2>1. Posting /\ UNCHANGED payloads
    BY <1>2, PostLeavesFormatted DEF formatted
  <2>2. /\ payloads \in Seq(SUBSET Item) /\ next \in 1..Len(payloads) /\ Len(payloads) \in Nat
        /\ attempt \in 0..RetryMax /\ copies \in [Item -> Nat] /\ acked \subseteq Item
    BY <2>1 DEF TypeOK, Posting
  <2> DEFINE now == payloads[next]
  <2>3. now \in SUBSET Item
    BY <2>2
  <2>4. \A i \in Item : /\ Received[i] \in Nat
                        /\ i \in now => Received[i] = copies[i] + 1
                        /\ i \notin now => Received[i] = copies[i]
    BY <2>2 DEF Received
  <2>5. \A k \in 1..Len(payloads) : k # next => payloads[k] \cap now = {}
    BY <2>2 DEF Apart, NoneTwice
  <2>6. copies' \in {copies, Received}
    BY <1>2 DEF Post, Accept, Reject, Retry, GiveUp
  <2>7. \A i \in Item : copies'[i] > 0 =>
          \E k \in 1..next : k <= Len(payloads) /\ i \in payloads[k]
    BY <2>2, <2>4, <2>6 DEF CopiesOfPayloads
  <2>8. \A i \in Item : copies'[i] <= RetryMax + 1
    BY <2>2, <2>3, <2>4, <2>6 DEF CopiesOfPayloads, CopiesBounded
  <2>9. CASE Retry
    <3>1. attempt' = attempt + 1 /\ next' = next /\ acked' = acked
      BY <2>9 DEF Retry
    <3>2. \A i \in now : copies'[i] <= attempt'
      BY <2>2, <2>3, <2>4, <2>6, <3>1 DEF CopiesOfPayloads
    <3>3. \A i \in acked' : copies'[i] > 0
      BY <2>2, <2>4, <2>6, <3>1 DEF CopiesOfPayloads, CopiesBounded
    <3>4. QED
      BY <2>1, <2>7, <2>8, <3>1, <3>2, <3>3 DEF CopiesOfPayloads, CopiesBounded
  <2>10. CASE Accept \/ Reject \/ GiveUp
    <3>1. next' = next + 1 /\ attempt' = 0
      BY <2>10 DEF Accept, Reject, GiveUp, NextPayload
    <3>2. acked' = acked \/ (acked' = acked \cup now /\ copies' = Received)
      BY <2>10 DEF Accept, Reject, GiveUp
    <3>3. \A i \in acked' : copies'[i] > 0
      BY <2>2, <2>3, <2>4, <2>6, <3>2 DEF CopiesOfPayloads, CopiesBounded
    <3>4. ASSUME next' <= Len(payloads') PROVE \A i \in payloads'[next'] : copies'[i] <= attempt'
      <4>1. next + 1 \in 1..Len(payloads)
        BY <2>1, <2>2, <3>1, <3>4
      <4>2. \A k \in 1..next : payloads[k] \cap payloads[next + 1] = {}
        BY <2>2, <4>1 DEF Apart, NoneTwice
      <4>3. payloads[next + 1] \subseteq Item
        BY <2>2, <4>1
      <4>4. \A i \in payloads[next + 1] : ~(copies'[i] > 0)
        BY <2>7, <4>2, <4>3
      <4>5. \A i \in payloads[next + 1] : copies'[i] \in Nat
        BY <2>2, <2>4, <2>6, <4>3
      <4>6. QED
        BY <2>1, <3>1, <4>4, <4>5
    <3>5. \A i \in Item : copies'[i] > 0 =>
            \E k \in 1..next' : k <= Len(payloads') /\ i \in payloads'[k]
      BY <2>1, <2>2, <2>7, <3>1
    <3>6. QED
      BY <2>8, <3>3, <3>4, <3>5 DEF CopiesOfPayloads, CopiesBounded
  <2>11. QED
    BY <1>2, <2>9, <2>10 DEF Post
<1>3. CASE UNCHANGED vars
  BY <1>3 DEF vars, formatted, sending, retrying, CopiesOfPayloads, CopiesBounded
<1>4. QED
  BY <1>1, <1>2, <1>3 DEF Next, Returned

-----------------------------------------------------------------------------
(* The unsent count.                                                       *)

\* The items of the first n payloads.
Sent(n) == UNION {payloads[k] : k \in 1..n}

Counted == acked \subseteq Sent(next - 1) /\ UnsentExact

LEMMA InitCounted == Init => Counted
<1> SUFFICES ASSUME Init PROVE Counted
  OBVIOUS
<1>1. next = 1 /\ acked = {} /\ unsent = 0
  BY DEF Init
<1>2. Sent(0) = {}
  BY DEF Sent
<1>3. QED
  BY <1>1, <1>2, FS_EmptySet DEF Counted, UnsentExact, Sent

\* One more payload that was answered, and not part of the earlier ones.
LEMMA OneMorePayload ==
    ASSUME NEW earlier \in SUBSET Item, NEW now \in SUBSET Item, earlier \cap now = {}
    PROVE  /\ Cardinality(now) \in Nat /\ Cardinality(earlier) \in Nat
           /\ Cardinality(earlier \cup now) = Cardinality(earlier) + Cardinality(now)
<1>1. IsFiniteSet(Item)
  BY Constants, FS_Interval DEF Item
<1>2. IsFiniteSet(earlier) /\ IsFiniteSet(now)
  BY <1>1, FS_Subset
<1>3. Cardinality(earlier \cap now) = 0
  BY FS_EmptySet
<1>4. Cardinality(now) \in Nat /\ Cardinality(earlier) \in Nat
  BY <1>2, FS_CardinalityType
<1>5. Cardinality(earlier \cup now)
        = Cardinality(earlier) + Cardinality(now) - Cardinality(earlier \cap now)
  BY <1>2, FS_Union
<1>6. QED
  BY <1>3, <1>4, <1>5

LEMMA NextCounted == Base /\ Counted /\ [Next]_vars => Counted'
<1> SUFFICES ASSUME Base, Counted, [Next]_vars PROVE Counted'
  OBVIOUS
<1> USE Constants DEF Base
<1>1. CASE Format
  <2>1. next' = 1 /\ acked' = {} /\ unsent' = 0
    BY <1>1, FormatLeavesSending DEF sending, retrying, FormatFirst
  <2>2. next' - 1 = 0
    BY <2>1
  <2>3. UNION {payloads'[k] : k \in 1..(next' - 1)} = {}
    BY <2>2
  <2>4. UnsentExact'
    BY <2>1, <2>3, FS_EmptySet DEF UnsentExact
  <2>5. QED
    BY <2>1, <2>4 DEF Counted
<1>2. CASE Post
  <2>1. Posting /\ UNCHANGED payloads
    BY <1>2, PostLeavesFormatted DEF formatted
  <2>2. /\ payloads \in Seq(SUBSET Item) /\ next \in 1..Len(payloads) /\ Len(payloads) \in Nat
        /\ unsent \in Nat /\ acked \in SUBSET Item
    BY <2>1 DEF TypeOK, Posting
  <2> DEFINE now == payloads[next]
             earlier == Sent(next - 1)
  <2>3. now \in SUBSET Item /\ earlier \in SUBSET Item
    BY <2>2 DEF Sent
  <2>4. earlier \cap now = {}
    <3>1. \A k \in 1..(next - 1) : payloads[k] \cap now = {}
      BY <2>2 DEF Apart, NoneTwice
    <3>2. QED
      BY <3>1 DEF Sent
  <2>5. Sent(next) = earlier \cup now
    <3>1. 1..next = (1..(next - 1)) \cup {next}
      BY <2>2
    <3>2. QED
      BY <3>1 DEF Sent
  <2>6. /\ Cardinality(now) \in Nat /\ Cardinality(earlier) \in Nat
        /\ Cardinality(Sent(next)) = Cardinality(earlier) + Cardinality(now)
    BY <2>3, <2>4, <2>5, OneMorePayload
  <2>7. /\ acked \cap now = {} /\ Cardinality(acked) \in Nat
        /\ Cardinality(acked \cup now) = Cardinality(acked) + Cardinality(now)
    <3>1. acked \cap now = {}
      BY <2>4 DEF Counted
    <3>2. QED
      BY <2>2, <2>3, <3>1, OneMorePayload
  <2>8. unsent + Cardinality(acked) = Cardinality(earlier)
    BY DEF Counted, UnsentExact, Sent
  <2>9. CASE Retry
    BY <2>1, <2>9 DEF Retry, Counted, UnsentExact, Sent
  <2>10. CASE Accept
    <3>1. next' = next + 1 /\ acked' = acked \cup now /\ unsent' = unsent
      BY <2>10 DEF Accept, NextPayload
    <3>2. next' - 1 = next
      BY <2>2, <3>1
    <3>3. unsent' + Cardinality(acked') = Cardinality(Sent(next))
      BY <2>2, <2>6, <2>7, <2>8, <3>1
    <3>4. acked' \subseteq Sent(next)
      BY <2>5, <3>1 DEF Counted
    <3>5. QED
      BY <2>1, <3>2, <3>3, <3>4 DEF Counted, UnsentExact, Sent
  <2>11. CASE Reject \/ GiveUp
    <3>1. next' = next + 1 /\ acked' = acked /\ unsent' = unsent + Cardinality(now)
      BY <2>11 DEF Reject, GiveUp, NextPayload, CountUnsent
    <3>2. next' - 1 = next
      BY <2>2, <3>1
    <3>3. unsent' + Cardinality(acked') = Cardinality(Sent(next))
      BY <2>2, <2>6, <2>7, <2>8, <3>1
    <3>4. acked' \subseteq Sent(next)
      BY <2>5, <3>1 DEF Counted
    <3>5. QED
      BY <2>1, <3>2, <3>3, <3>4 DEF Counted, UnsentExact, Sent
  <2>12. QED
    BY <1>2, <2>9, <2>10, <2>11 DEF Post
<1>3. CASE UNCHANGED vars
  BY <1>3 DEF vars, formatted, sending, retrying, Counted, UnsentExact, Sent
<1>4. QED
  BY <1>1, <1>2, <1>3 DEF Next, Returned

-----------------------------------------------------------------------------
(* The waits: after k retries they add up to (2^k - 1) * WaitMin at most,  *)
(* which fits FlushDuration for the three retries the client configures.   *)

Waits ==
    /\ attempt = 0 => backoff = WaitMin /\ waited = 0
    /\ attempt = 1 => backoff = 2 * WaitMin /\ waited <= WaitMin
    /\ attempt = 2 => backoff = 4 * WaitMin /\ waited <= 3 * WaitMin
    /\ attempt = 3 => waited <= 7 * WaitMin

LEMMA InitWaits == Init => Waits
BY DEF Init, Waits

LEMMA NextWaits ==
    ASSUME RetryMax <= 3
    PROVE  Base /\ Waits /\ [Next]_vars => Waits'
<1> SUFFICES ASSUME Base, Waits, [Next]_vars PROVE Waits'
  OBVIOUS
<1> USE Constants
<1>1. WaitMin' = WaitMin
  BY DEF WaitMin
<1>2. attempt \in 0..RetryMax /\ backoff \in Nat /\ waited \in Nat
  BY DEF Base, TypeOK
<1>3. CASE Format
  BY <1>1, <1>3, FormatLeavesSending DEF sending, retrying, Waits
<1>4. CASE Accept \/ Reject \/ GiveUp
  <2>1. attempt' = 0 /\ backoff' = WaitMin /\ waited' = 0
    BY <1>4 DEF Accept, Reject, GiveUp, NextPayload
  <2>2. QED
    BY <1>1, <2>1 DEF Waits
<1>5. CASE Retry
  <2>1. /\ attempt < RetryMax /\ attempt' = attempt + 1
        /\ waited' = waited + Wait /\ backoff' = 2 * backoff
    BY <1>5 DEF Retry, RetriesLeft
  <2>2. Wait \in Nat /\ Wait <= backoff
    BY <1>2 DEF Wait
  <2>3. CASE attempt = 0
    BY <1>1, <1>2, <2>1, <2>2, <2>3 DEF Waits
  <2>4. CASE attempt = 1
    BY <1>1, <1>2, <2>1, <2>2, <2>4 DEF Waits
  <2>5. CASE attempt = 2
    BY <1>1, <1>2, <2>1, <2>2, <2>5 DEF Waits
  <2>6. QED
    BY <1>2, <2>1, <2>3, <2>4, <2>5
<1>6. CASE UNCHANGED vars
  BY <1>6, <1>1 DEF vars, sending, retrying, Waits
<1>7. QED
  BY <1>3, <1>4, <1>5, <1>6 DEF Next, Post, Returned

LEMMA WaitsFit ==
    ASSUME RetryMax <= 3, Base, Waits
    PROVE  RetriesWithinFlush
<1> USE Constants
<1>1. 7 * WaitMin <= FlushDuration
  BY FormatterAssumption DEF WaitMin
<1>2. attempt \in 0..3 /\ waited \in Nat
  BY DEF Base, TypeOK
<1>3. waited <= 7 * WaitMin
  BY <1>2 DEF Waits
<1>4. QED
  BY <1>1, <1>2, <1>3, FormatterAssumption DEF RetriesWithinFlush

-----------------------------------------------------------------------------
(* Splitting.                                                              *)

\* How often an item is in a sequence of batches none of which share one.
LEMMA CountOnce ==
    ASSUME NEW s \in Seq(SUBSET Item), NoneTwice(s), NEW i
    PROVE  InBatches(i, s) = One(i \in Items(s))
<1>1. CASE i \notin Items(s)
  <2>1. {k \in DOMAIN s : i \in s[k]} = {}
    BY <1>1 DEF Items
  <2>2. QED
    BY <1>1, <2>1, FS_EmptySet DEF InBatches, One
<1>2. CASE i \in Items(s)
  <2>1. PICK k \in DOMAIN s : i \in s[k]
    BY <1>2 DEF Items
  <2>2. {j \in DOMAIN s : i \in s[j]} = {k}
    BY <2>1 DEF NoneTwice
  <2>3. Cardinality({k}) = 1
    BY FS_Singleton
  <2>4. QED
    BY <1>2, <2>2, <2>3 DEF InBatches, One
<1>3. QED
  BY <1>1, <1>2

LEMMA BaseSplits == Base => SplitPartitions
<1> SUFFICES ASSUME Base, NEW i \in data
             PROVE  InBatches(i, todo) + InBatches(i, payloads)
                      + One(i \in dropped) + One(i \in lost) = 1
  BY DEF SplitPartitions
<1>1. todo \in Seq(SUBSET Item) /\ payloads \in Seq(SUBSET Item)
  BY DEF Base, TypeOK
<1>2. /\ InBatches(i, todo) = One(i \in Items(todo))
      /\ InBatches(i, payloads) = One(i \in Items(payloads))
  BY <1>1, CountOnce DEF Base, Apart
<1>3. \/ /\ i \in Items(todo) /\ i \notin Items(payloads) /\ i \notin dropped /\ i \notin lost
      \/ /\ i \notin Items(todo) /\ i \in Items(payloads) /\ i \notin dropped /\ i \notin lost
      \/ /\ i \notin Items(todo) /\ i \notin Items(payloads) /\ i \in dropped /\ i \notin lost
      \/ /\ i \notin Items(todo) /\ i \notin Items(payloads) /\ i \notin dropped /\ i \in lost
  BY DEF Base, Apart
<1>4. QED
  BY <1>2, <1>3 DEF One

-----------------------------------------------------------------------------
(* Theorems                                                                *)

LEMMA BaseAlways == Spec => []Base
<1>1. QED
  BY InitBase, NextBase, PTL DEF Spec

\* FormatMetrics, FormatLogs, PostMetrics and PostLogs keep the types of their state:
\* the retries stay within RetryMax and the posted payload within the list.
THEOREM FormatterTypes == Spec => []TypeOK
<1>1. Base => TypeOK
  BY DEF Base
<1>2. QED
  BY <1>1, BaseAlways, PTL

\* The recursive halving of splitMetrics and splitLogs partitions any number of items
\* into payloads, dropped items and payloads that failed to format.
THEOREM SplittingPartitions == Spec => []SplitPartitions
<1>1. QED
  BY BaseSplits, BaseAlways, PTL

\* No item is accepted more than RetryMax + 1 times, and one whose post returned no
\* error was accepted: this rests on the partition, as an item that were in two
\* payloads would be posted twice as often.
THEOREM CopiesAreBounded == Spec => []CopiesBounded
<1>1. CopiesOfPayloads => CopiesBounded
  BY DEF CopiesOfPayloads
<1>2. QED
  BY <1>1, BaseAlways, InitCopies, NextCopies, PTL DEF Spec

\* The count PostMetrics and PostLogs return is exact, for any number of payloads that
\* were posted so far.
THEOREM UnsentIsExact == Spec => []UnsentExact
<1>1. Counted => UnsentExact
  BY DEF Counted
<1>2. QED
  BY <1>1, BaseAlways, InitCounted, NextCounted, PTL DEF Spec

\* client.go:75: with three retries, or fewer, the waits fit the flush interval, for
\* every interval.
THEOREM RetriesFitFlush == RetryMax <= 3 => (Spec => []RetriesWithinFlush)
<1> SUFFICES ASSUME RetryMax <= 3 PROVE Spec => []RetriesWithinFlush
  OBVIOUS
<1>1. Base /\ Waits => RetriesWithinFlush
  BY WaitsFit
<1>2. Base /\ Waits /\ [Next]_vars => Waits'
  BY NextWaits
<1>3. QED
  BY <1>1, <1>2, BaseAlways, InitWaits, PTL DEF Spec
=============================================================================

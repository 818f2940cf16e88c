---------------------------- MODULE ListingProofs ----------------------------
(***************************************************************************)
(* Proofs about the paging of version 3 and of version 2, for any number   *)
(* of entries, pages and workers and any size of a page, and about the     *)
(* composition of both with GetApplications.                               *)
(***************************************************************************)
EXTENDS MCListing, CFClientProofs, SequenceTheorems

-----------------------------------------------------------------------------
(* Version 3: what has been collected                                      *)

\* What the call will have collected with the page it has.
Collected == cfapps \o resources

\* The places of the list that were requested.
Seen == (IF v3pc = "request" THEN page - 1 ELSE page) * apiBatchSize

V3Shape ==
    /\ V3TypeOK
    /\ apiList \in Seq(1..known) /\ Len(apiList) <= known /\ deleted \subseteq 1..known
    /\ v3pc \in {"request", "returned"} => resources = <<>>
    /\ totalPages <= MaxEntries \/ totalPages <= 1
    /\ v3pc = "convert" => totalPages > 0

Converting == v3pc \in {"convert", "returned"} /\ totalPages <= page

\* An insertion moves entries to places that are still to be requested, never back.
NoneSkipped ==
    deleted = {} /\ v3pc # "error" =>
        /\ \A k \in DOMAIN apiList :
              k <= Seen /\ apiList[k] <= initial => apiList[k] \in Range(Collected)
        /\ Converting => 1..initial \subseteq Range(Collected)

\* A deletion moves entries to places that were requested before, never forward.
NoneTwice ==
    known = initial /\ v3pc # "error" =>
        /\ IsInjective(Collected)
        /\ \A k \in DOMAIN apiList : k > Seen => apiList[k] \notin Range(Collected)

\* In a list that does not change the places requested are what was collected.
SameList ==
    deleted = {} /\ known = initial /\ v3pc # "error" =>
        /\ Len(Collected) = IF Seen <= Len(apiList) THEN Seen ELSE Len(apiList)
        /\ \A k \in DOMAIN Collected : Collected[k] = apiList[k]
        /\ Converting => Len(apiList) <= Seen

V3Inv == V3Shape /\ NoneSkipped /\ NoneTwice /\ SameList /\ (v3pc = "returned" => Converting)

-----------------------------------------------------------------------------
(* Sequences                                                               *)

LEMMA InsertIs ==
    ASSUME NEW S, NEW s \in Seq(S), NEW e \in S, NEW k \in 1..(Len(s) + 1)
    PROVE  /\ InsertAt(s, k, e) \in Seq(S) /\ Len(InsertAt(s, k, e)) = Len(s) + 1
           /\ \A i \in 1..(Len(s) + 1) :
                 InsertAt(s, k, e)[i] = IF i < k THEN s[i] ELSE IF i = k THEN e ELSE s[i - 1]
<1> DEFINE left == SubSeq(s, 1, k - 1)
           right == SubSeq(s, k, Len(s))
<1>1. /\ left \in Seq(S) /\ Len(left) = k - 1 /\ \A i \in 1..(k - 1) : left[i] = s[i]
      /\ right \in Seq(S) /\ Len(right) = Len(s) - k + 1
      /\ \A i \in 1..(Len(s) - k + 1) : right[i] = s[i + k - 1]
  OBVIOUS
<1>0. Len(s) \in Nat /\ k \in Nat /\ k >= 1
  OBVIOUS
<1> HIDE DEF left, right
<1> DEFINE front == left \o <<e>>
<1>2. /\ front \in Seq(S) /\ Len(front) = k
      /\ \A i \in 1..k : front[i] = IF i < k THEN s[i] ELSE e
  BY <1>1
<1>3. InsertAt(s, k, e) = front \o right
  BY DEF InsertAt, left, right
<1> HIDE DEF front
<1>4. front \o right \in Seq(S) /\ Len(front \o right) = Len(s) + 1
  <2>1. Len(front \o right) = Len(front) + Len(right) /\ front \o right \in Seq(S)
    BY <1>1, <1>2, ConcatProperties
  <2>2. Len(front) + Len(right) = Len(s) + 1
    BY <1>1, <1>2
  <2>3. QED
    BY <2>1, <2>2
<1>5. \A i \in 1..(Len(s) + 1) :
         (front \o right)[i] = IF i <= k THEN front[i] ELSE right[i - k]
  BY <1>1, <1>2
<1>6. \A i \in 1..(Len(s) + 1) :
         (front \o right)[i] = IF i < k THEN s[i] ELSE IF i = k THEN e ELSE s[i - 1]
  BY <1>0, <1>1, <1>2, <1>5
<1>7. QED
  BY <1>3, <1>4, <1>6

LEMMA RemoveIs ==
    ASSUME NEW S, NEW s \in Seq(S), NEW k \in DOMAIN s
    PROVE  /\ RemoveAt(s, k) \in Seq(S) /\ Len(RemoveAt(s, k)) = Len(s) - 1
           /\ \A i \in 1..(Len(s) - 1) :
                 RemoveAt(s, k)[i] = IF i < k THEN s[i] ELSE s[i + 1]
<1> DEFINE left == SubSeq(s, 1, k - 1)
           right == SubSeq(s, k + 1, Len(s))
<1>1. /\ left \in Seq(S) /\ Len(left) = k - 1 /\ \A i \in 1..(k - 1) : left[i] = s[i]
      /\ right \in Seq(S) /\ Len(right) = Len(s) - k
      /\ \A i \in 1..(Len(s) - k) : right[i] = s[i + k]
  OBVIOUS
<1> HIDE DEF left, right
<1>2. /\ left \o right \in Seq(S) /\ Len(left \o right) = Len(s) - 1
      /\ \A i \in 1..(Len(s) - 1) : (left \o right)[i]
            = IF i < k THEN left[i] ELSE right[i - k + 1]
  <2>1. /\ left \o right \in Seq(S) /\ Len(left \o right) = Len(left) + Len(right)
        /\ \A i \in 1..(Len(left) + Len(right)) : (left \o right)[i]
              = IF i <= Len(left) THEN left[i] ELSE right[i - Len(left)]
    BY <1>1
  <2>2. Len(left) + Len(right) = Len(s) - 1
    BY <1>1
  <2>3. ASSUME NEW i \in 1..(Len(s) - 1)
        PROVE  (i <= Len(left) <=> i < k) /\ i - Len(left) = i - k + 1
    BY <1>1
  <2>4. QED
    BY <2>1, <2>2, <2>3
<1>3. RemoveAt(s, k) = left \o right
  BY DEF RemoveAt, left, right
<1>4. \A i \in 1..(Len(s) - 1) : (left \o right)[i] = IF i < k THEN s[i] ELSE s[i + 1]
  <2>1. ASSUME NEW i \in 1..(Len(s) - 1), i < k
        PROVE  (left \o right)[i] = s[i]
    BY <1>1, <2>1
  <2>2. ASSUME NEW i \in 1..(Len(s) - 1), i >= k
        PROVE  (left \o right)[i] = s[i + 1]
    <3>1. (left \o right)[i] = right[i - k + 1] /\ i - k + 1 \in 1..(Len(s) - k)
      BY <1>2, <2>2
    <3>2. right[i - k + 1] = s[(i - k + 1) + k]
      BY <1>1, <3>1
    <3>3. QED
      BY <3>1, <3>2
  <2>3. \A i \in 1..(Len(s) - 1) : i < k \/ (i >= k /\ ~(i < k))
    OBVIOUS
  <2>4. QED
    BY <2>1, <2>2, <2>3
<1>5. QED
  BY <1>2, <1>3, <1>4

\* An entry that is inserted moves the others to the right, or leaves them.
LEMMA InsertMovesRight ==
    ASSUME NEW S, NEW s \in Seq(S), NEW e \in S, NEW k \in 1..(Len(s) + 1),
           e \notin Range(s), IsInjective(s)
    PROVE  LET t == InsertAt(s, k, e) IN
           /\ t \in Seq(S) /\ Len(t) = Len(s) + 1
           /\ IsInjective(t) /\ Range(t) = Range(s) \cup {e}
           /\ \A j \in DOMAIN t : t[j] = e \/ \E i \in DOMAIN s : i <= j /\ s[i] = t[j]
<1> DEFINE t == InsertAt(s, k, e)
           n == Len(s)
<1>1. n \in Nat /\ DOMAIN s = 1..n /\ k \in 1..(n + 1)
  OBVIOUS
<1>2. t \in Seq(S) /\ Len(t) = n + 1 /\ DOMAIN t = 1..(n + 1)
  BY InsertIs
<1>3. \A j \in 1..(n + 1) : t[j] = IF j < k THEN s[j] ELSE IF j = k THEN e ELSE s[j - 1]
  BY InsertIs
<1> HIDE DEF t, n
<1>4. \A i \in 1..n : s[i] # e /\ \A j \in 1..n : s[i] = s[j] => i = j
  BY <1>1 DEF Range, IsInjective
<1>5. IsInjective(t)
  <2> SUFFICES ASSUME NEW a \in 1..(n + 1), NEW b \in 1..(n + 1), t[a] = t[b] PROVE a = b
    BY <1>2 DEF IsInjective
  <2> DEFINE Place(j) == IF j < k THEN j ELSE j - 1
  <2>1. \A j \in 1..(n + 1) : j # k => Place(j) \in 1..n /\ t[j] = s[Place(j)]
    BY <1>1, <1>3
  <2>2. t[k] = e /\ (a = k <=> b = k)
    BY <1>1, <1>3, <1>4
  <2>3. CASE a # k /\ b # k
    <3>1. Place(a) = Place(b)
      BY <1>4, <2>1, <2>3
    <3>2. QED
      BY <2>3, <3>1
  <2>4. QED
    BY <2>2, <2>3
<1>6. \A j \in 1..(n + 1) : t[j] = e \/ \E i \in 1..n : i <= j /\ s[i] = t[j]
  <2> SUFFICES ASSUME NEW j \in 1..(n + 1), j # k PROVE \E i \in 1..n : i <= j /\ s[i] = t[j]
    BY <1>3
  <2>1. CASE j < k
    BY <1>1, <1>3
  <2>2. CASE j > k
    <3>1. j - 1 \in 1..n /\ j - 1 <= j /\ s[j - 1] = t[j]
      BY <1>1, <1>3, <2>2
    <3>2. QED
      BY <3>1
  <2>3. QED
    BY <2>1, <2>2
<1>7. \A i \in 1..n : \E j \in 1..(n + 1) : t[j] = s[i]
  <2> TAKE i \in 1..n
  <2>1. CASE i < k
    BY <1>1, <1>3, <2>1
  <2>2. CASE i >= k
    <3>1. i + 1 \in 1..(n + 1) /\ t[i + 1] = s[i]
      BY <1>1, <1>3, <2>2
    <3>2. QED
      BY <3>1
  <2>3. QED
    BY <2>1, <2>2
<1>8. Range(t) = Range(s) \cup {e}
  <2>1. t[k] = e /\ k \in 1..(n + 1)
    BY <1>1, <1>3
  <2>2. \A x : x \in Range(t) <=> \E j \in 1..(n + 1) : x = t[j]
    BY <1>2 DEF Range
  <2>3. \A x : x \in Range(s) <=> \E i \in 1..n : x = s[i]
    BY <1>1 DEF Range
  <2>4. \A x : x \in Range(t) => x \in Range(s) \cup {e}
    BY <1>6, <2>2, <2>3
  <2>5. \A x : x \in Range(s) \cup {e} => x \in Range(t)
    BY <1>7, <2>1, <2>2, <2>3
  <2>6. QED
    BY <2>4, <2>5
<1>9. QED
  BY <1>2, <1>5, <1>6, <1>8 DEF t, n

\* Without an entry the others move to the left, or stay.
LEMMA RemoveMovesLeft ==
    ASSUME NEW S, NEW s \in Seq(S), NEW k \in DOMAIN s, IsInjective(s)
    PROVE  LET t == RemoveAt(s, k) IN
           /\ t \in Seq(S) /\ Len(t) = Len(s) - 1
           /\ IsInjective(t) /\ Range(t) = Range(s) \ {s[k]}
           /\ \A j \in DOMAIN t : \E i \in DOMAIN s : i >= j /\ s[i] = t[j]
<1> DEFINE t == RemoveAt(s, k)
           n == Len(s)
<1>1. n \in Nat /\ DOMAIN s = 1..n /\ k \in 1..n
  OBVIOUS
<1>2. t \in Seq(S) /\ Len(t) = n - 1 /\ DOMAIN t = 1..(n - 1)
  BY RemoveIs
<1>3. \A j \in 1..(n - 1) : t[j] = IF j < k THEN s[j] ELSE s[j + 1]
  BY RemoveIs
<1> HIDE DEF t, n
<1>4. \A i, j \in 1..n : s[i] = s[j] => i = j
  BY <1>1 DEF IsInjective
<1>5. IsInjective(t)
  <2> SUFFICES ASSUME NEW a \in 1..(n - 1), NEW b \in 1..(n - 1), t[a] = t[b] PROVE a = b
    BY <1>2 DEF IsInjective
  <2> QED
    BY <1>1, <1>3, <1>4
<1>6. \A j \in 1..(n - 1) : t[j] # s[k] /\ \E i \in 1..n : i >= j /\ s[i] = t[j]
  <2> TAKE j \in 1..(n - 1)
  <2>1. CASE j < k
    BY <1>1, <1>3, <1>4
  <2>2. CASE j >= k
    <3>1. j + 1 \in 1..n /\ j + 1 >= j /\ s[j + 1] = t[j] /\ j + 1 # k
      BY <1>1, <1>3, <2>2
    <3>2. QED
      BY <1>1, <1>4, <3>1
  <2>3. QED
    BY <2>1, <2>2
<1>7. \A i \in 1..n : i # k => \E j \in 1..(n - 1) : t[j] = s[i]
  <2> SUFFICES ASSUME NEW i \in 1..n, i # k PROVE \E j \in 1..(n - 1) : t[j] = s[i]
    OBVIOUS
  <2>1. CASE i < k
    BY <1>1, <1>3, <2>1
  <2>2. CASE i > k
    <3>1. i - 1 \in 1..(n - 1) /\ t[i - 1] = s[i]
      BY <1>1, <1>3, <2>2
    <3>2. QED
      BY <3>1
  <2>3. QED
    BY <2>1, <2>2
<1>8. Range(t) = Range(s) \ {s[k]}
  <2>1. \A x : x \in Range(t) <=> \E j \in 1..(n - 1) : x = t[j]
    BY <1>2 DEF Range
  <2>2. \A x : x \in Range(s) <=> \E i \in 1..n : x = s[i]
    BY <1>1 DEF Range
  <2>3. \A x : x \in Range(t) => x \in Range(s) \ {s[k]}
    BY <1>6, <2>1, <2>2
  <2>4. \A x : x \in Range(s) \ {s[k]} => x \in Range(t)
    BY <1>7, <2>1, <2>2
  <2>5. QED
    BY <2>3, <2>4
<1>9. QED
  BY <1>2, <1>5, <1>6, <1>8 DEF t, n

LEMMA ConcatIs ==
    ASSUME NEW S, NEW s \in Seq(S), NEW t \in Seq(S)
    PROVE  /\ s \o t \in Seq(S) /\ Len(s \o t) = Len(s) + Len(t)
           /\ \A i \in 1..Len(s) : (s \o t)[i] = s[i]
           /\ \A i \in 1..Len(t) : (s \o t)[Len(s) + i] = t[i]
           /\ Range(s \o t) = Range(s) \cup Range(t)
<1>2. QED
  BY RangeConcatenation

\* Converting an entry moves it from one sequence to the other.
LEMMA ConvertedIs ==
    ASSUME NEW S, NEW s \in Seq(S), NEW t \in Seq(S), t # <<>>
    PROVE  /\ Append(s, Head(t)) \in Seq(S) /\ Tail(t) \in Seq(S)
           /\ Append(s, Head(t)) \o Tail(t) = s \o t
<1>3. QED
  OBVIOUS

-----------------------------------------------------------------------------
(* Version 3: the steps                                                    *)

LEMMA PagesIs ==
    ASSUME V3Shape
    PROVE  /\ Pages \in Nat /\ Pages > 0 /\ (Pages <= MaxEntries \/ Pages <= 1)
           /\ Len(apiList) <= Pages * apiBatchSize
<1>1. Len(apiList) \in Nat /\ Len(apiList) <= MaxEntries /\ (apiList = <<>> <=> Len(apiList) = 0)
  <2>1. apiList \in Seq(1..known) /\ Len(apiList) <= known /\ known \in 0..MaxEntries
    BY DEF V3Shape, V3TypeOK
  <2>3. QED
    BY <2>1, V3PagingAssumption
<1>2. CASE apiList = <<>>
  BY <1>1, V3PagingAssumption DEF Pages
<1>3. CASE apiList # <<>>
  <2> DEFINE n == Len(apiList)
             b == apiBatchSize
  <2>1. n \in Nat \ {0} /\ n <= MaxEntries /\ b \in Nat \ {0} /\ MaxEntries \in Nat
    BY <1>1, <1>3, V3PagingAssumption
  <2>2. Pages = (n + b - 1) \div b
    BY <1>3 DEF Pages
  <2> HIDE DEF n, b
  <2> DEFINE q == (n + b - 1) \div b
  <2>7. QED
    BY <2>1, <2>2 DEF n, b
<1>4. QED
  BY <1>2, <1>3

LEMMA SeenIs ==
    ASSUME V3Shape
    PROVE  Seen \in Nat /\ page * apiBatchSize = (page - 1) * apiBatchSize + apiBatchSize
           /\ page * apiBatchSize \in Nat /\ (page - 1) * apiBatchSize \in Nat
<1>1. page \in Nat /\ page - 1 \in Nat /\ apiBatchSize \in Nat
  BY V3PagingAssumption DEF V3Shape, V3TypeOK
<1>2. QED
  BY <1>1 DEF Seen

\* A page that is the last one by its answer reaches the end of the list.
LEMMA LastReachesEnd ==
    ASSUME V3Shape, Pages <= page
    PROVE  Len(apiList) <= page * apiBatchSize
<1>1. page \in Nat /\ apiBatchSize \in Nat /\ Len(apiList) \in Nat
  BY V3PagingAssumption DEF V3Shape, V3TypeOK
<1>3. QED
  BY <1>1, PagesIs

LEMMA PageEntriesIs ==
    ASSUME V3Shape
    PROVE  LET b == (page - 1) * apiBatchSize
               end == IF page * apiBatchSize < Len(apiList) THEN page * apiBatchSize
                      ELSE Len(apiList)
           IN  /\ PageEntries \in Seq(1..known)
               /\ Len(PageEntries) = IF b < end THEN end - b ELSE 0
               /\ \A i \in DOMAIN PageEntries :
                     /\ b + i \in DOMAIN apiList /\ b + i <= end
                     /\ PageEntries[i] = apiList[b + i]
<1> DEFINE b == (page - 1) * apiBatchSize
           c == page * apiBatchSize
           end == IF c < Len(apiList) THEN c ELSE Len(apiList)
<1>1. b \in Nat /\ c \in Nat
  BY SeenIs
<1>2. PageEntries = SubSeq(apiList, b + 1, end)
  BY DEF PageEntries, EndOfPage
<1>3. apiList \in Seq(1..known) /\ Len(apiList) \in Nat
  BY DEF V3Shape
<1> HIDE DEF b, c
<1>4. end \in Nat /\ end <= Len(apiList)
  BY <1>1
<1> HIDE DEF end
<1>5. \A i \in (b + 1)..end : apiList[i] \in 1..known
  <2> SUFFICES ASSUME NEW i \in (b + 1)..end PROVE apiList[i] \in 1..known
    OBVIOUS
  <2>1. i \in 1..Len(apiList)
    BY <1>1, <1>4
  <2>2. QED
    BY <1>3, <2>1, ElementOfSeq
<1>6. /\ PageEntries \in Seq(1..known)
      /\ Len(PageEntries) = IF b + 1 <= end THEN end - (b + 1) + 1 ELSE 0
      /\ \A i \in 1..(end - (b + 1) + 1) : PageEntries[i] = apiList[b + 1 + i - 1]
  BY <1>1, <1>2, <1>4, <1>5
<1>7. \A i \in DOMAIN PageEntries : b + i \in 1..end /\ PageEntries[i] = apiList[b + i]
  BY <1>1, <1>4, <1>6
<1>8. QED
  BY <1>1, <1>6, <1>7 DEF b, c, end

LEMMA CollectedIs ==
    ASSUME V3Shape
    PROVE  /\ Collected \in Seq(1..known)
           /\ resources = <<>> => Collected = cfapps
<1>1. cfapps \in Seq(1..known) /\ resources \in Seq(1..known)
  BY DEF V3Shape, V3TypeOK
<1>2. QED
  BY <1>1 DEF Collected

LEMMA InitV3Inv == V3Init => V3Inv
<1> SUFFICES ASSUME V3Init PROVE V3Inv
  OBVIOUS
<1>2. V3Shape
  <2>1. IsInjective(apiList) /\ Range(apiList) = (1..known) \ deleted
    BY DEF V3Init, IsInjective, Range
  <2>3. QED
    BY <2>1, V3PagingAssumption DEF V3Init, V3Shape, V3TypeOK
<1>3. Collected = <<>> /\ Seen = 0
  BY <1>2, CollectedIs, V3PagingAssumption DEF V3Init, Seen
<1>4. NoneSkipped /\ SameList
  BY <1>3 DEF V3Init, NoneSkipped, SameList, Converting
<1>5. NoneTwice
  BY <1>3 DEF NoneTwice, IsInjective, Range
<1>6. QED
  BY <1>2, <1>4, <1>5 DEF V3Inv, V3Init

LEMMA CreateEntryKeepsInv ==
    ASSUME V3Inv, CreateEntry
    PROVE  V3Inv'
<1>1. PICK k \in 1..(Len(apiList) + 1) : apiList' = InsertAt(apiList, k, known')
  BY DEF CreateEntry
<1>2. /\ apiList \in Seq(1..known') /\ known' \in 1..known' /\ known \in Nat /\ known' = known + 1
      /\ \A i \in 1..Len(apiList) : apiList[i] \in 1..known
      /\ Len(apiList) \in Nat /\ initial \in 0..known /\ known' \in 0..MaxEntries
  BY V3PagingAssumption DEF V3Inv, V3Shape, V3TypeOK, CreateEntry
<1>3. /\ apiList' \in Seq(1..known') /\ Len(apiList') = Len(apiList) + 1
      /\ IsInjective(apiList') /\ Range(apiList') = Range(apiList) \cup {known'}
      /\ \A j \in DOMAIN apiList' :
            \/ apiList'[j] = known'
            \/ \E i \in DOMAIN apiList : i <= j /\ apiList[i] = apiList'[j]
  <2>1. known' \notin Range(apiList) /\ IsInjective(apiList)
    BY <1>2 DEF V3Inv, V3Shape, V3TypeOK
  <2>2. QED
    BY <1>1, <1>2, <2>1, InsertMovesRight
<1>4. Collected' = Collected /\ Seen' = Seen /\ Converting' = Converting
  BY DEF CreateEntry, Collected, Seen, Converting
<1>5. V3Shape'
  <2>4. {resources', cfapps'} \subseteq Seq(1..known')
    BY DEF V3Inv, V3Shape, V3TypeOK, CreateEntry
  <2>5. QED
    BY <1>2, <1>3, <2>4 DEF V3Inv, V3Shape, V3TypeOK, CreateEntry
<1>6. NoneSkipped'
  <2>1. ASSUME deleted = {}, v3pc # "error", NEW j \in DOMAIN apiList', j <= Seen, apiList'[j] <= initial
        PROVE  apiList'[j] \in Range(Collected)
    <3>1. Seen \in Nat
      BY SeenIs DEF V3Inv
    <3>2. \E i \in DOMAIN apiList : i <= Seen /\ apiList[i] = apiList'[j]
      <4>0. apiList'[j] # known'
        BY <1>2, <2>1
      <4>1. PICK i \in DOMAIN apiList : i <= j /\ apiList[i] = apiList'[j]
        BY <1>3, <4>0
      <4>2. i \in Nat /\ j \in Nat
        BY <1>2, <1>3
      <4>3. QED
        BY <2>1, <3>1, <4>1, <4>2
    <3>3. QED
      BY <2>1, <3>2 DEF V3Inv, NoneSkipped
  <2>2. QED
    BY <1>4, <2>1 DEF V3Inv, NoneSkipped, CreateEntry
<1>7. NoneTwice' /\ SameList'
  BY <1>2 DEF NoneTwice, SameList, CreateEntry
<1>8. QED
  BY <1>5, <1>6, <1>7 DEF V3Inv, CreateEntry, V3Done

LEMMA DeleteEntryKeepsInv ==
    ASSUME V3Inv, DeleteEntry
    PROVE  V3Inv'
<1>1. PICK k \in DOMAIN apiList : /\ apiList' = RemoveAt(apiList, k)
                                  /\ deleted' = deleted \cup {apiList[k]}
  BY DEF DeleteEntry
<1>2. /\ apiList \in Seq(1..known) /\ k \in 1..Len(apiList) /\ Len(apiList) \in Nat
      /\ \A i \in 1..Len(apiList) : apiList[i] \in 1..known
  BY DEF V3Inv, V3Shape, V3TypeOK
<1>3. /\ apiList' \in Seq(1..known) /\ Len(apiList') = Len(apiList) - 1
      /\ IsInjective(apiList') /\ Range(apiList') = Range(apiList) \ {apiList[k]}
      /\ \A j \in DOMAIN apiList' : \E i \in DOMAIN apiList : i >= j /\ apiList[i] = apiList'[j]
  <2>1. IsInjective(apiList)
    BY DEF V3Inv, V3Shape, V3TypeOK
  <2>2. QED
    BY <1>1, <1>2, <2>1, RemoveMovesLeft
<1>4. Collected' = Collected /\ Seen' = Seen
  BY DEF DeleteEntry, Collected, Seen
<1>5. V3Shape'
  <2>1. Range(apiList') = (1..known) \ deleted'
    BY <1>1, <1>3 DEF V3Inv, V3Shape, V3TypeOK
  <2>2. deleted' \subseteq 1..known
    BY <1>1, <1>2 DEF V3Inv, V3Shape
  <2>3. QED
    <3>1. V3TypeOK'
      BY <1>3, <2>1 DEF V3Inv, V3Shape, V3TypeOK, DeleteEntry
    <3>2. Len(apiList') <= known
      BY <1>3 DEF V3Inv, V3Shape, V3TypeOK
    <3>3. QED
      BY <1>3, <2>2, <3>1, <3>2 DEF V3Inv, V3Shape, DeleteEntry
<1>6. NoneSkipped' /\ SameList'
  BY <1>1 DEF NoneSkipped, SameList
<1>7. NoneTwice'
  <2>1. ASSUME known = initial, v3pc # "error", NEW j \in DOMAIN apiList', j > Seen
        PROVE  apiList'[j] \notin Range(Collected)
    <3>1. Seen \in Nat
      BY SeenIs DEF V3Inv
    <3>2. \E i \in DOMAIN apiList : i > Seen /\ apiList[i] = apiList'[j]
      <4>1. PICK i \in DOMAIN apiList : i >= j /\ apiList[i] = apiList'[j]
        BY <1>3
      <4>2. i \in Nat /\ j \in Nat
        BY <1>2
      <4>3. QED
        BY <2>1, <3>1, <4>1, <4>2
    <3>3. QED
      BY <2>1, <3>2 DEF V3Inv, NoneTwice
  <2>2. QED
    BY <1>4, <2>1 DEF V3Inv, NoneTwice, DeleteEntry
<1>8. QED
  BY <1>5, <1>6, <1>7 DEF V3Inv, DeleteEntry, V3Done

\* A page adds the entries of the next places, as the list is now.
LEMMA RequestPageKeepsInv ==
    ASSUME V3Inv, RequestPage, v3pc' = "convert"
    PROVE  V3Inv'
<1> DEFINE n == Len(apiList)
           b == Seen
           c == page * apiBatchSize
           end == IF c < n THEN c ELSE n
           m == Len(PageEntries)
           new == cfapps \o PageEntries
<1>1. /\ v3pc = "request" /\ resources = <<>> /\ Collected = cfapps
      /\ cfapps \in Seq(1..known) /\ V3Shape
  BY CollectedIs DEF V3Inv, V3Shape, RequestPage
<1>2. /\ resources' = PageEntries /\ totalPages' = Pages
      /\ UNCHANGED <<apiList, known, deleted, initial, advancedTagging, page, cfapps>>
  BY DEF RequestPage, api
<1>3. b \in Nat /\ c \in Nat /\ b <= c /\ b = (page - 1) * apiBatchSize
  BY <1>1, SeenIs, V3PagingAssumption DEF Seen
<1>4. n \in Nat /\ DOMAIN apiList = 1..n /\ apiList \in Seq(1..known)
  BY <1>1 DEF V3Shape
<1>5. /\ PageEntries \in Seq(1..known) /\ m = (IF b < end THEN end - b ELSE 0)
      /\ DOMAIN PageEntries = 1..m
      /\ \A i \in 1..m : b + i \in 1..n /\ b + i <= end /\ PageEntries[i] = apiList[b + i]
  <2>2. QED
    BY <1>1, <1>3, PageEntriesIs
<1>6. Collected' = new /\ Seen' = c
  BY <1>2 DEF Collected, Seen
<1>7. /\ new \in Seq(1..known) /\ Len(new) = Len(cfapps) + m /\ Len(cfapps) \in Nat
      /\ DOMAIN new = 1..(Len(cfapps) + m)
      /\ \A i \in 1..(Len(cfapps) + m) :
            new[i] = IF i <= Len(cfapps) THEN cfapps[i] ELSE PageEntries[i - Len(cfapps)]
      /\ Range(new) = Range(cfapps) \cup Range(PageEntries)
  <2>1. /\ new \in Seq(1..known) /\ Len(new) = Len(cfapps) + m
        /\ \A i \in 1..(Len(cfapps) + m) :
              new[i] = IF i <= Len(cfapps) THEN cfapps[i] ELSE PageEntries[i - Len(cfapps)]
    BY <1>1, <1>5
  <2>2. Range(new) = Range(cfapps) \cup Range(PageEntries)
    BY <1>1, <1>5, RangeConcatenation
  <2> HIDE DEF m, new
  <2>4. QED
    BY <2>1, <2>2
<1>8. Converting' => n <= c
  BY <1>1, <1>2, LastReachesEnd DEF Converting
<1> HIDE DEF n, b, c, end, m, new
<1>9. end \in Nat /\ m \in Nat /\ end <= n /\ end <= c
  BY <1>3, <1>4, <1>5 DEF end
<1>10. \A k \in 1..n : b < k /\ k <= c => apiList[k] \in Range(PageEntries)
  <2> SUFFICES ASSUME NEW k \in 1..n, b < k, k <= c PROVE apiList[k] \in Range(PageEntries)
    OBVIOUS
  <2>1. k - b \in 1..m
    BY <1>3, <1>4, <1>5 DEF end
  <2>2. PageEntries[k - b] = apiList[k]
    BY <1>3, <1>5, <2>1
  <2>3. QED
    BY <1>5, <2>1, <2>2 DEF Range
<1>11. V3Shape'
  <2>1. {resources', cfapps'} \subseteq Seq(1..known')
    BY <1>1, <1>2, <1>5
  <2>2. /\ totalPages' \in Nat /\ totalPages' > 0
        /\ totalPages' <= MaxEntries \/ totalPages' <= 1
    BY <1>1, <1>2, PagesIs
  <2>3. totalPages' \in 0..MaxEntries + 1
    BY <2>2, V3PagingAssumption
  <2>4. QED
    BY <1>1, <1>2, <2>1, <2>2, <2>3 DEF V3Shape, V3TypeOK
<1>12. NoneSkipped'
  <2>1. ASSUME deleted = {}, NEW k \in 1..n, k <= c, apiList[k] <= initial
        PROVE  apiList[k] \in Range(new)
    <3>1. CASE k <= b
      BY <1>1, <1>4, <1>7, <2>1, <3>1 DEF V3Inv, NoneSkipped, b
    <3>2. CASE b < k
      BY <1>7, <1>10, <2>1, <3>2
    <3>3. QED
      BY <1>3, <3>1, <3>2
  <2>2. ASSUME deleted = {}, Converting', NEW e \in 1..initial
        PROVE  e \in Range(new)
    <3>1. e \in Range(apiList)
      BY <1>1, <2>2 DEF V3Shape, V3TypeOK
    <3>2. PICK k \in 1..n : apiList[k] = e
      BY <1>4, <3>1 DEF Range
    <3>3. k <= c /\ e <= initial
      BY <1>3, <1>4, <1>8, <2>2
    <3>4. QED
      BY <2>1, <2>2, <3>2, <3>3
  <2>3. QED
    BY <1>2, <1>4, <1>6, <2>1, <2>2 DEF NoneSkipped
<1>13. NoneTwice'
  <2> SUFFICES ASSUME known = initial
               PROVE  /\ IsInjective(new)
                      /\ \A k \in 1..n : k > c => apiList[k] \notin Range(new)
    BY <1>2, <1>4, <1>6 DEF NoneTwice
  <2>1. /\ \A i, j \in 1..Len(cfapps) : cfapps[i] = cfapps[j] => i = j
        /\ \A k \in 1..n : k > b => apiList[k] \notin Range(cfapps)
        /\ \A i, j \in 1..n : apiList[i] = apiList[j] => i = j
    <3>1. IsInjective(cfapps) /\ IsInjective(apiList)
      BY <1>1 DEF V3Inv, V3Shape, V3TypeOK, NoneTwice
    <3>2. \A k \in DOMAIN apiList : k > Seen => apiList[k] \notin Range(Collected)
      BY <1>1 DEF V3Inv, NoneTwice
    <3>4. QED
      BY <1>1, <1>4, <3>1, <3>2 DEF IsInjective, b
  <2>2. \A i \in 1..m : PageEntries[i] \notin Range(cfapps)
    BY <1>3, <1>5, <2>1
  <2>3. \A i, j \in 1..m : PageEntries[i] = PageEntries[j] => i = j
    <3> SUFFICES ASSUME NEW i \in 1..m, NEW j \in 1..m, PageEntries[i] = PageEntries[j] PROVE i = j
      OBVIOUS
    <3>1. b + i = b + j
      BY <1>5, <2>1
    <3>2. QED
      BY <1>3, <3>1
  <2>4. \A i \in 1..Len(cfapps) : cfapps[i] \in Range(cfapps)
    BY DEF Range
  <2>5. IsInjective(new)
    <3> SUFFICES ASSUME NEW i \in 1..(Len(cfapps) + m), NEW j \in 1..(Len(cfapps) + m),
                        new[i] = new[j], i < j
                 PROVE  FALSE
      BY <1>7 DEF IsInjective
    <3>1. CASE j <= Len(cfapps)
      BY <1>7, <2>1, <3>1
    <3>2. CASE i <= Len(cfapps) /\ j > Len(cfapps)
      <4>2. QED
        BY <1>7, <1>9, <2>2, <2>4, <3>2
    <3>3. CASE i > Len(cfapps)
      <4>2. QED
        BY <1>7, <1>9, <2>3, <3>3
    <3>4. QED
      BY <3>1, <3>2, <3>3
  <2>6. ASSUME NEW k \in 1..n, k > c, apiList[k] \in Range(new)
        PROVE  FALSE
    <3>1. apiList[k] \in Range(PageEntries)
      BY <1>3, <1>7, <2>1, <2>6
    <3>2. PICK i \in 1..m : apiList[k] = PageEntries[i]
      BY <1>5, <3>1 DEF Range
    <3>3. k = b + i
      BY <1>5, <2>1, <3>2
    <3>4. QED
      BY <1>3, <1>5, <1>9, <2>6, <3>3
  <2>7. QED
    BY <2>5, <2>6
<1>14. SameList'
  <2> SUFFICES ASSUME deleted = {}, known = initial
               PROVE  /\ Len(new) = end
                      /\ \A i \in 1..end : new[i] = apiList[i]
                      /\ Converting' => n <= c
    BY <1>2, <1>3, <1>6 DEF SameList, end, n
  <2>1. /\ Len(cfapps) = (IF b <= n THEN b ELSE n)
        /\ \A i \in 1..Len(cfapps) : cfapps[i] = apiList[i]
    BY <1>1 DEF V3Inv, SameList, b, n
  <2>2. Len(new) = end
    BY <1>3, <1>4, <1>5, <1>7, <2>1 DEF end
  <2>3. ASSUME NEW i \in 1..end PROVE new[i] = apiList[i]
    <3>1. CASE i <= Len(cfapps)
      BY <1>7, <1>9, <2>1, <3>1
    <3>2. CASE i > Len(cfapps)
      <4>1. Len(cfapps) = b /\ i - b \in 1..m
        BY <1>5, <1>9, <2>1, <3>2
      <4>2. new[i] = PageEntries[i - b] /\ PageEntries[i - b] = apiList[b + (i - b)]
        BY <1>5, <1>7, <1>9, <4>1
      <4>3. QED
        BY <1>3, <4>2
    <3>3. QED
      BY <3>1, <3>2
  <2>4. QED
    BY <1>8, <2>2, <2>3
<1>15. QED
  BY <1>11, <1>12, <1>13, <1>14 DEF V3Inv

LEMMA ConvertEntryKeepsInv ==
    ASSUME V3Inv, ConvertEntry, v3pc' = "convert"
    PROVE  V3Inv'
<1>1. /\ v3pc = "convert" /\ resources # <<>>
      /\ cfapps' = Append(cfapps, Head(resources)) /\ resources' = Tail(resources)
      /\ UNCHANGED <<apiList, known, deleted, initial, advancedTagging, v3pc, page, totalPages>>
  BY DEF ConvertEntry, api
<1>2. cfapps \in Seq(1..known) /\ resources \in Seq(1..known)
  BY DEF V3Inv, V3Shape, V3TypeOK
<1>3. /\ cfapps' \in Seq(1..known) /\ resources' \in Seq(1..known)
      /\ Collected' = Collected
  <2>1. /\ Append(cfapps, Head(resources)) \in Seq(1..known) /\ Tail(resources) \in Seq(1..known)
        /\ Append(cfapps, Head(resources)) \o Tail(resources) = cfapps \o resources
    BY <1>1, <1>2, ConvertedIs
  <2>2. QED
    BY <1>1, <2>1 DEF Collected
<1>4. Seen' = Seen /\ (Converting' <=> Converting)
  BY <1>1 DEF Seen, Converting
<1>5. V3Shape'
  BY <1>1 DEF V3Inv, V3Shape, V3TypeOK
<1>6. NoneSkipped' /\ NoneTwice' /\ SameList'
  BY <1>1, <1>3, <1>4 DEF V3Inv, NoneSkipped, NoneTwice, SameList
<1>7. QED
  BY <1>5, <1>6 DEF V3Inv

\* The bound on page is never met: a page after the last entry is the last one.
LEMMA PageDoneKeepsInv ==
    ASSUME V3Inv, PageDone
    PROVE  V3Inv'
<1>1. /\ v3pc = "convert" /\ resources = <<>>
      /\ UNCHANGED <<apiList, known, deleted, initial, advancedTagging, totalPages, resources, cfapps>>
      /\ page \in Nat \ {0} /\ totalPages \in Nat /\ MaxEntries \in Nat
  BY V3PagingAssumption DEF V3Inv, V3Shape, V3TypeOK, PageDone, api
<1>2. Collected' = Collected
  BY <1>1 DEF Collected
<1>3. CASE totalPages <= page
  <2>1. v3pc' = "returned" /\ page' = page
    BY <1>3 DEF PageDone, LastPage
  <2>2. Seen' = Seen /\ Converting /\ Converting'
    BY <1>1, <1>3, <2>1 DEF Seen, Converting
  <2>3. V3Shape'
    BY <1>1, <2>1 DEF V3Inv, V3Shape, V3TypeOK
  <2>4. NoneSkipped' /\ NoneTwice' /\ SameList'
    BY <1>1, <1>2, <2>2 DEF V3Inv, NoneSkipped, NoneTwice, SameList
  <2>5. QED
    BY <2>2, <2>3, <2>4 DEF V3Inv
<1>4. CASE ~(totalPages <= page)
  <2>1. page <= MaxEntries
    BY <1>1, <1>4 DEF V3Inv, V3Shape
  <2>2. v3pc' = "request" /\ page' = page + 1
    BY <1>1, <1>4, <2>1 DEF PageDone, LastPage
  <2>3. Seen' = Seen
    BY <1>1, <2>2 DEF Seen
  <2>4. V3Shape'
    BY <1>1, <2>1, <2>2 DEF V3Inv, V3Shape, V3TypeOK
  <2>5. NoneSkipped' /\ NoneTwice' /\ SameList'
    BY <1>1, <1>2, <2>2, <2>3 DEF V3Inv, NoneSkipped, NoneTwice, SameList, Converting
  <2>6. QED
    BY <2>2, <2>4, <2>5 DEF V3Inv
<1>5. QED
  BY <1>3, <1>4

\* An error leaves what was collected to nobody.
LEMMA ErrorKeepsInv ==
    ASSUME V3Inv, RequestPage \/ ConvertEntry, v3pc' = "error"
    PROVE  V3Inv'
<1>1. UNCHANGED <<apiList, known, deleted, initial, advancedTagging, page, totalPages, resources, cfapps>>
  BY DEF RequestPage, ConvertEntry, api
<1>2. V3Shape'
  BY <1>1 DEF V3Inv, V3Shape, V3TypeOK
<1>3. QED
  BY <1>2 DEF V3Inv, NoneSkipped, NoneTwice, SameList

LEMMA V3StutterKeepsInv ==
    ASSUME V3Inv, UNCHANGED v3vars
    PROVE  V3Inv'
<1>1. Collected' = Collected /\ Seen' = Seen /\ (Converting' <=> Converting)
  BY DEF v3vars, Collected, Seen, Converting
<1>2. QED
  BY <1>1 DEF v3vars, api, V3Inv, V3Shape, V3TypeOK, NoneSkipped, NoneTwice, SameList

LEMMA V3NextKeepsInv ==
    ASSUME V3Inv, [V3Next]_v3vars
    PROVE  V3Inv'
<1>1. ASSUME RequestPage PROVE v3pc' \in {"convert", "error"}
  BY <1>1 DEF RequestPage
<1>2. ASSUME ConvertEntry PROVE v3pc' \in {"convert", "error"}
  BY <1>2 DEF ConvertEntry
<1>3. QED
  BY <1>1, <1>2, CreateEntryKeepsInv, DeleteEntryKeepsInv, RequestPageKeepsInv,
     ConvertEntryKeepsInv, PageDoneKeepsInv, ErrorKeepsInv, V3StutterKeepsInv DEF V3Next,
     V3Step, V3Returned

LEMMA V3InvAlways == V3Spec => []V3Inv
BY InitV3Inv, V3NextKeepsInv, PTL DEF V3Spec

LEMMA V3InvImplies ==
    V3Inv => V3TypeOK /\ PagesAddUp
<1> SUFFICES ASSUME V3Inv PROVE V3TypeOK /\ PagesAddUp
  OBVIOUS
<1>1. V3TypeOK
  BY DEF V3Inv, V3Shape
<1>2. ASSUME v3pc = "returned"
      PROVE  /\ deleted = {} => 1..initial \subseteq Range(cfapps)
             /\ known = initial => IsInjective(cfapps)
             /\ deleted = {} /\ known = initial => cfapps = apiList
  <2>1. resources = <<>> /\ V3Shape /\ Converting
    BY <1>2 DEF V3Inv, V3Shape
  <2>2. Collected = cfapps
    BY <2>1, CollectedIs
  <2>3. deleted = {} => 1..initial \subseteq Range(cfapps)
    BY <1>2, <2>2 DEF V3Inv, NoneSkipped
  <2>4. known = initial => IsInjective(cfapps)
    BY <1>2, <2>2 DEF V3Inv, NoneTwice
  <2>5. ASSUME deleted = {}, known = initial PROVE cfapps = apiList
    <3>1. cfapps \in Seq(1..known) /\ apiList \in Seq(1..known) /\ Seen \in Nat
      BY <2>1, SeenIs DEF V3Shape, V3TypeOK
    <3>2. /\ Len(cfapps) = Len(apiList)
          /\ \A k \in DOMAIN cfapps : cfapps[k] = apiList[k]
      BY <1>2, <2>2, <2>5 DEF V3Inv, SameList
    <3>3. QED
      BY <3>1, <3>2
  <2>6. QED
    BY <2>3, <2>4, <2>5
<1>3. QED
  BY <1>1, <1>2 DEF PagesAddUp

\* getV3Apps: whatever is created and deleted while the pages are requested, and
\* however many entries a page has, nothing is skipped unless something is deleted,
\* and nothing is collected twice unless something is created.
THEOREM PagesAddUpAlways == V3Spec => []PagesAddUp
BY V3InvAlways, V3InvImplies, PTL

\* The variables of the paging keep their types.
THEOREM PagingTypes == V3Spec => []V3TypeOK
BY V3InvAlways, V3InvImplies, PTL

-----------------------------------------------------------------------------
(* Version 2                                                               *)

Working(w) == workerPc[w] # "none"
Started == v2pc \in {"wait", "returned"}

\* The pages goroutine w has fetched, or tried to.
Tried(w) == {p \in 2..pages : Working(w) /\ Start(w) <= p /\ p < currentPage[w]}

\* The caller, before and after it starts the goroutines.
CallerInv ==
    /\ v2pc = "first" => pages = 0 /\ v2results = <<>> /\ failed = {}
    /\ v2pc = "error" => pages = 0 /\ v2results = <<>> /\ failed = {1}
    /\ v2pc = "start" => v2results = <<1>> /\ failed = {}
    /\ v2pc \in {"start", "wait", "returned"} => pages > 0
    /\ ~Started => \A w \in Worker : ~Working(w)
    /\ Started => \A w \in Worker : Working(w) <=> w < numWorkers
    /\ v2pc = "returned" => AllDone

\* A goroutine stays within its range.
RangeInv ==
    \A w \in Worker : Working(w) =>
        /\ Start(w) <= currentPage[w]
        /\ currentPage[w] <= End(w) \/ currentPage[w] = Start(w)
        /\ workerPc[w] \in {"lock", "append"} => currentPage[w] < End(w)
        /\ workerPc[w] = "done" => currentPage[w] >= End(w)

\* Who holds the mutex has read the results as they are.
MutexInv ==
    \A w \in Worker : /\ workerPc[w] = "append" <=> mutex = w
                      /\ workerPc[w] = "append" => mine[w] = v2results

\* Each page that was tried is either among the results, once, or among the failed.
ResultsInv ==
    /\ IsInjective(v2results) /\ Range(v2results) \cap failed = {}
    /\ Started => Range(v2results) \cup failed = {1} \cup UNION {Tried(w) : w \in Worker}

V2Inv == V2TypeOK /\ CallerInv /\ RangeInv /\ MutexInv /\ ResultsInv

\* The ranges Start(w) to End(w) - 1 of the goroutines partition the pages from 2 on.
LEMMA ProductMonotonic ==
    ASSUME NEW a \in Nat, NEW b \in Nat, NEW q \in Nat, a <= b
    PROVE  a * q \in Nat /\ b * q \in Nat /\ a * q <= b * q
<1> DEFINE d == b - a
<1> HIDE DEF d
<1>4. QED
  OBVIOUS

\* Dividing the pages: every page has its goroutine, and the last goroutine starts at
\* most one page too late for each goroutine there is.
LEMMA Division ==
    ASSUME V2TypeOK, pages > 0, NumWorkers > 0
    PROVE  /\ numWorkers \in 1..NumWorkers /\ numWorkers <= pages
           /\ pagesPerWorker \in Nat /\ pages - 1 <= numWorkers * pagesPerWorker
           /\ numWorkers * pagesPerWorker <= pages + numWorkers - 2 \/ pagesPerWorker = 0
<1>1. /\ pages \in Nat \ {0} /\ NumWorkers \in Nat \ {0}
      /\ numWorkers \in 1..NumWorkers /\ numWorkers <= pages
  BY DEF V2TypeOK, numWorkers, Min2
<1>2. CASE pages = 1
  BY <1>1, <1>2 DEF pagesPerWorker
<1>3. CASE pages > 1
  <2> DEFINE n == numWorkers
             k == pages - 1
             q == (k + n - 1) \div n
  <2>1. n \in Nat \ {0} /\ k \in Nat \ {0}
    BY <1>1, <1>3
  <2>2. pagesPerWorker = q
    BY <1>1 DEF pagesPerWorker, CeilDiv
  <2> HIDE DEF n, k
  <2>3. q \in Int /\ n * q <= k + n - 1 /\ k + n - 1 < n * q + n
    BY <2>1
  <2> HIDE DEF q
  <2>5. QED
    BY <1>1, <2>2, <2>3 DEF n, k
<1>4. QED
  BY <1>1, <1>2, <1>3

LEMMA StartIs ==
    ASSUME V2TypeOK, pages > 0, NEW w \in Worker, w < numWorkers
    PROVE  /\ Start(w) \in 2..(MaxPages + MaxWorkers + 1)
           /\ (w + 1) * pagesPerWorker + 2 \in Nat /\ Start(w) <= (w + 1) * pagesPerWorker + 2
           /\ End(w) \in Nat /\ End(w) <= pages + 1 /\ End(w) <= (w + 1) * pagesPerWorker + 2
           /\ NumWorkers > 0
<1>0. w \in Nat /\ pages \in Nat /\ pages <= MaxPages /\ MaxPages \in Nat
      /\ NumWorkers \in 0..MaxWorkers /\ MaxWorkers \in Nat
  BY V2ListingAssumption DEF V2TypeOK, Worker
<1>1. NumWorkers > 0
  BY <1>0 DEF numWorkers, Min2
<1> DEFINE q == pagesPerWorker
           n == numWorkers
<1>2. /\ n \in Nat \ {0} /\ n <= NumWorkers /\ q \in Nat /\ w + 1 <= n
      /\ n * q <= pages + n - 2 \/ q = 0
  BY <1>0, <1>1, Division
<1> HIDE DEF n, q
<1>3. w * q \in Nat /\ w * q <= n * q /\ (w + 1) * q \in Nat /\ w * q <= (w + 1) * q
  BY <1>0, <1>2
<1>6. w * q + 2 <= MaxPages + MaxWorkers + 1
  <2>1. CASE q = 0
    BY <1>0, <2>1
  <2>2. CASE n * q <= pages + n - 2 /\ q > 0
    BY <1>0, <1>2
  <2>3. QED
    BY <1>2, <2>1, <2>2
<1>7. Start(w) \in 2..(MaxPages + MaxWorkers + 1)
  BY <1>3, <1>6 DEF Start, q
<1>8. QED
  BY <1>0, <1>1, <1>3, <1>7 DEF Start, End, Min2, q

LEMMA RangesDisjoint ==
    ASSUME V2TypeOK, pages > 0, NEW w \in Worker, NEW u \in Worker, w < u, u < numWorkers
    PROVE  End(w) <= Start(u)
<1>1. w \in Nat /\ u \in Nat /\ w + 1 <= u /\ w < numWorkers
  BY DEF Worker, V2TypeOK, numWorkers, Min2
<1>2. pagesPerWorker \in Nat
  BY StartIs, Division
<1>3. (w + 1) * pagesPerWorker <= u * pagesPerWorker /\ u * pagesPerWorker \in Nat
  BY <1>1, <1>2
<1>4. End(w) <= (w + 1) * pagesPerWorker + 2 /\ End(w) \in Nat /\ (w + 1) * pagesPerWorker + 2 \in Nat
  BY <1>1, StartIs
<1>5. (w + 1) * pagesPerWorker \in Nat
  BY <1>1, <1>2
<1>6. QED
  BY <1>3, <1>4, <1>5 DEF Start

LEMMA RangesCover ==
    ASSUME V2TypeOK, pages > 0, NumWorkers > 0, NEW p \in 2..pages
    PROVE  \E w \in Worker : w < numWorkers /\ Start(w) <= p /\ p < End(w)
<1> DEFINE q == pagesPerWorker
           w == (p - 2) \div q
<1>1. /\ pages \in Nat /\ p \in Nat /\ p >= 2 /\ p <= pages
      /\ NumWorkers \in 0..MaxWorkers /\ MaxWorkers \in Nat
  BY V2ListingAssumption DEF V2TypeOK
<1>2. /\ numWorkers \in Nat /\ numWorkers <= NumWorkers /\ q \in Nat
      /\ pages - 1 <= numWorkers * q
  BY Division
<1> HIDE DEF q
<1>4. w \in Int /\ q * w <= p - 2 /\ p - 2 < q * w + q
  BY <1>1, <1>2
<1> HIDE DEF w
<1>5. w \in Nat
  BY <1>2, <1>4
<1>6. w < numWorkers
  <2> SUFFICES ASSUME numWorkers <= w PROVE FALSE
    BY <1>2, <1>5
  <2>2. QED
    BY <1>1, <1>2, <1>4
<1>7. w \in Worker
  BY <1>1, <1>2, <1>5, <1>6 DEF Worker
<1>9. Start(w) <= p /\ p < End(w)
  BY <1>1, <1>2, <1>4 DEF Start, End, Min2, q
<1>10. QED
  BY <1>6, <1>7, <1>9

LEMMA AppendIs ==
    ASSUME NEW S, NEW s \in Seq(S), NEW e \in S, e \notin Range(s), IsInjective(s)
    PROVE  /\ Append(s, e) \in Seq(S) /\ IsInjective(Append(s, e))
           /\ Range(Append(s, e)) = Range(s) \cup {e}
<1>1. Append(s, e) = s \o <<e>> /\ <<e>> \in Seq(S) /\ Range(<<e>>) = {e}
  BY DEF Range
<1>2. Range(Append(s, e)) = Range(s) \cup {e} /\ Append(s, e) \in Seq(S)
  <2> DEFINE last == <<e>>
  <2>0. last \in Seq(S)
    OBVIOUS
  <2> HIDE DEF last
  <2>1. Range(s \o last) = Range(s) \cup Range(last)
    BY <2>0, RangeConcatenation
  <2>3. QED
    BY <1>1, <2>1 DEF last
<1> DEFINE t == Append(s, e)
           n == Len(s)
<1>3. /\ n \in Nat /\ DOMAIN s = 1..n /\ DOMAIN t = 1..(n + 1) /\ t[n + 1] = e
      /\ \A i \in 1..n : t[i] = s[i] /\ s[i] # e
  BY DEF Range
<1>4. \A i, j \in 1..n : s[i] = s[j] => i = j
  BY DEF IsInjective
<1> HIDE DEF t, n
<1>5. IsInjective(t)
  <2> SUFFICES ASSUME NEW i \in 1..(n + 1), NEW j \in 1..(n + 1), t[i] = t[j] PROVE i = j
    BY <1>3 DEF IsInjective
  <2>2. QED
    BY <1>3, <1>4
<1>6. QED
  BY <1>2, <1>5 DEF t

LEMMA NumWorkersIs ==
    ASSUME V2TypeOK
    PROVE  /\ numWorkers \in Nat /\ numWorkers <= NumWorkers /\ numWorkers <= pages
           /\ (NumWorkers = 0 \/ pages = 0) => numWorkers = 0
BY DEF V2TypeOK, numWorkers, Min2

\* The page a goroutine is about to fetch was not tried by any other one.
LEMMA CurrentIsNew ==
    ASSUME V2Inv, NEW w \in Worker, Working(w), currentPage[w] < End(w)
    PROVE  /\ Started /\ currentPage[w] \in 2..pages
           /\ currentPage[w] \notin Range(v2results) \cup failed
<1>1. Started /\ pages > 0 /\ V2TypeOK /\ w < numWorkers
  BY DEF V2Inv, CallerInv, Started
<1>2. currentPage[w] \in 2..pages
  BY <1>1, StartIs DEF V2Inv, RangeInv, V2TypeOK
<1>3. ASSUME NEW u \in Worker, currentPage[w] \in Tried(u)
      PROVE  FALSE
  <2>1. Working(u) /\ Start(u) <= currentPage[w] /\ currentPage[w] < currentPage[u] /\ u < numWorkers
    BY <1>3 DEF Tried, V2Inv, CallerInv
  <2>2. /\ currentPage[u] \in Nat /\ currentPage[w] \in Nat /\ End(u) \in Nat /\ End(w) \in Nat
        /\ Start(u) \in Nat /\ Start(w) \in Nat
    BY <1>1, <2>1, StartIs DEF V2TypeOK
  <2>3. currentPage[w] < End(u)
    BY <2>1, <2>2 DEF V2Inv, RangeInv
  <2>4. Start(w) <= currentPage[w]
    BY DEF V2Inv, RangeInv
  <2>5. u # w
    BY <2>1, <2>2
  <2>6. CASE u < w
    BY <1>1, <2>2, <2>3, <2>4, <2>6, RangesDisjoint
  <2>7. CASE w < u
    BY <1>1, <2>1, <2>2, <2>7, RangesDisjoint
  <2>8. QED
    BY <2>5, <2>6, <2>7 DEF Worker
<1>4. QED
  BY <1>1, <1>2, <1>3 DEF V2Inv, ResultsInv

\* Going on to the next page adds the current one to those tried.
LEMMA NextIsTried ==
    ASSUME V2Inv, NEW w \in Worker, Working(w), currentPage[w] < End(w), NextPage(w),
           UNCHANGED <<NumWorkers, pages>>, \A u \in Worker : Working(u)' = Working(u)
    PROVE  UNION {Tried(u)' : u \in Worker} = {currentPage[w]} \cup UNION {Tried(u) : u \in Worker}
<1>1. /\ currentPage \in [Worker -> Nat] /\ currentPage[w] \in 2..pages
      /\ Start(w) <= currentPage[w]
  BY CurrentIsNew DEF V2Inv, V2TypeOK, RangeInv
<1>2. \A u \in Worker : Start(u)' = Start(u)
  BY DEF Start, pagesPerWorker, numWorkers
<1>3. /\ \A u \in Worker \ {w} : Tried(u)' = Tried(u)
      /\ Tried(w)' = {currentPage[w]} \cup Tried(w)
  BY <1>1, <1>2 DEF Tried, NextPage
<1>4. QED
  BY <1>3

-----------------------------------------------------------------------------
(* Version 2: the steps                                                    *)

LEMMA WorkerIs ==
    /\ \A w \in Worker : w \in Nat /\ w # Free
    /\ MaxWorkers \in Nat /\ MaxPages \in Nat
BY V2ListingAssumption DEF Worker, Free

LEMMA InitV2Inv == V2Init => V2Inv
<1> SUFFICES ASSUME V2Init PROVE V2Inv
  OBVIOUS
<1>1. V2TypeOK
  BY WorkerIs DEF V2Init, V2TypeOK
<1>2. CallerInv
  BY DEF V2Init, CallerInv, Started, Working
<1>3. RangeInv /\ MutexInv
  BY WorkerIs DEF V2Init, RangeInv, MutexInv, Working
<1>4. ResultsInv
  BY DEF V2Init, ResultsInv, Started, IsInjective
<1>5. QED
  BY <1>1, <1>2, <1>3, <1>4 DEF V2Inv

LEMMA FirstPageKeepsInv ==
    ASSUME V2Inv, FirstPage \/ FirstPageFails
    PROVE  V2Inv'
<1>1. /\ v2pc = "first" /\ v2pc' \in {"start", "error"} /\ pages' \in 0..MaxPages
      /\ v2results' \in {<<>>, <<1>>} /\ failed' \in {{}, {1}}
      /\ v2pc' = "start" => pages' > 0 /\ v2results' = <<1>> /\ failed' = {}
      /\ v2pc' = "error" => pages' = 0 /\ v2results' = <<>> /\ failed' = {1}
      /\ UNCHANGED <<NumWorkers, workerPc, currentPage, mine, mutex>>
      /\ pages' \in 1..MaxPages \/ v2results' = <<>>
  BY WorkerIs DEF FirstPage, FirstPageFails, V2Inv, CallerInv
<1>2. \A w \in Worker : ~Working(w) /\ ~Working(w)'
  BY <1>1 DEF V2Inv, CallerInv, Started, Working
<1>3. V2TypeOK'
  <2>1. v2results' \in Seq(1..MaxPages)
    <3>1. CASE v2results' = <<>>
      BY <3>1
    <3>2. CASE v2results' = <<1>> /\ pages' \in 1..MaxPages
      <4>1. 1 \in 1..MaxPages
        BY <3>2, WorkerIs
      <4>2. QED
        BY <3>2, <4>1
    <3>3. QED
      BY <1>1, <3>1, <3>2
  <2>2. QED
    BY <1>1, <2>1, WorkerIs DEF V2Inv, V2TypeOK
<1>4. CallerInv'
  BY <1>1, <1>2 DEF CallerInv, Started
<1>5. RangeInv' /\ MutexInv'
  <2>1. \A w \in Worker : workerPc[w] = "none"
    BY <1>2 DEF Working
  <2>2. QED
    BY <1>1, <1>2, <2>1 DEF V2Inv, RangeInv, MutexInv
<1>6. ResultsInv'
  BY <1>1 DEF ResultsInv, Started, IsInjective, Range
<1>7. QED
  BY <1>3, <1>4, <1>5, <1>6 DEF V2Inv

LEMMA RangesKept ==
    ASSUME UNCHANGED <<NumWorkers, pages>>
    PROVE  /\ numWorkers' = numWorkers
           /\ \A w \in Worker : Start(w)' = Start(w) /\ End(w)' = End(w)
BY DEF Start, End, pagesPerWorker, numWorkers

LEMMA StartWorkersKeepsInv ==
    ASSUME V2Inv, StartWorkers
    PROVE  V2Inv'
<1>1. /\ v2pc = "start" /\ v2pc' = "wait" /\ pages > 0 /\ V2TypeOK
      /\ v2results = <<1>> /\ failed = {}
      /\ UNCHANGED <<NumWorkers, pages, v2results, mine, mutex, failed>>
  BY DEF V2Inv, CallerInv, StartWorkers
<1>2. numWorkers' = numWorkers /\ \A w \in Worker : Start(w)' = Start(w) /\ End(w)' = End(w)
  BY <1>1, RangesKept
<1>3. \A w \in Worker :
         /\ workerPc'[w] = IF w < numWorkers THEN "fetch" ELSE "none"
         /\ w < numWorkers => currentPage'[w] = Start(w) /\ Start(w) \in 2..(MaxPages + MaxWorkers + 1)
         /\ w < numWorkers \/ currentPage'[w] = 0
  BY <1>1, StartIs DEF StartWorkers
<1>4. V2TypeOK'
  <2>1. workerPc' \in [Worker -> {"none", "fetch", "lock", "append", "done"}]
    BY DEF StartWorkers
  <2>2. \A w \in Worker : currentPage'[w] \in 0..(MaxPages + MaxWorkers + 1)
    BY <1>3, WorkerIs
  <2>3. currentPage' \in [Worker -> 0..(MaxPages + MaxWorkers + 1)]
    BY <2>2 DEF StartWorkers
  <2>4. QED
    BY <1>1, <2>1, <2>3 DEF V2TypeOK
<1>5. CallerInv'
  BY <1>1, <1>2, <1>3 DEF CallerInv, Started, Working
<1>6. RangeInv'
  <2> SUFFICES ASSUME NEW w \in Worker, w < numWorkers
               PROVE  /\ Start(w) <= currentPage'[w] /\ currentPage'[w] = Start(w)
                      /\ workerPc'[w] = "fetch"
    BY <1>2, <1>3 DEF RangeInv, Working
  <2> QED
    BY <1>3
<1>7. MutexInv'
  <2>1. \A w \in Worker : workerPc[w] = "none"
    BY <1>1 DEF V2Inv, CallerInv, Started, Working
  <2>2. QED
    BY <1>1, <1>3, <2>1 DEF V2Inv, MutexInv
<1>8. ResultsInv'
  <2>1. \A w \in Worker : Tried(w)' = {}
    BY <1>2, <1>3 DEF Tried
  <2>2. Range(v2results) = {1}
    BY <1>1 DEF Range
  <2>3. QED
    BY <1>1, <2>1, <2>2 DEF V2Inv, ResultsInv
<1>9. QED
  BY <1>4, <1>5, <1>6, <1>7, <1>8 DEF V2Inv

LEMMA WorkerRuns ==
    ASSUME V2Inv, NEW w \in Worker, workerPc[w] \in {"fetch", "lock", "append"}
    PROVE  v2pc = "wait" /\ pages > 0 /\ w < numWorkers /\ Working(w) /\ V2TypeOK
BY DEF V2Inv, CallerInv, Started, Working, AllDone

\* What is common to the steps of a goroutine.
LEMMA WorkerKeepsCaller ==
    ASSUME V2Inv, NEW w \in Worker, workerPc[w] \in {"fetch", "lock", "append"},
           NEW next \in {"fetch", "lock", "append", "done"},
           workerPc' = [workerPc EXCEPT ![w] = next], UNCHANGED <<NumWorkers, pages, v2pc>>
    PROVE  /\ CallerInv' /\ \A u \in Worker : Working(u)' = Working(u)
           /\ workerPc'[w] = next /\ \A u \in Worker \ {w} : workerPc'[u] = workerPc[u]
           /\ workerPc' \in [Worker -> {"none", "fetch", "lock", "append", "done"}]
<1>1. v2pc = "wait" /\ pages > 0 /\ w < numWorkers /\ Working(w) /\ V2TypeOK
  BY WorkerRuns
<1>2. /\ workerPc'[w] = next /\ \A u \in Worker \ {w} : workerPc'[u] = workerPc[u]
      /\ workerPc' \in [Worker -> {"none", "fetch", "lock", "append", "done"}]
  BY <1>1 DEF V2TypeOK
<1>3. \A u \in Worker : Working(u)' = Working(u)
  BY DEF Working
<1>4. numWorkers' = numWorkers
  BY RangesKept
<1>5. CallerInv'
  BY <1>1, <1>3, <1>4 DEF V2Inv, CallerInv, Started
<1>6. QED
  BY <1>2, <1>3, <1>5

\* A page that failed, or was appended: the goroutine goes on to its next one.
LEMMA NextPageKeepsRanges ==
    ASSUME V2Inv, NEW w \in Worker, workerPc[w] \in {"fetch", "append"},
           currentPage[w] < End(w), NextPage(w),
           workerPc' = [workerPc EXCEPT ![w] = "fetch"], UNCHANGED <<NumWorkers, pages, v2pc>>
    PROVE  RangeInv' /\ currentPage' \in [Worker -> 0..(MaxPages + MaxWorkers + 1)]
<1>1. /\ Working(w) /\ V2TypeOK /\ w < numWorkers
      /\ pages \in Nat /\ pages <= MaxPages /\ pages > 0
      /\ currentPage \in [Worker -> 0..(MaxPages + MaxWorkers + 1)]
  BY WorkerRuns DEF V2TypeOK
<1>2. End(w) \in Nat /\ End(w) <= pages + 1 /\ Start(w) \in Nat /\ currentPage[w] \in Nat
  BY <1>1, StartIs
<1>3. currentPage'[w] = currentPage[w] + 1 /\ \A u \in Worker \ {w} : currentPage'[u] = currentPage[u]
  BY <1>1 DEF NextPage
<1>4. currentPage' \in [Worker -> 0..(MaxPages + MaxWorkers + 1)]
  <2>1. currentPage[w] + 1 \in 0..(MaxPages + MaxWorkers + 1)
    BY <1>1, <1>2, WorkerIs
  <2>2. QED
    BY <1>1, <2>1 DEF NextPage
<1>5. RangeInv'
  <2>1. \A u \in Worker : Start(u)' = Start(u) /\ End(u)' = End(u) /\ Working(u)' = Working(u)
    BY RangesKept, WorkerKeepsCaller
  <2>2. workerPc'[w] = "fetch" /\ \A u \in Worker \ {w} : workerPc'[u] = workerPc[u]
    BY WorkerKeepsCaller
  <2>3. Start(w) <= currentPage'[w] /\ currentPage'[w] <= End(w)
    BY <1>1, <1>2, <1>3 DEF V2Inv, RangeInv
  <2>4. QED
    BY <1>3, <2>1, <2>2, <2>3 DEF V2Inv, RangeInv
<1>6. QED
  BY <1>4, <1>5

LEMMA FetchPageKeepsInv ==
    ASSUME V2Inv, NEW w \in Worker, FetchPage(w)
    PROVE  V2Inv'
<1>1. /\ workerPc[w] = "fetch" /\ currentPage[w] < End(w)
      /\ UNCHANGED <<NumWorkers, pages, v2pc, v2results, mine, mutex>>
  BY DEF FetchPage
<1>2. V2TypeOK /\ Working(w) /\ Started /\ v2pc' = "wait"
  BY <1>1, WorkerRuns DEF Started
<1>3. workerPc = [workerPc EXCEPT ![w] = "fetch"]
  BY <1>1, <1>2 DEF V2TypeOK
<1>4. CASE workerPc' = [workerPc EXCEPT ![w] = "lock"] /\ UNCHANGED <<currentPage, failed>>
  <2>1. /\ CallerInv' /\ \A u \in Worker : Working(u)' = Working(u)
        /\ workerPc'[w] = "lock" /\ \A u \in Worker \ {w} : workerPc'[u] = workerPc[u]
        /\ workerPc' \in [Worker -> {"none", "fetch", "lock", "append", "done"}]
    BY <1>1, <1>4, WorkerKeepsCaller
  <2>2. \A u \in Worker : Start(u)' = Start(u) /\ End(u)' = End(u)
    BY <1>1, RangesKept
  <2>3. RangeInv'
    BY <1>1, <1>4, <2>1, <2>2 DEF V2Inv, RangeInv
  <2>4. MutexInv'
    BY <1>1, <2>1 DEF V2Inv, MutexInv
  <2>5. ResultsInv'
    <3>1. \A u \in Worker : Tried(u)' = Tried(u)
      BY <1>1, <1>4, <2>1, <2>2 DEF Tried
    <3>2. QED
      BY <1>1, <1>2, <1>4, <3>1 DEF V2Inv, ResultsInv
  <2>6. QED
    BY <1>1, <1>4, <2>1, <2>3, <2>4, <2>5 DEF V2Inv, V2TypeOK
<1>5. CASE failed' = failed \cup {currentPage[w]} /\ NextPage(w) /\ UNCHANGED workerPc
  <2>1. CallerInv' /\ \A u \in Worker : Working(u)' = Working(u)
    BY <1>1, <1>3, <1>5, WorkerKeepsCaller
  <2>2. RangeInv' /\ currentPage' \in [Worker -> 0..(MaxPages + MaxWorkers + 1)]
    BY <1>1, <1>3, <1>5, NextPageKeepsRanges
  <2>3. MutexInv'
    BY <1>1, <1>5 DEF V2Inv, MutexInv
  <2>4. currentPage[w] \in 2..pages /\ currentPage[w] \notin Range(v2results) \cup failed
    BY <1>1, <1>2, CurrentIsNew
  <2>5. ResultsInv'
    <3>1. UNION {Tried(u)' : u \in Worker} = {currentPage[w]} \cup UNION {Tried(u) : u \in Worker}
      BY <1>1, <1>2, <1>5, <2>1, NextIsTried
    <3>2. QED
      BY <1>1, <1>2, <1>5, <2>4, <3>1 DEF V2Inv, ResultsInv
  <2>6. failed' \subseteq 1..(MaxPages + 1)
    <3>1. pages \in 0..MaxPages /\ MaxPages \in Nat /\ failed \subseteq 1..(MaxPages + 1)
      BY <1>2, WorkerIs DEF V2TypeOK
    <3>2. currentPage[w] \in 1..(MaxPages + 1)
      BY <2>4, <3>1
    <3>3. QED
      BY <1>5, <3>1, <3>2
  <2>7. QED
    BY <1>1, <1>5, <2>1, <2>2, <2>3, <2>5, <2>6 DEF V2Inv, V2TypeOK
<1>6. QED
  BY <1>4, <1>5 DEF FetchPage

LEMMA AppendReadKeepsInv ==
    ASSUME V2Inv, NEW w \in Worker, AppendRead(w)
    PROVE  V2Inv'
<1>1. /\ workerPc[w] = "lock" /\ mutex = Free /\ mutex' = w
      /\ mine' = [mine EXCEPT ![w] = v2results]
      /\ UNCHANGED <<NumWorkers, pages, v2pc, currentPage, v2results, failed>>
  BY DEF AppendRead, MutexFree
<1>2. V2TypeOK /\ Working(w) /\ Started
  BY <1>1, WorkerRuns DEF Started
<1>3. /\ CallerInv' /\ \A u \in Worker : Working(u)' = Working(u)
      /\ workerPc'[w] = "append" /\ \A u \in Worker \ {w} : workerPc'[u] = workerPc[u]
      /\ workerPc' \in [Worker -> {"none", "fetch", "lock", "append", "done"}]
  BY WorkerKeepsCaller DEF AppendRead
<1>4. \A u \in Worker : Start(u)' = Start(u) /\ End(u)' = End(u)
  BY <1>1, RangesKept
<1>5. V2TypeOK'
  BY <1>1, <1>2, <1>3 DEF V2TypeOK
<1>6. RangeInv'
  BY <1>1, <1>3, <1>4 DEF V2Inv, RangeInv
<1>7. MutexInv'
  <2>1. \A u \in Worker : workerPc[u] # "append"
    BY <1>1, WorkerIs DEF V2Inv, MutexInv
  <2>2. mine'[w] = v2results
    BY <1>1, <1>2 DEF V2TypeOK
  <2>3. QED
    BY <1>1, <1>3, <2>1, <2>2 DEF MutexInv
<1>8. ResultsInv'
  <2>1. \A u \in Worker : Tried(u)' = Tried(u)
    BY <1>1, <1>3, <1>4 DEF Tried
  <2>2. QED
    BY <1>1, <2>1 DEF V2Inv, ResultsInv, Started
<1>9. QED
  BY <1>3, <1>5, <1>6, <1>7, <1>8 DEF V2Inv

LEMMA AppendWriteKeepsInv ==
    ASSUME V2Inv, NEW w \in Worker, AppendWrite(w)
    PROVE  V2Inv'
<1>1. /\ workerPc[w] = "append" /\ mutex' = Free /\ NextPage(w)
      /\ v2results' = Append(mine[w], currentPage[w]) /\ mine' = [mine EXCEPT ![w] = <<>>]
      /\ UNCHANGED <<NumWorkers, pages, v2pc, failed>>
  BY DEF AppendWrite
<1>2. V2TypeOK /\ Working(w) /\ Started /\ currentPage[w] < End(w) /\ pages \in Nat /\ pages <= MaxPages
  BY <1>1, WorkerRuns DEF Started, V2Inv, RangeInv, V2TypeOK
<1>3. /\ CallerInv' /\ \A u \in Worker : Working(u)' = Working(u)
      /\ workerPc'[w] = "fetch" /\ \A u \in Worker \ {w} : workerPc'[u] = workerPc[u]
      /\ workerPc' \in [Worker -> {"none", "fetch", "lock", "append", "done"}]
  BY WorkerKeepsCaller DEF AppendWrite
<1>4. RangeInv' /\ currentPage' \in [Worker -> 0..(MaxPages + MaxWorkers + 1)]
  BY <1>2, NextPageKeepsRanges DEF AppendWrite
<1>5. /\ currentPage[w] \in 1..MaxPages /\ currentPage[w] \notin Range(v2results) \cup failed
      /\ mine[w] = v2results /\ v2results \in Seq(1..MaxPages) /\ IsInjective(v2results)
  <2>1. currentPage[w] \in 2..pages /\ currentPage[w] \notin Range(v2results) \cup failed
    BY <1>2, CurrentIsNew
  <2>2. QED
    BY <1>1, <2>1, WorkerIs DEF V2Inv, V2TypeOK, MutexInv, ResultsInv
<1>6. /\ v2results' \in Seq(1..MaxPages) /\ IsInjective(v2results')
      /\ Range(v2results') = Range(v2results) \cup {currentPage[w]}
  <2>1. LET t == Append(v2results, currentPage[w]) IN
           /\ t \in Seq(1..MaxPages) /\ IsInjective(t)
           /\ Range(t) = Range(v2results) \cup {currentPage[w]}
    <3> DEFINE S == 1..MaxPages
               e == currentPage[w]
    <3>1. v2results \in Seq(S) /\ e \in S /\ e \notin Range(v2results) /\ IsInjective(v2results)
      BY <1>5
    <3> HIDE DEF S, e
    <3>2. /\ Append(v2results, e) \in Seq(S) /\ IsInjective(Append(v2results, e))
          /\ Range(Append(v2results, e)) = Range(v2results) \cup {e}
      BY <3>1, AppendIs
    <3>3. QED
      BY <3>2 DEF S, e
  <2>2. QED
    BY <1>1, <1>5, <2>1
<1>7. V2TypeOK'
  <2>2. QED
    BY <1>1, <1>2, <1>3, <1>4, <1>6 DEF V2TypeOK
<1>8. MutexInv'
  <2>1. \A u \in Worker \ {w} : workerPc[u] # "append"
    BY <1>1 DEF V2Inv, MutexInv
  <2>2. QED
    BY <1>1, <1>3, <2>1, WorkerIs DEF MutexInv
<1>9. ResultsInv'
  <2>1. UNION {Tried(u)' : u \in Worker} = {currentPage[w]} \cup UNION {Tried(u) : u \in Worker}
    BY <1>1, <1>2, <1>3, NextIsTried
  <2>2. QED
    BY <1>1, <1>2, <1>5, <1>6, <2>1 DEF V2Inv, ResultsInv
<1>10. QED
  BY <1>3, <1>4, <1>7, <1>8, <1>9 DEF V2Inv

LEMMA FinishKeepsInv ==
    ASSUME V2Inv, NEW w \in Worker, Finish(w)
    PROVE  V2Inv'
<1>1. /\ workerPc[w] = "fetch" /\ currentPage[w] >= End(w)
      /\ UNCHANGED <<NumWorkers, pages, v2pc, currentPage, v2results, mine, mutex, failed>>
  BY DEF Finish
<1>3. /\ CallerInv' /\ \A u \in Worker : Working(u)' = Working(u)
      /\ workerPc'[w] = "done" /\ \A u \in Worker \ {w} : workerPc'[u] = workerPc[u]
      /\ workerPc' \in [Worker -> {"none", "fetch", "lock", "append", "done"}]
  BY WorkerKeepsCaller DEF Finish
<1>4. \A u \in Worker : Start(u)' = Start(u) /\ End(u)' = End(u)
  BY <1>1, RangesKept
<1>5. V2TypeOK' /\ RangeInv' /\ MutexInv'
  BY <1>1, <1>3, <1>4 DEF V2Inv, V2TypeOK, RangeInv, MutexInv
<1>6. ResultsInv'
  <2>1. \A u \in Worker : Tried(u)' = Tried(u)
    BY <1>1, <1>3, <1>4 DEF Tried
  <2>2. QED
    BY <1>1, <2>1 DEF V2Inv, ResultsInv, Started
<1>7. QED
  BY <1>3, <1>5, <1>6 DEF V2Inv

LEMMA V2ReturnKeepsInv ==
    ASSUME V2Inv, V2Return \/ UNCHANGED v2vars
    PROVE  V2Inv'
<1>1. /\ UNCHANGED <<NumWorkers, pages, workerPc, currentPage, v2results, mine, mutex, failed>>
      /\ v2pc' = v2pc \/ (v2pc = "wait" /\ v2pc' = "returned" /\ AllDone)
  BY DEF V2Return, v2vars
<1>2. /\ numWorkers' = numWorkers
      /\ \A u \in Worker : Start(u)' = Start(u) /\ End(u)' = End(u) /\ Working(u)' = Working(u)
  BY <1>1, RangesKept DEF Working
<1>3. V2TypeOK' /\ RangeInv' /\ MutexInv'
  BY <1>1, <1>2 DEF V2Inv, V2TypeOK, RangeInv, MutexInv
<1>4. CallerInv'
  BY <1>1, <1>2 DEF V2Inv, CallerInv, Started, AllDone
<1>5. ResultsInv'
  <2>1. \A u \in Worker : Tried(u)' = Tried(u)
    BY <1>1, <1>2 DEF Tried
  <2>2. QED
    BY <1>1, <2>1 DEF V2Inv, ResultsInv, Started
<1>6. QED
  BY <1>3, <1>4, <1>5 DEF V2Inv

LEMMA V2NextKeepsInv ==
    ASSUME V2Inv, [V2Next]_v2vars
    PROVE  V2Inv'
BY FirstPageKeepsInv, StartWorkersKeepsInv, FetchPageKeepsInv, AppendReadKeepsInv,
   AppendWriteKeepsInv, FinishKeepsInv, V2ReturnKeepsInv DEF V2Next, V2Returned, WorkerStep

LEMMA V2InvAlways == V2Spec => []V2Inv
BY InitV2Inv, V2NextKeepsInv, PTL DEF V2Spec

LEMMA V2InvImplies ==
    V2Inv => V2TypeOK /\ EveryPageOnce
<1> SUFFICES ASSUME V2Inv PROVE EveryPageOnce
  BY DEF V2Inv
<1>1. Range(v2results) \cup failed \subseteq 1..(IF pages = 0 THEN 1 ELSE pages)
  <2>1. pages \in Nat /\ v2pc \in {"first", "start", "wait", "returned", "error"}
    BY DEF V2Inv, V2TypeOK
  <2>2. CASE Started
    <3>2. \A w \in Worker : Tried(w) \subseteq 1..pages
      BY DEF Tried
    <3>4. QED
      BY <2>1, <2>2, <3>2 DEF V2Inv, ResultsInv
  <2>3. CASE ~Started
    <3>1. Range(v2results) \cup failed \subseteq {1} /\ 1 \in 1..(IF pages = 0 THEN 1 ELSE pages)
      BY <2>1, <2>3 DEF V2Inv, CallerInv, Started, Range
    <3>2. QED
      BY <3>1
  <2>4. QED
    BY <2>2, <2>3
<1>2. ASSUME v2pc = "returned", NumWorkers > 0
      PROVE  Range(v2results) \cup failed = 1..pages
  <2>1. pages > 0 /\ Started /\ V2TypeOK /\ pages \in Nat
    BY <1>2 DEF V2Inv, CallerInv, Started, V2TypeOK
  <2>2. ASSUME NEW p \in 2..pages
        PROVE  p \in UNION {Tried(w) : w \in Worker}
    <3>1. PICK w \in Worker : w < numWorkers /\ Start(w) <= p /\ p < End(w)
      BY <1>2, <2>1, RangesCover
    <3>2. Working(w) /\ currentPage[w] >= End(w) /\ currentPage[w] \in Nat /\ End(w) \in Nat
      BY <1>2, <2>1, <3>1, StartIs DEF V2Inv, CallerInv, RangeInv, AllDone, Working,
         V2TypeOK
    <3>3. p \in Tried(w)
      BY <3>1, <3>2 DEF Tried
    <3>4. QED
      BY <3>3
  <2>3. 1..pages = {1} \cup 2..pages /\ \A w \in Worker : Tried(w) \subseteq 2..pages
    BY <2>1 DEF Tried
  <2>4. QED
    BY <2>1, <2>2, <2>3 DEF V2Inv, ResultsInv
<1>3. ASSUME v2pc = "returned", ~(NumWorkers > 0)
      PROVE  Range(v2results) \cup failed = {1}
  <2>1. Started /\ V2TypeOK /\ NumWorkers = 0
    BY <1>3 DEF Started, V2Inv, V2TypeOK
  <2>2. numWorkers = 0
    BY <2>1, NumWorkersIs
  <2>3. \A w \in Worker : ~Working(w)
    BY <2>2, WorkerIs DEF V2Inv, CallerInv
  <2>4. QED
    BY <2>1, <2>3 DEF V2Inv, ResultsInv, Tried
<1>4. QED
  BY <1>1, <1>2, <1>3 DEF V2Inv, ResultsInv, EveryPageOnce

\* getV2Applications: for any number of pages and workers no page is fetched twice,
\* none is lost when two goroutines append at the same time, and none is left out.
THEOREM EveryPageOnceAlways == V2Spec => []EveryPageOnce
BY V2InvAlways, V2InvImplies, PTL

\* The variables of getV2Applications keep their types.
THEOREM V2Types == V2Spec => []V2TypeOK
BY V2InvAlways, V2InvImplies, PTL

-----------------------------------------------------------------------------
(* The composition                                                         *)

\* Each step is one of one part, and the others stutter.
LEMMA ListingInvAlways == ListingSpec => [](Inv /\ V2Inv /\ V3Inv)
<1>1. ListingInit => Inv /\ V2Inv /\ V3Inv
  BY InitInv, InitV2Inv, InitV3Inv DEF ListingInit, V2Off, V3Off
<1>2. Inv /\ V2Inv /\ V3Inv /\ [ListingNext]_listingVars => (Inv /\ V2Inv /\ V3Inv)'
  <2> SUFFICES ASSUME Inv, V2Inv, V3Inv, [ListingNext]_listingVars
               PROVE  Inv' /\ V2Inv' /\ V3Inv'
    OBVIOUS
  <2>1. [Next]_vars /\ [V2Next]_v2vars /\ [V3Next]_v3vars
    BY DEF ListingNext, listingVars
  <2>2. QED
    BY <2>1, NextKeepsInv, V2NextKeepsInv, V3NextKeepsInv
<1>3. QED
  BY <1>1, <1>2, PTL DEF ListingSpec

\* GetApplications, getV2Applications and the paging of a version 3 list, as they are
\* checked together, keep the types of their variables.
THEOREM ListingTypes == ListingSpec => []ListingTypeOK
<1>1. Inv /\ V2Inv /\ V3Inv => ListingTypeOK
  BY V2InvImplies, V3InvImplies DEF Inv, Shape, ListingTypeOK
<1>2. QED
  BY <1>1, ListingInvAlways, PTL
=============================================================================

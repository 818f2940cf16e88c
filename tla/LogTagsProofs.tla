---------------------------- MODULE LogTagsProofs ----------------------------
(***************************************************************************)
(* Proofs about LogTags for any number of workers, apps, logs and updates. *)
(*                                                                         *)
(* EntriesOf(a, k) is what may be at place k of an array of app a.  The    *)
(* argument is that every write into such an array, by whichever worker,   *)
(* puts an entry there that belongs: a place that was filled once stays    *)
(* filled, although its entry may change.                                  *)
(***************************************************************************)
EXTENDS LogTags, TLAPS

Entries == {None} \cup UNION {EntriesOf(a, k) : a \in Apps, k \in Places}
Arrays == [Places -> Entries]

Types ==
    /\ spare \in [Apps -> Spares] /\ customRoom \in BOOLEAN
    /\ version \in [Apps -> Versions] /\ waiting \subseteq Logs
    /\ cached \in [Apps -> [Versions -> Arrays]] /\ custom \in Arrays
    /\ pc \in [Workers -> {"idle", "append", "copy", "join"}]
    /\ log \in [Workers -> Logs \cup {None}] /\ seen \in [Workers -> Versions]
    /\ shared \in [Workers -> BOOLEAN] /\ done \in [Workers -> 0..4]
    /\ {appTags, logTags, message} \subseteq [Workers -> Arrays]
    /\ sent \in [Logs -> Arrays \cup {None}]
    /\ \A w \in Workers : (pc[w] = "idle") = (log[w] = None)
    /\ \A w \in Workers : pc[w] = "idle" => appTags[w] = Empty
    /\ \A w \in Workers : pc[w] = "append" => done[w] \in 1..3
    /\ \A w \in Workers : pc[w] = "copy" => done[w] \in 0..3

FilledTo(t, n, a) == \A k \in Places : k <= n => t[k] \in EntriesOf(a, k)

CachedOK ==
    \A a \in Apps, v \in Versions :
        /\ Array(cached[a][v], a)
        /\ v <= version[a] => cached[a][v][1] \in EntriesOf(a, 1)

Source(w) == IF shared[w] THEN Cached(w) ELSE appTags[w]

\* The tags the worker has put together so far.
Progress(w) ==
    /\ seen[w] <= version[App(w)]
    /\ Array(appTags[w], App(w))
    /\ pc[w] = "append" => FilledTo(Source(w), done[w], App(w))
    /\ pc[w] \in {"copy", "join"} => FilledTo(Source(w), 4, App(w))
    /\ ~customRoom =>
          /\ pc[w] = "copy" => FilledTo(logTags[w], done[w], App(w))
          /\ pc[w] = "join" => FilledTo(logTags[w], 4, App(w)) /\ FilledTo(message[w], done[w], App(w))

\* With fewer than three places its own array holds the instance index of its log.
OwnIndex(w) ==
    spare[App(w)] < 3 =>
        /\ pc[w] \in {"copy", "join"} => ~shared[w] /\ appTags[w][4] = <<4, log[w]>>
        /\ ~customRoom /\ pc[w] = "join" =>
              /\ logTags[w][4] = <<4, log[w]>>
              /\ done[w] = 4 => message[w][4] = <<4, log[w]>>

SentOK ==
    \A l \in Logs : ~customRoom /\ Tagged(l) =>
        /\ FilledTo(sent[l], 4, AppOf[l])
        /\ spare[AppOf[l]] < 3 => sent[l][4] = <<4, l>>

Inv ==
    /\ Types /\ CachedOK /\ SentOK
    /\ \A w \in Workers : pc[w] # "idle" => Progress(w) /\ OwnIndex(w)

-----------------------------------------------------------------------------
(* Entries                                                                 *)

LEMMA PlacesAre ==
    /\ 1 \in Places /\ 4 \in Places /\ 2..4 \subseteq Places
    /\ \A k \in Places : k \in Nat /\ k <= 4 /\ (k # 1 => k \in 2..4)
BY DEF Places

LEMMA Belongs ==
    ASSUME NEW a \in Apps, NEW k \in Places
    PROVE  EntriesOf(a, k) \subseteq Entries /\ None \in Entries
BY DEF Entries

LEMMA NoneInArrays == None \in Entries /\ Empty \in Arrays
BY DEF Entries, Empty, Arrays

LEMMA NoneAnywhere == \A a : Array(Empty, a)
BY DEF Empty, Array

LEMMA OwnBelongs ==
    ASSUME NEW a \in Apps, NEW v \in Versions
    PROVE  Own(a, v) \in EntriesOf(a, 1)
BY DEF EntriesOf, Own

\* What a worker appends belongs to the app of its log.
LEMMA TagBelongs ==
    ASSUME NEW w \in Workers, log[w] \in Logs, NEW k \in 2..4
    PROVE  /\ Tag(w, k) \in EntriesOf(App(w), k)
           /\ k = 4 => Tag(w, k) = <<4, log[w]>>
<1>1. CASE k = 4
  <2>1. Tag(w, k) = <<4, log[w]>>
    BY <1>1 DEF Tag
  <2>2. EntriesOf(App(w), k) = {<<k, l>> : l \in {l \in Logs : AppOf[l] = App(w)}}
    BY <1>1 DEF EntriesOf
  <2>3. <<4, log[w]>> \in EntriesOf(App(w), k)
    BY <1>1, <2>2 DEF App
  <2>4. QED
    BY <2>1, <2>3
<1>2. CASE k # 4
  <2>1. Tag(w, k) = <<k, App(w)>>
    BY <1>2 DEF Tag
  <2>2. k \in {2, 3} /\ k # 1
    BY <1>2
  <2>3. EntriesOf(App(w), k) = {<<k, App(w)>>}
    BY <2>2 DEF EntriesOf
  <2>4. QED
    BY <1>2, <2>1, <2>3
<1>3. QED
  BY <1>1, <1>2

LEMMA FreshArray ==
    ASSUME NEW a \in Apps, NEW v \in Versions
    PROVE  /\ Fresh(a, v) \in Arrays /\ Empty \in Arrays
           /\ Array(Fresh(a, v), a) /\ Array(Empty, a)
           /\ Fresh(a, v)[1] \in EntriesOf(a, 1)
<1>1. \A k \in Places : Empty[k] = None
  BY DEF Empty
<1>2. Empty \in Arrays
  BY NoneInArrays
<1>3. Own(a, v) \in EntriesOf(a, 1) /\ Own(a, v) \in Entries
  BY OwnBelongs, Belongs, PlacesAre
<1>4. Fresh(a, v) \in Arrays
  BY <1>2, <1>3 DEF Fresh, Arrays
<1>5. Fresh(a, v)[1] = Own(a, v) /\ \A k \in Places : k # 1 => Fresh(a, v)[k] = None
  BY <1>1, <1>2, PlacesAre DEF Fresh, Arrays
<1>6. QED
  BY <1>1, <1>2, <1>3, <1>4, <1>5 DEF Array

-----------------------------------------------------------------------------
(* The initial state, and the updater.                                     *)

LEMMA InitInv == Init => Inv
<1> SUFFICES ASSUME Init PROVE Inv
  OBVIOUS
<1> USE LogTagsAssumption
<1>1. 0 \in Versions /\ \A v \in Versions : v \in Nat
  BY DEF Versions
<1>2. \A a \in Apps, v \in Versions :
         /\ cached[a][v] \in Arrays /\ Array(cached[a][v], a)
         /\ v = 0 => cached[a][v][1] \in EntriesOf(a, 1)
  BY <1>1, FreshArray DEF Init
<1>3. CachedOK
  BY <1>1, <1>2 DEF CachedOK, Init
<1>4. \A w \in Workers : pc[w] = "idle"
  BY DEF Init
<1>5. Empty \in Arrays
  BY NoneInArrays
<1>6. Types
  <2>1. cached \in [Apps -> [Versions -> Arrays]]
    BY <1>2 DEF Init
  <2>2. QED
    BY <1>1, <1>4, <1>5, <2>1 DEF Types, Init
<1>7. SentOK
  BY DEF SentOK, Tagged, Init
<1>8. QED
  BY <1>3, <1>4, <1>6, <1>7 DEF Inv

LEMMA SetTagsKeeps ==
    ASSUME Inv, NEW a \in Apps, SetTags(a)
    PROVE  Inv'
<1> USE LogTagsAssumption DEF Inv
<1>1. version[a] + 1 \in Versions /\ version[a] \in Nat
  BY DEF SetTags, Types, Versions
<1> DEFINE v == version[a] + 1
<1>2. /\ version' = [version EXCEPT ![a] = v]
      /\ cached' = [cached EXCEPT ![a][v] = Fresh(a, v)]
      /\ UNCHANGED <<spare, customRoom, custom, waiting, worker, sent>>
  BY DEF SetTags, Types
<1>3. /\ Fresh(a, v) \in Arrays /\ Array(Fresh(a, v), a) /\ Fresh(a, v)[1] \in EntriesOf(a, 1)
  BY <1>1, FreshArray
<1> HIDE DEF v
<1>4. v \in Versions /\ v = version[a] + 1 /\ \A u \in Versions : u \in Nat
  BY <1>1 DEF v, Versions
<1>5. \A b \in Apps, u \in Versions :
         cached'[b][u] = IF b = a /\ u = v THEN Fresh(a, v) ELSE cached[b][u]
  BY <1>2, <1>4 DEF Types
<1>6. Types'
  <2>1. cached' \in [Apps -> [Versions -> Arrays]]
    BY <1>2, <1>3, <1>4 DEF Types
  <2>2. version' \in [Apps -> Versions]
    BY <1>2, <1>4 DEF Types
  <2>3. QED
    BY <1>2, <2>1, <2>2 DEF Types, worker
<1>7. CachedOK'
  <2> SUFFICES ASSUME NEW b \in Apps, NEW u \in Versions
               PROVE  /\ Array(cached'[b][u], b)
                      /\ u <= version'[b] => cached'[b][u][1] \in EntriesOf(b, 1)
    BY DEF CachedOK, Array
  <2>1. CASE b = a /\ u = v
    BY <1>3, <1>5, <2>1
  <2>2. CASE ~(b = a /\ u = v)
    <3>1. u <= version'[b] => u <= version[b]
      BY <1>1, <1>2, <1>4, <2>2 DEF Types
    <3>2. QED
      BY <1>5, <2>2, <3>1 DEF CachedOK
  <2>3. QED
    BY <2>1, <2>2
<1>8. SentOK'
  BY <1>2 DEF SentOK, Tagged, FilledTo
<1>9. ASSUME NEW w \in Workers, pc'[w] # "idle" PROVE Progress(w)' /\ OwnIndex(w)'
  <2>1. /\ Progress(w) /\ OwnIndex(w) /\ log[w] \in Logs
        /\ App(w) \in Apps /\ App(w)' = App(w)
    BY <1>2, <1>9 DEF worker, Types, App
  <2>2. seen[w] <= version'[App(w)] /\ seen[w] \in Versions /\ seen[w] \in Nat
    <3>1. seen[w] \in Versions /\ seen[w] \in Nat /\ seen[w] <= version[App(w)]
      BY <1>4, <2>1 DEF Progress, Types
    <3>2. version'[App(w)] = version[App(w)] \/ (App(w) = a /\ version'[App(w)] = version[a] + 1)
      BY <1>2, <1>4, <2>1 DEF Types
    <3>3. QED
      BY <1>1, <3>1, <3>2
  <2>3. cached'[App(w)][seen[w]] = cached[App(w)][seen[w]]
    BY <1>1, <1>4, <1>5, <2>1, <2>2 DEF Progress
  <2>4. Source(w)' = Source(w)
    BY <1>2, <2>1, <2>3 DEF Source, Cached, worker
  <2>5. QED
    BY <1>2, <2>1, <2>2, <2>4 DEF Progress, OwnIndex, FilledTo, Array, worker
<1>10. QED
  BY <1>6, <1>7, <1>8, <1>9

-----------------------------------------------------------------------------
(* The workers                                                             *)

LEMMA SkipKeeps ==
    ASSUME Inv, NEW l \in Logs, Skip(l)
    PROVE  Inv'
<1> USE LogTagsAssumption DEF Inv
<1>1. /\ waiting' = waiting \ {l} /\ sent' \in {sent, [sent EXCEPT ![l] = Empty]}
      /\ UNCHANGED <<spare, customRoom, version, cached, custom>>
      /\ UNCHANGED <<pc, log, seen, shared, done, appTags, logTags, message>>
  BY DEF Skip, updater, worker
<1>2. Types'
  BY <1>1, NoneInArrays DEF Types
<1>3. CachedOK'
  BY <1>1 DEF CachedOK, Array
<1>4. SentOK'
  <2> SUFFICES ASSUME NEW k \in Logs, ~customRoom, Tagged(k)'
               PROVE  /\ FilledTo(sent'[k], 4, AppOf[k])
                      /\ spare[AppOf[k]] < 3 => sent'[k][4] = <<4, k>>
    BY <1>1 DEF SentOK, FilledTo
  <2>1. sent'[k] = sent[k]
    <3>1. sent'[k] # Empty
      BY DEF Tagged, Empty, Places, None
    <3>2. QED
      BY <1>1, <3>1 DEF Types
  <2>2. QED
    BY <2>1 DEF SentOK, Tagged
<1>5. ASSUME NEW w \in Workers, pc'[w] # "idle" PROVE Progress(w)' /\ OwnIndex(w)'
  <2>1. Progress(w) /\ OwnIndex(w)
    BY <1>1, <1>5
  <2>2. App(w)' = App(w) /\ Source(w)' = Source(w)
    BY <1>1 DEF App, Source, Cached
  <2>3. QED
    BY <1>1, <2>1, <2>2 DEF Progress, OwnIndex, FilledTo, Array
<1>6. QED
  BY <1>2, <1>3, <1>4, <1>5

\* What a step of worker w leaves to show if it changes nothing but variables of its
\* own: that its own progress is kept.
LEMMA OtherWorkersKeep ==
    ASSUME Inv, NEW w \in Workers, NEW u \in Workers, u # w, pc[u] # "idle",
           UNCHANGED <<spare, customRoom, version, cached>>,
           UNCHANGED <<pc[u], log[u], seen[u], shared[u], done[u]>>,
           UNCHANGED <<appTags[u], logTags[u], message[u]>>
    PROVE  Progress(u)' /\ OwnIndex(u)'
<1>1. Progress(u) /\ OwnIndex(u)
  BY DEF Inv
<1>2. App(u)' = App(u) /\ Source(u)' = Source(u)
  BY DEF App, Source, Cached
<1>3. QED
  BY <1>1, <1>2 DEF Progress, OwnIndex, FilledTo, Array

LEMMA AtWork ==
    ASSUME Inv, NEW w \in Workers, pc[w] # "idle"
    PROVE  log[w] \in Logs /\ App(w) \in Apps /\ seen[w] \in Versions
BY LogTagsAssumption DEF Inv, Types, App

LEMMA TakeKeeps ==
    ASSUME Inv, NEW w \in Workers, NEW l \in Logs, Take(w, l)
    PROVE  Inv'
<1> USE LogTagsAssumption DEF Inv
<1>1. /\ pc[w] = "idle" /\ l \in waiting
      /\ log' = [log EXCEPT ![w] = l] /\ seen' = [seen EXCEPT ![w] = version[AppOf[l]]]
      /\ shared' = [shared EXCEPT ![w] = TRUE] /\ done' = [done EXCEPT ![w] = 1]
      /\ pc' = [pc EXCEPT ![w] = "append"] /\ waiting' = waiting \ {l}
      /\ UNCHANGED <<spare, customRoom, version, cached, custom, appTags, logTags, message, sent>>
  BY DEF Take, updater
<1>2. AppOf[l] \in Apps /\ version[AppOf[l]] \in Versions
  BY DEF Types
<1>3. Types'
  BY <1>1, <1>2 DEF Types
<1>4. CachedOK' /\ SentOK'
  BY <1>1 DEF CachedOK, SentOK, Array, Tagged, FilledTo
<1>5. ASSUME NEW u \in Workers, pc'[u] # "idle" PROVE Progress(u)' /\ OwnIndex(u)'
  <2>1. CASE u # w
    BY <1>1, <1>5, <2>1, OtherWorkersKeep DEF Types
  <2>2. CASE u = w
    <3>1. /\ pc'[w] = "append" /\ done'[w] = 1 /\ shared'[w] /\ seen'[w] = version[AppOf[l]]
          /\ App(w)' = AppOf[l]
      BY <1>1 DEF Types, App
    <3>2. Source(w)' = cached[AppOf[l]][version[AppOf[l]]]
      BY <1>1, <3>1 DEF Source, Cached
    <3>3. FilledTo(Source(w)', 1, AppOf[l])
      <4>1. version[AppOf[l]] <= version[AppOf[l]]
        BY <1>2 DEF Versions
      <4>2. Source(w)'[1] \in EntriesOf(AppOf[l], 1)
        BY <1>2, <3>2, <4>1 DEF CachedOK
      <4>3. \A k \in Places : k <= 1 => k = 1
        BY DEF Places
      <4>4. QED
        BY <4>2, <4>3 DEF FilledTo
    <3>4. Array(appTags'[w], AppOf[l])
      BY <1>1, NoneAnywhere DEF Types
    <3>5. QED
      BY <1>1, <1>2, <2>2, <3>1, <3>3, <3>4 DEF Progress, OwnIndex, FilledTo, Array, Versions
  <2>3. QED
    BY <2>1, <2>2
<1>6. QED
  BY <1>3, <1>4, <1>5

\* A write into an array of app a puts an entry there that belongs, and what other
\* workers read stays filled.
LEMMA AppendTagKeeps ==
    ASSUME Inv, NEW w \in Workers, AppendTag(w)
    PROVE  Inv'
<1> USE LogTagsAssumption DEF Inv
<1> DEFINE k == done[w] + 1
           a == App(w)
           tag == Tag(w, k)
<1>1. /\ pc[w] = "append" /\ log[w] \in Logs /\ a \in Apps /\ seen[w] \in Versions
      /\ Progress(w) /\ OwnIndex(w) /\ done[w] \in 1..3
  <2>1. pc[w] = "append"
    BY DEF AppendTag
  <2>2. QED
    BY <2>1, AtWork DEF Types
<1>2. k \in 2..4 /\ k \in Places /\ k # 1
  BY <1>1, PlacesAre
<1>3. tag \in EntriesOf(a, k) /\ tag \in Entries /\ (k = 4 => tag = <<4, log[w]>>)
  BY <1>1, <1>2, TagBelongs, Belongs
<1>4. \/ /\ shared[w] /\ Room(w)
         /\ cached' = [cached EXCEPT ![a][seen[w]][k] = tag]
         /\ UNCHANGED <<shared, appTags>>
      \/ /\ ~(shared[w] /\ Room(w))
         /\ appTags' = [appTags EXCEPT ![w] = [Source(w) EXCEPT ![k] = tag]]
         /\ shared' = [shared EXCEPT ![w] = FALSE] /\ UNCHANGED cached
  BY <1>1 DEF AppendTag, Source, Types
<1>5. \/ k = 4 /\ pc' = [pc EXCEPT ![w] = "copy"] /\ done' = [done EXCEPT ![w] = 0]
      \/ k # 4 /\ done' = [done EXCEPT ![w] = k] /\ pc' = pc
  BY DEF AppendTag
<1>6. UNCHANGED <<spare, customRoom, version, custom, waiting, log, seen, logTags, message, sent>>
  BY DEF AppendTag
<1> HIDE DEF a, tag, k
<1>7. Source(w) \in Arrays /\ Array(Source(w), a) /\ FilledTo(Source(w), done[w], a)
  BY <1>1 DEF Source, Cached, CachedOK, Progress, Types, a
<1>8. \A b \in Apps, v \in Versions :
         /\ cached'[b][v] \in Arrays
         /\ \A j \in Places : cached'[b][v][j] = cached[b][v][j]
                              \/ cached'[b][v][j] \in EntriesOf(b, j)
  <2>1. CASE UNCHANGED cached
    BY <2>1 DEF Types
  <2>2. CASE cached' = [cached EXCEPT ![a][seen[w]][k] = tag]
    <3> SUFFICES ASSUME NEW b \in Apps, NEW v \in Versions
                 PROVE  /\ cached'[b][v] \in Arrays
                        /\ \A j \in Places : cached'[b][v][j] = cached[b][v][j]
                                             \/ cached'[b][v][j] \in EntriesOf(b, j)
      OBVIOUS
    <3>1. cached[b][v] \in Arrays
      BY DEF Types
    <3>2. CASE b = a /\ v = seen[w]
      <4>1. cached'[b][v] = [cached[b][v] EXCEPT ![k] = tag]
        BY <2>2, <3>2 DEF Types
      <4>2. QED
        BY <1>2, <1>3, <3>1, <3>2, <4>1 DEF Arrays
    <3>3. CASE ~(b = a /\ v = seen[w])
      <4>1. cached'[b][v] = cached[b][v]
        BY <2>2, <3>3 DEF Types
      <4>2. QED
        BY <3>1, <4>1
    <3>4. QED
      BY <3>2, <3>3
  <2>3. QED
    BY <1>4, <2>1, <2>2
<1>9. CachedOK'
  BY <1>6, <1>8, PlacesAre DEF CachedOK, Array
<1>10. appTags' \in [Workers -> Arrays] /\ shared' \in [Workers -> BOOLEAN]
  <2>1. [Source(w) EXCEPT ![k] = tag] \in Arrays
    BY <1>2, <1>3, <1>7 DEF Arrays
  <2>2. QED
    BY <1>4, <2>1 DEF Types
<1>11. Types'
  <2>1. cached' \in [Apps -> [Versions -> Arrays]]
    <3>1. CASE UNCHANGED cached
      BY <3>1 DEF Types
    <3>2. CASE cached' = [cached EXCEPT ![a][seen[w]][k] = tag]
      <4>1. [cached[a] EXCEPT ![seen[w]][k] = tag] \in [Versions -> Arrays]
        <5>1. cached[a] \in [Versions -> Arrays] /\ cached'[a] = [cached[a] EXCEPT ![seen[w]][k] = tag]
          BY <1>1, <3>2 DEF Types
        <5>2. \A v \in Versions : cached'[a][v] \in Arrays
          BY <1>1, <1>8 DEF Types
        <5>3. QED
          BY <5>1, <5>2
      <4>2. QED
        BY <3>2, <4>1 DEF Types
    <3>3. QED
      BY <1>4, <3>1, <3>2
  <2>2. pc' \in [Workers -> {"idle", "append", "copy", "join"}] /\ done' \in [Workers -> 0..4]
    <3>1. k \in 0..4 /\ 0 \in 0..4
      BY <1>2
    <3>2. pc' \in [Workers -> {"idle", "append", "copy", "join"}]
      BY <1>5 DEF Types
    <3>3. done' \in [Workers -> 0..4]
      BY <1>5, <3>1 DEF Types
    <3>4. QED
      BY <3>2, <3>3
  <2>3. \A u \in Workers : (pc'[u] = "idle") = (log'[u] = None)
    BY <1>1, <1>5, <1>6 DEF Types
  <2>4. \A u \in Workers : pc'[u] = "idle" => appTags'[u] = Empty
    BY <1>1, <1>4, <1>5 DEF Types
  <2>5. \A u \in Workers : /\ pc'[u] = "append" => done'[u] \in 1..3
                           /\ pc'[u] = "copy" => done'[u] \in 0..3
    BY <1>1, <1>2, <1>5 DEF Types
  <2>6. QED
    BY <1>6, <1>10, <2>1, <2>2, <2>3, <2>4, <2>5, Empty' = Empty DEF Types
<1>12. SentOK'
  BY <1>6 DEF SentOK, Tagged, FilledTo
<1>13. ASSUME NEW u \in Workers, u # w, pc'[u] # "idle" PROVE Progress(u)' /\ OwnIndex(u)'
  <2>1. /\ pc[u] # "idle"
        /\ UNCHANGED <<pc[u], log[u], seen[u], shared[u], done[u]>>
        /\ UNCHANGED <<appTags[u], logTags[u], message[u]>>
    BY <1>4, <1>5, <1>6, <1>13 DEF Types
  <2>2. Progress(u) /\ OwnIndex(u) /\ App(u) \in Apps /\ seen[u] \in Versions
    BY <2>1, AtWork
  <2>3. App(u)' = App(u)
    BY <2>1 DEF App
  <2>4. ASSUME NEW n \in 0..4, FilledTo(Source(u), n, App(u))
        PROVE  FilledTo(Source(u)', n, App(u))
    BY <1>8, <2>1, <2>2, <2>3, <2>4 DEF FilledTo, Source, Cached
  <2>5. done[u] \in 0..4
    BY DEF Types
  <2>6. /\ pc'[u] = "append" => FilledTo(Source(u)', done[u], App(u))
        /\ pc'[u] \in {"copy", "join"} => FilledTo(Source(u)', 4, App(u))
    BY <2>1, <2>2, <2>4, <2>5 DEF Progress
  <2>7. QED
    BY <1>6, <2>1, <2>2, <2>3, <2>6 DEF Progress, OwnIndex, FilledTo, Array
<1>14. ASSUME pc'[w] # "idle" PROVE Progress(w)' /\ OwnIndex(w)'
  <2>1. App(w)' = a /\ seen'[w] = seen[w] /\ log'[w] = log[w] /\ seen[w] <= version'[a]
    BY <1>1, <1>6 DEF App, a, Progress
  <2>2. Source(w)' \in Arrays /\ Source(w)'[k] = tag
    <3>1. CASE shared[w] /\ Room(w)
      <4>1. /\ cached' = [cached EXCEPT ![a][seen[w]][k] = tag] /\ shared'[w]
            /\ Source(w)' = cached'[a][seen[w]]
        BY <1>4, <2>1, <3>1 DEF Source, Cached, Types
      <4>2. a \in Apps /\ cached[a][seen[w]] \in Arrays
        BY <1>1 DEF Types, a
      <4>3. cached'[a][seen[w]] = [cached[a][seen[w]] EXCEPT ![k] = tag]
        BY <1>1, <4>1, <4>2 DEF Types
      <4>4. QED
        BY <1>2, <1>3, <4>1, <4>2, <4>3 DEF Arrays
    <3>2. CASE ~(shared[w] /\ Room(w))
      <4>1. Source(w)' = [Source(w) EXCEPT ![k] = tag]
        BY <1>4, <3>2 DEF Source, Types
      <4>2. QED
        BY <1>2, <1>3, <1>7, <4>1 DEF Arrays
    <3>3. QED
      BY <3>1, <3>2
  <2>3. \A j \in Places : j # k => Source(w)'[j] = Source(w)[j] \/ Source(w)'[j] \in EntriesOf(a, j)
    <3>1. CASE shared[w] /\ Room(w)
      BY <1>1, <1>4, <1>8, <2>1, <3>1 DEF Source, Cached, Types, a
    <3>2. CASE ~(shared[w] /\ Room(w))
      <4>1. Source(w)' = [Source(w) EXCEPT ![k] = tag]
        BY <1>4, <3>2 DEF Source, Types
      <4>2. QED
        BY <1>2, <1>7, <4>1 DEF Arrays
    <3>3. QED
      BY <3>1, <3>2
  <2>4. FilledTo(Source(w)', k, a)
    <3> SUFFICES ASSUME NEW j \in Places, j <= k PROVE Source(w)'[j] \in EntriesOf(a, j)
      BY DEF FilledTo
    <3>1. CASE j = k
      BY <1>3, <2>2, <3>1
    <3>2. CASE j # k
      <4>1. j <= done[w]
        BY <1>1, <3>2, PlacesAre DEF k
      <4>2. QED
        BY <1>7, <2>3, <3>2, <4>1 DEF FilledTo
    <3>3. QED
      BY <3>1, <3>2
  <2>5. Array(appTags'[w], a)
    <3>1. CASE appTags' = appTags
      BY <1>1, <3>1 DEF Progress, a
    <3>2. CASE appTags' = [appTags EXCEPT ![w] = [Source(w) EXCEPT ![k] = tag]]
      <4>1. appTags'[w] = [Source(w) EXCEPT ![k] = tag]
        BY <3>2 DEF Types
      <4>2. QED
        BY <1>2, <1>3, <1>7, <4>1 DEF Array, Arrays
    <3>3. QED
      BY <1>4, <3>1, <3>2
  <2>6. CASE k = 4
    <3>1. pc'[w] = "copy"
      BY <1>5, <2>6 DEF Types
    <3>2. done'[w] = 0 /\ done[w] = 3
      BY <1>1, <1>5, <2>6 DEF Types, k
    <3>3. ASSUME ~customRoom PROVE FilledTo(logTags'[w], 0, a)
      BY PlacesAre DEF FilledTo, Places
    <3>4. Progress(w)'
      BY <1>6, <2>1, <2>4, <2>5, <2>6, <3>1, <3>2, <3>3 DEF Progress, FilledTo, Array
    <3>5. ASSUME spare[a] < 3 PROVE ~shared'[w] /\ appTags'[w][4] = <<4, log[w]>>
      <4>1. spare[a] \in 0..3
        BY <1>1 DEF Types
      <4>2. ~Room(w)
        BY <3>2, <3>5, <4>1 DEF Room, a
      <4>3. ~shared'[w]
        BY <1>4, <4>2 DEF Types
      <4>4. Source(w)' = appTags'[w]
        BY <4>3 DEF Source
      <4>5. QED
        BY <1>3, <2>2, <2>6, <4>3, <4>4
    <3>6. OwnIndex(w)'
      BY <1>6, <2>1, <3>1, <3>5 DEF OwnIndex
    <3>7. QED
      BY <3>4, <3>6
  <2>7. CASE k # 4
    <3>1. pc'[w] = "append" /\ done'[w] = k
      BY <1>1, <1>5, <2>7 DEF Types
    <3>2. QED
      BY <2>1, <2>4, <2>5, <3>1 DEF Progress, OwnIndex, FilledTo, Array
  <2>8. QED
    BY <2>6, <2>7
<1>15. QED
  BY <1>9, <1>11, <1>12, <1>13, <1>14

LEMMA CopyTagKeeps ==
    ASSUME Inv, NEW w \in Workers, CopyTag(w)
    PROVE  Inv'
<1> USE LogTagsAssumption DEF Inv
<1> DEFINE k == done[w] + 1
           a == App(w)
           entry == Source(w)[k]
<1>1. /\ pc[w] = "copy" /\ log[w] \in Logs /\ a \in Apps /\ seen[w] \in Versions
      /\ Progress(w) /\ OwnIndex(w) /\ done[w] \in 0..3
  <2>1. pc[w] = "copy"
    BY DEF CopyTag
  <2>2. QED
    BY <2>1, AtWork DEF Types
<1>2. k \in 1..4 /\ k \in Places /\ k \in 0..4
  BY <1>1 DEF Places
<1>3. Source(w) \in Arrays /\ FilledTo(Source(w), 4, a)
  BY <1>1 DEF Source, Cached, Progress, Types
<1>4. entry \in Entries /\ entry \in EntriesOf(a, k)
  BY <1>2, <1>3, PlacesAre DEF Arrays, FilledTo
<1>5. \/ /\ customRoom /\ custom' = [custom EXCEPT ![k] = entry] /\ UNCHANGED logTags
      \/ /\ ~customRoom /\ UNCHANGED custom
         /\ logTags' = [logTags EXCEPT ![w][k] = entry]
  BY <1>1 DEF CopyTag, CopiesInPlace, Source, Types
<1>6. \/ k = 4 /\ pc' = [pc EXCEPT ![w] = "join"] /\ done' = [done EXCEPT ![w] = 0]
      \/ k # 4 /\ done' = [done EXCEPT ![w] = k] /\ pc' = pc
  BY DEF CopyTag
<1>7. UNCHANGED <<spare, customRoom, version, cached, waiting, log, seen, shared, appTags,
                  message, sent>>
  BY DEF CopyTag, updater
<1>8. k = 4 => entry = Source(w)[4]
  OBVIOUS
<1>k. k = done[w] + 1
  OBVIOUS
<1>a. a = App(w)
  OBVIOUS
<1> HIDE DEF a, entry, k
<1>9. custom' \in Arrays /\ logTags' \in [Workers -> Arrays]
  <2>1. [custom EXCEPT ![k] = entry] \in Arrays
    BY <1>4 DEF Types, Arrays
  <2>2. [logTags EXCEPT ![w][k] = entry] \in [Workers -> Arrays]
    BY <1>4 DEF Types, Arrays
  <2>3. QED
    BY <1>5, <2>1, <2>2 DEF Types
<1>10. Types'
  <2>1. pc' \in [Workers -> {"idle", "append", "copy", "join"}]
    BY <1>6 DEF Types
  <2>2. done' \in [Workers -> 0..4]
    BY <1>2, <1>6 DEF Types
  <2>3. \A u \in Workers : (pc'[u] = "idle") = (log'[u] = None)
    BY <1>1, <1>6, <1>7 DEF Types
  <2>4. \A u \in Workers : pc'[u] = "idle" => appTags'[u] = Empty
    BY <1>1, <1>6, <1>7 DEF Types
  <2>5. \A u \in Workers : /\ pc'[u] = "append" => done'[u] \in 1..3
                           /\ pc'[u] = "copy" => done'[u] \in 0..3
    BY <1>1, <1>2, <1>6 DEF Types
  <2>6. QED
    BY <1>7, <1>9, <2>1, <2>2, <2>3, <2>4, <2>5, Empty' = Empty DEF Types
<1>11. CachedOK' /\ SentOK'
  BY <1>7 DEF CachedOK, SentOK, Array, Tagged, FilledTo
<1>12. ASSUME NEW u \in Workers, u # w, pc'[u] # "idle" PROVE Progress(u)' /\ OwnIndex(u)'
  BY <1>5, <1>6, <1>7, <1>12, OtherWorkersKeep DEF Types
<1>13. Progress(w)' /\ OwnIndex(w)'
  <2>1. App(w)' = a /\ Source(w)' = Source(w) /\ seen'[w] <= version'[a]
    BY <1>1, <1>7, <1>a DEF App, Source, Cached, Progress
  <2>2. CASE customRoom
    <3>1. pc'[w] \in {"copy", "join"}
      BY <1>1, <1>6 DEF Types
    <3>2. QED
      BY <1>1, <1>3, <1>7, <1>a, <2>1, <2>2, <3>1 DEF Progress, OwnIndex, FilledTo, Array
  <2>3. CASE ~customRoom
    <3>1. logTags'[w] = [logTags[w] EXCEPT ![k] = entry] /\ logTags[w] \in Arrays
      BY <1>5, <2>3 DEF Types
    <3>2. logTags'[w][k] = entry /\ \A j \in Places : j # k => logTags'[w][j] = logTags[w][j]
      BY <1>2, <3>1 DEF Arrays
    <3>3. FilledTo(logTags[w], done[w], a)
      BY <1>1, <1>a, <2>3 DEF Progress
    <3>4. FilledTo(logTags'[w], k, a)
      <4> SUFFICES ASSUME NEW j \in Places, j <= k PROVE logTags'[w][j] \in EntriesOf(a, j)
        BY DEF FilledTo
      <4>1. CASE j = k
        BY <1>4, <3>2, <4>1
      <4>2. CASE j # k
        <5>1. j <= done[w]
          BY <1>1, <1>k, <4>2, PlacesAre
        <5>2. QED
          BY <3>2, <3>3, <4>2, <5>1 DEF FilledTo
      <4>3. QED
        BY <4>1, <4>2
    <3>5. CASE k = 4
      <4>1. pc'[w] = "join" /\ done'[w] = 0
        BY <1>6, <3>5 DEF Types
      <4>2. FilledTo(logTags'[w], 4, a) /\ FilledTo(message'[w], 0, a)
        BY <3>4, <3>5 DEF FilledTo, Places
      <4>3. Progress(w)'
        BY <1>1, <1>3, <1>7, <1>a, <2>1, <4>1, <4>2 DEF Progress, FilledTo, Array
      <4>4. ASSUME spare[a] < 3
            PROVE  ~shared[w] /\ appTags[w][4] = <<4, log[w]>> /\ logTags'[w][4] = <<4, log[w]>>
        <5>1. ~shared[w] /\ appTags[w][4] = <<4, log[w]>>
          BY <1>1, <1>a, <4>4 DEF OwnIndex
        <5>2. entry = appTags[w][4]
          BY <1>8, <3>5, <5>1 DEF Source
        <5>3. QED
          BY <3>2, <3>5, <5>1, <5>2
      <4>5. OwnIndex(w)'
        BY <1>7, <2>1, <4>1, <4>4 DEF OwnIndex
      <4>6. QED
        BY <4>3, <4>5
    <3>6. CASE k # 4
      <4>1. pc'[w] = "copy" /\ done'[w] = k
        BY <1>1, <1>6, <3>6 DEF Types
      <4>2. Progress(w)'
        BY <1>1, <1>3, <1>7, <1>a, <2>1, <3>4, <4>1 DEF Progress, FilledTo, Array
      <4>3. OwnIndex(w)'
        BY <1>1, <1>7, <1>a, <2>1, <4>1 DEF OwnIndex
      <4>4. QED
        BY <4>2, <4>3
    <3>7. QED
      BY <3>5, <3>6
  <2>4. QED
    BY <2>2, <2>3
<1>14. QED
  BY <1>10, <1>11, <1>12, <1>13

LEMMA JoinTagKeeps ==
    ASSUME Inv, NEW w \in Workers, JoinTag(w)
    PROVE  Inv'
<1> USE LogTagsAssumption DEF Inv
<1> DEFINE k == done[w] + 1
           a == App(w)
           entry == IF customRoom THEN custom[k] ELSE logTags[w][k]
<1>1. /\ pc[w] = "join" /\ log[w] \in Logs /\ a \in Apps /\ seen[w] \in Versions
      /\ Progress(w) /\ OwnIndex(w) /\ done[w] \in 0..3
  <2>1. pc[w] = "join" /\ done[w] < 4
    BY DEF JoinTag
  <2>2. QED
    BY <2>1, AtWork DEF Types
<1>2. k \in 1..4 /\ k \in Places /\ k \in 0..4
  BY <1>1 DEF Places
<1>3. entry \in Entries
  BY <1>2 DEF Types, Arrays
<1>4. /\ message' = [message EXCEPT ![w][k] = entry] /\ done' = [done EXCEPT ![w] = k]
      /\ UNCHANGED <<spare, customRoom, version, cached, custom, waiting, pc, log, seen, shared,
                     appTags, logTags, sent>>
  BY DEF JoinTag, CopiesInPlace, updater
<1>5. ~customRoom => entry = logTags[w][k]
  OBVIOUS
<1>k. k = done[w] + 1
  OBVIOUS
<1>a. a = App(w)
  OBVIOUS
<1> HIDE DEF a, entry, k
<1>6. Types'
  <2>1. message' \in [Workers -> Arrays]
    BY <1>3, <1>4 DEF Types, Arrays
  <2>2. done' \in [Workers -> 0..4]
    BY <1>2, <1>4 DEF Types
  <2>3. \A u \in Workers : /\ pc'[u] = "append" => done'[u] \in 1..3
                           /\ pc'[u] = "copy" => done'[u] \in 0..3
    BY <1>1, <1>4 DEF Types
  <2>4. QED
    BY <1>4, <2>1, <2>2, <2>3, Empty' = Empty DEF Types
<1>7. CachedOK' /\ SentOK'
  BY <1>4 DEF CachedOK, SentOK, Array, Tagged, FilledTo
<1>8. ASSUME NEW u \in Workers, u # w, pc'[u] # "idle" PROVE Progress(u)' /\ OwnIndex(u)'
  BY <1>4, <1>8, OtherWorkersKeep DEF Types
<1>9. Progress(w)' /\ OwnIndex(w)'
  <2>1. /\ App(w)' = a /\ Source(w)' = Source(w) /\ seen'[w] <= version'[a]
        /\ pc'[w] = "join" /\ done'[w] = k
    BY <1>1, <1>4, <1>a DEF App, Source, Cached, Progress, Types
  <2>2. CASE customRoom
    BY <1>1, <1>4, <1>a, <2>1, <2>2 DEF Progress, OwnIndex, FilledTo, Array
  <2>3. CASE ~customRoom
    <3>1. message'[w] = [message[w] EXCEPT ![k] = entry] /\ message[w] \in Arrays
      BY <1>4 DEF Types
    <3>2. message'[w][k] = entry /\ \A j \in Places : j # k => message'[w][j] = message[w][j]
      BY <1>2, <3>1 DEF Arrays
    <3>3. FilledTo(message[w], done[w], a) /\ FilledTo(logTags[w], 4, a)
      BY <1>1, <1>a, <2>3 DEF Progress
    <3>4. FilledTo(message'[w], k, a)
      <4> SUFFICES ASSUME NEW j \in Places, j <= k PROVE message'[w][j] \in EntriesOf(a, j)
        BY DEF FilledTo
      <4>1. CASE j = k
        BY <1>2, <1>5, <2>3, <3>2, <3>3, <4>1, PlacesAre DEF FilledTo
      <4>2. CASE j # k
        <5>1. j <= done[w]
          BY <1>1, <1>k, <4>2, PlacesAre
        <5>2. QED
          BY <3>2, <3>3, <4>2, <5>1 DEF FilledTo
      <4>3. QED
        BY <4>1, <4>2
    <3>5. Progress(w)'
      BY <1>1, <1>4, <1>a, <2>1, <3>4 DEF Progress, FilledTo, Array
    <3>6. OwnIndex(w)'
      BY <1>1, <1>4, <1>5, <1>a, <2>1, <2>3, <3>2 DEF OwnIndex
    <3>7. QED
      BY <3>5, <3>6
  <2>4. QED
    BY <2>2, <2>3
<1>10. QED
  BY <1>6, <1>7, <1>8, <1>9

LEMMA SendKeeps ==
    ASSUME Inv, NEW w \in Workers, Send(w)
    PROVE  Inv'
<1> USE LogTagsAssumption DEF Inv
<1>1. /\ pc[w] = "join" /\ done[w] = 4 /\ log[w] \in Logs /\ App(w) \in Apps
      /\ Progress(w) /\ OwnIndex(w)
  <2>1. pc[w] = "join" /\ done[w] = 4
    BY DEF Send
  <2>2. QED
    BY <2>1, AtWork DEF Types
<1>2. /\ sent' = [sent EXCEPT ![log[w]] = message[w]]
      /\ pc' = [pc EXCEPT ![w] = "idle"] /\ log' = [log EXCEPT ![w] = None]
      /\ seen' = [seen EXCEPT ![w] = 0] /\ shared' = [shared EXCEPT ![w] = FALSE]
      /\ done' = [done EXCEPT ![w] = 0]
      /\ appTags' = [appTags EXCEPT ![w] = Empty] /\ logTags' = [logTags EXCEPT ![w] = Empty]
      /\ message' = [message EXCEPT ![w] = Empty]
      /\ UNCHANGED <<spare, customRoom, version, cached, custom, waiting>>
  BY DEF Send, updater
<1>3. Types'
  <2>1. 0 \in Versions /\ 0 \in 0..4 /\ Empty \in Arrays /\ Empty' = Empty
    BY NoneInArrays DEF Versions, Empty
  <2>2. /\ {appTags, logTags, message}' \subseteq [Workers -> Arrays]
        /\ sent' \in [Logs -> Arrays \cup {None}]
    BY <1>1, <1>2, <2>1 DEF Types
  <2>3. /\ pc' \in [Workers -> {"idle", "append", "copy", "join"}]
        /\ log' \in [Workers -> Logs \cup {None}] /\ seen' \in [Workers -> Versions]
        /\ shared' \in [Workers -> BOOLEAN] /\ done' \in [Workers -> 0..4]
    BY <1>2, <2>1 DEF Types
  <2>4. /\ \A u \in Workers : (pc'[u] = "idle") = (log'[u] = None)
        /\ \A u \in Workers : pc'[u] = "idle" => appTags'[u] = Empty
        /\ \A u \in Workers : pc'[u] = "append" => done'[u] \in 1..3
        /\ \A u \in Workers : pc'[u] = "copy" => done'[u] \in 0..3
    BY <1>2 DEF Types
  <2>5. QED
    BY <1>2, <2>1, <2>2, <2>3, <2>4 DEF Types
<1>4. CachedOK'
  BY <1>2 DEF CachedOK, Array
<1>5. SentOK'
  <2> SUFFICES ASSUME NEW l \in Logs, ~customRoom, Tagged(l)'
               PROVE  /\ FilledTo(sent'[l], 4, AppOf[l])
                      /\ spare[AppOf[l]] < 3 => sent'[l][4] = <<4, l>>
    BY <1>2 DEF SentOK, FilledTo
  <2>1. CASE l = log[w]
    <3>1. sent'[l] = message[w] /\ AppOf[l] = App(w)
      BY <1>1, <1>2, <2>1 DEF Types, App
    <3>2. FilledTo(message[w], 4, App(w))
      BY <1>1 DEF Progress
    <3>3. spare[App(w)] < 3 => message[w][4] = <<4, l>>
      BY <1>1, <2>1 DEF OwnIndex
    <3>4. QED
      BY <3>1, <3>2, <3>3
  <2>2. CASE l # log[w]
    <3>1. sent'[l] = sent[l]
      BY <1>2, <2>2 DEF Types
    <3>2. Tagged(l)
      BY <3>1 DEF Tagged, Empty
    <3>3. QED
      BY <3>1, <3>2 DEF SentOK
  <2>3. QED
    BY <2>1, <2>2
<1>6. ASSUME NEW u \in Workers, pc'[u] # "idle" PROVE Progress(u)' /\ OwnIndex(u)'
  <2>1. u # w
    BY <1>2, <1>6 DEF Types
  <2>2. QED
    BY <1>2, <1>6, <2>1, OtherWorkersKeep DEF Types
<1>7. QED
  BY <1>3, <1>4, <1>5, <1>6

-----------------------------------------------------------------------------
(* The theorems                                                            *)

LEMMA NextInv == Inv /\ [Next]_vars => Inv'
<1> SUFFICES ASSUME Inv, [Next]_vars PROVE Inv'
  OBVIOUS
<1>1. ASSUME NEW a \in Apps, SetTags(a) PROVE Inv'
  BY <1>1, SetTagsKeeps
<1>2. ASSUME NEW l \in Logs, Skip(l) PROVE Inv'
  BY <1>2, SkipKeeps
<1>3. ASSUME NEW l \in Logs, NEW w \in Workers, Take(w, l) PROVE Inv'
  BY <1>3, TakeKeeps
<1>4. ASSUME NEW w \in Workers, WorkerStep(w) PROVE Inv'
  BY <1>4, AppendTagKeeps, CopyTagKeeps, JoinTagKeeps, SendKeeps DEF WorkerStep
<1>5. CASE UNCHANGED vars
  <2>1. UNCHANGED <<spare, customRoom, version, cached, custom, waiting, sent>>
    BY <1>5 DEF vars, updater
  <2>2. UNCHANGED <<pc, log, seen, shared, done, appTags, logTags, message>>
    BY <1>5 DEF vars, worker
  <2>3. Types'
    BY <2>1, <2>2, Empty' = Empty DEF Inv, Types
  <2>4. CachedOK' /\ SentOK'
    BY <2>1 DEF Inv, CachedOK, SentOK, Array, Tagged, FilledTo
  <2>5. \A w \in Workers : App(w)' = App(w) /\ Source(w)' = Source(w)
    BY <2>1, <2>2 DEF App, Source, Cached
  <2>6. \A w \in Workers : pc'[w] # "idle" => Progress(w)' /\ OwnIndex(w)'
    BY <2>1, <2>2, <2>5 DEF Inv, Progress, OwnIndex, FilledTo, Array
  <2>7. QED
    BY <2>3, <2>4, <2>6 DEF Inv
<1>6. QED
  BY <1>1, <1>2, <1>3, <1>4, <1>5 DEF Next

LEMMA Invariant == Spec => []Inv
BY InitInv, NextInv, PTL DEF Spec

\* ProcessLog, setAppData: every array of tags of an app, and every array a worker made
\* for the tags of its log, holds entries of that app only, each at its place.
THEOREM LogTagTypes == Spec => []TypeOK
<1>1. Inv => TypeOK
  <2> SUFFICES ASSUME Inv PROVE TypeOK
    OBVIOUS
  <2>1. \A a \in Apps, v \in Versions : Array(cached[a][v], a)
    BY DEF Inv, CachedOK
  <2>2. \A w \in Workers : pc[w] # "idle" => Array(appTags[w], App(w))
    BY DEF Inv, Progress
  <2>3. QED
    BY <2>1, <2>2 DEF Inv, Types, TypeOK
<1>2. QED
  BY <1>1, Invariant, PTL

\* processor.go:134-136: where append has to copy, because fewer than three places are
\* left behind the tags of the app and none behind the custom tags, a log is sent with
\* the instance index of its own envelope, whatever the other workers append.
THEOREM OwnInstance == Spec => []OwnInstanceIndex
<1>1. Inv => OwnInstanceIndex
  BY DEF Inv, SentOK, OwnInstanceIndex
<1>2. QED
  BY <1>1, Invariant, PTL

\* Without room behind the custom tags, a log is never sent with a tag of another app,
\* or with a tag missing, although workers write into arrays they share.
THEOREM TagsOfOwnApp == Spec => []OnlyTagsOfItsApp
<1>1. Inv => OnlyTagsOfItsApp
  BY PlacesAre DEF Inv, SentOK, FilledTo, OnlyTagsOfItsApp
<1>2. QED
  BY <1>1, Invariant, PTL
=============================================================================

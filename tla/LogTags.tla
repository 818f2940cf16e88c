------------------------------- MODULE LogTags -------------------------------
(***************************************************************************)
(* ProcessLog: workers build the tags of a log from the tags of its cached *)
(* App, which they read without a lock, by appending to slices.  append    *)
(* writes into the array of its argument when that has room, so that logs  *)
(* of one app share the places behind its tags, and all logs those behind  *)
(* the custom tags of the processor.                                       *)
(*                                                                         *)
(* The tags of an App are one entry, followed by places for the three tags *)
(* ProcessLog appends; the same four make up what it appends to the custom *)
(* tags.  The tags of the envelope and the custom tags themselves are      *)
(* copied by ParseLog before and are left out.                             *)
(***************************************************************************)
EXTENDS Naturals, Sequences, FiniteSets

CONSTANTS
    Workers,
    Apps,
    Logs,
    AppOf,      \* the app a log comes from
    MaxSets,    \* bound: times the updater sets the tags of an app
    Spares      \* capacities behind the tags of an app to look at

Places == 1..4   \* the app's own tags, application_id, application_name, instance_index
Versions == 0..MaxSets
None == <<>>

ASSUME LogTagsAssumption ==
    /\ AppOf \in [Logs -> Apps]
    /\ MaxSets \in Nat /\ Spares \subseteq 0..3 /\ None \notin Logs

VARIABLES
    spare,        \* cap(a.Tags) - len(a.Tags), if less than three, for each app
    customRoom,   \* has the array of p.customTags room for all the tags of an app?
    version,      \* which of its arrays a.Tags is, for each app
    cached,       \* the arrays that have been a.Tags
    custom,       \* the places behind the custom tags
    waiting,      \* logs nobody has taken yet
    pc,           \* where each worker is: "idle", "append", "copy" or "join"
    log,          \* the log it works on
    seen,         \* the version of a.Tags it read
    shared,       \* is its appTags still the array of a.Tags?
    done,         \* entries appended, copied or joined so far
    appTags,      \* its own array for appTags, if it has one
    logTags,      \* its own array for append(p.customTags, appTags...), likewise
    message,      \* the tags ParseLog has joined
    sent          \* the tags each log was sent with

updater == <<version, cached>>
worker == <<pc, log, seen, shared, done, appTags, logTags, message>>
vars == <<spare, customRoom, updater, custom, waiting, worker, sent>>

Empty == [k \in Places |-> None]

\* Tags are entries with the place they belong to; that of an app carries a version.
Own(a, v) == <<1, a, v>>
Fresh(a, v) == [Empty EXCEPT ![1] = Own(a, v)]

Init ==
    /\ spare \in [Apps -> Spares] /\ customRoom \in BOOLEAN
    /\ version = [a \in Apps |-> 0]
    /\ cached = [a \in Apps |-> [v \in Versions |-> IF v = 0 THEN Fresh(a, 0) ELSE Empty]]
    /\ custom = Empty
    /\ waiting = Logs /\ sent = [l \in Logs |-> None]
    /\ pc = [w \in Workers |-> "idle"] /\ log = [w \in Workers |-> None]
    /\ seen = [w \in Workers |-> 0] /\ shared = [w \in Workers |-> FALSE]
    /\ done = [w \in Workers |-> 0]
    /\ appTags = [w \in Workers |-> Empty] /\ logTags = [w \in Workers |-> Empty]
    /\ message = [w \in Workers |-> Empty]

\* setAppData makes a new array, with as many tags as before.
SetTags(a) ==
    /\ version[a] < MaxSets
    /\ version' = [version EXCEPT ![a] = @ + 1]
    /\ cached' = [cached EXCEPT ![a][version'[a]] = Fresh(a, version'[a])]
    /\ UNCHANGED <<spare, customRoom, custom, waiting, worker, sent>>

-----------------------------------------------------------------------------
(* ProcessLog                                                              *)

\* The app is not in the cache, so that no tags are added, or its tags say
\* dd_enable_logs:false.
Skip(l) ==
    /\ l \in waiting
    /\ waiting' = waiting \ {l}
    /\ sent' \in {sent, [sent EXCEPT ![l] = Empty]}
    /\ UNCHANGED <<spare, customRoom, updater, custom, worker>>

\* appTags = cfapp.Tags
Take(w, l) ==
    /\ pc[w] = "idle" /\ l \in waiting
    /\ waiting' = waiting \ {l}
    /\ log' = [log EXCEPT ![w] = l] /\ seen' = [seen EXCEPT ![w] = version[AppOf[l]]]
    /\ shared' = [shared EXCEPT ![w] = TRUE] /\ done' = [done EXCEPT ![w] = 1]
    /\ pc' = [pc EXCEPT ![w] = "append"]
    /\ UNCHANGED <<spare, customRoom, updater, custom, appTags, logTags, message, sent>>

App(w) == AppOf[log[w]]
Cached(w) == cached[App(w)][seen[w]]

\* The entry for each place: two from the app, the last from the log.
TagSwapped(w, k) == <<k, IF k = 3 THEN log[w] ELSE App(w)>>   \* mutant
Tag(w, k) == <<k, IF k = 4 THEN log[w] ELSE App(w)>>

\* Is there a place for the next entry behind the tags of the app?
RoomOffByOne(w) == done[w] <= spare[App(w)] + 1   \* mutant
Room(w) == done[w] <= spare[App(w)]

\* append(appTags, ...): in the shared array, or in one of its own to which it is
\* copied once the shared one is full.
AppendTag(w) ==
    LET k == done[w] + 1 IN
    /\ pc[w] = "append"
    /\ IF shared[w] /\ Room(w)
         THEN /\ cached' = [cached EXCEPT ![App(w)][seen[w]][k] = Tag(w, k)]
              /\ UNCHANGED <<shared, appTags>>
         ELSE /\ appTags' = [appTags EXCEPT ![w] =
                   [(IF shared[w] THEN Cached(w) ELSE @) EXCEPT ![k] = Tag(w, k)]]
              /\ shared' = [shared EXCEPT ![w] = FALSE]
              /\ UNCHANGED cached
    /\ IF k = 4
         THEN pc' = [pc EXCEPT ![w] = "copy"] /\ done' = [done EXCEPT ![w] = 0]
         ELSE done' = [done EXCEPT ![w] = k] /\ UNCHANGED pc
    /\ UNCHANGED <<spare, customRoom, version, custom, waiting, log, seen, logTags, message,
                   sent>>

CopiesInPlaceAlways == TRUE   \* mutant: the capacity is not looked at
CopiesInPlace == customRoom

\* append(p.customTags, appTags...), entry by entry.
CopyTag(w) ==
    LET k == done[w] + 1
        entry == IF shared[w] THEN Cached(w)[k] ELSE appTags[w][k]
    IN
    /\ pc[w] = "copy"
    /\ IF CopiesInPlace
         THEN custom' = [custom EXCEPT ![k] = entry] /\ UNCHANGED logTags
         ELSE logTags' = [logTags EXCEPT ![w][k] = entry] /\ UNCHANGED custom
    /\ IF k = 4
         THEN pc' = [pc EXCEPT ![w] = "join"] /\ done' = [done EXCEPT ![w] = 0]
         ELSE done' = [done EXCEPT ![w] = k] /\ UNCHANGED pc
    /\ UNCHANGED <<spare, customRoom, updater, waiting, log, seen, shared, appTags, message,
                   sent>>

\* ParseLog reads them again to join them.
JoinTag(w) ==
    LET k == done[w] + 1
        entry == IF CopiesInPlace THEN custom[k] ELSE logTags[w][k]
    IN
    /\ pc[w] = "join" /\ done[w] < 4
    /\ message' = [message EXCEPT ![w][k] = entry]
    /\ done' = [done EXCEPT ![w] = k]
    /\ UNCHANGED <<spare, customRoom, updater, custom, waiting, pc, log, seen, shared, appTags,
                   logTags, sent>>

\* p.processedLogs <- logsMessage
Send(w) ==
    /\ pc[w] = "join" /\ done[w] = 4
    /\ sent' = [sent EXCEPT ![log[w]] = message[w]]
    /\ pc' = [pc EXCEPT ![w] = "idle"] /\ log' = [log EXCEPT ![w] = None]
    /\ seen' = [seen EXCEPT ![w] = 0] /\ shared' = [shared EXCEPT ![w] = FALSE]
    /\ done' = [done EXCEPT ![w] = 0]
    /\ appTags' = [appTags EXCEPT ![w] = Empty] /\ logTags' = [logTags EXCEPT ![w] = Empty]
    /\ message' = [message EXCEPT ![w] = Empty]
    /\ UNCHANGED <<spare, customRoom, updater, custom, waiting>>

WorkerStep(w) == AppendTag(w) \/ CopyTag(w) \/ JoinTag(w) \/ Send(w)

Next ==
    \/ \E a \in Apps : SetTags(a)
    \/ \E l \in Logs : Skip(l) \/ (\E w \in Workers : Take(w, l))
    \/ \E w \in Workers : WorkerStep(w)

Spec == Init /\ [][Next]_vars

-----------------------------------------------------------------------------
(* Properties                                                              *)

\* The entries that may be at a place of an array that belongs to app a.
EntriesOf(a, k) ==
    CASE k = 1 -> {Own(a, v) : v \in Versions}
      [] k \in {2, 3} -> {<<k, a>>}
      [] k = 4 -> {<<k, l>> : l \in {l \in Logs : AppOf[l] = a}}

Array(t, a) == \A k \in Places : t[k] \in EntriesOf(a, k) \cup {None}

\* With the types: every array that is not shared between apps holds tags of its app
\* only, each at its place.
TypeOK ==
    /\ spare \in [Apps -> Spares] /\ customRoom \in BOOLEAN
    /\ version \in [Apps -> Versions] /\ waiting \subseteq Logs
    /\ \A a \in Apps, v \in Versions : Array(cached[a][v], a)
    /\ pc \in [Workers -> {"idle", "append", "copy", "join"}]
    /\ log \in [Workers -> Logs \cup {None}] /\ seen \in [Workers -> Versions]
    /\ shared \in [Workers -> BOOLEAN] /\ done \in [Workers -> 0..4]
    /\ \A w \in Workers : (pc[w] = "idle") = (log[w] = None)
    /\ \A w \in Workers : pc[w] # "idle" => Array(appTags[w], App(w))

Tagged(l) == sent[l] \notin {None, Empty}

\* processor.go:134-136: a log carries the instance index of its own envelope, if
\* append has to copy: fewer than three places behind the tags of the app, and none
\* behind the custom tags.
OwnInstanceIndex ==
    ~customRoom =>
        \A l \in Logs : Tagged(l) /\ spare[AppOf[l]] < 3 => sent[l][4] = <<4, l>>

\* With three places, the instance index may be that of another log of the same app,
\* but no log carries a tag of another app, however workers interleave and the
\* updater replaces the tags; all of this unless the custom tags have room.
OnlyTagsOfItsApp ==
    ~customRoom =>
        \A l \in Logs : Tagged(l) => \A k \in Places : sent[l][k] \in EntriesOf(AppOf[l], k)
=============================================================================

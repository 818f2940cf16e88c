------------------------------- MODULE Delivery -------------------------------
(***************************************************************************)
(* What the nozzle promises about an envelope of the firehose: it is       *)
(* submitted to Datadog at most once, and only an envelope the nozzle has  *)
(* a reason to ignore is ever thrown away.  Nothing is said about the      *)
(* channels, the goroutines or the flushes in between.                     *)
(***************************************************************************)
CONSTANTS
    Item,        \* the envelopes of the firehose
    Droppable    \* those the nozzle is allowed to ignore

VARIABLES
    submitted,   \* envelopes a finished flush handed to the Datadog clients
    discarded,
    posting      \* those of the flush under way

Settled == submitted \cup discarded \cup posting

Init == submitted = {} /\ discarded = {} /\ posting = {}

Discard(item) ==
    /\ item \in Droppable \ Settled
    /\ discarded' = discarded \cup {item}
    /\ UNCHANGED <<submitted, posting>>

\* A flush takes a whole buffer, in which nothing was ever flushed before...
BeginFlush(items) ==
    /\ posting = {} /\ items \cap Settled = {}
    /\ posting' = items
    /\ UNCHANGED <<submitted, discarded>>

\* ... and every Datadog client got it.
FinishFlush ==
    /\ submitted' = submitted \cup posting
    /\ posting' = {}
    /\ UNCHANGED discarded

Next == \/ \E item \in Item : Discard(item)
        \/ \E items \in SUBSET Item : BeginFlush(items)
        \/ FinishFlush

Spec == Init /\ [][Next]_<<submitted, discarded, posting>>
=============================================================================

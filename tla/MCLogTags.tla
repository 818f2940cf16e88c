------------------------------ MODULE MCLogTags ------------------------------
EXTENDS LogTags, TLC

CONSTANTS a1, a2, l1, l2, l3, w1, w2

\* Two logs of one app and one of another.
FromApps == (l1 :> a1) @@ (l2 :> a1) @@ (l3 :> a2)

\* The workers run the same code.
SameWorkers == Permutations(Workers)
=============================================================================

------------------------------ MODULE MCNozzle ------------------------------
(***************************************************************************)
(* Instances of Nozzle for TLC: which envelopes the stream delivers.       *)
(***************************************************************************)
EXTENDS Nozzle, TLC

\* Every branch of work() is taken.
EveryKind == <<"infra", "log", "filtered", "alert", "container">>

\* Few envelopes, more than a channel of the instance holds.
LiveKind == <<"infra", "alert", "log">>

WorkerSymmetry == Permutations(Workers)
=============================================================================

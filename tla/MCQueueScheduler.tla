-------------------------- MODULE MCQueueScheduler --------------------------
(* Instances of QueueScheduler for TLC. *)
EXTENDS QueueScheduler, TLC

\* Callers differ only by their names, and so do handles.
SameProcs == Permutations(Procs) \union Permutations(Handles)
=============================================================================

-------------------------- MODULE MCApprovalQueue --------------------------
(* Instances of ApprovalQueue for TLC. *)
EXTENDS ApprovalQueue, TLC

\* The reviewers differ only by their names.
SameReviewers == Permutations(Reviewers)
=============================================================================

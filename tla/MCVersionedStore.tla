-------------------------- MODULE MCVersionedStore --------------------------
(* Instances of VersionedStore for TLC. *)
EXTENDS VersionedStore, TLC

AllAssignments == [Clients -> Handles]
SameClients == Permutations(Clients) \union Permutations(Handles)
=============================================================================

-------------------------- MODULE MCCycleCollector --------------------------
(* Instances of CycleCollector for TLC. *)
EXTENDS CycleCollector, TLC

CONSTANTS obj1, obj2, obj3

\* One object with two fields, the others with one.
OneWide == [o \in Objects |-> IF o = obj1 THEN {"f", "g"} ELSE {"f"}]
SameObjects == Permutations({obj2, obj3})
=============================================================================

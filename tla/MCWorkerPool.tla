---------------------------- MODULE MCWorkerPool ----------------------------
(* Instances of WorkerPool for TLC: values for the constants a .cfg cannot   *)
(* write.                                                                    *)
EXTENDS WorkerPool, TLC

CONSTANTS w1, w2

OneTask == [j \in Jobs |-> "t"]
\* Jobs 1 and 2 are of task "t", job 3 is of task "u".
TwoTasks == [j \in Jobs |-> IF j = 3 THEN "u" ELSE "t"]
OneRetry == [j \in Jobs |-> 1]
FirstRetries == [j \in Jobs |-> IF j = 1 THEN 1 ELSE 0]
NoLimits == [s \in Scopes |-> 0]
GlobalLimit == [s \in Scopes |-> IF s = Global THEN 1 ELSE 0]
\* worker-0 and worker-1 of one pool: the id stands for the worker.
OwnIds == [w \in Workers |-> w]
\* The workers differ only by their ids.
SameWorkers == Permutations(Workers)
=============================================================================

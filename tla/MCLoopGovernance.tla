-------------------------- MODULE MCLoopGovernance --------------------------
(* Instances of LoopGovernance for TLC. *)
EXTENDS LoopGovernance

CONSTANTS w1, w2

OneTask == [j \in Jobs |-> "t"]
OneRetry == [j \in Jobs |-> 1]
NoLimits == [s \in Scopes |-> 0]
OwnIds == [w \in Workers |-> w]
\* A report adds one unit to one dimension.
UnitReports == {[d \in Dims |-> IF d = e THEN 1 ELSE 0] : e \in Dims}
\* The limit that the first report of a step crosses.
StepLimits == {[d \in Dims |-> IF d = "steps" THEN 0 ELSE Unbounded]}
BothPolicies == [after: {1}, action: {"escalate", "terminate"}]
\* The job's own process sends heartbeats; another sends them as well and checks.
TwoSources == [g \in Governors |-> IF g = "loop" THEN {"beat"} ELSE {"beat", "check"}]

\* Bound: approvals and heartbeats meet only in the status of a job, so a
\* job that was parked on an approval gets no heartbeat.
ApprovalsOrHeartbeats ==
    \A j \in Jobs, g \in Governors :
        job[j].approval = NoOne \/ (acked[g][j] = 0 /\ gov[g].at # "beat")
=============================================================================

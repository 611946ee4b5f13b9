--------------------------- MODULE LoopGovernance ---------------------------
(***************************************************************************)
(* Loop governance (corvid-runtime, queue/mod.rs): budgets on what a job's  *)
(* agent loop uses, heartbeats, and stall checks that take a silent job     *)
(* away.  The reports come from processes of their own (corvid jobs loop    *)
(* ...) while workers and operators work on the same row, so the pool of    *)
(* WorkerPool runs underneath.                                              *)
(*                                                                         *)
(* record_loop_usage_at and check_stall_at are one transaction each.  The   *)
(* clock is read before the lock is taken, so the time a report, a          *)
(* heartbeat or a check carries may be old when it is written.  The audit   *)
(* events both insert in their transactions are left out: only approval     *)
(* decisions are ever looked up in that table.                              *)
(***************************************************************************)
EXTENDS WorkerPool

CONSTANTS
    Dims,            \* the bounded dimensions: steps, wall_ms, spend, tool calls
    Deltas,          \* what one usage report may add
    LoopLimitRows,   \* rows set_loop_limits may write
    StallPolicies,   \* policies set_stall_policy may write
    Governors,       \* processes that report and check
    Calls,           \* the calls among {"beat", "check"} each of them makes
    MaxUsage         \* bound: usage recorded in one dimension

Unbounded == -1
NoPolicy == [after |-> 0, action |-> "none"]

ASSUME LoopAssumption ==
    /\ Deltas \subseteq [Dims -> Nat]
    /\ LoopLimitRows \subseteq [Dims -> Nat \union {Unbounded}]
    /\ StallPolicies \subseteq [after: Nat, action: {"escalate", "terminate"}]
    /\ Calls \in [Governors -> SUBSET {"beat", "check"}]
    /\ MaxUsage \in Nat

VARIABLES
    usage,      \* queue_job_loop_usage
    loopLimit,  \* queue_job_loop_limits; no row is Unbounded everywhere
    policy,     \* queue_job_stall_policies
    beat,       \* last_heartbeat_ms; 0 is no row
    touched,    \* the updated_ms column of queue_jobs
    gov,        \* the call each governance process is in
    over,       \* history: a report found the job over a bound; until a retry
    acked       \* history: the last heartbeat each source got through; 0 is none

govVars == <<usage, loopLimit, policy, beat, gov, acked>>
loopVars == <<vars, govVars, touched, over>>

IdleGov == [at |-> "idle", job |-> NoOne, t |-> 0]

\* The governance tables are well typed, and no governance call writes a
\* status into queue_jobs that parse_status does not know.
LoopTypeOK ==
    /\ TypeOK
    /\ usage \in [Jobs -> [Dims -> Nat]]
    /\ loopLimit \in [Jobs -> [Dims -> Nat \union {Unbounded}]]
    /\ policy \in [Jobs -> StallPolicies \union {NoPolicy}]
    /\ beat \in [Jobs -> Nat]
    /\ touched \in [Jobs -> Nat]
    /\ gov \in [Governors -> [at: {"idle", "beat", "check"},
                              job: Jobs \union {NoOne}, t: Nat]]
    /\ over \in [Jobs -> BOOLEAN]
    /\ acked \in [Governors -> [Jobs -> Nat]]

LoopInit ==
    /\ Init
    /\ usage = [j \in Jobs |-> [d \in Dims |-> 0]]
    /\ loopLimit = [j \in Jobs |-> [d \in Dims |-> Unbounded]]
    /\ policy = [j \in Jobs |-> NoPolicy]
    /\ beat = [j \in Jobs |-> 0]
    /\ touched = [j \in Jobs |-> 0]
    /\ gov = [g \in Governors |-> IdleGov]
    /\ over = [j \in Jobs |-> FALSE]
    /\ acked = [g \in Governors |-> [j \in Jobs |-> 0]]

Exists(j) == job[j].status # "absent"

-----------------------------------------------------------------------------
(* Limits and usage. *)

SetLoopLimits(j, row) ==
    /\ Exists(j)
    /\ loopLimit' = [loopLimit EXCEPT ![j] = row]
    /\ UNCHANGED <<vars, usage, policy, beat, touched, gov, over, acked>>

\* loop_bound_violations: only what is strictly above a bound.
LoopBoundViolations(u, row) ==
    {d \in Dims : row[d] # Unbounded /\ u[d] > row[d]}

\* Mutation of RefusesUsage: a job over its budget goes on recording.
RefusesUsageMutant(s) ==
    s \in Terminal \ {"loop_stall_terminated", "loop_budget_exceeded"}

\* The statuses record_loop_usage_at refuses: a job that a stall check
\* terminated is not among them.
RefusesUsage(s) == s \in Terminal \ {"loop_stall_terminated"}

StoppedRow(r, s) == [Unleased(r, s) EXCEPT !.nextRun = 0]

\* One transaction; t is the clock, read before the lock was taken.
RecordLoopUsage(j, delta) ==
    LET u == [d \in Dims |-> usage[j][d] + delta[d]]
        violated == LoopBoundViolations(u, loopLimit[j])
    IN  /\ Exists(j)
        /\ ~RefusesUsage(job[j].status)
        /\ \A d \in Dims : u[d] <= MaxUsage
        /\ usage' = [usage EXCEPT ![j] = u]
        /\ IF violated = {}
           THEN UNCHANGED <<job, touched, over>>
           ELSE /\ SetRow(j, StoppedRow(job[j], "loop_budget_exceeded"))
                /\ \E t \in 1 .. now : touched' = [touched EXCEPT ![j] = t]
                /\ over' = [over EXCEPT ![j] = TRUE]
        /\ UNCHANGED <<tableRest, workerVars, loopLimit, policy, beat, gov, acked>>

-----------------------------------------------------------------------------
(* Heartbeats and stalls. *)

\* A threshold of zero is refused.
SetStallPolicy(j, p) ==
    /\ Exists(j)
    /\ p.after # 0
    /\ policy' = [policy EXCEPT ![j] = p]
    /\ UNCHANGED <<vars, usage, loopLimit, beat, touched, gov, over, acked>>

\* A governance call starts: the clock is read, the row is seen to exist.
Begin(g, what, j) ==
    /\ gov[g].at = "idle"
    /\ what \in Calls[g]
    /\ Exists(j)
    /\ gov' = [gov EXCEPT ![g] = [at |-> what, job |-> j, t |-> now]]
    /\ UNCHANGED <<vars, usage, loopLimit, policy, beat, touched, over, acked>>

\* The upsert of record_loop_heartbeat_at: whatever row was there is replaced.
WriteHeartbeat(g) ==
    LET j == gov[g].job
        h == gov[g].t
    IN  /\ gov[g].at = "beat"
        /\ beat' = [beat EXCEPT ![j] = h]
        /\ acked' = [acked EXCEPT ![g] = [@ EXCEPT ![j] = h]]
        /\ gov' = [gov EXCEPT ![g] = IdleGov]
        /\ UNCHANGED <<vars, usage, loopLimit, policy, touched, over>>

\* Mutation of LastSign: only the row's last change counts.
LastSignMutant(j) == touched[j]

\* The last heartbeat ever recorded, or else the row's last change.
LastSign(j) == IF beat[j] # 0 THEN beat[j] ELSE touched[j]

\* Mutation of StatusAfterStall: a status that parse_status does not know.
StatusAfterStallMutant(p) ==
    IF p.action = "escalate" THEN "loop_stalled" ELSE "loop_stall_terminated"

StatusAfterStall(p) ==
    IF p.action = "escalate" THEN "loop_stall_escalated"
    ELSE "loop_stall_terminated"

\* Mutation of Stalled: a terminated job may stall again.
StalledMutant(j, t) ==
    /\ t > LastSign(j) + policy[j].after
    /\ job[j].status \notin Terminal \ {"loop_stall_terminated"}

\* elapsed_ms is a saturating difference: a check older than the last sign
\* sees no time elapsed.
Stalled(j, t) ==
    /\ t > LastSign(j) + policy[j].after
    /\ job[j].status \notin Terminal

\* check_stall_at; without a policy the call fails.
CheckStall(g) ==
    LET j == gov[g].job
    IN  /\ gov[g].at = "check"
        /\ IF policy[j] # NoPolicy /\ Stalled(j, gov[g].t)
           THEN /\ SetRow(j, StoppedRow(job[j], StatusAfterStall(policy[j])))
                /\ touched' = [touched EXCEPT ![j] = gov[g].t]
           ELSE UNCHANGED <<job, touched>>
        /\ gov' = [gov EXCEPT ![g] = IdleGov]
        /\ UNCHANGED <<tableRest, workerVars, usage, loopLimit, policy, beat,
                       over, acked>>

-----------------------------------------------------------------------------
(* The workers and operators of the pool underneath. *)

\* Every UPDATE of queue_jobs sets updated_ms, the lease to lease_next's clock.
TouchedAt(j) ==
    IF job'[j].status = "leased" THEN job'[j].expires - TTL ELSE now

Retried(j) ==
    \E o \in Operators :
        op[o].at = "retry" /\ op[o].job = j /\ op'[o].at # "retry"

\* A retry stamps the row even when it finds it as it leaves it.  (So does a
\* second cancellation, but no stall check looks at a canceled row.)
PoolStep ==
    /\ Next
    /\ touched' = [j \in Jobs |-> IF Retried(j) THEN now
                                  ELSE IF job'[j] = job[j] THEN touched[j]
                                  ELSE TouchedAt(j)]
    /\ over' = [j \in Jobs |-> over[j] /\ ~Retried(j)]
    /\ UNCHANGED govVars

GovernanceStep ==
    \/ \E j \in Jobs, row \in LoopLimitRows : SetLoopLimits(j, row)
    \/ \E j \in Jobs, delta \in Deltas : RecordLoopUsage(j, delta)
    \/ \E j \in Jobs, p \in StallPolicies : SetStallPolicy(j, p)
    \/ \E g \in Governors, what \in {"beat", "check"}, j \in Jobs : Begin(g, what, j)
    \/ \E g \in Governors : WriteHeartbeat(g) \/ CheckStall(g)

LoopNext == PoolStep \/ GovernanceStep

LoopSpec == LoopInit /\ [][LoopNext]_loopVars

-----------------------------------------------------------------------------
\* A job that a usage report found over a bound is out of the workers' reach
\* until an operator retries it: neither a worker that was running it, nor one
\* whose fail_leased had read the row, nor a decision on its approval, nor a
\* stall check brings it back.
BudgetEnforced ==
    \A j \in Jobs : over[j] =>
        job[j].status \in {"loop_budget_exceeded", "canceled"}

\* From then on no report adds to its usage: the budget is overrun by what one
\* report adds and no more.
UsageStops ==
    [][\A j \in Jobs : over[j] /\ over'[j] => usage'[j] = usage[j]]_loopVars

\* A job that was stopped for its loop, for its budget or a stall, leaves that
\* state only through an operator; one that was escalated stays out of the
\* workers' reach in the same way, although a report or a check may stop it.
LoopStops == {"loop_budget_exceeded", "loop_stall_terminated"}
Escalated == LoopStops \union {"loop_stall_escalated"}
LoopStopIsFinal ==
    [][\A j \in Jobs, S \in {LoopStops, Escalated} :
          job[j].status \in S /\ job'[j].status \notin S
          => job'[j].status = "canceled" \/ Retried(j)]_loopVars

\* A stall check takes a job away only when nobody ever sent a heartbeat for
\* it, or one of the sources that did has been silent for longer than the
\* threshold: as long as all of them go on, the job stays, however their
\* upserts overtake each other and however long the check waited for the lock.
StallStep(g) ==
    /\ gov[g].at = "check"
    /\ gov'[g] = IdleGov
    /\ job'[gov[g].job] # job[gov[g].job]
Silent(g, s) ==
    LET j == gov[g].job
    IN  acked[s][j] # 0 /\ gov[g].t > acked[s][j] + policy[j].after
HeartbeatHonoured ==
    [][\A g \in Governors : StallStep(g) =>
          \/ \A s \in Governors : acked[s][gov[g].job] = 0
          \/ \E s \in Governors : Silent(g, s)]_loopVars
=============================================================================

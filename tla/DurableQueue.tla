---------------------------- MODULE DurableQueue ----------------------------
(***************************************************************************)
(* The job table of the durable queue (corvid-runtime, queue/mod.rs) and    *)
(* the operator commands on it.  A row of queue_jobs is a record; a column  *)
(* that is NULL in SQLite is 0 (times, which start at 1) or NoOne.  Every   *)
(* SQL statement or transaction is one atomic step: the connection mutex    *)
(* and SQLite serialise them.  A Rust method that takes the lock more than  *)
(* once is more than one step, and its local variables are kept in between. *)
(***************************************************************************)
EXTENDS Integers, FiniteSets, Sequences

CONSTANTS
    Jobs,           \* job ids, in the order list() returns them
    Tasks,          \* task names
    TaskOf,         \* the task column of each job
    MaxRetries,     \* the max_retries column of each job
    Delays,         \* the delays an enqueue may ask for; 0 is no next_run_ms
    WorkerIds,      \* values of lease_owner
    TTL,            \* lease_ttl_ms; lease_next_at raises 0 to 1
    BaseDelay,      \* base_delay_ms of a reported failure
    ApprovalIds,    \* approval ids; empty when no job asks for approval
    ApprovalTTL,    \* time an approval request stays open
    Limits,         \* values an operator may give a concurrency limit
    InitialLimit,   \* queue_concurrency_limits at start; 0 is no row
    Operators,      \* operator processes (corvid jobs ...)
    Commands,       \* the operator commands in use
    MaxTime,        \* bound: the clock stops here
    MaxAttempts,    \* bound: runs a job may finish
    MaxAudit,       \* bound: rows of queue_job_audit_events
    NoOne           \* SQL NULL in a text column

\* The statuses of QueueJobStatus that the durable queue stores; "absent" is
\* a job that has not been enqueued.
Terminal == {"succeeded", "dead_lettered", "canceled", "approval_denied",
             "approval_expired", "loop_budget_exceeded",
             "loop_stall_terminated"}
Status == Terminal \union {"absent", "pending", "leased", "retry_wait",
                           "approval_wait", "loop_stall_escalated"}
Global == "global"
Scopes == Tasks \union {Global}
AllCommands == {"retry", "cancel", "pause", "drain", "limit"}

ASSUME QueueAssumption ==
    /\ Jobs \subseteq Nat
    /\ IsFiniteSet(Jobs)
    /\ Global \notin Tasks
    /\ TaskOf \in [Jobs -> Tasks]
    /\ MaxRetries \in [Jobs -> Nat]
    /\ Delays \subseteq Nat
    /\ TTL \in Nat \ {0}
    /\ BaseDelay \in Nat
    /\ ApprovalTTL \in Nat
    /\ Limits \subseteq Nat \ {0}
    /\ InitialLimit \in [Scopes -> Nat]
    /\ Commands \subseteq AllCommands
    /\ MaxTime \in Nat
    /\ MaxAttempts \in Nat
    /\ MaxAudit \in Nat
    /\ NoOne \notin WorkerIds
    /\ NoOne \notin ApprovalIds

VARIABLES
    now,     \* the wall clock, now_ms()
    job,     \* queue_jobs
    paused,  \* queue_controls: the 'paused' row is 'true'
    limit,   \* queue_concurrency_limits by scope; 0 is no row
    audit,   \* queue_job_audit_events, in id order
    op       \* the call each operator process is in

tableVars == <<now, job, paused, limit, audit, op>>

Row == [status: Status, owner: WorkerIds \union {NoOne}, expires: Nat,
        nextRun: Nat, attempts: Nat, approval: ApprovalIds \union {NoOne},
        approvalExpires: Nat]
Decisions == {"approve", "deny", "expire"}
AuditEvent == [job: Jobs, kind: Decisions, approval: ApprovalIds]
OpCall == [at: {"idle", "retry", "drain", "drained"}, job: Jobs \union {NoOne}]
IdleOp == [at |-> "idle", job |-> NoOne]

TableTypeOK ==
    /\ now \in Nat
    /\ job \in [Jobs -> Row]
    /\ paused \in BOOLEAN
    /\ limit \in [Scopes -> Nat]
    /\ audit \in Seq(AuditEvent)
    /\ op \in [Operators -> OpCall]

AbsentRow == [status |-> "absent", owner |-> NoOne, expires |-> 0,
              nextRun |-> 0, attempts |-> 0, approval |-> NoOne,
              approvalExpires |-> 0]

TableInit ==
    /\ now = 1
    /\ job = [j \in Jobs |-> AbsentRow]
    /\ paused = FALSE
    /\ limit = InitialLimit
    /\ audit = <<>>
    /\ op = [o \in Operators |-> IdleOp]

-----------------------------------------------------------------------------
(* What one statement does to a row. *)

NewRow(d) == [AbsentRow EXCEPT !.status = "pending",
                               !.nextRun = IF d = 0 THEN 0 ELSE now + d]

Unleased(r, s) == [r EXCEPT !.status = s, !.owner = NoOne, !.expires = 0]

LeasedRow(r, id, t) ==
    [r EXCEPT !.status = "leased", !.owner = id, !.expires = t + TTL]

\* Mutation of CompletedRow: a status that QueueJobStatus does not know.
CompletedRowMutant(r) ==
    [Unleased(r, "completed") EXCEPT !.attempts = r.attempts + 1, !.nextRun = 0]

CompletedRow(r) ==
    [Unleased(r, "succeeded") EXCEPT !.attempts = r.attempts + 1, !.nextRun = 0]

\* Mutation of FailedRow: the old count is compared with max_retries.
FailedRowMutant(r, j, a) ==
    IF a <= MaxRetries[j]
    THEN [Unleased(r, "retry_wait") EXCEPT
             !.attempts = a + 1, !.nextRun = now + BaseDelay * (a + 1)]
    ELSE [Unleased(r, "dead_lettered") EXCEPT
             !.attempts = a + 1, !.nextRun = 0]

\* fail_leased: a is the attempt count it read before the update.
FailedRow(r, j, a) ==
    IF a + 1 <= MaxRetries[j]
    THEN [Unleased(r, "retry_wait") EXCEPT
             !.attempts = a + 1, !.nextRun = now + BaseDelay * (a + 1)]
    ELSE [Unleased(r, "dead_lettered") EXCEPT
             !.attempts = a + 1, !.nextRun = 0]

ApprovalWaitRow(r, a) ==
    [Unleased(r, "approval_wait") EXCEPT
        !.approval = a, !.approvalExpires = now + ApprovalTTL, !.nextRun = 0]

DecidedRow(r, d) ==
    CASE d = "approve" -> [Unleased(r, "pending") EXCEPT !.nextRun = now]
      [] d = "deny"    -> [Unleased(r, "approval_denied") EXCEPT !.nextRun = 0]
      [] d = "expire"  -> [Unleased(r, "approval_expired") EXCEPT !.nextRun = 0]

\* Mutation of RetriedRow: a retry starts the budget over.
RetriedRowMutant(r) == [Unleased(r, "pending") EXCEPT !.nextRun = now, !.attempts = 0]
RetriedRow(r) == [Unleased(r, "pending") EXCEPT !.nextRun = now]

-----------------------------------------------------------------------------
(* The reads and guards of the queue's statements. *)

\* Mutation of EligibleToLease: expired leases are never listed.
EligibleToLeaseMutant(r, t) ==
    r.status \in {"pending", "retry_wait"} /\ r.nextRun <= t

\* eligible_to_lease, on the row list() returned, at the caller's clock t.
EligibleToLease(r, t) ==
    \/ r.status \in {"pending", "retry_wait"} /\ r.nextRun <= t
    \/ r.status = "leased" /\ r.expires <= t

\* Mutations of LeaseGuard: no look at the expiry; no look at the status.
LeaseGuardNoExpiry(r, t) == r.status \in {"pending", "retry_wait", "leased"}
LeaseGuardNoStatus(r, t) == r.status # "leased" \/ r.expires <= t

\* The WHERE clause of the lease UPDATE: it looks at the status and the
\* lease's expiry, and at neither next_run_ms nor the pause flag.
LeaseGuard(r, t) ==
    \/ r.status \in {"pending", "retry_wait"}
    \/ r.status = "leased" /\ r.expires <= t

\* Mutations of LeasedBy: the owner, or the status, is not compared.
LeasedByAnyone(r, id) == r.status = "leased"
LeasedByOnce(r, id) == r.owner = id

\* The WHERE clause of complete_leased, fail_leased and enter_approval_wait.
LeasedBy(r, id) == r.status = "leased" /\ r.owner = id

ActiveLeases(scope, t) ==
    {j \in Jobs : /\ job[j].status = "leased" /\ job[j].expires > t
                  /\ scope \in {Global, TaskOf[j]}}

\* Mutation of ConcurrencyAllows: one lease too many.
ConcurrencyAllowsMutant(j, t) ==
    \A scope \in {Global, TaskOf[j]} :
        \/ limit[scope] = 0
        \/ Cardinality(ActiveLeases(scope, t)) <= limit[scope]

ConcurrencyAllows(j, t) ==
    \A scope \in {Global, TaskOf[j]} :
        \/ limit[scope] = 0
        \/ Cardinality(ActiveLeases(scope, t)) < limit[scope]

\* The statement of insert_job_audit_event: the id is max(id) + 1.
Audited(j, d, a) == Append(audit, [job |-> j, kind |-> d, approval |-> a])

SetRow(j, r) == job' = [job EXCEPT ![j] = r]

-----------------------------------------------------------------------------
(* Clients other than the workers. *)

Tick ==
    /\ now < MaxTime
    /\ now' = now + 1
    /\ UNCHANGED <<job, paused, limit, audit, op>>

\* enqueue_typed_at: the next id, a pending row.
Enqueue(j, d) ==
    /\ job[j].status = "absent"
    /\ \A i \in Jobs : i < j => job[i].status # "absent"
    /\ SetRow(j, NewRow(d))
    /\ UNCHANGED <<now, paused, limit, audit, op>>

\* decide_approval_wait_at: one transaction.  Only an expiry looks at the
\* deadline.
DecideApproval(j, a, d) ==
    /\ Len(audit) < MaxAudit
    /\ job[j].status = "approval_wait"
    /\ job[j].approval = a
    /\ d = "expire" => job[j].approvalExpires <= now
    /\ SetRow(j, DecidedRow(job[j], d))
    /\ audit' = Audited(j, d, a)
    /\ UNCHANGED <<now, paused, limit, op>>

SetPaused(o, p) ==
    /\ "pause" \in Commands
    /\ op[o].at \in {"idle", "drained"}
    /\ paused' = p
    /\ op' = [op EXCEPT ![o] = IdleOp]
    /\ UNCHANGED <<now, job, limit, audit>>

\* drain_active_leases: set_paused(true) ...
DrainPause(o) ==
    /\ "drain" \in Commands
    /\ op[o].at \in {"idle", "drained"}
    /\ paused' = TRUE
    /\ op' = [op EXCEPT ![o] = [at |-> "drain", job |-> NoOne]]
    /\ UNCHANGED <<now, job, limit, audit>>

\* ... and then, under another lock, every leased row back to pending.
DrainRelease(o) ==
    /\ op[o].at = "drain"
    /\ job' = [j \in Jobs |-> IF job[j].status = "leased"
                              THEN Unleased(job[j], "pending") ELSE job[j]]
    /\ op' = [op EXCEPT ![o] = [at |-> "drained", job |-> NoOne]]
    /\ UNCHANGED <<now, paused, limit, audit>>

\* retry_job: the status is read and checked ...
RetryRead(o, j) ==
    /\ "retry" \in Commands
    /\ op[o].at \in {"idle", "drained"}
    /\ job[j].status \notin {"absent", "pending", "leased"}
    /\ op' = [op EXCEPT ![o] = [at |-> "retry", job |-> j]]
    /\ UNCHANGED <<now, job, paused, limit, audit>>

\* ... and the update is keyed by the id alone.
RetryWrite(o) ==
    /\ op[o].at = "retry"
    /\ SetRow(op[o].job, RetriedRow(job[op[o].job]))
    /\ op' = [op EXCEPT ![o] = IdleOp]
    /\ UNCHANGED <<now, paused, limit, audit>>

\* cancel: any status, and the lease columns stay.
Cancel(o, j) ==
    /\ "cancel" \in Commands
    /\ op[o].at \in {"idle", "drained"}
    /\ job[j].status # "absent"
    /\ SetRow(j, [job[j] EXCEPT !.status = "canceled"])
    /\ op' = [op EXCEPT ![o] = IdleOp]
    /\ UNCHANGED <<now, paused, limit, audit>>

SetConcurrencyLimit(o, scope, n) ==
    /\ "limit" \in Commands
    /\ op[o].at \in {"idle", "drained"}
    /\ limit' = [limit EXCEPT ![scope] = n]
    /\ op' = [op EXCEPT ![o] = IdleOp]
    /\ UNCHANGED <<now, job, paused, audit>>

OperatorNext(o) ==
    \/ \E p \in BOOLEAN : SetPaused(o, p)
    \/ DrainPause(o) \/ DrainRelease(o)
    \/ \E j \in Jobs : RetryRead(o, j) \/ Cancel(o, j)
    \/ RetryWrite(o)
    \/ \E scope \in Scopes, n \in Limits : SetConcurrencyLimit(o, scope, n)

TableNext ==
    \/ Tick
    \/ \E j \in Jobs, d \in Delays : Enqueue(j, d)
    \/ \E j \in Jobs, a \in ApprovalIds, d \in Decisions : DecideApproval(j, a, d)
    \/ \E o \in Operators : OperatorNext(o)
=============================================================================
